------------------------------ MODULE Telemetry ------------------------------
(***************************************************************************)
(* What a run tells of itself: a tree of spans written to a trace file and *)
(* counts in a registry, recorded by the middleware around each call while *)
(* parallel tool calls, and the sub-agents some of them start, run.        *)
(*                                                                         *)
(* A frame is a call that opens a span: a run, an iteration, a model call, *)
(* a tool call, a delegation.  Each is carried out as its caller's defers  *)
(* have it when the call returns, fails or panics.  What a call does is    *)
(* left to it; attributes other than the error, durations but for two      *)
(* values, costs and the rendered report are left out.                     *)
(***************************************************************************)
EXTENDS Registry

CONSTANTS
  Frames,     \* the calls there may be
  Caller,     \* of each, the frame it is made in; "host" for the root's run
  Role,       \* of each: "run", "iteration", "llm", "tool" or "delegate"
  Turn,       \* of an iteration: its number in its run
  Tool,       \* of a tool call: the name of the tool
  Class,      \* WithErrorClass: an outcome to a word, which may be ""
  Durations,  \* what a call may take
  Agents,     \* bound: how many times metric.New is given this registry
  Crashes     \* bound: the process may be killed this often

ASSUME TelemetryAssumption ==
  /\ Writers = Frames \cup {"host"}
  /\ Caller \in [Frames -> Writers] /\ Durations \subseteq Int /\ Agents \in Nat \ {0}
  /\ Role \in [Frames -> {"run", "iteration", "llm", "tool", "delegate"}]

(* Calls are made in a tree: a root's run, which the host makes, and each  *)
(* other call in one that is not made in it, directly or by others.        *)
ASSUME TreeAssumption ==
  /\ {"host", "torn"} \cap Frames = {}
  /\ \E r \in Frames : \A f \in Frames : Caller[f] = "host" <=> f = r
  /\ \A S \in SUBSET Frames : S # {} => \E f \in S : Caller[f] \notin S

(* New registers counters, histograms and a gauge. *)
ASSUME HandlesAssumption ==
  \A i \in Instruments :
    /\ i \in {"llmCalls", "llmTokens", "llmCost", "llmUnpriced", "toolCalls", "runs"} =>
         Kind[i] = "counter"
    /\ i \in {"llmDur", "toolDur", "runDur"} => Kind[i] = "histogram"
    /\ i = "runsActive" => Kind[i] = "gauge"

VARIABLES
  st,     \* by frame: "new", "open", "closing", "out", or "blown"
          \* when a panic left it past the lines that would have closed it
  res,    \* how its work went: "ok", "answer", "error", "panic"
  host,   \* "starts", "waits", "closed", or "killed"
  built,  \* calls of metric.New
  file    \* the trace: the spans written, in order, and "torn"

frames == <<st, res>>
telemetryVars == <<registry, reading, frames, host, built, file>>

Unstarted  == [f \in Frames |-> "new"]
Unfinished == [f \in Frames |-> "ok"]

Callees(f) == {g \in Frames : Caller[g] = f}
Of(f, role) == {g \in Callees(f) : Role[g] = role}
Counted(o) == o.name \in view.tracked /\ ~Dropped(o)
Tracked(ops) == FlattenSeq([n \in DOMAIN ops |-> IF Counted(ops[n]) THEN <<ops[n]>> ELSE <<>>])

-----------------------------------------------------------------------------
(***************************************************************************)
(* The middlewares' entries in the registry.                               *)
(***************************************************************************)
Plain(error) == IF error = "ok" THEN "ok" ELSE "error"

(* newConfig: a classifier that has no word for an error gets the default. *)
Word(error) == IF Class[error] = "" THEN Plain(error) ELSE Class[error]

(* LLMMiddleware.  A failed call has no usage, and so no cost.             *)
LLMOps(f, r, d) ==
  LET model == <<"model", "m">>
      who   == <<model, <<"purpose", "other">> >>
      word  == Word(IF r = "error" THEN r ELSE "ok") IN
  <<Op("llmCalls", Append(who, <<"outcome", word>>), 1), Observe("llmDur", who, d)>> \o
  (IF r = "error" THEN <<>>
   ELSE <<Op("llmTokens", <<model, <<"kind", "input">> >>, 1),
          Op("llmTokens", <<model, <<"kind", "output">> >>, 1),
          Op("llmTokens", <<model, <<"kind", "cache_read">> >>, 0),
          Op("llmTokens", <<model, <<"kind", "cache_write">> >>, 0),
          Op("llmCost", <<model>>, 0), Op("llmUnpriced", <<model>>, 1)>>)

(* ToolMiddleware. *)
ToolOps(f, r, d) ==
  <<Observe("toolDur", << <<"tool", Tool[f]>> >>, d),
    Op("toolCalls", << <<"tool", Tool[f]>>, <<"outcome", Word(r)>> >>, 1)>>

RunStarted == <<Op("runsActive", <<>>, 1)>>

RunFinished(outcome, d) ==
  <<Op("runsActive", <<>>, -1), Op("runs", << <<"outcome", outcome>> >>, 1),
    Observe("runDur", << <<"outcome", outcome>> >>, d)>>

(* outcomeLabel.  The deferred call runs before recover's, which gives a   *)
(* panic its error: the label of such a run says there was no outcome.     *)
OutcomeLabel(r) ==
  CASE r = "panic" -> "none" [] r = "answer" -> "answered" [] OTHER -> "failed"

RunOps(r, d) == RunFinished(OutcomeLabel(r), d)

ClosingOps(f, r, d) ==
  CASE Role[f] = "llm"  -> LLMOps(f, r, d)
    [] Role[f] = "tool" -> ToolOps(f, r, d)
    [] Role[f] = "run"  -> RunOps(r, d)
    [] OTHER            -> <<>>

-----------------------------------------------------------------------------
(***************************************************************************)
(* The calls.                                                              *)
(***************************************************************************)
\* Mutant: a run's stream ends before its span does.
FaultyOver(f) == st[f] \in {"out", "blown"} \/ (Role[f] = "run" /\ st[f] = "closing" /\ Idle(f))

(* A caller goes on: the call has returned, or has told the stream's       *)
(* reader that it is over, or its panic has come up.                       *)
Over(f) == st[f] \in {"out", "blown"}

Alive == host \in {"starts", "waits"}

(* Whose turn it is to be called: an iteration after the one before has    *)
(* asked for tools, tools once the model has, all of them side by side.    *)
MayStart(f) ==
  LET p == Caller[f] IN
  /\ st[f] = "new"
  /\ IF p = "host" THEN host = "waits" ELSE st[p] = "open" /\ Idle(p)
  /\ CASE Role[f] = "iteration" ->
            \A g \in Of(p, "iteration") : Turn[g] < Turn[f] => Over(g) /\ res[g] = "ok"
       [] Role[f] = "tool" -> \A g \in Of(p, "llm") : st[g] = "out" /\ res[g] = "ok"
       [] OTHER -> TRUE

(* Tracer.Start; a run's loop begins by counting itself in. *)
Starts(f) ==
  /\ Alive /\ MayStart(f)
  /\ st' = [st EXCEPT ![f] = "open"]
  /\ todo' = [todo EXCEPT ![f] = IF Role[f] = "run" THEN Tracked(RunStarted) ELSE <<>>]
  /\ UNCHANGED <<vecs, step, reading, res, host, built, file>>

(* What a call without calls of its own may come to, and how others follow *)
(* from what they called.  A tool may refuse to delegate; its middleware   *)
(* may panic whatever it did.  An iteration ends as its model call did; a  *)
(* run as the iteration that stopped it, and else with an error: its       *)
(* context is over, or it is at its cap.                                   *)
Started(f) == {g \in Callees(f) : st[g] # "new"}
Ending(f)  == {g \in Started(f) : \A o \in Started(f) : Turn[o] <= Turn[g]}

Results(f) ==
  CASE Role[f] = "llm" -> {"ok", "answer", "error", "panic"}
    [] Role[f] = "tool" -> {"error", "panic"} \cup
         (IF Callees(f) = {} \/ \E g \in Started(f) : res[g] = "ok" THEN {"ok"} ELSE {})
    [] Role[f] = "delegate" -> {IF res[g] = "answer" THEN "ok" ELSE "error" : g \in Callees(f)}
    [] Role[f] = "iteration" -> {res[g] : g \in Of(f, "llm")}
    [] Role[f] = "run" -> LET ends == {res[g] : g \in Ending(f)} \ {"ok"} IN
                          IF ends = {} THEN {"error"} ELSE ends

(* A run need not take another turn, a tool need not delegate; others make *)
(* all their calls.                                                        *)
CalleesOver(f) ==
  \A g \in Callees(f) :
    Over(g) \/ (st[g] = "new" /\ (Role[f] \in {"run", "tool"} \/ ~MayStart(g)))

(* The work is done: what the middleware has to record is next.  A panic   *)
(* below it goes past these lines, in a model call as in a tool call whose *)
(* inner middleware panics; a tool's own panic has been made an error.     *)
Returns(f, r, d) ==
  /\ Alive /\ st[f] = "open" /\ Idle(f) /\ CalleesOver(f) /\ r \in Results(f)
  /\ res' = [res EXCEPT ![f] = r]
  /\ IF r = "panic" /\ Role[f] \in {"llm", "tool"}
       THEN st' = [st EXCEPT ![f] = "blown"] /\ UNCHANGED todo
       ELSE /\ st' = [st EXCEPT ![f] = "closing"]
            /\ todo' = [todo EXCEPT ![f] = Tracked(ClosingOps(f, r, d))]
  /\ UNCHANGED <<vecs, step, reading, host, built, file>>

(* Active.End, and fileSink.Emit, which drops what comes after Close. *)
Ends(f) ==
  /\ host # "killed" /\ st[f] = "closing" /\ Idle(f)
  /\ st' = [st EXCEPT ![f] = "out"]
  /\ file' = IF host = "closed" THEN file ELSE Append(file, f)
  /\ UNCHANGED <<registry, reading, res, host, built>>

Records(f) == Alive /\ Writes(f) /\ UNCHANGED <<reading, frames, host, built, file>>

-----------------------------------------------------------------------------
(***************************************************************************)
(* The host.                                                               *)
(***************************************************************************)
(* metric.New, for an agent or another agent of the process. *)
NewMetrics ==
  /\ Alive /\ built < Agents /\ Idle("host")
  /\ built' = built + 1
  /\ vecs' = Registered
  /\ todo' = [todo EXCEPT !["host"] = Tracked(<<SetTo("runsActive", <<>>, 0)>>)]
  /\ UNCHANGED <<step, reading, frames, host, file>>

HostStarts ==
  /\ host = "starts" /\ built > 0 /\ Idle("host")
  /\ host' = "waits"
  /\ UNCHANGED <<registry, reading, frames, built, file>>

HostRecords == Alive /\ Writes("host") /\ UNCHANGED <<reading, frames, host, built, file>>

(* The trace is closed when the root's run is over. *)
HostCloses ==
  /\ host = "waits" /\ Idle("host") /\ \A f \in Callees("host") : Over(f)
  /\ host' = "closed"
  /\ UNCHANGED <<registry, reading, frames, built, file>>

(* Killed, perhaps in the middle of a line: the file is what is left. *)
Killed ==
  /\ Alive /\ Crashes > 0
  /\ host' = "killed" /\ RegistryLost /\ st' = Unstarted /\ res' = Unfinished
  /\ file' \in {file} \cup {Append(file, "torn") : f \in {g \in Frames : st[g] = "closing" /\ Idle(g)}}
  /\ UNCHANGED built

Scraped == Alive /\ Scrapes /\ UNCHANGED <<registry, frames, host, built, file>>

TelemetryInit ==
  /\ RegistryInit /\ st = Unstarted /\ res = Unfinished
  /\ host = "starts" /\ built = 0 /\ file = <<>>

TelemetryNext ==
  \/ \E f \in Frames :
       \/ Starts(f) \/ Ends(f) \/ Records(f)
       \/ \E r \in {"ok", "answer", "error", "panic"}, d \in Durations : Returns(f, r, d)
  \/ NewMetrics \/ HostStarts \/ HostRecords \/ HostCloses \/ Killed \/ Scraped

TelemetrySpec == TelemetryInit /\ [][TelemetryNext]_telemetryVars

-----------------------------------------------------------------------------
(***************************************************************************)
(* Correctness.                                                            *)
(***************************************************************************)
Total(i) == Cardinality(UNION {{k} \X (1..vecs[i][k]) : k \in DOMAIN vecs[i]})
Observed(i) == Cardinality(UNION {{k} \X (1..vecs[i][k].count) : k \in DOMAIN vecs[i]})
Finished(role) == Cardinality({f \in Frames : Role[f] = role /\ st[f] = "out"})
Known(i) == i \in view.tracked

(* The gauge of runs in flight is back at zero when the last run is over   *)
(* (metric/middleware.go: New may be called again with the same registry,  *)
(* RunStarted is paired with RunFinished).                                 *)
ActiveReturnsToZero ==
  host = "closed" /\ Idle("host") /\ Known("runsActive") =>
    \A k \in DOMAIN vecs["runsActive"] : vecs["runsActive"][k] = 0

(* Past the cap the breakdown is lost and the total is not: when the runs  *)
(* are over, every call that came back through the middleware was counted  *)
(* once, whatever adds, first uses of a label set and scrapes raced, and   *)
(* so was every run, those that panicked too; and no instrument has more   *)
(* series than the cap and the shared one.                                 *)
CountsAreTrue ==
  /\ host = "closed" =>
       /\ Known("llmCalls") => Total("llmCalls") = Finished("llm")
       /\ Known("toolCalls") => Total("toolCalls") = Finished("tool")
       /\ Known("toolDur") => Observed("toolDur") = Finished("tool")
       /\ Known("runs") => Total("runs") = Finished("run")
  /\ Agents = 1 => ActiveReturnsToZero
  /\ \A i \in DOMAIN vecs : Cardinality(DOMAIN vecs[i]) <= MaxSeries + 1

(* A scrape never shows a histogram that no moment had - its count is its  *)
(* last bucket, and its sum one its buckets allow - and no counter that is *)
(* lower than in the scrape before, nor a series gone.                     *)
AddsUp(h) ==
  LET n == Len(Buckets) IN
  /\ h.buckets[n + 1] = h.count
  /\ \A b \in 1..n : h.buckets[b] <= h.buckets[b + 1]
  /\ n > 0 => h.sum >= h.buckets[1] * Min(Durations) + (h.count - h.buckets[n]) * (Buckets[n] + 1)
                       + MapThenSumSet(LAMBDA b : (h.buckets[b] - h.buckets[b - 1]) *
                                                  (Buckets[b - 1] + 1), 2..n)
           /\ h.sum <= (h.count - h.buckets[n]) * Max(Durations)
                       + MapThenSumSet(LAMBDA b : (h.buckets[b] -
                           (IF b = 1 THEN 0 ELSE h.buckets[b - 1])) * Buckets[b], 1..n)

ScrapesAreTrue ==
  \A k \in DOMAIN scrape.out :
    /\ Kind[Watched] = "histogram" => AddsUp(scrape.out[k])
    /\ Kind[Watched] = "counter" /\ k \in DOMAIN last => scrape.out[k] >= last[k]
    /\ scrape.kids = {} => DOMAIN last \subseteq DOMAIN scrape.out

(* ReadFile: a torn last line is dropped, one anywhere else is an error.   *)
Readable == \A n \in DOMAIN file : file[n] = "torn" => n = Len(file)
ReadFile == {file[n] : n \in DOMAIN file} \ {"torn"}

(* The trace that is left reads as a tree: each span once and after the    *)
(* spans under it; and when the host has closed it after the run, no span  *)
(* is missing but those a panic went past - in a sub-agent's run no more   *)
(* than in the root's.                                                     *)
TraceIsWhole ==
  /\ Readable
  /\ \A m, n \in DOMAIN file : m < n /\ file[n] # "torn" =>
       file[m] # file[n] /\ Caller[file[m]] # "host" /\ file[n] \notin Callees(file[m])
  /\ host = "closed" => \A f \in Frames : st[f] \notin {"new", "blown"} => f \in ReadFile
=============================================================================
