------------------------------- MODULE ToolChain -------------------------------
(***************************************************************************)
(* One agent's dispatch chain (defaultToolChain in agent.go) and the       *)
(* layers that keep state: the permission gate and its per-run grants, the *)
(* retry loop, the circuit breaker shared by every run of the agent, and   *)
(* the per-run counters of repeated failures.  From the outside in:        *)
(*                                                                         *)
(*   observer, budget | gate | repeats | breaker | retry | timeout, body   *)
(*                                                                         *)
(* Workers are the goroutines that dispatch: each takes one call at a time *)
(* for one run; a run dispatches several at once (WithToolParallelism) and *)
(* several runs share the agent.  A call is a tool with its arguments.     *)
(* A result is "ok", "badCall" (the tool answered: a bad       *)
(* call), one of the tool's own failures, or a refusal of a layer.         *)
(***************************************************************************)
EXTENDS Naturals, FiniteSets, Policy

CONSTANTS
  Workers, Runs,
  Calls, ToolOf, Tools,     \* ToolOf[c]: the tool a call names
  Requests,                 \* what a policy may be asked about
  RequestOf,                \* RequestOf[c]: what the policy looks at
  Malformed,                \* the calls whose arguments are no JSON object
  Idempotent, Retryable,    \* tools that may be replayed, and after what
  Faults,                   \* the tool's own failures, by their message
  Policies, HasApprover,    \* the policies an agent may be built with
  MaxAttempts,              \* DefaultToolRetryAttempts
  Threshold,                \* DefaultBreakerThreshold
  Repeats,                  \* DefaultDedupThreshold
  MaxKeys,                  \* maxDedupKeys
  MaxCalls                  \* bound: the logical calls of a behaviour

ASSUME ToolChainAssumption ==
  /\ ToolOf \in [Calls -> Tools]
  /\ Malformed \subseteq Calls /\ Idempotent \subseteq Tools
  /\ Retryable \in [Tools -> SUBSET (Faults \cup {"timeout"})]
  /\ Policies \subseteq {"off", "readonly", "workspace", "ask"}
  /\ HasApprover \in BOOLEAN
  /\ {MaxAttempts, Threshold, Repeats, MaxKeys, MaxCalls} \subseteq Nat \ {0}

ASSUME RequestsAssumption ==
  /\ RequestOf \in [Calls -> Requests]
  /\ \A q \in Requests : q.paths \subseteq {"inside", "outside"} /\ q.command \in Seq(STRING)

VARIABLES
  policy,    \* the policy of this agent, fixed when it is built
  dead,      \* the runs whose context is cancelled
  grants,    \* grants[r]: the calls a person approved in r
  breaker,   \* breaker[t]: consecutive failures, and whether openUntil is ahead
  counts,    \* counts[r]: call -> message -> times, over the calls it holds
  pc, run, call, attempt, result,   \* of each worker
  noted,     \* noted[w]: the result carries the [repeat] note
  begun,     \* the logical calls dispatched so far, up to MaxCalls
  \* What happened, for the properties only:
  ran,       \* ran[w]: times the body of w's call was entered
  approved,  \* approved[r]: the calls a person said yes to
  finished,  \* finished[r]: the calls that got past the gate and returned
  evidence,  \* evidence[t]: calls t itself failed since one succeeded
  failed     \* failed[r][c][m]: times c failed with m since c succeeded in r

state == <<policy, dead, grants, breaker, counts, pc, run, call, attempt, result, noted, begun>>
history == <<ran, approved, finished, evidence, failed>>
vars == <<state, history>>

Own == Faults \cup {"timeout"}       \* failures that say the tool is unwell
Messages == Own \cup {"badCall"}     \* failures whose text repeats
Refusals == {"denied", "abandoned", "cause", "circuitOpen"}
Results == {"none", "ok"} \cup Messages \cup Refusals

\* What a tool says of itself is none of the words the layers use.
ASSUME FaultsAssumption == Faults \cap ({"none", "ok", "timeout", "badCall"} \cup Refusals) = {}

Phases == {"idle", "gate", "asking", "remember", "look", "body", "sleep",
           "tally", "repeats", "done"}

TypeOK ==
  /\ policy \in Policies
  /\ dead \subseteq Runs
  /\ grants \in [Runs -> SUBSET Calls]
  /\ breaker \in [Tools -> [failures : 0..Threshold, open : BOOLEAN]]
  /\ \A r \in Runs : /\ DOMAIN counts[r] \subseteq Calls
                     /\ \A c \in DOMAIN counts[r] : counts[r][c] \in [Messages -> Nat]
  /\ pc \in [Workers -> Phases] 
  /\ run \in [Workers -> Runs \cup {"none"}] /\ call \in [Workers -> Calls \cup {"none"}]
  /\ attempt \in [Workers -> 0..MaxAttempts] /\ result \in [Workers -> Results]
  /\ noted \in [Workers -> BOOLEAN] /\ begun \in 0..MaxCalls

Init ==
  /\ policy \in Policies
  /\ dead = {}
  /\ grants = [r \in Runs |-> {}]
  /\ breaker = [t \in Tools |-> [failures |-> 0, open |-> FALSE]]
  /\ counts = [r \in Runs |-> <<>>]
  /\ pc = [w \in Workers |-> "idle"]
  /\ run = [w \in Workers |-> "none"] /\ call = [w \in Workers |-> "none"]
  /\ attempt = [w \in Workers |-> 0] /\ result = [w \in Workers |-> "none"]
  /\ noted = [w \in Workers |-> FALSE] /\ begun = 0
  /\ ran = [w \in Workers |-> 0]
  /\ approved = [r \in Runs |-> {}] /\ finished = [r \in Runs |-> {}]
  /\ evidence = [t \in Tools |-> 0]
  /\ failed = [r \in Runs |-> [c \in Calls |-> [m \in Messages |-> 0]]]

Tool(w) == ToolOf[call[w]]
Dead(w) == run[w] \in dead

At(w, phase) == pc[w] = phase
Goto(w, phase) == pc' = [pc EXCEPT ![w] = phase]
Returns(w, r) == result' = [result EXCEPT ![w] = r]

-------------------------------------------------------------------------------
(***************************************************************************)
(* The outside: dispatch, the run's budget, the observer's bracket.        *)
(***************************************************************************)
Dispatch(w) ==
  /\ At(w, "idle") /\ begun < MaxCalls
  /\ begun' = begun + 1
  /\ \E r \in Runs, c \in Calls :
       /\ run' = [run EXCEPT ![w] = r]
       /\ call' = [call EXCEPT ![w] = c]
       /\ IF r \in dead THEN Goto(w, "done") /\ Returns(w, "cause")
                        ELSE Goto(w, "gate") /\ UNCHANGED result
  /\ UNCHANGED <<policy, dead, grants, breaker, counts, attempt, noted, history>>

Finish(w) ==
  /\ At(w, "done")
  /\ Goto(w, "idle") /\ Returns(w, "none")
  /\ run' = [run EXCEPT ![w] = "none"] /\ call' = [call EXCEPT ![w] = "none"]
  /\ attempt' = [attempt EXCEPT ![w] = 0] /\ ran' = [ran EXCEPT ![w] = 0]
  /\ noted' = [noted EXCEPT ![w] = FALSE]
  /\ finished' = [finished EXCEPT ![run[w]] =
       IF result[w] \in {"denied", "abandoned", "cause"} THEN @ ELSE @ \cup {call[w]}]
  /\ UNCHANGED <<policy, dead, grants, breaker, counts, begun, approved, evidence, failed>>

\* A governor limit, a wall-clock cap, a client that went away.
Cancel(r) ==
  /\ r \notin dead
  /\ dead' = dead \cup {r}
  /\ UNCHANGED <<policy, grants, breaker, counts, pc, run, call, attempt, result, noted, begun, history>>

-------------------------------------------------------------------------------
(***************************************************************************)
(* The gate.  It is outside every layer below: a refusal reaches none.     *)
(***************************************************************************)
Moved == <<policy, dead, grants, breaker, counts, run, call, attempt, noted, begun, history>>

\* Mutant: one memory of grants for every run of the agent.
FaultyGrantedPooled(w) == \E r \in Runs : call[w] \in grants[r]

Granted(w) == call[w] \in grants[run[w]]

Gate(w) ==
  /\ At(w, "gate")
  /\ LET verdict == Verdict(policy, RequestOf[call[w]])
         asks == verdict = "ask" /\ ~Granted(w)
     IN \/ /\ verdict = "allow" \/ (verdict = "ask" /\ Granted(w))
           /\ Goto(w, "look") /\ UNCHANGED result
        \/ /\ verdict = "deny" \/ (asks /\ ~HasApprover)
           /\ Goto(w, "done") /\ Returns(w, "denied")
        \/ asks /\ HasApprover /\ Goto(w, "asking") /\ UNCHANGED result
  /\ UNCHANGED Moved

SaysNo(w) ==
  /\ At(w, "asking")
  /\ Goto(w, "done") /\ Returns(w, "denied")
  /\ UNCHANGED Moved

SaysYes(w) ==
  /\ At(w, "asking")
  /\ Goto(w, "remember")
  /\ approved' = [approved EXCEPT ![run[w]] = @ \cup {call[w]}]
  /\ UNCHANGED <<policy, dead, grants, breaker, counts, run, call, attempt, result, noted, begun,
                 ran, finished, evidence, failed>>

\* Approve returns once the context is done; the gate calls that abandoned.
AbandonsWait(w) ==
  /\ At(w, "asking") /\ Dead(w)
  /\ Goto(w, "done") /\ Returns(w, "abandoned")
  /\ UNCHANGED Moved

\* Mutant: the yes is used and not remembered.
FaultyRememberForgets(w) ==
  /\ At(w, "remember")
  /\ Goto(w, "look")
  /\ UNCHANGED <<policy, dead, grants, breaker, counts, run, call, attempt, result, noted,
                 begun, history>>

Remember(w) ==
  /\ At(w, "remember")
  /\ grants' = [grants EXCEPT ![run[w]] = @ \cup {call[w]}]
  /\ Goto(w, "look")
  /\ UNCHANGED <<policy, dead, breaker, counts, run, call, attempt, result, noted, begun, history>>

-------------------------------------------------------------------------------
(***************************************************************************)
(* The breaker's look, the attempts, and the breaker's tally.              *)
(***************************************************************************)
Enters(w) ==
  /\ Goto(w, "body")
  /\ attempt' = [attempt EXCEPT ![w] = @ + 1]
  /\ ran' = [ran EXCEPT ![w] = @ + (IF call[w] \in Malformed THEN 0 ELSE 1)]

Look(w) ==
  /\ At(w, "look")
  /\ IF breaker[Tool(w)].open
     THEN Goto(w, "repeats") /\ Returns(w, "circuitOpen") /\ UNCHANGED <<attempt, ran>>
     ELSE Enters(w) /\ UNCHANGED result
  /\ UNCHANGED <<policy, dead, grants, breaker, counts, run, call, noted, begun,
                 approved, finished, evidence, failed>>

\* WithTimeout reports whatever failed under a dead context as its cause.
UnderTimeout(w, r) == IF r # "ok" /\ Dead(w) THEN "cause" ELSE r

MayRetry(w, r) ==
  /\ Tool(w) \in Idempotent /\ r \in Retryable[Tool(w)]
  /\ attempt[w] < MaxAttempts

AttemptEnds(w, r) ==
  /\ At(w, "body")
  /\ Returns(w, r)
  /\ Goto(w, IF MayRetry(w, r) THEN "sleep" ELSE "tally")
  /\ UNCHANGED Moved

\* WithValidation answers for the tool; a panic is a fault like any other.
BodyReturns(w) ==
  \E r \in IF call[w] \in Malformed THEN {"badCall"} ELSE {"ok", "badCall"} \cup Faults :
    AttemptEnds(w, UnderTimeout(w, r))

TimesOut(w) ==
  /\ call[w] \notin Malformed
  /\ AttemptEnds(w, UnderTimeout(w, "timeout"))

\* The timer, even when the context is done as well: select picks either.
Wakes(w) ==
  /\ At(w, "sleep")
  /\ Enters(w)
  /\ UNCHANGED <<policy, dead, grants, breaker, counts, run, call, result, noted, begun,
                 approved, finished, evidence, failed>>

SleepCut(w) ==
  /\ At(w, "sleep") /\ Dead(w)
  /\ Goto(w, "tally") /\ Returns(w, "cause")
  /\ UNCHANGED Moved

\* Mutant: a cancelled run's failures count.
FaultyNoEvidenceHarsh(w) == result[w] = "badCall"

\* Neither counted nor forgiven: the caller's own faults, a torn down run's.
NoEvidence(w) == result[w] # "ok" /\ (Dead(w) \/ result[w] = "badCall")

Counted(b) ==
  IF b.failures + 1 >= Threshold
  THEN [failures |-> 0, open |-> TRUE]
  ELSE [b EXCEPT !.failures = @ + 1]

Tally(w) ==
  /\ At(w, "tally")
  /\ Goto(w, "repeats")
  /\ breaker' = [breaker EXCEPT ![Tool(w)] =
       CASE NoEvidence(w) -> @
         [] result[w] = "ok" -> [failures |-> 0, open |-> FALSE]
         [] OTHER -> Counted(@)]
  /\ evidence' = [evidence EXCEPT ![Tool(w)] =
       CASE result[w] = "ok" -> 0
         [] result[w] \in Own /\ @ < 2 * Threshold -> @ + 1
         [] OTHER -> @]
  /\ UNCHANGED <<policy, dead, grants, counts, run, call, attempt, result, noted, begun,
                 ran, approved, finished, failed>>

\* The clock passes openUntil.
CooldownEnds(t) ==
  /\ breaker[t].open
  /\ breaker' = [breaker EXCEPT ![t].open = FALSE]
  /\ UNCHANGED <<policy, dead, grants, counts, pc, run, call, attempt, result, noted, begun, history>>

-------------------------------------------------------------------------------
(***************************************************************************)
(* Repeated failures.                                                      *)
(***************************************************************************)
Never == [m \in Messages |-> 0]

\* CallStats.fail, on the run's counters s.  A refusal of the breaker names the
\* time left in its text, so it never repeats one it has counted.
Fail(s, c, m) ==
  LET kept == IF Cardinality(DOMAIN s) >= MaxKeys THEN <<>> ELSE s
      old == IF c \in DOMAIN kept THEN kept[c] ELSE Never
      new == [n \in Messages |-> IF n = m THEN old[n] + 1 ELSE old[n]]
  IN [d \in DOMAIN kept \cup {c} |-> IF d = c THEN new ELSE kept[d]]

\* Mutant: a success leaves the counters alone.
FaultySucceedIdle(s, c) == s

\* CallStats.succeed
Succeed(s, c) == [d \in DOMAIN s \ {c} |-> s[d]]

CountRepeats(w) ==
  LET r == run[w]
      c == call[w]
      m == result[w]
      skip == m # "ok" /\ Dead(w)
  IN /\ At(w, "repeats")
     /\ Goto(w, "done")
     /\ counts' = CASE skip -> counts
                    [] m = "ok" -> [counts EXCEPT ![r] = Succeed(@, c)]
                    [] OTHER -> [counts EXCEPT ![r] = Fail(@, c, m)]
     /\ noted' = [noted EXCEPT ![w] =
          /\ ~skip /\ m \in Messages
          /\ counts'[r][c][m] >= Repeats]
     /\ failed' = [failed EXCEPT ![r][c] =
          CASE m = "ok" -> Never
            [] m \in Messages -> [n \in Messages |-> IF n = m THEN @[n] + 1 ELSE @[n]]
            [] OTHER -> @]
     /\ UNCHANGED <<policy, dead, grants, breaker, run, call, attempt, result, begun,
                    ran, approved, finished, evidence>>

-------------------------------------------------------------------------------
CallStep(w) ==
  \/ Dispatch(w) \/ Finish(w)
  \/ Gate(w) \/ SaysYes(w) \/ SaysNo(w) \/ AbandonsWait(w) \/ Remember(w)
  \/ Look(w) \/ BodyReturns(w) \/ TimesOut(w) \/ Wakes(w) \/ SleepCut(w) \/ Tally(w)
  \/ CountRepeats(w)

Next ==
  \/ \E w \in Workers : CallStep(w)
  \/ \E r \in Runs : Cancel(r)
  \/ \E t \in Tools : CooldownEnds(t)

Spec == Init /\ [][Next]_vars

-------------------------------------------------------------------------------
(***************************************************************************)
(* Properties.                                                             *)
(***************************************************************************)
InBody(w) == pc[w] \in {"look", "body", "sleep", "tally"}

\* A call gets past the gate only if it is harmless by the policy's own words
\* or a person approved these very arguments in this very run; and past it, a
\* tool whose effects may not be repeated is entered at most once per call, any
\* tool at most MaxAttempts times, a refused call not at all.
GateHolds ==
  \A w \in {v \in Workers : pc[v] # "idle"} :
    /\ InBody(w) => Harmless(policy, RequestOf[call[w]]) \/ call[w] \in approved[run[w]]
    /\ ran[w] <= (IF Tool(w) \in Idempotent THEN MaxAttempts ELSE 1)
    /\ result[w] \in {"denied", "abandoned", "circuitOpen"} => ran[w] = 0

\* What a policy lets through unasked is harmless by its documentation, whatever
\* the order of its rules makes of a request: no command smuggles a second one
\* past the allow list.  (A fact about the rules alone, looked at before anything
\* happens, when the agent is built.)
PoliciesAreConservative ==
  begun = 0 /\ dead = {} =>
    \A q \in Requests : Verdict(policy, q) = "allow" => Harmless(policy, q)

\* A question is repeated only by calls that overlap the one being approved:
\* once an approved call has returned, its run is never asked about it again.
NoSecondQuestion ==
  [][\A w \in Workers :
       pc[w] # "asking" /\ pc'[w] = "asking" => call[w] \notin finished[run[w]]]_vars

\* The breaker's count never exceeds the calls that failed through the tool's
\* own fault since one succeeded, and it opens on a full threshold of them:
\* bad calls, torn down runs and single attempts are no evidence.
TripNeedsEvidence ==
  \A t \in Tools :
    /\ breaker[t].failures <= evidence[t]
    /\ breaker[t].open => evidence[t] >= Threshold

\* The model is told it repeats itself only when this call failed that often
\* with this message in this run since it last worked.
NoteIsDeserved ==
  [][\A w \in Workers :
       ~noted[w] /\ noted'[w] => failed'[run[w]][call[w]][result[w]] >= Repeats]_vars
===============================================================================
