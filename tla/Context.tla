------------------------------ MODULE Context ------------------------------
(***************************************************************************)
(* What a model is shown: strategy.go (which part of the transcript is     *)
(* sent), overflow.go (what is sent after the provider found that too      *)
(* long), and the package skill, whose tools are offered while the text    *)
(* they need, a tool result like any other, is among what is sent.  One    *)
(* agent, run again and again on one transcript; a run is cut down to the  *)
(* steps that touch these three.                                           *)
(***************************************************************************)
EXTENDS Convo, FiniteSets

CONSTANTS
  Skills,    \* registered skills, each with one tool gated behind it
  Setups,    \* how agents are configured: strategy, ladder, turn notice
  Batches,   \* replies that call tools: whether text leads, and the tools
  MaxStarts, \* bound: runs on the transcript
  MaxCalls   \* bound: model calls in all

ASSUME CapsAssumption == MaxStarts \in Nat /\ MaxCalls \in Nat

(* A number below zero does, wherever it is given, what zero does.         *)
Steps == [kind : {"window", "drop", "compact", "mute"}, at : Nat, keep : Nat]

ASSUME SetupsAssumption ==
  Setups \subseteq [strategy : Seq(Steps), ladder : Seq(Seq(Steps)), notice : BOOLEAN]

VARIABLES
  setup,     \* the configuration, chosen once
  transcript, \* Run.convo
  tagged,    \* Run.results: the calls of this run that were tagged "skill"
  active,    \* skill.State.active: per skill the call that loaded it, or NoId
  level,     \* overflowState.n
  msgs,      \* the transcript as the strategy materialized it, with the notice
  sent,      \* the messages of the request in flight
  batch,     \* the calls being dispatched
  fate,      \* per call of the batch, how far it is or how it ended
  pc,        \* where the loop is
  ended,     \* how the last run ended
  starts,    \* runs started
  calls,     \* model calls made
  cuts       \* history: for a plain window, the places it was seen to cut

run  == <<pc, ended, starts, calls>>
contextVars == <<setup, transcript, tagged, active, level, msgs, sent, batch, fate, run, cuts>>

-----------------------------------------------------------------------------
(* Strategies.  Each is a sequence of steps, applied left to right; the    *)
(* empty one is Flat.                                                      *)

Window(keep)        == [kind |-> "window", at |-> 0, keep |-> keep]
WindowAt(at, keep)  == [kind |-> "window", at |-> at, keep |-> keep]
DropTagged(at, keep)== [kind |-> "drop", at |-> at, keep |-> keep]
Compacted(at, keep) == [kind |-> "compact", at |-> at, keep |-> keep]
CompactedMute(at, keep) == [kind |-> "mute", at |-> at, keep |-> keep]

From(c, cut) == SubSeq(c, cut + 1, Len(c))

(* A turn that starts something new, and answers no call. *)
Fresh(m) == m.role = "user" /\ ResultIds(m.content) = {}

(* The highest and the lowest of some places, 0 if there is none.          *)
Highest(places) ==
  IF places = {} THEN 0 ELSE CHOOSE i \in places : \A j \in places : j <= i
Lowest(places) ==
  IF places = {} THEN 0 ELSE CHOOSE i \in places : \A j \in places : i <= j

(* Faulty variants, as a slip in the code would make them; no specification *)
(* uses them, each shows that a property below would notice.               *)

FaultySafeCutAnyTurn(c, want) ==
  Highest({i \in 1..(Len(c) - 1) : i <= want /\ c[i + 1].role = "user"})

(* How many messages can go, at most want, without parting a call from its *)
(* result.                                                                 *)
SafeCut(c, want) ==
  Highest({i \in 1..(Len(c) - 1) : i <= want /\ Fresh(c[i + 1])})

FaultyWindowCutUnquantized(w, c) ==
  IF w.keep <= 0 \/ Len(c) <= w.keep \/ Len(c) < w.at \/ (w.at > 0 /\ w.at <= w.keep)
  THEN 0 ELSE SafeCut(c, Len(c) - w.keep)

(* window.Apply: with a trigger, the cut aims at a multiple of delta.      *)
WindowCut(w, c) ==
  LET delta == w.at - w.keep
      spare == Len(c) - w.keep
  IN  CASE w.keep <= 0 \/ spare <= 0 -> 0
        [] w.keep > 0 /\ spare > 0 /\ w.at <= 0 -> SafeCut(c, spare)
        [] w.keep > 0 /\ spare > 0 /\ w.at > 0 ->
             IF Len(c) < w.at \/ delta <= 0 THEN 0
             ELSE SafeCut(c, (spare \div delta) * delta)

(* Empty turns go, neighbours of one role merge, the first is a user's.    *)
Merged(c) ==
  LET upto[i \in 0..Len(c)] == IF i = 0 THEN <<>> ELSE Push(upto[i - 1], c[i])
  IN  upto[Len(c)]

Normalize(c) ==
  LET merged == Merged(c)
      first  == Lowest({i \in DOMAIN merged : merged[i].role = "user"})
  IN  IF first = 0 THEN <<>> ELSE From(merged, first - 1)

(* The blocks that are of no call in ids. *)
Without(blocks, ids) ==
  Only(blocks, {b \in ToSet(blocks) : b.kind = "text" \/ b.id \notin ids})

DropPairs(c, ids) ==
  IF ids = {} THEN c
  ELSE Normalize([i \in DOMAIN c |-> [c[i] EXCEPT !.content = Without(@, ids)]])

(* The tagged calls made before the last keep messages. *)
Victims(d, c, tags) ==
  UseIds(Blocks(SubSeq(c, 1, Len(c) - d.keep))) \cap tags

Prepend(c, m) ==
  IF c # <<>> /\ c[1].role = m.role THEN [c EXCEPT ![1].content = m.content \o @]
                                    ELSE <<m>> \o c

CompactCut(k, c) ==
  IF k.keep <= 0 \/ k.at <= 0 \/ Len(c) < k.at \/ Len(c) <= k.keep
  THEN 0 ELSE SafeCut(c, Len(c) - k.keep)

ApplyStep(s, c, tags) ==
  CASE s.kind = "window" -> From(c, WindowCut(s, c))
    [] s.kind = "drop" -> IF Len(c) < s.at THEN c ELSE DropPairs(c, Victims(s, c, tags))
    [] s.kind \in {"compact", "mute"} ->
         LET cut == CompactCut(s, c)
         IN  IF cut = 0 \/ s.kind = "mute" THEN From(c, cut)
             ELSE Prepend(From(c, cut), User(<<Text>>))

Apply(strategy, c, tags) ==
  LET after[i \in 0..Len(strategy)] ==
        IF i = 0 THEN c ELSE ApplyStep(strategy[i], after[i - 1], tags)
  IN  after[Len(strategy)]

(* The ladder of WithOverflowRecovery; level 0 is the transcript as it is. *)
ApplyLevel(l, c) ==
  IF l \in DOMAIN setup.ladder THEN Apply(setup.ladder[l], c, tagged) ELSE c

(* The next rung that shortens the request, 0 if none does. *)
NextRung(l, current) ==
  Lowest({k \in (l + 1)..Len(setup.ladder) : Len(ApplyLevel(k, msgs)) < Len(current)})

-----------------------------------------------------------------------------
(* Skills. *)

Load(s)   == [op |-> "load", skill |-> s]
Unload(s) == [op |-> "unload", skill |-> s]
Gated(s)  == [op |-> "gated", skill |-> s]
LoadUnknown == [op |-> "misload", skill |-> "none"]   \* a name nobody registered
Plain       == [op |-> "plain", skill |-> "none"]

Tools ==
  {Load(s) : s \in Skills} \cup {Unload(s) : s \in Skills} \cup {Gated(s) : s \in Skills}
    \cup {LoadUnknown, Plain}

ASSUME BatchesAssumption == Batches \subseteq [text : BOOLEAN, tools : Seq(Tools) \ {<<>>}]

NoneActive == [s \in Skills |-> NoId]

(* observationsIn *)
Observations(c) == ResultIds(Blocks(c))

FaultyReconcileNothing(present) == active

(* A skill is retired once the result that carried its text is gone. *)
Reconcile(present) == [s \in Skills |-> IF active[s] \in present THEN active[s] ELSE NoId]

WithNotice(c) ==
  IF setup.notice /\ c # <<>> /\ Last(c).role = "user"
  THEN [c EXCEPT ![Len(c)].content = Append(@, Text)] ELSE c

-----------------------------------------------------------------------------
ContextInit ==
  /\ setup \in Setups
  /\ transcript = <<>> /\ msgs = <<>> /\ sent = <<>> /\ tagged = {}
  /\ active = NoneActive /\ level = 0 /\ batch = <<>> /\ fate = <<>>
  /\ pc = "idle" /\ ended = "none" /\ starts = 0 /\ calls = 0 /\ cuts = {}

RunEnds(how) == pc' = "idle" /\ ended' = how /\ UNCHANGED starts

(* Agent.Start: skills, tags and level are the run's own. *)
Start ==
  /\ pc = "idle" /\ starts < MaxStarts
  /\ transcript' = IF transcript = <<>> THEN Ask ELSE Then(transcript)
  /\ tagged' = {} /\ active' = NoneActive /\ level' = 0
  /\ starts' = starts + 1 /\ pc' = "top" /\ ended' = "none"
  /\ msgs' = <<>> /\ sent' = <<>>
  /\ UNCHANGED <<setup, batch, fate, calls, cuts>>

(* iterate, up to the call: materialize, reconcile, add the notice; the    *)
(* overflow middleware starts at the level the run has reached.            *)
Materialize ==
  /\ pc = "top" /\ calls < MaxCalls
  /\ LET kept == Apply(setup.strategy, transcript, tagged)
     IN  /\ msgs' = WithNotice(kept)
         /\ active' = Reconcile(Observations(kept))
         /\ sent' = ApplyLevel(level, msgs')
         /\ cuts' = IF Len(setup.strategy) = 1 /\ setup.strategy[1].kind = "window"
                    THEN cuts \cup {Len(transcript) - Len(kept)} ELSE cuts
  /\ pc' = "calling" /\ calls' = calls + 1
  /\ UNCHANGED <<setup, transcript, tagged, level, batch, fate, ended, starts>>

IterationsSpent ==
  /\ pc = "top" /\ calls = MaxCalls /\ RunEnds("iterations")
  /\ UNCHANGED <<setup, transcript, tagged, active, level, msgs, sent, batch, fate, calls, cuts>>

(* ErrContextWindow: up the ladder, or, at its end, the provider's error.  *)
Overflows ==
  /\ pc = "calling"
  /\ LET rung == NextRung(level, sent)
     IN  \/ /\ rung # 0 /\ level' = rung /\ sent' = ApplyLevel(rung, msgs)
            /\ UNCHANGED run
         \/ /\ rung = 0 /\ RunEnds("overflow") /\ UNCHANGED <<level, sent, calls>>
  /\ UNCHANGED <<setup, transcript, tagged, active, msgs, batch, fate, cuts>>

(* Any other error, before or after some text was streamed. *)
CallBreaks ==
  /\ pc = "calling" /\ RunEnds("failed")
  /\ \E partial \in {<<>>, <<Text>>} : transcript' = Push(transcript, Assistant(partial))
  /\ UNCHANGED <<setup, tagged, active, level, msgs, sent, batch, fate, calls, cuts>>

Finishes ==
  /\ pc = "calling" /\ RunEnds("answer")
  /\ transcript' = Push(transcript, Assistant(<<Text>>))
  /\ UNCHANGED <<setup, tagged, active, level, msgs, sent, batch, fate, calls, cuts>>

(* A reply that calls the given tools, under ids never used before. *)
Reply(b) ==
  LET fresh == Len(Uses(Blocks(transcript)))
  IN  [i \in DOMAIN b.tools |-> Use(fresh + i, b.tools[i])]

Lead(b) == IF b.text THEN <<Text>> ELSE <<>>

CallsTools ==
  /\ pc = "calling"
  /\ \E b \in Batches :
       /\ transcript' = Push(transcript, Assistant(Lead(b) \o Reply(b)))
       /\ batch' = Reply(b) /\ fate' = [i \in DOMAIN b.tools |-> "todo"]
  /\ pc' = "dispatch"
  /\ UNCHANGED <<setup, tagged, active, level, msgs, sent, ended, starts, calls, cuts>>

(* The run ends on its terminal or pause tool, or a panic: calls stay open. *)
EndsOpen ==
  /\ pc = "calling" /\ RunEnds("open")
  /\ \E b \in Batches : transcript' = Push(transcript, Assistant(Lead(b) \o Reply(b)))
  /\ UNCHANGED <<setup, tagged, active, level, msgs, sent, batch, fate, calls, cuts>>

-----------------------------------------------------------------------------
(* Dispatch.  The calls of a batch run one after the other or, with        *)
(* WithParallelism, at once.                                               *)

Fated(i, how) == fate' = [fate EXCEPT ![i] = how]
Called(i, op) == pc = "dispatch" /\ fate[i] = "todo" /\ batch[i].tool.op = op

rest == <<setup, transcript, tagged, level, msgs, sent, batch, run, cuts>>

(* load_skill looks whether the skill is active ... *)
LoadLooks(i) ==
  /\ Called(i, "load")
  /\ Fated(i, IF active[batch[i].tool.skill] # NoId THEN "stub" ELSE "loading")
  /\ UNCHANGED <<rest, active>>

(* ... and activates it, in a critical section of its own. *)
LoadActivates(i) ==
  /\ pc = "dispatch" /\ fate[i] = "loading"
  /\ Fated(i, "body")
  /\ active' = [active EXCEPT ![batch[i].tool.skill] = batch[i].id]
  /\ UNCHANGED rest

Misload(i) == Called(i, "misload") /\ Fated(i, "error") /\ UNCHANGED <<rest, active>>

UnloadSkill(i) ==
  /\ Called(i, "unload") /\ Fated(i, "done")
  /\ active' = [active EXCEPT ![batch[i].tool.skill] = NoId]
  /\ UNCHANGED rest

(* The middleware refuses a gated tool whose skill is not active, offered  *)
(* or not.                                                                 *)
CallGated(i) ==
  /\ Called(i, "gated")
  /\ Fated(i, IF active[batch[i].tool.skill] # NoId THEN "ran" ELSE "refused")
  /\ UNCHANGED <<rest, active>>

CallPlain(i) == Called(i, "plain") /\ Fated(i, "done") /\ UNCHANGED <<rest, active>>

(* All calls have returned: the results are recorded, in order.  A load is *)
(* tagged whatever came of it.                                             *)
Gather ==
  /\ pc = "dispatch" /\ \A i \in DOMAIN fate : fate[i] \notin {"todo", "loading"}
  /\ transcript' = Push(transcript, User([i \in DOMAIN batch |-> Res(batch[i].id, fate[i])]))
  /\ tagged' = tagged \cup
       {b.id : b \in {u \in ToSet(batch) : u.tool.op \in {"load", "misload"}}}
  /\ pc' = "top" /\ batch' = <<>> /\ fate' = <<>>
  /\ UNCHANGED <<setup, active, level, msgs, sent, ended, starts, calls, cuts>>

CallStep(i) ==
  \/ LoadLooks(i) \/ LoadActivates(i) \/ Misload(i)
  \/ UnloadSkill(i) \/ CallGated(i) \/ CallPlain(i)

ContextNext ==
  \/ Start \/ Materialize \/ IterationsSpent
  \/ Overflows \/ CallBreaks \/ Finishes \/ CallsTools \/ EndsOpen
  \/ \E i \in DOMAIN batch : CallStep(i)
  \/ Gather

ContextSpec == ContextInit /\ [][ContextNext]_contextVars

-----------------------------------------------------------------------------
(* Properties. *)

Fates == {"todo", "loading", "body", "stub", "error", "done", "ran", "refused"}

(* Every variable has its type: the transcript's calls are numbered as     *)
(* they come, only calls of the transcript are tagged or carry a skill.    *)
ContextTypeOK ==
  LET ids == 1..Len(Uses(Blocks(transcript)))
  IN  /\ setup \in Setups
      /\ tagged \subseteq ids /\ active \in [Skills -> ids \cup {NoId}]
      /\ level \in 0..Len(setup.ladder)
      /\ pc \in {"idle", "top", "calling", "dispatch"}
      /\ ended \in {"none", "iterations", "overflow", "failed", "answer", "open"}
      /\ Ids(batch) \in Seq(ids) /\ fate \in [DOMAIN batch -> Fates]
      /\ starts \in 0..MaxStarts /\ calls \in 0..MaxCalls /\ cuts \subseteq Nat

(* strategy.go:71-74, "Every implementation must return a transcript that  *)
(* still passes Convo.Validate": true of every request, whatever strategy  *)
(* made it, on whatever rung, over a transcript cut off and carried on in  *)
(* any way, with calls of one turn of which some are dropped.              *)
RequestsStayValid == pc = "calling" => Validate(sent)

(* strategy.go:141-160 and 163-198: what a window cuts off, it keeps cut   *)
(* at the same place while delta messages come, so a prefix cached by the  *)
(* provider stays good; and keepRecent messages always survive.            *)
WindowHoldsStill ==
  (pc = "calling" /\ Len(setup.strategy) = 1 /\ setup.strategy[1].kind = "window") =>
    LET w == setup.strategy[1]
        moves == Cardinality(cuts \ {0})
    IN  /\ (moves > 0 /\ w.at > w.keep) => moves * (w.at - w.keep) <= Len(transcript) - w.keep
        /\ Len(msgs) >= w.keep \/ msgs = WithNotice(transcript)

(* The text of skill s was in the request as the strategy made it, or      *)
(* comes with the results of this batch.                                   *)
Loads(s)   == {b.id : b \in {u \in OfKind(Blocks(transcript), "use") : u.tool = Load(s)}}
HasText(s) ==
  \/ \E r \in OfKind(Blocks(msgs), "result") : r.how = "body" /\ r.id \in Loads(s)
  \/ \E j \in DOMAIN batch : batch[j].id \in Loads(s) /\ fate[j] = "body"

(* bind.go:106-118: a gated tool is offered, and runs, only while the      *)
(* model has the text it needs: neither eviction by any strategy, nor      *)
(* concurrent loads and unloads of one batch, nor a second load, leaves    *)
(* the model "holding tools whose instructions are gone"; and load_skill    *)
(* (tools.go:100-112) answers with a stub only if the text is there.       *)
KnowsWhatItRuns ==
  /\ pc = "calling" => \A s \in Skills : active[s] # NoId => HasText(s)
  /\ pc = "dispatch" => \A i \in DOMAIN batch :
       fate[i] \in {"ran", "stub"} => HasText(batch[i].tool.skill)

(* overflow.go:71-75: the provider's error ends the run only when the run  *)
(* is "out of ladder, or nothing left on it removes anything".             *)
GivesUpEmptyHanded ==
  ended = "overflow" =>
    \A l \in (level + 1)..Len(setup.ladder) :
      Len(Blocks(ApplyLevel(l, msgs))) >= Len(Blocks(sent))
=============================================================================
