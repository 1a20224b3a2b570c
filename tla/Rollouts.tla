------------------------------ MODULE Rollouts ------------------------------
(***************************************************************************)
(* A rollout: samples of one task, each with a directory, an agent and a   *)
(* budget of its own, run side by side, scored, classified and cleaned up. *)
(*                                                                         *)
(* A sample's run is that of ReActRun seen from outside: turns of a model  *)
(* call and a tool call, in which sub-agents make model calls of their     *)
(* own.  A limit of the sample's budget may trip wherever the code checks  *)
(* it (what is counted is Delegation's matter); the wall clock, the time   *)
(* of a tool call and the caller's context may end at any time; and what   *)
(* the environment, the factory and the verifiers are given to do may fail *)
(* or panic.  Events reach the folder of a sample as long as the contexts  *)
(* they pass live, and may be lost after; an LLMStart so lost is that of a *)
(* request the clients do not send any more.  What the verifiers make of   *)
(* an episode is Grades' matter.  Not modelled: a tally's amount (it is    *)
(* zero or not), the transcript, step records, a progress callback that    *)
(* panics.                                                                 *)
(***************************************************************************)
EXTENDS Grades

CONSTANTS
  Samples,      \* sample numbers
  Concurrency,  \* WithConcurrency
  Models,       \* the models that may answer
  Priced,       \* those in the pricing table
  Foreign,      \* what the errors of the environment, the factory and the
                \* verifiers wrap that classify knows, or "nothing"
  Configs       \* the options it may have, a record each: see "config"

(* Empty in the code: a model's name that is not given, a verdict that is  *)
(* still to come.                                                          *)
NoName    == ""
NoVerdict == ""

GovernorLimits == {"budget", "steps", "toolCalls", "toolLoop", "wall"}

ASSUME RolloutsAssumption ==
  /\ IsFiniteSet(Samples) /\ Samples # {} /\ Concurrency \in Nat \ {0}
  /\ Samples \subseteq Nat /\ Priced \subseteq Models /\ "none" \notin Foreign
  /\ \A c \in Configs :
       /\ {c.keepAll, c.pricing, c.tracked, c.tools} \subseteq BOOLEAN
       /\ c.model \in Models \cup {NoName} /\ c.limits \subseteq GovernorLimits
       /\ c.iters \in [Samples -> Nat] /\ c.threshold \in Int
       /\ \A v \in Range(c.verifiers) : v.kind \in Verifiers /\ v.worth \in Nat

VARIABLES
  config,    \* keepAll, pricing, threshold: WithKeepWorkspaces and so on; limits:
             \* those of WithBudget; verifiers: what the environment scores with;
             \* and the factory's agents: tracked (TrackCost is in the chain),
             \* model (if they ask for one), tools, iters (each one's cap)
  parent,    \* "alive", or why the caller's context ended
  returned,  \* Rollout has returned
  pc,        \* by sample, as are all below
  cause,     \* why the sample's own context ended, "none" while it lives
  iter,      \* turn
  late,      \* the last turn whose tool call ran out of time, 0 if none did
  ran, flight,  \* sub-agents' calls of this tool call: all, and those under way,
             \* each by the model it asks for
  asked, models, tokens, usd,   \* what the folder and the budget keep
  denied,    \* a call was refused
  err, grade, failure, priced,
  world,     \* the directory: "absent", "stale", "fresh"
  cleanups,  \* the calls of Cleanup: what each was told, and if it failed
  \* History, which the code does not keep:
  prepared,  \* the environment was reset
  charged,   \* the models that charged for tokens
  told,      \* those of them that the folder heard of
  misled     \* an answer without a name was put down to another model

heard  == <<models, tokens, told, misled>>
cost   == <<asked, heard, usd, charged>>
run    == <<cause, iter, late, ran, flight, denied>>
result == <<err, grade, failure, priced>>
place  == <<world, cleanups, prepared>>
vars == <<config, parent, returned, pc, run, cost, result, place>>

-----------------------------------------------------------------------------
(* classify: the kind of an error, and what decides when it has none.      *)
Kinds ==
  [budget |-> "budget", wall |-> "wall_clock", deadline |-> "wall_clock",
   timeout |-> "wall_clock",
   toolLoop |-> "tool_loop", toolCalls |-> "tool_loop",
   steps |-> "max_iterations", maxIterations |-> "max_iterations",
   maxTokens |-> "max_tokens", refused |-> "refused", panic |-> "panic",
   window |-> "context_window", provider |-> "provider", canceled |-> "cancelled"]

Classify(e, pass, refusals) ==
  CASE e = "none"                       -> IF pass THEN "success" ELSE "verifier"
    [] e # "none" /\ e \in DOMAIN Kinds -> Kinds[e]
    [] OTHER                            -> IF refusals THEN "denied" ELSE "other"

(* pricedSpend: tokens and no money is no price under any table.           *)
PricedSpend(s) ==
  /\ tokens[s] => usd[s]
  /\ config.pricing => models[s] \subseteq Priced

Unpriced(s) ==
  IF tokens[s] /\ ~usd[s] THEN models[s] ELSE IF config.pricing THEN models[s] \ Priced ELSE {}

\* Mutant: the interrupted call's own error is reported.
FaultyCauseOrError(s, e) == e

(* causeOr: the reason a context ended, unless it was merely cancelled.    *)
CauseOr(s, e) == IF cause[s] \in {"none", "canceled"} THEN e ELSE cause[s]

CtxErr(s) == IF cause[s] \in {"wall", "deadline"} THEN "deadline" ELSE "canceled"

Init ==
  /\ config \in Configs /\ parent = "alive" /\ returned = FALSE
  /\ pc = [s \in Samples |-> "waits"]
  /\ cause = [s \in Samples |-> "none"] /\ iter = [s \in Samples |-> 0]
  /\ late = [s \in Samples |-> 0]
  /\ ran = [s \in Samples |-> {}] /\ flight = [s \in Samples |-> {}]
  /\ denied = [s \in Samples |-> FALSE]
  /\ asked = [s \in Samples |-> NoName] /\ models = [s \in Samples |-> {}]
  /\ tokens = [s \in Samples |-> FALSE] /\ usd = [s \in Samples |-> FALSE]
  /\ charged = [s \in Samples |-> {}] /\ told = [s \in Samples |-> {}]
  /\ misled = [s \in Samples |-> FALSE]
  /\ err = [s \in Samples |-> "none"] /\ grade = [s \in Samples |-> Ungraded]
  /\ failure = [s \in Samples |-> NoVerdict] /\ priced = [s \in Samples |-> FALSE]
  /\ world = [s \in Samples |-> "stale"] /\ cleanups = [s \in Samples |-> <<>>]
  /\ prepared = [s \in Samples |-> FALSE]

-----------------------------------------------------------------------------
(***************************************************************************)
(* The harness around a run.                                               *)
(***************************************************************************)
Inside(s) == pc[s] \notin {"waits", "done"}

Goes(s, to) == pc' = [pc EXCEPT ![s] = to]

(* The semaphore is taken whether or not the caller has given up. *)
Acquires(s) ==
  /\ pc[s] = "waits" /\ Cardinality({o \in Samples : Inside(o)}) < Concurrency
  /\ Goes(s, "reset")
  /\ UNCHANGED <<config, parent, returned, run, cost, result, place>>

(* Dir's Reset: removed, then made again, unless either fails. *)
Resets(s) ==
  /\ pc[s] = "reset" /\ Goes(s, "build")
  /\ world' = [world EXCEPT ![s] = "fresh"] /\ prepared' = [prepared EXCEPT ![s] = TRUE]
  /\ UNCHANGED <<config, parent, returned, run, cost, result, cleanups>>

Passes(g) == g.total >= config.threshold

(* An error of the environment or the factory, by whatever it wraps.       *)
Breaks(s, to) ==
  /\ Goes(s, to) /\ err' = [err EXCEPT ![s] = "host"]
  /\ \E e \in Foreign : failure' = [failure EXCEPT ![s] = Classify(e, FALSE, denied[s])]
  /\ UNCHANGED <<config, parent, returned, grade, priced>>

ResetFails(s) ==
  /\ pc[s] = "reset" /\ Breaks(s, "leave")
  /\ \E w \in {world[s], "absent"} : world' = [world EXCEPT ![s] = w]
  /\ UNCHANGED <<run, cost, cleanups, prepared>>

(* A world that was reset is cleaned up. *)
BuildFails(s) ==
  pc[s] = "build" /\ Breaks(s, "clean") /\ UNCHANGED <<run, cost, place>>

(* The budget hangs off the caller's context, dead or alive. *)
Builds(s) ==
  /\ pc[s] = "build" /\ Goes(s, "top")
  /\ cause' = [cause EXCEPT ![s] = IF parent = "alive" THEN "none" ELSE parent]
  /\ UNCHANGED <<config, parent, returned, iter, late, ran, flight, denied, cost, result, place>>

(* The environment, the factory or a verifier panics: with the deferred    *)
(* calls still to come, of which recover is the last.                      *)
Panics(s) ==
  /\ pc[s] \in {"reset", "build", "score"}
  /\ Goes(s, IF pc[s] = "reset" THEN "leave" ELSE "clean")
  /\ err' = [err EXCEPT ![s] = "panic"]
  /\ UNCHANGED <<config, parent, returned, run, cost, grade, failure, priced, place>>

Episode(s) == [alive |-> parent = "alive", turns |-> iter[s], usd |-> IF usd[s] THEN 1 ELSE 0]

(* On the caller's context, which may have ended: the verifiers that need  *)
(* it then fail.  A score's own error counts only if there is no other.    *)
Scores(s) ==
  /\ pc[s] = "score"
  /\ \E g \in Score(config.verifiers, Episode(s)) :
       /\ grade' = [grade EXCEPT ![s] = g]
       /\ \/ /\ failure' = [failure EXCEPT ![s] = Classify(err[s], Passes(g), denied[s])]
             /\ UNCHANGED err
          \/ /\ err[s] = "none" /\ err' = [err EXCEPT ![s] = "host"]
             /\ \E e \in Foreign :
                  failure' = [failure EXCEPT ![s] = Classify(e, Passes(g), denied[s])]
  /\ Goes(s, "clean")
  /\ UNCHANGED <<config, parent, returned, priced, run, cost, place>>

\* Mutant: keeps what did not panic, though there is no verdict then.
FaultyKeepKnown(s) == config.keepAll \/ failure[s] \notin {"success", NoVerdict}

(* What a panicking episode has for a verdict is not Success. *)
Keeps(s) == config.keepAll \/ failure[s] # "success"

Disposed(s, fails) ==
  cleanups' = [cleanups EXCEPT ![s] = Append(@, [keep |-> Keeps(s), failed |-> fails])]

(* On a context that outlives the caller's; Dir then keeps, or removes.  A *)
(* removal that fails leaves the world, or some of it, and is only logged. *)
CleansUp(s) ==
  /\ pc[s] = "clean" /\ Goes(s, "leave")
  /\ \E fails \in BOOLEAN :
       /\ fails => ~Keeps(s)
       /\ Disposed(s, fails)
       /\ world' = [world EXCEPT ![s] = IF Keeps(s) \/ fails THEN @ ELSE "absent"]
  /\ UNCHANGED <<config, parent, returned, run, cost, result, prepared>>

(* A world that is not disposed of properly ends an episode in a panic too.*)
CleanupPanics(s) ==
  /\ pc[s] = "clean" /\ Goes(s, "leave") /\ Disposed(s, TRUE)
  /\ \E w \in {world[s], "absent"} : world' = [world EXCEPT ![s] = w]
  /\ err' = [err EXCEPT ![s] = "cleanup"] /\ failure' = [failure EXCEPT ![s] = NoVerdict]
  /\ UNCHANGED <<config, parent, returned, run, cost, grade, priced, prepared>>

\* Mutant: a panic skips what follows the episode, the slot given back too.
FaultyLeavesOnlyWhole(s) ==
  /\ pc[s] = "leave" /\ failure[s] # NoVerdict /\ Goes(s, "done")
  /\ priced' = [priced EXCEPT ![s] = PricedSpend(s)]
  /\ UNCHANGED <<config, parent, returned, run, cost, err, grade, failure, place>>

(* recover, the price, the slot, the progress callback, the wait group.    *)
Leaves(s) ==
  /\ pc[s] = "leave" /\ Goes(s, "done")
  /\ failure' = [failure EXCEPT ![s] = IF @ = NoVerdict THEN "panic" ELSE @]
  /\ priced' = [priced EXCEPT ![s] = PricedSpend(s)]
  /\ UNCHANGED <<config, parent, returned, run, cost, err, grade, place>>

Returns ==
  /\ \A s \in Samples : pc[s] = "done"
  /\ ~returned /\ returned' = TRUE
  /\ UNCHANGED <<config, parent, pc, run, cost, result, place>>

-----------------------------------------------------------------------------
(***************************************************************************)
(* The run.                                                                *)
(***************************************************************************)
Running(s) == pc[s] \in {"top", "call", "tool"}

Ends(s, e) ==
  /\ Goes(s, "score") /\ err' = [err EXCEPT ![s] = e]
  /\ UNCHANGED <<config, parent, returned, grade, failure, priced, place>>

(* A limit that is set trips, or does not; the first reason to end stays.  *)
MayTrip(s, limits) ==
  \/ UNCHANGED cause
  \/ \E l \in limits \cap config.limits :
       cause' = [cause EXCEPT ![s] = IF @ = "none" THEN l ELSE @]

(* The head of the loop. *)
Stopped(s) ==
  /\ pc[s] = "top" /\ cause[s] # "none" /\ Ends(s, CauseOr(s, CtxErr(s)))
  /\ UNCHANGED <<run, cost>>

OutOfTurns(s) ==
  /\ pc[s] = "top" /\ cause[s] = "none" /\ iter[s] >= config.iters[s]
  /\ Ends(s, "maxIterations") /\ UNCHANGED <<run, cost>>

OutOfSteps(s) ==
  /\ pc[s] = "top" /\ cause[s] = "none" /\ iter[s] < config.iters[s] /\ "steps" \in config.limits
  /\ cause' = [cause EXCEPT ![s] = "steps"] /\ Ends(s, "steps")
  /\ UNCHANGED <<iter, late, ran, flight, denied, cost>>

Asks(s) ==
  /\ pc[s] = "top" /\ cause[s] = "none" /\ iter[s] < config.iters[s]
  /\ Goes(s, "call") /\ iter' = [iter EXCEPT ![s] = @ + 1]
  /\ asked' = [asked EXCEPT ![s] = config.model]
  /\ UNCHANGED <<config, parent, returned, cause, late, ran, flight, denied, heard, usd, charged,
                 result, place>>

Named(m, name) == IF name = NoName THEN m ELSE name

(* TrackCost prices the model that is named, or the one this call asked    *)
(* for, and may end the context as it does.                                *)
Charges(s, m, name) ==
  /\ usd' = [usd EXCEPT ![s] = @ \/ (config.tracked /\ Named(m, name) \in Priced)]
  /\ charged' = [charged EXCEPT ![s] = @ \cup {Named(m, name)}]
  /\ MayTrip(s, IF config.tracked THEN {"budget"} ELSE {})

\* Mutant: a sub-agent's tokens are not the parent's money.
FaultyTellsOwn(s, m, name) ==
  /\ models' = [models EXCEPT ![s] = IF pc[s] = "call" THEN @ \cup ({name} \ {NoName}) ELSE @]
  /\ tokens' = [tokens EXCEPT ![s] = TRUE]
  /\ told' = [told EXCEPT ![s] = @ \cup {Named(m, name)}]
  /\ UNCHANGED misled

(* LLMDone: the folder puts a nameless answer down to the model last asked *)
(* for.                                                                    *)
Tells(s, m, name) ==
  LET guess == Named(asked[s], name)
  IN  /\ models' = [models EXCEPT ![s] = @ \cup ({guess} \ {NoName})]
      /\ tokens' = [tokens EXCEPT ![s] = TRUE]
      /\ told' = [told EXCEPT ![s] = @ \cup {Named(m, name)}]
      /\ misled' = [misled EXCEPT ![s] = @ \/ guess # Named(m, name) \/ guess = NoName]

Late(s) == pc[s] = "tool" /\ late[s] = iter[s]

(* A call that comes back, with an answer that cost tokens or did not.     *)
(* Under a context that has ended, of the run or of the tool call, emit    *)
(* may send the event or drop it.                                          *)
Answered(s, m) ==
  \/ \E name \in {m, NoName} \cup (IF m = NoName THEN Models ELSE {}) :
       /\ Charges(s, m, name)
       /\ \/ Tells(s, m, name)
          \/ (cause'[s] # "none" \/ Late(s)) /\ UNCHANGED heard
       /\ UNCHANGED asked
  \/ UNCHANGED <<cost, cause>>

CallAnswers(s) ==
  /\ pc[s] = "call" /\ Answered(s, config.model)
  /\ \/ /\ \E e \in {"none", "maxTokens", "refused", "stop"} : err' = [err EXCEPT ![s] = e]
        /\ Goes(s, "score")
     \/ config.tools /\ Goes(s, "tool") /\ UNCHANGED err
  /\ UNCHANGED <<config, parent, returned, iter, late, ran, flight, denied, grade, failure,
                 priced, place>>

(* On its own account, which may be that the client waited too long (for   *)
(* the connection, the headers, or at all): an error like a deadline's.  Or*)
(* because the context ended: then it says so, or what a broken connection *)
(* looks like.                                                             *)
CallFails(s) ==
  /\ pc[s] = "call"
  /\ \E e \in {"window", "provider", "timeout"} \cup
             (IF cause[s] = "none" THEN {} ELSE {CtxErr(s)}) :
       Ends(s, CauseOr(s, e))
  /\ UNCHANGED <<run, cost>>

(* Sub-agents call models while the parent's tool call lasts, side by side *)
(* if there are several.                                                   *)
ChildAsks(s, m) ==
  /\ pc[s] = "tool" /\ cause[s] = "none" /\ ~Late(s) /\ m \notin ran[s]
  /\ ran' = [ran EXCEPT ![s] = @ \cup {m}] /\ flight' = [flight EXCEPT ![s] = @ \cup {m}]
  /\ asked' = [asked EXCEPT ![s] = m]
  /\ UNCHANGED <<config, parent, returned, pc, cause, iter, late, denied, heard, usd, charged,
                 result, place>>

ChildBack(s, m) ==
  /\ m \in flight[s] /\ flight' = [flight EXCEPT ![s] = @ \ {m}]
  /\ Answered(s, m)
  /\ UNCHANGED <<config, parent, returned, pc, iter, late, ran, denied, result, place>>

(* WithTimeout: the tool call's context ends, that of the run lives on.    *)
ToolTimesOut(s) ==
  /\ pc[s] = "tool" /\ ~Late(s) /\ late' = [late EXCEPT ![s] = iter[s]]
  /\ UNCHANGED <<config, parent, returned, pc, cause, iter, ran, flight, denied, cost, result,
                 place>>

(* The tool call ends, well or not; the gate may have refused it.          *)
ToolEnds(s) ==
  /\ pc[s] = "tool" /\ flight[s] = {} /\ Goes(s, "top")
  /\ MayTrip(s, {"toolCalls", "toolLoop"}) /\ ran' = [ran EXCEPT ![s] = {}]
  /\ \E refused \in BOOLEAN : denied' = [denied EXCEPT ![s] = @ \/ refused]
  /\ UNCHANGED <<config, parent, returned, iter, late, flight, cost, result, place>>

RunPanics(s) == Running(s) /\ flight[s] = {} /\ Ends(s, "panic") /\ UNCHANGED <<run, cost>>

-----------------------------------------------------------------------------
WallClock(s) ==
  /\ Running(s) /\ cause[s] = "none" /\ "wall" \in config.limits
  /\ cause' = [cause EXCEPT ![s] = "wall"]
  /\ UNCHANGED <<config, parent, returned, pc, iter, late, ran, flight, denied, cost, result,
                 place>>

(* The caller gives up, or its deadline passes, under every sample at once.*)
CallerEnds(why) ==
  /\ parent = "alive" /\ ~returned /\ parent' = why
  /\ cause' = [s \in Samples |-> IF Running(s) /\ cause[s] = "none" THEN why ELSE cause[s]]
  /\ UNCHANGED <<config, returned, pc, iter, late, ran, flight, denied, cost, result, place>>

Harness(s) ==
  \/ Acquires(s) \/ Resets(s) \/ ResetFails(s) \/ Builds(s) \/ BuildFails(s)
  \/ Panics(s) \/ Scores(s) \/ CleansUp(s) \/ CleanupPanics(s) \/ Leaves(s)

Drives(s) ==
  \/ Stopped(s) \/ OutOfTurns(s) \/ OutOfSteps(s)
  \/ \E m \in Models : ChildAsks(s, m) \/ ChildBack(s, m)
  \/ Asks(s) \/ CallAnswers(s) \/ CallFails(s) \/ ToolEnds(s) \/ RunPanics(s)

Next ==
  \/ \E s \in Samples : Harness(s) \/ Drives(s) \/ WallClock(s) \/ ToolTimesOut(s)
  \/ \E why \in {"canceled", "deadline"} : CallerEnds(why)
  \/ Returns

(* Goroutines are scheduled, and what they call comes back.                *)
FairSpec ==
  /\ Init /\ [][Next]_vars
  /\ \A s \in Samples : WF_vars(Harness(s) \/ Drives(s))
  /\ WF_vars(Returns)

-----------------------------------------------------------------------------
TypeOK ==
  /\ parent \in {"alive", "canceled", "deadline"}
  /\ pc \in [Samples -> {"waits", "reset", "build", "top", "call", "tool", "score",
                         "clean", "leave", "done"}]
  /\ cause \in [Samples -> GovernorLimits \cup {"none", "canceled", "deadline"}]
  /\ \A s \in Samples : iter[s] \in 0..config.iters[s] /\ late[s] \in 0..iter[s]
  /\ \A s \in Samples : flight[s] \subseteq ran[s] /\ ran[s] \subseteq Models
  /\ world \in [Samples -> {"absent", "stale", "fresh"}]

Done(s) == pc[s] = "done"

(* Every world that was set up is disposed of, once, whatever panicked or  *)
(* was cancelled; the evidence of an episode that did not succeed is kept  *)
(* (unless the disposal itself is what panicked), that of one that did is  *)
(* asked to go and is gone if nothing failed, which no episode is blamed   *)
(* for; and no run starts in what an earlier rollout left behind.          *)
EvidenceKept ==
  \A s \in Samples :
    /\ pc[s] \in {"build", "top", "call", "tool", "score", "clean"} => world[s] = "fresh"
    /\ Done(s) =>
         /\ Len(cleanups[s]) = (IF prepared[s] THEN 1 ELSE 0)
         /\ prepared[s] /\ failure[s] # "success" =>
              err[s] = "cleanup" \/ (cleanups[s][1].keep /\ world[s] = "fresh")
         /\ failure[s] = "success" =>
              /\ prepared[s] /\ cleanups[s][1].keep = config.keepAll
              /\ world[s] = "absent" <=> ~config.keepAll /\ ~cleanups[s][1].failed

(* The histogram names what stopped a run: if it was stopped by a limit,   *)
(* that limit, though the call it interrupted reported something else; a   *)
(* cancellation only if it was the caller's, a deadline only if one passed *)
(* or a model call gave up waiting, which no limit had a part in.  (What   *)
(* the environment, the factory and the scoring report is theirs.)         *)
FailureTellsTheLimit ==
  \A s \in Samples : Done(s) /\ err[s] # "host" =>
    /\ failure[s] = "cancelled" => cause[s] = "canceled" /\ parent = "canceled"
    /\ failure[s] = "wall_clock" =>
         \/ cause[s] \in {"wall", "deadline"}
         \/ err[s] = "timeout" /\ cause[s] \in {"none", "canceled"}
    /\ failure[s] \in {"budget", "tool_loop"} => Kinds[cause[s]] = failure[s]
    /\ cause[s] \in GovernorLimits /\ failure[s] \notin {"success", "verifier"} =>
         \/ failure[s] = Kinds[cause[s]]
         \/ err[s] \in {"maxTokens", "refused", "stop", "panic", "cleanup"}

(* An episode's cost is reported as a price only if every model that       *)
(* charged it and is heard of, its sub-agents' too, is in the table and    *)
(* something was counted at all; and what the report says has no rate has  *)
(* none, if calls are counted at all.  Every model that charged is heard of*)
(* unless the run's context ended, or a tool call's; and an answer that did*)
(* not name its model may be put down to another one.                      *)
HonestCost ==
  /\ \A s \in Samples : cause[s] = "none" /\ late[s] = 0 => told[s] = charged[s]
  /\ \A s \in Samples : Done(s) /\ priced[s] =>
       /\ told[s] # {} => config.tracked /\ charged[s] \cap Priced # {}
       /\ config.pricing /\ ~misled[s] => told[s] \subseteq Priced
  /\ returned /\ config.tracked /\ (\A s \in Samples : ~misled[s]) =>
       UnpricedLine(priced, [s \in Samples |-> Unpriced(s)]) \cap Priced = {}

(* Every verifier has a row of its own in the breakdown, and the rows add  *)
(* up to the reward, if two share a name or one panics too (none of the    *)
(* names given being a numbered one); pass@k is the share of draws of k    *)
(* samples in which one succeeded, a sample that solved the task without   *)
(* coming to an end is reported and not counted, the best and the worst    *)
(* are, and every sample is in a bar of the histogram.                     *)
GradesAddUp ==
  /\ \A s \in Samples :
       LET rows == grade[s].breakdown IN
       /\ grade[s].total = MapThenSumSet(LAMBDA k : rows[k], DOMAIN rows)
       /\ rows = <<>> \/ Cardinality(DOMAIN rows) = Len(config.verifiers)
  /\ returned =>
       LET reward == [s \in Samples |-> grade[s].total]
           order  == SetToSortSeq(Samples, <)
           good   == Successes(failure) IN
       /\ \A k \in 1..Cardinality(Samples) :
            IsShareOfDraws(PassAt(Cardinality(Samples), Cardinality(good), k), Samples, good, k)
       /\ {s \in Samples : Passes(grade[s])} =
            good \cup Solved(failure, reward, config.threshold)
       /\ \A s \in Samples :
            /\ reward[Worst(reward, order)] <= reward[s] /\ reward[s] <= reward[Best(reward, order)]
            /\ s < Best(reward, order) => reward[s] < reward[Best(reward, order)]
       /\ LET bars == Histogram(failure)
          IN  MapThenSumSet(LAMBDA k : bars[k], DOMAIN bars) = Cardinality(Samples)

(* A rollout returns, with a verdict on every sample, however many fail.   *)
RolloutReturns == <>(returned /\ \A s \in Samples : failure[s] # NoVerdict)
=============================================================================
