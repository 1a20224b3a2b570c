----------------------------- MODULE Delegation -----------------------------
(***************************************************************************)
(* subagent.go, governor.go, budget.go and tool/dispatch.go: a run whose   *)
(* tool calls start further runs, the tree of runs that results, and the   *)
(* one budget and one context they all share.                              *)
(*                                                                         *)
(* A run is named by its path from the root: the b-th task of the k-th     *)
(* call of run r is r \o <<k, b>>.  What one run does between two tool     *)
(* batches is ReActRun's; here it is charge, call, answer or dispatch, and *)
(* the one event of an iteration stands for all it emits.  A model call    *)
(* costs one unit.                                                         *)
(***************************************************************************)
EXTENDS Naturals, Sequences, FiniteSetsExt

CONSTANTS
  CostUSD, Steps, ToolCalls, RepeatedToolCalls, SubagentDepth,  \* Limits; 0: none
  MaxIters,      \* WithMaxIters, of every agent of the tree
  Parallel,      \* WithParallelism
  MaxBranches,   \* WithMaxBranches
  Tasks,         \* tasks of a parallel_delegate call
  Batches,       \* the tool batches a model may ask for
  Abandons,      \* the consumer may stop reading before the end
  MaxTree        \* bound: sub-tasks asked for in the whole tree

Tools == {"plain", "delegate", "parallel_delegate"}

ASSUME LimitsAssumption ==
  /\ {CostUSD, Steps, ToolCalls, RepeatedToolCalls, SubagentDepth, MaxTree} \subseteq Nat
  /\ {MaxIters, Parallel, MaxBranches, Tasks} \subseteq Nat \ {0}
  /\ Batches \subseteq Seq(Tools) \ {<<>>} /\ Abandons \in BOOLEAN

VARIABLES
  run,     \* the runs of the tree that have not been joined and forgotten
  budget,  \* governor.Budget, shared by all of them
  cause,   \* why the shared context is done, or "none"
  reader,  \* the consumer of the root: "reading", "away" or "closed"
  asked,   \* sub-tasks asked for so far
  began,   \* history: iterations that got past their charge
  ran      \* history: tool calls handed on by budgetToolCalls

vars == <<run, budget, cause, reader, asked, began, ran>>

Root       == <<>>
Parent(r)  == SubSeq(r, 1, Len(r) - 2)
Level(r)   == Len(r) \div 2
TasksOf(t) == CASE t = "plain" -> 0 [] t = "delegate" -> 1
                [] t = "parallel_delegate" -> Tasks
Children(r, k) == {c \in DOMAIN run : Len(c) = Len(r) + 2 /\ SubSeq(c, 1, Len(r) + 1) = Append(r, k)}

NewRun(at) == [at |-> at, iter |-> 1, batch |-> <<>>, end |-> "none", held |-> FALSE]

Init ==
  /\ run = [r \in {Root} |-> NewRun("top")]
  /\ budget = [usd |-> 0, steps |-> 0, toolCalls |-> 0, depth |-> 0,
               lastCall |-> "none", repeats |-> 0]
  /\ cause = "none" /\ reader = "reading"
  /\ asked = 0 /\ began = 0 /\ ran = 0

-----------------------------------------------------------------------------
(* The budget.  A breach cancels the shared context; the first one names   *)
(* the cause.                                                              *)

CtxDone == cause # "none"

Reached(used, limit) == limit > 0 /\ used >= limit

(* Faulty variants, as a slip in the code would make them; no specification *)
(* uses them, each shows that a property would notice.                     *)

Abort(breaches) ==
  cause' = IF CtxDone \/ breaches = <<>> THEN cause ELSE breaches[1]

AddCall ==
  /\ budget' = [budget EXCEPT !.usd = @ + 1]
  /\ Abort(IF Reached(budget'.usd, CostUSD) THEN <<"budget">> ELSE <<>>)

Step ==
  /\ budget' = [budget EXCEPT !.steps = @ + 1]
  /\ Abort(IF Reached(budget'.steps, Steps) THEN <<"steps">> ELSE <<>>)

(* Two plain calls are identical; no two tasks are.                        *)
AddToolCall(tool) ==
  /\ budget' = [budget EXCEPT
                  !.toolCalls = @ + 1, !.lastCall = tool,
                  !.repeats = IF tool = "plain" /\ budget.lastCall = tool THEN @ + 1 ELSE 1]
  /\ Abort((IF Reached(budget'.toolCalls, ToolCalls) THEN <<"toolCalls">> ELSE <<>>)
             \o (IF Reached(budget'.repeats, RepeatedToolCalls) THEN <<"loop">> ELSE <<>>))

MayEnter == ~Reached(budget.depth, SubagentDepth)

EnterSubagent == budget' = [budget EXCEPT !.depth = @ + 1]

ExitSubagent == budget' = [budget EXCEPT !.depth = IF @ > 0 THEN @ - 1 ELSE @]

(* causeOr *)
CauseOr(e) == IF cause \in {"none", "canceled"} THEN e ELSE cause

-----------------------------------------------------------------------------
(* Events.  A run's channel is unbuffered: whoever drains it, the consumer *)
(* for the root, runChild for a child, must have handed on the last event  *)
(* to the stream above before it takes another.                            *)

Ready(r) == IF r = Root THEN reader # "away" ELSE ~run[r].held

(* Emit on run r's stream, after which the runs are rs: taken, or dropped  *)
(* because the context is done.                                            *)
Emit(r, rs) ==
  \/ Ready(r) /\ run' = IF r = Root THEN rs ELSE [rs EXCEPT ![r].held = TRUE]
  \/ CtxDone /\ run' = rs

At(r, at) == [run EXCEPT ![r].at = at]

End(r, e) == run' = [run EXCEPT ![r].at = "over", ![r].end = e, ![r].batch = <<>>]

Forward(r) ==
  /\ run[r].held /\ Emit(Parent(r), [run EXCEPT ![r].held = FALSE])
  /\ UNCHANGED <<budget, cause, reader, asked, began, ran>>

-----------------------------------------------------------------------------
(* One run. *)

Top(r) ==
  /\ run[r].at = "top"
  /\ \/ CtxDone /\ End(r, CauseOr("canceled"))
     \/ ~CtxDone /\ run[r].iter > MaxIters /\ End(r, "noAnswer")
     \/ ~CtxDone /\ run[r].iter <= MaxIters /\ run' = At(r, "step")
  /\ UNCHANGED <<budget, cause, reader, asked, began, ran>>

ChargeStep(r) ==
  /\ run[r].at = "step" /\ Step /\ run' = At(r, "begin")
  /\ UNCHANGED <<reader, asked, began, ran>>

Begin(r) ==
  /\ run[r].at = "begin"
  /\ IF CtxDone THEN End(r, CauseOr("canceled")) /\ UNCHANGED began
                ELSE run' = At(r, "emit") /\ began' = began + 1
  /\ UNCHANGED <<budget, cause, reader, asked, ran>>

EmitIter(r) ==
  /\ run[r].at = "emit" /\ Emit(r, At(r, "call"))
  /\ UNCHANGED <<budget, cause, reader, asked, began, ran>>

(* The call fails, or anything in the loop panics. *)
CallFails(r) ==
  /\ run[r].at = "call" /\ End(r, CauseOr("noAnswer"))
  /\ UNCHANGED <<budget, cause, reader, asked, began, ran>>

(* The call returns and is charged, whatever it says: an answer, nothing   *)
(* usable (a question for the user included), or tool calls.               *)
CallReturns(r) ==
  /\ run[r].at = "call" /\ AddCall
  /\ \/ \E e \in {"answer", "noAnswer"} : End(r, e) /\ UNCHANGED asked
     \/ \E b \in Batches :
          /\ asked' = asked + MapThenSumSet(LAMBDA k : TasksOf(b[k]), DOMAIN b)
          /\ asked' <= MaxTree
          /\ run' = [run EXCEPT ![r].at = "dispatch",
                                ![r].batch = [k \in DOMAIN b |-> [tool |-> b[k], at |-> "waiting"]]]
  /\ UNCHANGED <<reader, began, ran>>

-----------------------------------------------------------------------------
(* One call of a batch.                                                    *)

Calls(r) == DOMAIN run[r].batch

CallAt(r, k, at) == [run EXCEPT ![r].batch[k].at = at]

Waiting  == {"waiting"}
Finished == {"ok", "failed", "refused", "tooDeep"}

(* The dispatcher: in order without parallelism, else as slots allow.      *)
MayRun(r, k) ==
  LET started == {j \in Calls(r) : run[r].batch[j].at \notin Waiting}
      active  == {j \in started : run[r].batch[j].at \notin Finished}
  IN  IF Parallel = 1 THEN active = {} /\ started = 1..(k - 1)
                      ELSE Cardinality(active) < Parallel

(* budgetToolCalls: look at the context, charge, look again, hand on.      *)
Acquire(r, k) ==
  /\ run[r].batch[k].at = "waiting" /\ MayRun(r, k)
  /\ run' = CallAt(r, k, IF CtxDone THEN "refused" ELSE "charging")
  /\ UNCHANGED <<budget, cause, reader, asked, began, ran>>

ChargeCall(r, k) ==
  /\ run[r].batch[k].at = "charging" /\ AddToolCall(run[r].batch[k].tool)
  /\ run' = CallAt(r, k, "charged")
  /\ UNCHANGED <<reader, asked, began, ran>>

FaultyHandOnUnchecked(r, k) ==
  /\ run[r].batch[k].at = "charged" /\ run' = CallAt(r, k, "handed") /\ ran' = ran + 1
  /\ UNCHANGED <<budget, cause, reader, asked, began>>

HandOn(r, k) ==
  /\ run[r].batch[k].at = "charged"
  /\ IF CtxDone THEN run' = CallAt(r, k, "refused") /\ UNCHANGED ran
                ELSE run' = CallAt(r, k, "handed") /\ ran' = ran + 1
  /\ UNCHANGED <<budget, cause, reader, asked, began>>

(* The tool returns, in error if it panicked or disliked its input.        *)
ToolReturns(r, k) ==
  /\ run[r].batch[k].at = "handed"
  /\ \/ run[r].batch[k].tool = "plain" /\ run' = CallAt(r, k, "ok")
     \/ run' = CallAt(r, k, "failed")
  /\ UNCHANGED <<budget, cause, reader, asked, began, ran>>

(* A delegate tool: one tick of depth for the call, one run per task.      *)
Delegate(r, k) ==
  /\ run[r].batch[k].at = "handed" /\ run[r].batch[k].tool # "plain"
  /\ IF MayEnter
     THEN LET tasks == {r \o <<k, b>> : b \in 1..TasksOf(run[r].batch[k].tool)}
          IN  /\ EnterSubagent
              /\ run' = [c \in DOMAIN run \cup tasks |->
                           IF c \in tasks THEN NewRun("queued") ELSE CallAt(r, k, "delegated")[c]]
     ELSE run' = CallAt(r, k, "tooDeep") /\ UNCHANGED budget
  /\ UNCHANGED <<cause, reader, asked, began, ran>>

(* The branch gets a slot of its call's semaphore.                         *)
FaultySlots(c) == {d \in DOMAIN run : d # Root /\ run[d].at \notin {"queued", "joined"}}

Slots(c) == {d \in Children(Parent(c), c[Len(c) - 1]) : run[d].at \notin {"queued", "joined"}}

StartBranch(c) ==
  /\ run[c].at = "queued" /\ Cardinality(Slots(c)) < MaxBranches
  /\ run' = At(c, "starting")
  /\ UNCHANGED <<budget, cause, reader, asked, began, ran>>

(* runChild: SubagentStart; then the child's events, to the last; then     *)
(* SubagentEnd.                                                            *)
EmitStart(c) ==
  /\ run[c].at = "starting" /\ Emit(Parent(c), At(c, "top"))
  /\ UNCHANGED <<budget, cause, reader, asked, began, ran>>

EmitEnd(c) ==
  /\ c # Root /\ run[c].at = "over" /\ ~run[c].held
  /\ Emit(Parent(c), At(c, "joined"))
  /\ UNCHANGED <<budget, cause, reader, asked, began, ran>>

(* Every branch is back.  delegate reports its child's failure; a fan-out  *)
(* reports failures in place.                                              *)
Join(r, k, ended) ==
  LET kids == Children(r, k)
      at   == IF run[r].batch[k].tool = "delegate" /\ \E c \in kids : run[c].end # "answer"
              THEN "failed" ELSE "ok"
  IN  /\ run[r].batch[k].at = "delegated" /\ ended
      /\ ExitSubagent
      /\ run' = [d \in DOMAIN run \ kids |-> CallAt(r, k, at)[d]]
      /\ UNCHANGED <<cause, reader, asked, began, ran>>

FaultyJoinAll(r, k) ==
  Join(r, k, \E c \in Children(r, k) : run[c].at = "joined" /\ run[c].end # "answer")
    \/ Join(r, k, \A c \in Children(r, k) : run[c].at = "joined")

JoinAll(r, k) == Join(r, k, \A c \in Children(r, k) : run[c].at = "joined")

(* Dispatch returns, with one result per use.                              *)
Dispatched(r) ==
  /\ run[r].at = "dispatch" /\ \A k \in Calls(r) : run[r].batch[k].at \in Finished
  /\ run' = [run EXCEPT ![r].at = "top", ![r].iter = @ + 1, ![r].batch = <<>>]
  /\ UNCHANGED <<budget, cause, reader, asked, began, ran>>

-----------------------------------------------------------------------------
(* The wall clock, and the consumer of the root.                           *)

WallClock ==
  /\ run[Root].at # "over" /\ Abort(<<"wall">>)
  /\ UNCHANGED <<run, budget, reader, asked, began, ran>>

Abandon ==
  /\ Abandons /\ reader = "reading" /\ run[Root].at # "over" /\ reader' = "away"
  /\ UNCHANGED <<run, budget, cause, asked, began, ran>>

Close ==
  /\ reader = "away" /\ reader' = "closed" /\ Abort(<<"canceled">>)
  /\ UNCHANGED <<run, budget, asked, began, ran>>

-----------------------------------------------------------------------------
CallSteps(r, k) ==
  \/ Acquire(r, k) \/ ChargeCall(r, k) \/ HandOn(r, k)
  \/ ToolReturns(r, k) \/ Delegate(r, k) \/ JoinAll(r, k)

RunSteps(r) ==
  \/ Top(r) \/ ChargeStep(r) \/ Begin(r) \/ EmitIter(r)
  \/ CallFails(r) \/ CallReturns(r) \/ Dispatched(r)
  \/ StartBranch(r) \/ EmitStart(r) \/ EmitEnd(r) \/ Forward(r)
  \/ \E k \in Calls(r) : CallSteps(r, k)

Work == \E r \in DOMAIN run : RunSteps(r)

Next == Work \/ WallClock \/ Abandon \/ Close

Spec == Init /\ [][Next]_vars

(* Some goroutine that can move does; a model or tool call returns; a      *)
(* consumer that stops reading calls Close.                                *)
FairSpec == Spec /\ WF_vars(Work) /\ WF_vars(Close)

-----------------------------------------------------------------------------
Causes == {"none", "budget", "steps", "toolCalls", "loop", "wall", "canceled"}

TypeOK ==
  /\ Root \in DOMAIN run /\ cause \in Causes
  /\ reader \in {"reading", "away", "closed"} /\ asked \in 0..MaxTree
  /\ budget.lastCall \in Tools \cup {"none"}
  /\ {budget.usd, budget.steps, budget.toolCalls, budget.depth, budget.repeats} \subseteq Nat
  /\ \A r \in DOMAIN run :
       /\ run[r].at \in {"queued", "starting", "top", "step", "begin", "emit", "call",
                         "dispatch", "over", "joined"}
       /\ run[r].iter \in 1..(MaxIters + 1)
       /\ run[r].end \in Causes \cup {"answer", "noAnswer"}
       /\ run[r].held \in BOOLEAN
       /\ \A k \in Calls(r) :
            /\ run[r].batch[k].tool \in Tools
            /\ run[r].batch[k].at \in
                 {"waiting", "charging", "charged", "handed", "delegated"} \cup Finished

(* A limit of n steps lets n - 1 iterations through, and one of n tool     *)
(* calls n - 1 calls, however many runs of the tree race for the last one: *)
(* each charges first and looks at the context after.                      *)
CapsHoldUnderRaces ==
  /\ Steps > 0     => began < Steps
  /\ ToolCalls > 0 => ran < ToolCalls

(* No run nests deeper than SubagentDepth, and the shared counter is the   *)
(* number of delegations still open: none leaks when a branch fails, is    *)
(* cancelled or is never started.                                          *)
DepthIsOpenDelegations ==
  /\ budget.depth = Cardinality(UNION
       {{<<r, k>> : k \in {j \in Calls(r) : run[r].batch[j].at = "delegated"}} : r \in DOMAIN run})
  /\ SubagentDepth > 0 => \A r \in DOMAIN run : Level(r) <= SubagentDepth

(* No run outlives the call that started it: the parent is still waiting   *)
(* for it, in a batch that has not been reported.                          *)
NoOrphans ==
  \A c \in DOMAIN run \ {Root} :
    LET p == Parent(c)
    IN  /\ p \in DOMAIN run /\ run[p].at = "dispatch"
        /\ c[Len(c) - 1] \in Calls(p)
        /\ run[p].batch[c[Len(c) - 1]].at = "delegated"

(* Every run of the tree that a limit stopped blames the same limit, the   *)
(* first one reached.                                                      *)
OneCause ==
  \A r \in DOMAIN run : run[r].end \in {"none", "answer", "noAnswer", cause}

(* One budget for the tree: charged by all, leaked by none, blamed once.   *)
OneBudget == CapsHoldUnderRaces /\ DepthIsOpenDelegations /\ OneCause

(* The run at the root comes to an end, whatever its sub-agents do: the    *)
(* chain of unbuffered streams and the nested semaphores never block for   *)
(* good, even when the consumer stops reading.                             *)
TreeUnwinds == <>(run[Root].at = "over")

-----------------------------------------------------------------------------
(* What comments of the source say, and the code does not keep. *)

(* "a fan-out cannot spend past the cap by racing" (governor.go:61-63):    *)
(* calls that passed their check before the cap was reached are charged    *)
(* after it.                                                               *)
CannotSpendPast == CostUSD > 0 => budget.usd <= CostUSD

(* "The cap is RECURSION depth, not sibling count" (subagent.go:319). *)
(* A delegation is refused only to a run that is that deep.                *)
TooDeepIsDeep ==
  \A r \in DOMAIN run : \A k \in Calls(r) :
    run[r].batch[k].at = "tooDeep" => Level(r) >= SubagentDepth
=============================================================================
