----------------------------- MODULE CallProofs -----------------------------
(***************************************************************************)
(* Theorems about what a run waits for.  Delegation, for trees of any      *)
(* size: any limits, any batches, any number of tasks and of branches at   *)
(* once; ModelCall, for durations of any width and streams of any length.  *)
(***************************************************************************)
EXTENDS Delegation, ModelCall, SequenceTheorems, FiniteSetTheorems, WellFoundedInduction, TLAPS

-----------------------------------------------------------------------------
(* The inductive invariant. *)

Ends == Causes \cup {"answer", "noAnswer"}

Phases == {"queued", "starting", "top", "step", "begin", "emit", "call",
           "dispatch", "over", "joined"}

CallPhases == {"waiting", "charging", "charged", "handed", "delegated"} \cup Finished

CallType == [tool : Tools, at : CallPhases]

RunType == [at : Phases, iter : Nat, batch : Seq(CallType), end : Ends, held : BOOLEAN]

BudgetType == [usd : Nat, steps : Nat, toolCalls : Nat, depth : Nat,
               lastCall : Tools \cup {"none"}, repeats : Nat]

Types ==
  /\ Root \in DOMAIN run /\ DOMAIN run \subseteq Seq(Nat)
  /\ run \in [DOMAIN run -> RunType]
  /\ budget \in BudgetType
  /\ cause \in Causes /\ began \in Nat /\ ran \in Nat

(* The k-th call of run r's batch is at a phase.                           *)
IsAt(r, k, at) == k \in Calls(r) /\ run[r].batch[k].at = at

CallsAt(at) == {p \in (DOMAIN run) \X Nat : IsAt(p[1], p[2], at)}

RunsAt(at) == {r \in DOMAIN run : run[r].at = at}

(* Only a run that dispatches has a batch; and every run below the root    *)
(* has, for each of its ancestors, the call of that ancestor it descends   *)
(* from, still delegated.                                                  *)
Tree ==
  \A r \in DOMAIN run :
    /\ run[r].at = "dispatch" \/ run[r].batch = <<>>
    /\ \E n \in Nat : Len(r) = 2 * n
    /\ \A i \in Nat : 2 * i < Len(r) =>
         /\ SubSeq(r, 1, 2 * i) \in DOMAIN run
         /\ IsAt(SubSeq(r, 1, 2 * i), r[2 * i + 1], "delegated")

(* What is charged and not yet let through is still in the count, and a    *)
(* count at its limit has ended the context: so the last look, after the   *)
(* charge, lets through less than the limit.                               *)
StepsCharged ==
  /\ IsFiniteSet(RunsAt("begin")) /\ began + Cardinality(RunsAt("begin")) <= budget.steps
  /\ Reached(budget.steps, Steps) => CtxDone
  /\ Steps > 0 => began < Steps

CallsCharged ==
  /\ IsFiniteSet(CallsAt("charged")) /\ ran + Cardinality(CallsAt("charged")) <= budget.toolCalls
  /\ Reached(budget.toolCalls, ToolCalls) => CtxDone
  /\ ToolCalls > 0 => ran < ToolCalls

Depth ==
  /\ IsFiniteSet(CallsAt("delegated")) /\ budget.depth = Cardinality(CallsAt("delegated"))
  /\ SubagentDepth > 0 => \A r \in DOMAIN run : Level(r) <= SubagentDepth

IInv == Types /\ Tree /\ StepsCharged /\ CallsCharged /\ Depth /\ OneCause

-----------------------------------------------------------------------------
(* What the model's updates do to one run and leave alone of the others.   *)

LEMMA AtShape ==
  ASSUME Types, NEW r \in DOMAIN run, NEW at \in Phases
  PROVE  /\ At(r, at) \in [DOMAIN run -> RunType]
         /\ \A q \in DOMAIN run :
              /\ At(r, at)[q].at = (IF q = r THEN at ELSE run[q].at)
              /\ At(r, at)[q].batch = run[q].batch /\ At(r, at)[q].end = run[q].end
<1>1. run[r] \in RunType
  BY DEF Types
<1> DEFINE x == [run[r] EXCEPT !.at = at]
<1>2. x \in RunType /\ x.at = at /\ x.batch = run[r].batch /\ x.end = run[r].end
  <2>1. PICK y \in RunType : y = run[r]
    BY <1>1
  <2> QED BY <2>1 DEF RunType
<1>3. At(r, at) = [run EXCEPT ![r] = x]
  BY DEF At
<1> HIDE DEF x
<1> QED BY <1>2, <1>3 DEF Types

LEMMA EndShape ==
  ASSUME Types, NEW r \in DOMAIN run, NEW e \in Ends, End(r, e)
  PROVE  /\ run' \in [DOMAIN run -> RunType]
         /\ \A q \in DOMAIN run :
              /\ run'[q].at = (IF q = r THEN "over" ELSE run[q].at)
              /\ run'[q].batch = (IF q = r THEN <<>> ELSE run[q].batch)
              /\ run'[q].end = (IF q = r THEN e ELSE run[q].end)
<1>1. run[r] \in RunType
  BY DEF Types
<1> DEFINE x == [run[r] EXCEPT !.at = "over", !.end = e, !.batch = <<>>]
<1>2. x \in RunType /\ x.at = "over" /\ x.batch = <<>> /\ x.end = e
  <2>1. PICK y \in RunType : y = run[r]
    BY <1>1
  <2>2. <<>> \in Seq(CallType) /\ "over" \in Phases
    BY DEF Phases
  <2> QED BY <2>1, <2>2 DEF RunType
<1>3. run' = [run EXCEPT ![r] = x]
  BY DEF End
<1> HIDE DEF x
<1> QED BY <1>2, <1>3 DEF Types

(* A taken event marks one stream as held and nothing else.                *)
LEMMA EmitShape ==
  ASSUME NEW D, NEW rs \in [D -> RunType], NEW r, Emit(r, rs)
  PROVE  /\ run' \in [D -> RunType]
         /\ \A q \in D : /\ run'[q].at = rs[q].at /\ run'[q].batch = rs[q].batch
                         /\ run'[q].end = rs[q].end
<1>1. CASE run' = rs
  BY <1>1
<1>2. CASE run' = [rs EXCEPT ![r].held = TRUE]
  <2>1. CASE r \notin D
    <3>1. run' = rs
      BY <1>2, <2>1
    <3> QED BY <3>1
  <2>2. CASE r \in D
    <3> DEFINE x == [rs[r] EXCEPT !.held = TRUE]
    <3>1. x \in RunType /\ x.at = rs[r].at /\ x.batch = rs[r].batch /\ x.end = rs[r].end
      <4>1. PICK y \in RunType : y = rs[r]
        BY <2>2
      <4> QED BY <4>1 DEF RunType
    <3>2. run' = [rs EXCEPT ![r] = x]
      BY <1>2
    <3> HIDE DEF x
    <3> QED BY <3>1, <3>2
  <2> QED BY <2>1, <2>2
<1> QED BY <1>1, <1>2 DEF Emit

LEMMA CallAtShape ==
  ASSUME Types, NEW r \in DOMAIN run, NEW k \in Calls(r), NEW at \in CallPhases
  PROVE  /\ CallAt(r, k, at) \in [DOMAIN run -> RunType]
         /\ \A q \in DOMAIN run :
              /\ CallAt(r, k, at)[q].at = run[q].at /\ CallAt(r, k, at)[q].end = run[q].end
              /\ q # r => CallAt(r, k, at)[q].batch = run[q].batch
         /\ DOMAIN CallAt(r, k, at)[r].batch = Calls(r)
         /\ \A j \in Calls(r) :
              CallAt(r, k, at)[r].batch[j].at = (IF j = k THEN at ELSE run[r].batch[j].at)
<1> DEFINE b == run[r].batch
           c == [b[k] EXCEPT !.at = at]
           s == [b EXCEPT ![k] = c]
           x == [run[r] EXCEPT !.batch = s]
<1>1. run[r] \in RunType
  BY DEF Types
<1>2. b \in Seq(CallType) /\ k \in DOMAIN b
  BY <1>1 DEF RunType, Calls
<1>3. c \in CallType /\ c.at = at
  <2>1. PICK y \in CallType : y = b[k]
    BY <1>2
  <2> QED BY <2>1 DEF CallType
<1>4. CallAt(r, k, at) = [run EXCEPT ![r] = x]
  BY DEF CallAt
<1> HIDE DEF c
<1>5. /\ s \in Seq(CallType) /\ DOMAIN s = DOMAIN b
      /\ \A j \in DOMAIN b : s[j] = (IF j = k THEN c ELSE b[j])
  BY <1>2, <1>3
<1> HIDE DEF s
<1>6. x \in RunType /\ x.batch = s /\ x.at = run[r].at /\ x.end = run[r].end
  <2>1. PICK y \in RunType : y = run[r]
    BY <1>1
  <2> QED BY <1>5, <2>1 DEF RunType
<1> HIDE DEF x
<1> QED BY <1>3, <1>4, <1>5, <1>6 DEF Types, Calls
-----------------------------------------------------------------------------
(* Sets that a step leaves alone. *)

LEMMA CallsKept ==
  ASSUME NEW at, DOMAIN run' = DOMAIN run,
         \A q \in DOMAIN run, k \in Nat : IsAt(q, k, at)' = IsAt(q, k, at)
  PROVE  CallsAt(at)' = CallsAt(at)
BY DEF CallsAt

LEMMA RunsKept ==
  ASSUME NEW at, DOMAIN run' = DOMAIN run,
         \A q \in DOMAIN run : (run'[q].at = at) = (run[q].at = at)
  PROVE  RunsAt(at)' = RunsAt(at)
BY DEF RunsAt

(* One call of the tree comes to a phase, or leaves it; runs that come and *)
(* go have no call at it.                                                  *)
LEMMA CallsChange ==
  ASSUME NEW at, NEW r \in DOMAIN run, NEW k \in Nat, r \in DOMAIN run',
         \A q \in DOMAIN run \cup DOMAIN run', j \in Nat :
           \/ q = r /\ j = k
           \/ (q \in DOMAIN run' /\ IsAt(q, j, at)') <=> (q \in DOMAIN run /\ IsAt(q, j, at))
  PROVE  /\ IsAt(r, k, at)' => CallsAt(at)' = CallsAt(at) \cup {<<r, k>>}
         /\ ~IsAt(r, k, at)' => CallsAt(at)' = CallsAt(at) \ {<<r, k>>}
         /\ IsAt(r, k, at) <=> <<r, k>> \in CallsAt(at)
<1> DEFINE P == (DOMAIN run \cup DOMAIN run') \X Nat
           Now(p) == p[1] \in DOMAIN run /\ IsAt(p[1], p[2], at)
           Then(p) == p[1] \in DOMAIN run' /\ IsAt(p[1], p[2], at)'
<1>1. \A p \in P : p = <<p[1], p[2]>> /\ p[1] \in DOMAIN run \cup DOMAIN run' /\ p[2] \in Nat
  OBVIOUS
<1>2. \A p \in P : p = <<r, k>> \/ (Then(p) <=> Now(p))
  BY <1>1
<1>3. /\ <<r, k>> \in P
      /\ Then(<<r, k>>) <=> IsAt(r, k, at)'
      /\ Now(<<r, k>>) <=> IsAt(r, k, at)
  OBVIOUS
<1>4. CallsAt(at) = {p \in P : Now(p)} /\ CallsAt(at)' = {p \in P : Then(p)}
  BY DEF CallsAt
<1> HIDE DEF P, Now, Then
<1>5. IsAt(r, k, at) <=> <<r, k>> \in CallsAt(at)
  BY <1>3, <1>4
<1>6. ASSUME IsAt(r, k, at)' PROVE CallsAt(at)' = CallsAt(at) \cup {<<r, k>>}
  BY <1>2, <1>3, <1>4, <1>6
<1>7. ASSUME ~IsAt(r, k, at)' PROVE CallsAt(at)' = CallsAt(at) \ {<<r, k>>}
  BY <1>2, <1>3, <1>4, <1>7
<1> QED BY <1>5, <1>6, <1>7

(* The tree stays as it is when no call is delegated or comes back.        *)
LEMMA TreeKept ==
  ASSUME Types, Tree, DOMAIN run' = DOMAIN run,
         \A q \in DOMAIN run : run'[q].at = "dispatch" \/ run'[q].batch = <<>>,
         \A q \in DOMAIN run, k \in Nat : IsAt(q, k, "delegated")' = IsAt(q, k, "delegated")
  PROVE  Tree'
<1> SUFFICES ASSUME NEW r \in DOMAIN run, NEW i \in Nat, 2 * i < Len(r)
             PROVE  /\ SubSeq(r, 1, 2 * i) \in DOMAIN run
                    /\ IsAt(SubSeq(r, 1, 2 * i), r[2 * i + 1], "delegated")'
  BY DEF Tree
<1>1. r \in Seq(Nat) /\ r[2 * i + 1] \in Nat
  BY DEF Types
<1> QED BY <1>1 DEF Tree

(* The ends of runs stay explained while the shared reason is not changed. *)
LEMMA OneCauseKept ==
  ASSUME OneCause, DOMAIN run' = DOMAIN run, CtxDone => cause' = cause,
         \A q \in DOMAIN run :
           run'[q].end \in {run[q].end, "none", "answer", "noAnswer", cause'}
  PROVE  OneCause'
BY DEF OneCause, CtxDone

LEMMA StepsChargedKept ==
  ASSUME StepsCharged, DOMAIN run' = DOMAIN run, CtxDone => cause' = cause,
         budget'.steps = budget.steps, began' = began,
         \A q \in DOMAIN run : (run'[q].at = "begin") = (run[q].at = "begin")
  PROVE  StepsCharged'
<1>1. RunsAt("begin")' = RunsAt("begin")
  BY RunsKept
<1> QED BY <1>1 DEF StepsCharged, Reached, CtxDone

LEMMA CallsChargedKept ==
  ASSUME CallsCharged, DOMAIN run' = DOMAIN run, CtxDone => cause' = cause,
         budget'.toolCalls = budget.toolCalls, ran' = ran,
         \A q \in DOMAIN run, k \in Nat : IsAt(q, k, "charged")' = IsAt(q, k, "charged")
  PROVE  CallsCharged'
<1>1. CallsAt("charged")' = CallsAt("charged")
  BY CallsKept
<1> QED BY <1>1 DEF CallsCharged, Reached, CtxDone

LEMMA DepthKept ==
  ASSUME Depth, DOMAIN run' = DOMAIN run, budget'.depth = budget.depth,
         \A q \in DOMAIN run, k \in Nat : IsAt(q, k, "delegated")' = IsAt(q, k, "delegated")
  PROVE  Depth'
<1>1. CallsAt("delegated")' = CallsAt("delegated")
  BY CallsKept
<1> QED BY <1>1 DEF Depth

(* A step that leaves every run's charges and delegations as they are, and *)
(* gives no reason for an end but the run's own or the shared one.         *)
Undisturbed ==
  /\ run' \in [DOMAIN run -> RunType]
  /\ \A q \in DOMAIN run :
       /\ run'[q].at = "dispatch" \/ run'[q].batch = <<>>
       /\ (run'[q].at = "begin") = (run[q].at = "begin")
       /\ run'[q].end \in {run[q].end, "none", "answer", "noAnswer", cause'}
       /\ \A k \in Nat, at \in {"charged", "delegated"} : IsAt(q, k, at)' = IsAt(q, k, at)

LEMMA Quiet ==
  ASSUME IInv, Undisturbed, budget' \in BudgetType,
         budget'.steps = budget.steps, budget'.toolCalls = budget.toolCalls,
         budget'.depth = budget.depth, UNCHANGED <<began, ran>>,
         cause' \in Causes, CtxDone => cause' = cause
  PROVE  IInv'
<1> USE DEF IInv, Undisturbed
<1>0. DOMAIN run' = DOMAIN run
  OBVIOUS
<1>1. Types'
  BY DEF Types
<1>2. Tree'
  BY <1>0, TreeKept
<1>3. StepsCharged' /\ CallsCharged' /\ Depth'
  BY <1>0, StepsChargedKept, CallsChargedKept, DepthKept
<1>4. OneCause'
  BY <1>0, OneCauseKept
<1> QED BY <1>1, <1>2, <1>3, <1>4

LEMMA QuietStep ==
  ASSUME IInv, Undisturbed, UNCHANGED <<budget, cause, began, ran>>
  PROVE  IInv'
BY Quiet DEF IInv, Types

(* A run without a batch moves on, with an end or none.                    *)
Moves(r, at, e) ==
  /\ run' \in [DOMAIN run -> RunType]
  /\ \A q \in DOMAIN run :
       /\ run'[q].at = (IF q = r THEN at ELSE run[q].at)
       /\ run'[q].batch = run[q].batch
       /\ run'[q].end = (IF q = r THEN e ELSE run[q].end)

LEMMA MoveIsQuiet ==
  ASSUME IInv, NEW r \in DOMAIN run, NEW at, at # "begin", run[r].at # "begin",
         run[r].batch = <<>>, NEW e \in {run[r].end, "none", "answer", "noAnswer", cause'},
         Moves(r, at, e)
  PROVE  Undisturbed
<1>1. \A q \in DOMAIN run : run[q].at = "dispatch" \/ run[q].batch = <<>>
  BY DEF IInv, Tree
<1>2. \A q \in DOMAIN run : \A k, x : IsAt(q, k, x)' = IsAt(q, k, x)
  BY DEF IsAt, Calls, Moves
<1> QED BY <1>1, <1>2 DEF Undisturbed, Moves

LEMMA AtMoves ==
  ASSUME Types, NEW r \in DOMAIN run, NEW at \in Phases, run' = At(r, at)
  PROVE  Moves(r, at, run[r].end)
BY AtShape DEF Moves

LEMMA EmitMoves ==
  ASSUME Types, NEW r \in DOMAIN run, NEW at \in Phases, NEW p, Emit(p, At(r, at))
  PROVE  Moves(r, at, run[r].end)
<1>1. At(r, at) \in [DOMAIN run -> RunType]
  BY AtShape
<1>2. /\ run' \in [DOMAIN run -> RunType]
      /\ \A q \in DOMAIN run :
           /\ run'[q].at = At(r, at)[q].at /\ run'[q].batch = At(r, at)[q].batch
           /\ run'[q].end = At(r, at)[q].end
  BY <1>1, EmitShape
<1> QED BY <1>2, AtShape DEF Moves

LEMMA EndMoves ==
  ASSUME Types, NEW r \in DOMAIN run, run[r].batch = <<>>, NEW e \in Ends, End(r, e)
  PROVE  Moves(r, "over", e)
BY EndShape DEF Moves

(* The context ends once, for the first reason given.                      *)
LEMMA AbortOnce ==
  ASSUME NEW breaches \in Seq(Causes \ {"none"}), cause \in Causes, Abort(breaches)
  PROVE  /\ cause' \in Causes /\ (CtxDone => cause' = cause)
         /\ breaches # <<>> => CtxDone'
BY DEF Abort, CtxDone, Causes

LEMMA OneReason ==
  ASSUME NEW P, NEW c \in Causes \ {"none"}, cause \in Causes,
         Abort(IF P THEN <<c>> ELSE <<>>)
  PROVE  /\ cause' \in Causes /\ (CtxDone => cause' = cause)
         /\ P => CtxDone'
<1>1. CASE P
  <2>1. Abort(<<c>>) /\ <<c>> \in Seq(Causes \ {"none"}) /\ <<c>> # <<>>
    BY <1>1
  <2> QED BY <2>1, AbortOnce
<1>2. CASE ~P
  <2>1. Abort(<<>>) /\ <<>> \in Seq(Causes \ {"none"})
    BY <1>2
  <2> QED BY <1>2, <2>1, AbortOnce
<1> QED BY <1>1, <1>2

(* causeOr gives the shared reason, or one of the run's own.               *)
LEMMA CauseIsShared ==
  ASSUME cause \in Causes, NEW e \in {"canceled", "noAnswer"}, e = "canceled" => CtxDone
  PROVE  CauseOr(e) \in {"noAnswer", cause} /\ CauseOr(e) \in Ends
BY DEF CauseOr, CtxDone, Causes, Ends

-----------------------------------------------------------------------------
(* Each step keeps the inductive invariant. *)

LEMMA InitOK == Init => IInv
<1> SUFFICES ASSUME Init PROVE IInv
  OBVIOUS
<1>1. DOMAIN run = {<<>>} /\ run[<<>>] = NewRun("top") /\ <<>> \in Seq(Nat)
  BY DEF Init, Root
<1>2. NewRun("top") \in RunType
  <2>1. <<>> \in Seq(CallType) /\ FALSE \in BOOLEAN /\ 1 \in Nat
    OBVIOUS
  <2>2. "top" \in Phases /\ "none" \in Ends
    BY DEF Phases, Ends, Causes
  <2> QED BY <2>1, <2>2 DEF NewRun, RunType
<1>3. Types
  BY <1>1, <1>2 DEF Init, Types, Root, BudgetType, Causes
<1>4. run[<<>>].at = "top" /\ run[<<>>].batch = <<>> /\ run[<<>>].end = "none"
  BY <1>1 DEF NewRun
<1>5. \A at : CallsAt(at) = {}
  BY <1>1, <1>4 DEF CallsAt, IsAt, Calls
<1>6. RunsAt("begin") = {}
  BY <1>1, <1>4 DEF RunsAt
<1>7. Tree
  BY <1>1, <1>4 DEF Tree
<1>8. StepsCharged /\ CallsCharged
  <2>1. /\ began = 0 /\ ran = 0 /\ budget.steps = 0 /\ budget.toolCalls = 0
        /\ Steps \in Nat /\ ToolCalls \in Nat
    BY LimitsAssumption DEF Init
  <2> QED BY <1>5, <1>6, <2>1, FS_EmptySet DEF StepsCharged, CallsCharged, Reached
<1>9. Depth
  <2>1. budget.depth = 0 /\ SubagentDepth \in Nat /\ Level(<<>>) = 0
    BY LimitsAssumption DEF Init, Level
  <2>2. \A r \in DOMAIN run : Level(r) <= SubagentDepth
    BY <1>1, <2>1
  <2> QED BY <1>5, <2>1, <2>2, FS_EmptySet DEF Depth
<1>10. OneCause
  BY <1>1, <1>4 DEF OneCause
<1> QED BY <1>3, <1>7, <1>8, <1>9, <1>10 DEF IInv

(* A run ends with no answer, with one, or for the shared reason.          *)
LEMMA EndIsQuiet ==
  ASSUME IInv, NEW r \in DOMAIN run, run[r].at # "begin", run[r].batch = <<>>,
         NEW e \in Ends \cap {"answer", "noAnswer", cause'}, End(r, e)
  PROVE  Undisturbed
<1>1. Moves(r, "over", e)
  BY EndMoves DEF IInv
<1> QED BY <1>1, MoveIsQuiet

LEMMA TopOK ==
  ASSUME IInv, NEW r \in DOMAIN run, Top(r)
  PROVE  IInv'
<1>0. /\ run[r].at = "top" /\ run[r].batch = <<>> /\ UNCHANGED <<budget, cause, began, ran>>
      /\ Types /\ cause \in Causes /\ "step" \in Phases /\ "noAnswer" \in Ends
  BY DEF Top, IInv, Tree, Types, Phases, Ends
<1>1. CASE CtxDone /\ End(r, CauseOr("canceled"))
  BY <1>0, <1>1, CauseIsShared, EndIsQuiet, QuietStep
<1>2. CASE End(r, "noAnswer")
  BY <1>0, <1>2, EndIsQuiet, QuietStep
<1>3. CASE run' = At(r, "step")
  BY <1>0, <1>3, AtMoves, MoveIsQuiet, QuietStep
<1> QED BY <1>1, <1>2, <1>3 DEF Top

LEMMA CallFailsOK ==
  ASSUME IInv, NEW r \in DOMAIN run, CallFails(r)
  PROVE  IInv'
<1>0. /\ run[r].at = "call" /\ run[r].batch = <<>> /\ UNCHANGED <<budget, cause, began, ran>>
      /\ cause \in Causes /\ End(r, CauseOr("noAnswer"))
  BY DEF CallFails, IInv, Tree, Types
<1> QED BY <1>0, CauseIsShared, EndIsQuiet, QuietStep

(* Steps that move a run of the tree on and hand an event up.              *)
LEMMA EmitsOK ==
  ASSUME IInv, NEW r \in DOMAIN run,
         EmitIter(r) \/ StartBranch(r) \/ EmitStart(r) \/ EmitEnd(r)
  PROVE  IInv'
<1>0. /\ run[r].at \in {"emit", "queued", "starting", "over"} /\ run[r].batch = <<>>
      /\ UNCHANGED <<budget, cause, began, ran>> /\ Types
  BY DEF EmitIter, StartBranch, EmitStart, EmitEnd, IInv, Tree
<1>1. \E at \in Phases \ {"begin"} : run' = At(r, at) \/ \E p : Emit(p, At(r, at))
  BY DEF EmitIter, StartBranch, EmitStart, EmitEnd, Phases
<1>2. \E at \in Phases \ {"begin"} : Moves(r, at, run[r].end)
  BY <1>0, <1>1, AtMoves, EmitMoves
<1> QED BY <1>0, <1>2, MoveIsQuiet, QuietStep

LEMMA ForwardOK ==
  ASSUME IInv, NEW r \in DOMAIN run, Forward(r)
  PROVE  IInv'
<1> DEFINE rs == [run EXCEPT ![r].held = FALSE]
<1>0. UNCHANGED <<budget, cause, began, ran>> /\ Types /\ Emit(Parent(r), rs)
  BY DEF Forward, IInv
<1>1. /\ rs \in [DOMAIN run -> RunType]
      /\ \A q \in DOMAIN run : /\ rs[q].at = run[q].at /\ rs[q].batch = run[q].batch
                               /\ rs[q].end = run[q].end
  <2> DEFINE x == [run[r] EXCEPT !.held = FALSE]
  <2>1. x \in RunType /\ x.at = run[r].at /\ x.batch = run[r].batch /\ x.end = run[r].end
    <3>1. PICK y \in RunType : y = run[r]
      BY DEF IInv, Types
    <3> QED BY <3>1 DEF RunType
  <2>2. rs = [run EXCEPT ![r] = x]
    OBVIOUS
  <2> HIDE DEF x
  <2> QED BY <1>0, <2>1, <2>2 DEF Types
<1> HIDE DEF rs
<1>2. /\ run' \in [DOMAIN run -> RunType]
      /\ \A q \in DOMAIN run : /\ run'[q].at = rs[q].at /\ run'[q].batch = rs[q].batch
                               /\ run'[q].end = rs[q].end
  BY <1>0, <1>1, EmitShape
<1>3. \A q \in DOMAIN run : run[q].at = "dispatch" \/ run[q].batch = <<>>
  BY DEF IInv, Tree
<1>4. \A q \in DOMAIN run : \A k, x : IsAt(q, k, x)' = IsAt(q, k, x)
  BY <1>1, <1>2 DEF IsAt, Calls
<1>5. Undisturbed
  BY <1>1, <1>2, <1>3, <1>4 DEF Undisturbed
<1> QED BY <1>0, <1>5, QuietStep

(* The charge of a step comes before the look at the context.              *)
LEMMA ChargeStepOK ==
  ASSUME IInv, NEW r \in DOMAIN run, ChargeStep(r)
  PROVE  IInv'
<1>0. /\ run[r].at = "step" /\ run[r].batch = <<>> /\ UNCHANGED <<began, ran>>
      /\ Types /\ run' = At(r, "begin") /\ "begin" \in Phases
  BY DEF ChargeStep, IInv, Tree, Phases
<1>1. Moves(r, "begin", run[r].end)
  BY <1>0, AtMoves
<1>2. /\ run' \in [DOMAIN run -> RunType] /\ DOMAIN run' = DOMAIN run
      /\ \A q \in DOMAIN run :
           /\ run'[q].at = "dispatch" \/ run'[q].batch = <<>>
           /\ run'[q].end = run[q].end
           /\ \A k \in Nat : \A at : IsAt(q, k, at)' = IsAt(q, k, at)
  <2>1. \A q \in DOMAIN run : run[q].at = "dispatch" \/ run[q].batch = <<>>
    BY DEF IInv, Tree
  <2> QED BY <1>0, <1>1, <2>1 DEF Moves, IsAt, Calls
<1>3. /\ budget' \in BudgetType /\ budget'.steps = budget.steps + 1
      /\ budget'.toolCalls = budget.toolCalls /\ budget'.depth = budget.depth
  <2>1. PICK b \in BudgetType : b = budget
    BY <1>0 DEF Types
  <2>2. budget' = [b EXCEPT !.steps = b.steps + 1]
    BY <2>1 DEF ChargeStep, Step
  <2> QED BY <2>1, <2>2 DEF BudgetType
<1>4. /\ cause' \in Causes /\ (CtxDone => cause' = cause)
      /\ Reached(budget'.steps, Steps) => CtxDone'
  <2>1. Abort(IF Reached(budget'.steps, Steps) THEN <<"steps">> ELSE <<>>)
    BY DEF ChargeStep, Step
  <2>2. "steps" \in Causes \ {"none"}
    BY DEF Causes
  <2> QED BY <1>0, <2>1, <2>2, OneReason DEF Types
<1>5. Types'
  BY <1>0, <1>2, <1>3, <1>4 DEF Types
<1>6. Tree'
  BY <1>0, <1>2, TreeKept DEF IInv
<1>7. CallsCharged' /\ Depth' /\ OneCause'
  BY <1>0, <1>2, <1>3, <1>4, CallsChargedKept, DepthKept, OneCauseKept DEF IInv
<1>8. StepsCharged'
  <2>1. RunsAt("begin")' = RunsAt("begin") \cup {r} /\ r \notin RunsAt("begin")
    BY <1>0, <1>1, <1>2 DEF RunsAt, Moves
  <2>2. /\ IsFiniteSet(RunsAt("begin")) /\ Cardinality(RunsAt("begin")) \in Nat
        /\ began + Cardinality(RunsAt("begin")) <= budget.steps
    BY FS_CardinalityType DEF IInv, StepsCharged
  <2>3. IsFiniteSet(RunsAt("begin")') /\ Cardinality(RunsAt("begin")') = Cardinality(RunsAt("begin")) + 1
    BY <2>1, <2>2, FS_AddElement
  <2>4. began \in Nat /\ budget.steps \in Nat
    BY <1>0 DEF Types, BudgetType
  <2>5. began' + Cardinality(RunsAt("begin")') <= budget'.steps
    BY <1>0, <1>3, <2>2, <2>3, <2>4
  <2> QED BY <1>0, <1>4, <2>3, <2>5 DEF IInv, StepsCharged
<1> QED BY <1>5, <1>6, <1>7, <1>8 DEF IInv
(* What gets past the look was below the limit when it was charged.        *)
LEMMA BeginOK ==
  ASSUME IInv, NEW r \in DOMAIN run, Begin(r)
  PROVE  IInv'
<1>0. /\ run[r].at = "begin" /\ run[r].batch = <<>> /\ UNCHANGED <<budget, cause, ran>>
      /\ Types /\ "emit" \in Phases
  BY DEF Begin, IInv, Tree, Phases
<1>1. \E at \in {"emit", "over"}, e \in {run[r].end, "noAnswer", cause} :
        /\ Moves(r, at, e)
        /\ began' = began \/ (~CtxDone /\ began' = began + 1)
  <2>1. CASE CtxDone
    <3>1. CauseOr("canceled") \in {"noAnswer", cause} /\ CauseOr("canceled") \in Ends
      BY <1>0, <2>1, CauseIsShared DEF Types
    <3>2. End(r, CauseOr("canceled")) /\ began' = began
      BY <2>1 DEF Begin
    <3>3. Moves(r, "over", CauseOr("canceled"))
      BY <1>0, <3>1, <3>2, EndMoves
    <3> QED BY <3>1, <3>2, <3>3
  <2>2. CASE ~CtxDone
    <3>1. run' = At(r, "emit") /\ began' = began + 1
      BY <2>2 DEF Begin
    <3>2. Moves(r, "emit", run[r].end)
      BY <1>0, <3>1, AtMoves
    <3> QED BY <2>2, <3>1, <3>2
  <2> QED BY <2>1, <2>2
<1>2. PICK at \in {"emit", "over"}, e \in {run[r].end, "noAnswer", cause} :
        /\ Moves(r, at, e)
        /\ began' = began \/ (~CtxDone /\ began' = began + 1)
  BY <1>1
<1>3. /\ run' \in [DOMAIN run -> RunType] /\ DOMAIN run' = DOMAIN run
      /\ \A q \in DOMAIN run :
           /\ run'[q].at = "dispatch" \/ run'[q].batch = <<>>
           /\ run'[q].end \in {run[q].end, "none", "answer", "noAnswer", cause'}
           /\ \A k \in Nat : \A x : IsAt(q, k, x)' = IsAt(q, k, x)
  <2>1. \A q \in DOMAIN run : run[q].at = "dispatch" \/ run[q].batch = <<>>
    BY DEF IInv, Tree
  <2> QED BY <1>0, <1>2, <2>1 DEF Moves, IsAt, Calls
<1>4. began \in Nat /\ began' \in Nat /\ budget \in BudgetType /\ budget.steps \in Nat
  BY <1>0, <1>2 DEF Types, BudgetType
<1>5. Types'
  BY <1>0, <1>3, <1>4 DEF Types
<1>6. Tree'
  BY <1>0, <1>3, TreeKept DEF IInv
<1>7. CallsCharged' /\ Depth' /\ OneCause'
  BY <1>0, <1>3, CallsChargedKept, DepthKept, OneCauseKept DEF IInv
<1>8. StepsCharged'
  <2>1. RunsAt("begin")' = RunsAt("begin") \ {r} /\ r \in RunsAt("begin")
    BY <1>0, <1>2, <1>3 DEF RunsAt, Moves
  <2>2. /\ IsFiniteSet(RunsAt("begin")) /\ Cardinality(RunsAt("begin")) \in Nat
        /\ began + Cardinality(RunsAt("begin")) <= budget.steps
    BY FS_CardinalityType DEF IInv, StepsCharged
  <2>3. /\ IsFiniteSet(RunsAt("begin")') /\ Cardinality(RunsAt("begin")') \in Nat
        /\ Cardinality(RunsAt("begin")') = Cardinality(RunsAt("begin")) - 1
    BY <2>1, <2>2, FS_RemoveElement, FS_CardinalityType
  <2>4. began' + Cardinality(RunsAt("begin")') <= budget'.steps
    BY <1>0, <1>2, <1>4, <2>2, <2>3
  <2>5. Steps > 0 => began' < Steps
    <3>1. CASE CtxDone
      BY <1>2, <3>1 DEF IInv, StepsCharged
    <3>2. CASE ~CtxDone
      <4>1. Steps \in Nat
        BY LimitsAssumption
      <4>2. Steps > 0 => budget.steps < Steps
        BY <1>4, <3>2, <4>1 DEF IInv, StepsCharged, Reached
      <4> QED BY <1>0, <1>4, <2>3, <2>4, <4>1, <4>2
    <3> QED BY <3>1, <3>2
  <2> QED BY <1>0, <2>3, <2>4, <2>5 DEF IInv, StepsCharged, CtxDone
<1> QED BY <1>5, <1>6, <1>7, <1>8 DEF IInv
(* A model call is charged when it returns; its batch starts with no call  *)
(* charged or delegated.                                                   *)
LEMMA CallReturnsOK ==
  ASSUME IInv, NEW r \in DOMAIN run, CallReturns(r)
  PROVE  IInv'
<1>0. run[r].at = "call" /\ run[r].batch = <<>> /\ UNCHANGED <<began, ran>> /\ Types
  BY DEF CallReturns, IInv, Tree
<1>1. /\ budget' \in BudgetType /\ budget'.steps = budget.steps
      /\ budget'.toolCalls = budget.toolCalls /\ budget'.depth = budget.depth
  <2>1. PICK b \in BudgetType : b = budget
    BY <1>0 DEF Types
  <2>2. budget' = [b EXCEPT !.usd = b.usd + 1]
    BY <2>1 DEF CallReturns, AddCall
  <2> QED BY <2>1, <2>2 DEF BudgetType
<1>2. cause' \in Causes /\ (CtxDone => cause' = cause)
  <2>1. Abort(IF Reached(budget'.usd, CostUSD) THEN <<"budget">> ELSE <<>>)
    BY DEF CallReturns, AddCall
  <2>2. "budget" \in Causes \ {"none"}
    BY DEF Causes
  <2> QED BY <1>0, <2>1, <2>2, OneReason DEF Types
<1>3. CASE \E e \in {"answer", "noAnswer"} : End(r, e)
  <2>1. {"answer", "noAnswer"} \subseteq Ends
    BY DEF Ends
  <2>2. Undisturbed
    BY <1>0, <1>3, <2>1, EndIsQuiet
  <2> QED BY <1>0, <1>1, <1>2, <2>2, Quiet
<1>4. ASSUME NEW b \in Batches,
             run' = [run EXCEPT ![r].at = "dispatch",
                                ![r].batch = [k \in DOMAIN b |-> [tool |-> b[k], at |-> "waiting"]]]
      PROVE  Undisturbed
  <2> DEFINE s == [k \in DOMAIN b |-> [tool |-> b[k], at |-> "waiting"]]
             x == [run[r] EXCEPT !.at = "dispatch", !.batch = s]
  <2>1. b \in Seq(Tools)
    BY LimitsAssumption
  <2>2. s \in Seq(CallType) /\ DOMAIN s = DOMAIN b /\ \A k \in DOMAIN b : s[k].at = "waiting"
    <3>1. \A k \in DOMAIN b : [tool |-> b[k], at |-> "waiting"] \in CallType
      BY <2>1 DEF CallType, CallPhases
    <3>2. PICK n \in Nat : DOMAIN b = 1..n
      BY <2>1
    <3>3. s \in [1..n -> CallType]
      BY <3>1, <3>2
    <3> QED BY <3>2, <3>3
  <2> HIDE DEF s
  <2>3. x \in RunType /\ x.at = "dispatch" /\ x.batch = s /\ x.end = run[r].end
    <3>1. PICK y \in RunType : y = run[r]
      BY <1>0 DEF Types
    <3>2. "dispatch" \in Phases
      BY DEF Phases
    <3> QED BY <2>2, <3>1, <3>2 DEF RunType
  <2>4. run' = [run EXCEPT ![r] = x]
    BY <1>4 DEF s
  <2> HIDE DEF x
  <2>5. /\ run' \in [DOMAIN run -> RunType] /\ run'[r] = x
        /\ \A q \in DOMAIN run : q # r => run'[q] = run[q]
    BY <1>0, <2>3, <2>4 DEF Types
  <2>6. \A k \in Nat, at \in {"charged", "delegated"} : IsAt(r, k, at)' = IsAt(r, k, at)
    BY <1>0, <2>2, <2>3, <2>5 DEF IsAt, Calls
  <2>7. \A q \in DOMAIN run : \A k, at : q # r => IsAt(q, k, at)' = IsAt(q, k, at)
    BY <2>5 DEF IsAt, Calls
  <2>8. \A q \in DOMAIN run : run[q].at = "dispatch" \/ run[q].batch = <<>>
    BY DEF IInv, Tree
  <2> QED BY <1>0, <2>3, <2>5, <2>6, <2>7, <2>8 DEF Undisturbed
<1> QED BY <1>0, <1>1, <1>2, <1>3, <1>4, Quiet DEF CallReturns

(* A batch whose calls are all finished leaves with none delegated.        *)
LEMMA DispatchedOK ==
  ASSUME IInv, NEW r \in DOMAIN run, Dispatched(r)
  PROVE  IInv'
<1>0. /\ run[r].at = "dispatch" /\ UNCHANGED <<budget, cause, began, ran>> /\ Types
      /\ \A k \in Calls(r) : run[r].batch[k].at \in Finished
  BY DEF Dispatched, IInv
<1> DEFINE x == [run[r] EXCEPT !.at = "top", !.iter = @ + 1, !.batch = <<>>]
<1>1. x \in RunType /\ x.at = "top" /\ x.batch = <<>> /\ x.end = run[r].end
  <2>1. PICK y \in RunType : y = run[r]
    BY <1>0 DEF Types
  <2>2. "top" \in Phases /\ <<>> \in Seq(CallType)
    BY DEF Phases
  <2>3. PICK n \in Nat : x = [y EXCEPT !.at = "top", !.iter = n, !.batch = <<>>]
    <3>1. y.iter + 1 \in Nat
      BY DEF RunType
    <3> QED BY <2>1, <3>1
  <2>4. PICK s \in Seq(CallType) : s = <<>>
    BY <2>2
  <2>5. x = [y EXCEPT !.at = "top", !.iter = n, !.batch = s]
    BY <2>3, <2>4
  <2> HIDE DEF x
  <2> QED BY <2>1, <2>2, <2>4, <2>5 DEF RunType
<1>2. run' = [run EXCEPT ![r] = x]
  BY DEF Dispatched
<1> HIDE DEF x
<1>3. /\ run' \in [DOMAIN run -> RunType] /\ run'[r] = x
      /\ \A q \in DOMAIN run : q # r => run'[q] = run[q]
  BY <1>0, <1>1, <1>2 DEF Types
<1>4. \A k \in Nat, at \in {"charged", "delegated"} : ~IsAt(r, k, at)' /\ ~IsAt(r, k, at)
  BY <1>0, <1>1, <1>3 DEF IsAt, Calls, Finished
<1>5. \A q \in DOMAIN run : \A k, at : q # r => IsAt(q, k, at)' = IsAt(q, k, at)
  BY <1>3 DEF IsAt, Calls
<1>6. \A q \in DOMAIN run : run[q].at = "dispatch" \/ run[q].batch = <<>>
  BY DEF IInv, Tree
<1>7. Undisturbed
  <2> SUFFICES ASSUME NEW q \in DOMAIN run
               PROVE  /\ run'[q].at = "dispatch" \/ run'[q].batch = <<>>
                      /\ (run'[q].at = "begin") = (run[q].at = "begin")
                      /\ run'[q].end = run[q].end
                      /\ \A k \in Nat, at \in {"charged", "delegated"} : IsAt(q, k, at)' = IsAt(q, k, at)
    BY <1>3 DEF Undisturbed
  <2>1. CASE q = r
    <3>1. \A k \in Nat, at \in {"charged", "delegated"} : IsAt(r, k, at)' = IsAt(r, k, at)
      <4> SUFFICES ASSUME NEW k \in Nat, NEW at \in {"charged", "delegated"}
                   PROVE  IsAt(r, k, at)' = IsAt(r, k, at)
        OBVIOUS
      <4>1. IsAt(r, k, at)' \in BOOLEAN /\ IsAt(r, k, at) \in BOOLEAN
        BY DEF IsAt
      <4> QED BY <1>4, <4>1
    <3> QED BY <1>0, <1>1, <1>3, <2>1, <3>1
  <2>2. CASE q # r
    BY <1>3, <1>5, <1>6, <2>2
  <2> QED BY <2>1, <2>2
<1> QED BY <1>0, <1>7, QuietStep

-----------------------------------------------------------------------------
(* The calls of a batch. *)

(* What becomes of a call concerns no other call, and its run stays in     *)
(* dispatch.                                                               *)
MovedTo(r, k, at) ==
  /\ run' \in [DOMAIN run -> RunType] /\ DOMAIN run' = DOMAIN run
  /\ k \in Nat /\ run[r].at = "dispatch"
  /\ \A q \in DOMAIN run :
       /\ run'[q].at = run[q].at /\ run'[q].end = run[q].end
       /\ run'[q].at = "dispatch" \/ run'[q].batch = <<>>
       /\ \A j \in Nat : \A x :
            IsAt(q, j, x)' = (IF q = r /\ j = k THEN at = x ELSE IsAt(q, j, x))

LEMMA CallMoves ==
  ASSUME IInv, NEW r \in DOMAIN run, NEW k \in Calls(r), NEW at \in CallPhases,
         run' = CallAt(r, k, at)
  PROVE  MovedTo(r, k, at)
<1>1. Types /\ run[r].batch \in Seq(CallType)
  BY DEF IInv, Types, RunType
<1>2. k \in Nat /\ run[r].batch # <<>>
  BY <1>1 DEF Calls
<1>3. \A q \in DOMAIN run : run[q].at = "dispatch" \/ run[q].batch = <<>>
  BY DEF IInv, Tree
<1>4. /\ run' \in [DOMAIN run -> RunType]
      /\ \A q \in DOMAIN run :
           /\ run'[q].at = run[q].at /\ run'[q].end = run[q].end
           /\ q # r => run'[q].batch = run[q].batch
      /\ DOMAIN run'[r].batch = Calls(r)
      /\ \A j \in Calls(r) : run'[r].batch[j].at = (IF j = k THEN at ELSE run[r].batch[j].at)
  BY <1>1, CallAtShape
<1>5. ASSUME NEW q \in DOMAIN run, NEW j \in Nat, NEW x
      PROVE  IsAt(q, j, x)' = (IF q = r /\ j = k THEN at = x ELSE IsAt(q, j, x))
  <2>1. CASE q # r
    BY <1>4, <2>1 DEF IsAt, Calls
  <2>2. CASE q = r
    BY <1>4, <2>2 DEF IsAt, Calls
  <2> QED BY <2>1, <2>2
<1> QED BY <1>2, <1>3, <1>4, <1>5 DEF MovedTo

(* A call that is looked at, refused, answered or failed.                  *)
LEMMA CallIsQuiet ==
  ASSUME IInv, NEW r \in DOMAIN run, NEW k \in Calls(r),
         NEW at \in CallPhases \ {"charged", "delegated"},
         run[r].batch[k].at \notin {"charged", "delegated"},
         run' = CallAt(r, k, at), UNCHANGED <<budget, cause, began, ran>>
  PROVE  IInv'
<1>1. ~IsAt(r, k, "charged") /\ ~IsAt(r, k, "delegated")
  BY DEF IsAt
<1>2. /\ run' \in [DOMAIN run -> RunType]
      /\ \A q \in DOMAIN run :
           /\ run'[q].at = run[q].at /\ run'[q].end = run[q].end
           /\ run'[q].at = "dispatch" \/ run'[q].batch = <<>>
           /\ \A j \in Nat : \A x :
                IsAt(q, j, x)' = (IF q = r /\ j = k THEN at = x ELSE IsAt(q, j, x))
  <2>1. MovedTo(r, k, at)
    BY CallMoves
  <2> QED BY <2>1 DEF MovedTo
<1>3. \A q \in DOMAIN run, j \in Nat, x \in {"charged", "delegated"} : IsAt(q, j, x)' = IsAt(q, j, x)
  <2> SUFFICES ASSUME NEW q \in DOMAIN run, NEW j \in Nat, NEW x \in {"charged", "delegated"}
               PROVE  IsAt(q, j, x)' = IsAt(q, j, x)
    OBVIOUS
  <2>1. IsAt(q, j, x)' \in BOOLEAN /\ IsAt(q, j, x) \in BOOLEAN
    BY DEF IsAt
  <2> QED BY <1>1, <1>2, <2>1
<1>4. Undisturbed
  BY <1>2, <1>3 DEF Undisturbed
<1> QED BY <1>4, QuietStep

LEMMA AcquireOK ==
  ASSUME IInv, NEW r \in DOMAIN run, NEW k \in Calls(r), Acquire(r, k) \/ ToolReturns(r, k)
  PROVE  IInv'
<1>1. \E at \in CallPhases \ {"charged", "delegated"} :
        /\ run[r].batch[k].at \notin {"charged", "delegated"}
        /\ run' = CallAt(r, k, at) /\ UNCHANGED <<budget, cause, began, ran>>
  BY DEF Acquire, ToolReturns, CallPhases, Finished
<1> QED BY <1>1, CallIsQuiet
(* The charge of a tool call comes before the look at the context.         *)
LEMMA ChargeCallOK ==
  ASSUME IInv, NEW r \in DOMAIN run, NEW k \in Calls(r), ChargeCall(r, k)
  PROVE  IInv'
<1> DEFINE tool == run[r].batch[k].tool
<1>0. /\ run[r].batch[k].at = "charging" /\ UNCHANGED <<began, ran>> /\ Types
      /\ run' = CallAt(r, k, "charged") /\ "charged" \in CallPhases
  BY DEF ChargeCall, IInv, CallPhases
<1>1. /\ run' \in [DOMAIN run -> RunType] /\ DOMAIN run' = DOMAIN run /\ k \in Nat
      /\ \A q \in DOMAIN run :
           /\ run'[q].at = run[q].at /\ run'[q].end = run[q].end
           /\ run'[q].at = "dispatch" \/ run'[q].batch = <<>>
           /\ \A j \in Nat : \A x :
                IsAt(q, j, x)' = (IF q = r /\ j = k THEN "charged" = x ELSE IsAt(q, j, x))
  <2>1. MovedTo(r, k, "charged")
    BY <1>0, CallMoves
  <2> QED
    BY <2>1 DEF MovedTo
<1>2. ~IsAt(r, k, "charged") /\ ~IsAt(r, k, "delegated")
  BY <1>0 DEF IsAt
<1>3. \A q \in DOMAIN run, j \in Nat : IsAt(q, j, "delegated")' = IsAt(q, j, "delegated")
  <2> SUFFICES ASSUME NEW q \in DOMAIN run, NEW j \in Nat
               PROVE  IsAt(q, j, "delegated")' = IsAt(q, j, "delegated")
    OBVIOUS
  <2>1. IsAt(q, j, "delegated")' \in BOOLEAN /\ IsAt(q, j, "delegated") \in BOOLEAN
    BY DEF IsAt
  <2> QED BY <1>1, <1>2, <2>1
<1>4. tool \in Tools
  <2>1. run[r].batch \in Seq(CallType)
    BY <1>0 DEF Types, RunType
  <2>2. run[r].batch[k] \in CallType
    BY <2>1 DEF Calls
  <2> QED BY <2>2 DEF CallType
<1> HIDE DEF tool
<1>5. /\ budget' \in BudgetType /\ budget'.toolCalls = budget.toolCalls + 1
      /\ budget'.steps = budget.steps /\ budget'.depth = budget.depth
  <2>1. PICK b \in BudgetType : b = budget
    BY <1>0 DEF Types
  <2>2. b.repeats + 1 \in Nat /\ b.toolCalls + 1 \in Nat
    BY DEF BudgetType
  <2>3. PICK n \in Nat, m \in Nat :
          /\ m = b.toolCalls + 1
          /\ budget' = [b EXCEPT !.toolCalls = m, !.lastCall = tool, !.repeats = n]
    BY <2>1, <2>2 DEF ChargeCall, AddToolCall, tool
  <2> QED BY <1>4, <2>1, <2>3 DEF BudgetType
<1>6. /\ cause' \in Causes /\ (CtxDone => cause' = cause)
      /\ Reached(budget'.toolCalls, ToolCalls) => CtxDone'
  <2> DEFINE S == Seq(Causes \ {"none"})
             b == IF Reached(budget'.toolCalls, ToolCalls) THEN <<"toolCalls">> ELSE <<>>
             c == IF Reached(budget'.repeats, RepeatedToolCalls) THEN <<"loop">> ELSE <<>>
  <2>1. <<>> \in S /\ <<"toolCalls">> \in S /\ <<"loop">> \in S
    BY DEF Causes
  <2>2. b \in S /\ c \in S /\ (Reached(budget'.toolCalls, ToolCalls) => Len(b) = 1)
    BY <2>1
  <2>3. Abort(b \o c)
    BY DEF ChargeCall, AddToolCall
  <2> HIDE DEF b, c
  <2>4. b \o c \in S /\ (Len(b) = 1 => b \o c # <<>>)
    <3> DEFINE T == Causes \ {"none"}
    <3>1. b \in Seq(T) /\ c \in Seq(T)
      BY <2>2
    <3> HIDE DEF T
    <3>2. b \o c \in Seq(T) /\ Len(b \o c) = Len(b) + Len(c) /\ Len(c) \in Nat
      BY <3>1
    <3>3. Len(b) = 1 => b \o c # <<>>
      BY <3>2
    <3> QED BY <3>2, <3>3 DEF T
  <2> QED BY <1>0, <2>2, <2>3, <2>4, AbortOnce DEF Types
<1>7. Types'
  BY <1>0, <1>1, <1>5, <1>6 DEF Types
<1>8. Tree'
  BY <1>0, <1>1, <1>3, TreeKept DEF IInv
<1>9. StepsCharged' /\ Depth' /\ OneCause'
  BY <1>0, <1>1, <1>3, <1>5, <1>6, StepsChargedKept, DepthKept, OneCauseKept DEF IInv
<1>10. CallsCharged'
  <2>1. CallsAt("charged")' = CallsAt("charged") \cup {<<r, k>>} /\ <<r, k>> \notin CallsAt("charged")
    <3>1. /\ IsAt(r, k, "charged")'
          /\ \A q \in DOMAIN run, j \in Nat :
               (q = r /\ j = k) \/ IsAt(q, j, "charged")' = IsAt(q, j, "charged")
      BY <1>1
    <3> QED BY <1>1, <1>2, <3>1, CallsChange
  <2>2. /\ IsFiniteSet(CallsAt("charged")) /\ Cardinality(CallsAt("charged")) \in Nat
        /\ ran + Cardinality(CallsAt("charged")) <= budget.toolCalls
    BY FS_CardinalityType DEF IInv, CallsCharged
  <2>3. IsFiniteSet(CallsAt("charged")') /\ Cardinality(CallsAt("charged")') = Cardinality(CallsAt("charged")) + 1
    BY <2>1, <2>2, FS_AddElement
  <2>4. ran \in Nat /\ budget.toolCalls \in Nat
    BY <1>0 DEF Types, BudgetType
  <2>5. ran' + Cardinality(CallsAt("charged")') <= budget'.toolCalls
    BY <1>0, <1>5, <2>2, <2>3, <2>4
  <2> QED BY <1>0, <1>6, <2>3, <2>5 DEF IInv, CallsCharged
<1> QED BY <1>7, <1>8, <1>9, <1>10 DEF IInv

(* What gets past the look was below the limit when it was charged.        *)
LEMMA HandOnOK ==
  ASSUME IInv, NEW r \in DOMAIN run, NEW k \in Calls(r), HandOn(r, k)
  PROVE  IInv'
<1>0. run[r].batch[k].at = "charged" /\ UNCHANGED <<budget, cause, began>> /\ Types
  BY DEF HandOn, IInv
<1>1. PICK at \in {"refused", "handed"} :
        run' = CallAt(r, k, at) /\ (ran' = ran \/ (~CtxDone /\ ran' = ran + 1))
  BY DEF HandOn
<1>2. /\ run' \in [DOMAIN run -> RunType] /\ DOMAIN run' = DOMAIN run /\ k \in Nat
      /\ \A q \in DOMAIN run :
           /\ run'[q].at = run[q].at /\ run'[q].end = run[q].end
           /\ run'[q].at = "dispatch" \/ run'[q].batch = <<>>
           /\ \A j \in Nat : \A x :
                IsAt(q, j, x)' = (IF q = r /\ j = k THEN at = x ELSE IsAt(q, j, x))
  <2>1. at \in CallPhases
    BY DEF CallPhases, Finished
  <2>2. MovedTo(r, k, at)
    BY <1>1, <2>1, CallMoves
  <2> QED BY <2>2 DEF MovedTo
<1>3. IsAt(r, k, "charged") /\ ~IsAt(r, k, "delegated")
  BY <1>0 DEF IsAt
<1>4. \A q \in DOMAIN run, j \in Nat : IsAt(q, j, "delegated")' = IsAt(q, j, "delegated")
  <2> SUFFICES ASSUME NEW q \in DOMAIN run, NEW j \in Nat
               PROVE  IsAt(q, j, "delegated")' = IsAt(q, j, "delegated")
    OBVIOUS
  <2>1. IsAt(q, j, "delegated")' \in BOOLEAN /\ IsAt(q, j, "delegated") \in BOOLEAN
    BY DEF IsAt
  <2> QED BY <1>2, <1>3, <2>1
<1>5. ran \in Nat /\ ran' \in Nat /\ budget.toolCalls \in Nat
  BY <1>0, <1>1 DEF Types, BudgetType
<1>6. Types'
  BY <1>0, <1>2, <1>5 DEF Types
<1>7. Tree'
  BY <1>0, <1>2, <1>4, TreeKept DEF IInv
<1>8. StepsCharged' /\ Depth' /\ OneCause'
  BY <1>0, <1>2, <1>4, StepsChargedKept, DepthKept, OneCauseKept DEF IInv
<1>9. CallsCharged'
  <2>1. CallsAt("charged")' = CallsAt("charged") \ {<<r, k>>} /\ <<r, k>> \in CallsAt("charged")
    <3>1. /\ ~IsAt(r, k, "charged")'
          /\ \A q \in DOMAIN run, j \in Nat :
               (q = r /\ j = k) \/ IsAt(q, j, "charged")' = IsAt(q, j, "charged")
      BY <1>2
    <3> QED BY <1>2, <1>3, <3>1, CallsChange
  <2>2. /\ IsFiniteSet(CallsAt("charged")) /\ Cardinality(CallsAt("charged")) \in Nat
        /\ ran + Cardinality(CallsAt("charged")) <= budget.toolCalls
    BY FS_CardinalityType DEF IInv, CallsCharged
  <2>3. /\ IsFiniteSet(CallsAt("charged")') /\ Cardinality(CallsAt("charged")') \in Nat
        /\ Cardinality(CallsAt("charged")') = Cardinality(CallsAt("charged")) - 1
    BY <2>1, <2>2, FS_RemoveElement, FS_CardinalityType
  <2>4. ran' + Cardinality(CallsAt("charged")') <= budget'.toolCalls
    BY <1>0, <1>1, <1>5, <2>2, <2>3
  <2>5. ToolCalls > 0 => ran' < ToolCalls
    <3>1. CASE CtxDone
      BY <1>1, <3>1 DEF IInv, CallsCharged
    <3>2. CASE ~CtxDone
      <4>1. ToolCalls \in Nat
        BY LimitsAssumption
      <4>2. ToolCalls > 0 => budget.toolCalls < ToolCalls
        BY <1>5, <3>2, <4>1 DEF IInv, CallsCharged, Reached
      <4> QED BY <1>0, <1>5, <2>3, <2>4, <4>1, <4>2
    <3> QED BY <3>1, <3>2
  <2> QED BY <1>0, <2>3, <2>4, <2>5 DEF IInv, CallsCharged, CtxDone
<1> QED BY <1>6, <1>7, <1>8, <1>9 DEF IInv
-----------------------------------------------------------------------------
(* Paths in the tree. *)

LEMMA ChildPath ==
  ASSUME NEW r \in Seq(Nat), NEW k \in Nat, NEW b \in Nat, NEW c, c = r \o <<k, b>>
  PROVE  /\ c \in Seq(Nat) /\ Len(c) = Len(r) + 2 /\ c[Len(r) + 1] = k
         /\ \A i \in 0..Len(r) : SubSeq(c, 1, i) = SubSeq(r, 1, i)
         /\ \A i \in 1..Len(r) : c[i] = r[i]
         /\ SubSeq(c, 1, Len(r)) = r
OBVIOUS

LEMMA IsChild ==
  ASSUME NEW c \in Seq(Nat), NEW r \in Seq(Nat), NEW k \in Nat, Len(c) = Len(r) + 2
  PROVE  SubSeq(c, 1, Len(r) + 1) = Append(r, k) <=> SubSeq(c, 1, Len(r)) = r /\ c[Len(r) + 1] = k
<1> DEFINE n == Len(r)
           s == SubSeq(c, 1, n + 1)
           a == Append(r, k)
           t == SubSeq(c, 1, n)
<1>1. /\ n \in Nat /\ Len(c) = n + 2
      /\ s \in Seq(Nat) /\ Len(s) = n + 1 /\ \A i \in 1..(n + 1) : s[i] = c[i]
      /\ a \in Seq(Nat) /\ Len(a) = n + 1 /\ a[n + 1] = k /\ \A i \in 1..n : a[i] = r[i]
      /\ t \in Seq(Nat) /\ Len(t) = n /\ \A i \in 1..n : t[i] = c[i]
      /\ Len(r) = n
  OBVIOUS
<1> HIDE DEF s, a, t, n
<1>2. ASSUME s = a PROVE t = r /\ c[n + 1] = k
  <2>1. \A i \in 1..n : t[i] = r[i]
    BY <1>1, <1>2
  <2>2. c[n + 1] = k
    BY <1>1, <1>2
  <2> QED BY <1>1, <2>1, <2>2, SeqEqual
<1>3. ASSUME t = r, c[n + 1] = k PROVE s = a
  <2>1. \A i \in 1..n : s[i] = a[i]
    BY <1>1, <1>3
  <2>2. s[n + 1] = a[n + 1]
    BY <1>1, <1>3
  <2>3. \A i \in 1..(n + 1) : i \in 1..n \/ i = n + 1
    BY <1>1
  <2>4. \A i \in 1..Len(s) : s[i] = a[i]
    BY <1>1, <2>1, <2>2, <2>3
  <2> QED BY <1>1, <2>4, SeqEqual
<1> QED BY <1>2, <1>3 DEF s, a, t, n

LEMMA PrefixPath ==
  ASSUME NEW d \in Seq(Nat), NEW i \in Nat, NEW j \in Nat, i < j, j <= Len(d), NEW e, e = SubSeq(d, 1, j)
  PROVE  /\ e \in Seq(Nat) /\ Len(e) = j /\ e[i + 1] = d[i + 1]
         /\ SubSeq(e, 1, i) = SubSeq(d, 1, i)
         /\ Len(SubSeq(d, 1, i)) = i /\ SubSeq(d, 1, i) \in Seq(Nat)
         /\ j = Len(d) => e = d
OBVIOUS
(* A run is no deeper than the delegations that are open: its ancestors'   *)
(* calls are among them, all different.                                    *)
LEMMA OpenAboveEach ==
  ASSUME Types, Tree, IsFiniteSet(CallsAt("delegated")), NEW r \in DOMAIN run
  PROVE  Level(r) \in Nat /\ Level(r) <= Cardinality(CallsAt("delegated"))
<1>1. PICK n \in Nat : Len(r) = 2 * n
  BY DEF Tree
<1>2. r \in Seq(Nat) /\ Level(r) = n
  BY <1>1 DEF Types, Level
<1> DEFINE f == [i \in 0..(n - 1) |-> <<SubSeq(r, 1, 2 * i), r[2 * i + 1]>>]
<1>3. ASSUME NEW i \in 0..(n - 1) PROVE f[i] \in CallsAt("delegated")
  <2>1. i \in Nat /\ 2 * i < Len(r) /\ r[2 * i + 1] \in Nat
    BY <1>1, <1>2
  <2> QED BY <2>1 DEF Tree, CallsAt
<1>4. ASSUME NEW i \in 0..(n - 1), NEW j \in 0..(n - 1), f[i] = f[j] PROVE i = j
  <2>1. SubSeq(r, 1, 2 * i) = SubSeq(r, 1, 2 * j)
    BY <1>4
  <2>2. Len(SubSeq(r, 1, 2 * i)) = 2 * i /\ Len(SubSeq(r, 1, 2 * j)) = 2 * j
    BY <1>1, <1>2
  <2> QED BY <2>1, <2>2
<1>5. f \in Injection(0..(n - 1), CallsAt("delegated"))
  <2>1. f \in [0..(n - 1) -> CallsAt("delegated")]
    BY <1>3
  <2> HIDE DEF f
  <2> QED BY <1>4, <2>1 DEF Injection, IsInjective
<1> HIDE DEF f
<1>6. Cardinality(0..(n - 1)) <= Cardinality(CallsAt("delegated"))
  BY <1>5, FS_Injection
<1>7. Cardinality(0..(n - 1)) = n
  BY FS_Interval
<1> QED BY <1>2, <1>6, <1>7

(* A delegation opens below the depth cap, and its runs hang from a call   *)
(* that is delegated.                                                      *)
LEMMA DelegateOK ==
  ASSUME IInv, NEW r \in DOMAIN run, NEW k \in Calls(r), Delegate(r, k)
  PROVE  IInv'
<1> DEFINE tasks == {r \o <<k, b>> : b \in 1..TasksOf(run[r].batch[k].tool)}
           old == CallAt(r, k, "delegated")
<1>0. /\ run[r].batch[k].at = "handed" /\ UNCHANGED <<cause, began, ran>> /\ Types
      /\ {"delegated", "tooDeep"} \subseteq CallPhases /\ "queued" \in Phases
      /\ r \in Seq(Nat) /\ Len(r) \in Nat
  BY DEF Delegate, IInv, Types, CallPhases, Finished, Phases
<1>1. CASE run' = CallAt(r, k, "tooDeep") /\ UNCHANGED budget
  <2>1. "tooDeep" \in CallPhases \ {"charged", "delegated"}
    BY <1>0
  <2>2. run[r].batch[k].at \notin {"charged", "delegated"}
    BY <1>0
  <2> QED BY <1>0, <1>1, <2>1, <2>2, CallIsQuiet
<1>2. CASE /\ MayEnter /\ EnterSubagent
           /\ run' = [c \in DOMAIN run \cup tasks |-> IF c \in tasks THEN NewRun("queued") ELSE old[c]]
  <2>1. /\ k \in Nat /\ run[r].batch \in Seq(CallType)
        /\ \A q \in DOMAIN run : run[q].at = "dispatch" \/ run[q].batch = <<>>
        /\ run[r].at = "dispatch"
    <3>1. run[r].batch \in Seq(CallType)
      BY <1>0 DEF Types, RunType
    <3>2. k \in DOMAIN run[r].batch
      BY DEF Calls
    <3>3. k \in Nat /\ run[r].batch # <<>>
      BY <3>1, <3>2
    <3> QED BY <3>1, <3>3 DEF IInv, Tree
  <2>2. \A c \in tasks : \E b \in Nat : c = r \o <<k, b>>
    <3>1. run[r].batch[k] \in CallType
      BY <2>1 DEF Calls
    <3>2. TasksOf(run[r].batch[k].tool) \in Nat
      BY <3>1, LimitsAssumption DEF CallType, TasksOf, Tools
    <3> DEFINE N == TasksOf(run[r].batch[k].tool)
    <3>3. \A b \in 1..N : b \in Nat
      BY <3>2
    <3> HIDE DEF N
    <3> QED BY <3>3, Zenon DEF N
  <2>3. \A c \in tasks :
          /\ c \in Seq(Nat) /\ Len(c) = Len(r) + 2 /\ c[Len(r) + 1] = k
          /\ \A i \in 0..Len(r) : SubSeq(c, 1, i) = SubSeq(r, 1, i)
          /\ \A i \in 1..Len(r) : c[i] = r[i]
          /\ SubSeq(c, 1, Len(r)) = r
    <3> SUFFICES ASSUME NEW c \in tasks
                 PROVE  /\ c \in Seq(Nat) /\ Len(c) = Len(r) + 2 /\ c[Len(r) + 1] = k
                        /\ \A i \in 0..Len(r) : SubSeq(c, 1, i) = SubSeq(r, 1, i)
                        /\ \A i \in 1..Len(r) : c[i] = r[i]
                        /\ SubSeq(c, 1, Len(r)) = r
      OBVIOUS
    <3>1. PICK b \in Nat : c = r \o <<k, b>>
      BY <2>2
    <3> HIDE DEF tasks
    <3> QED BY <1>0, <2>1, <3>1, ChildPath
  <2> HIDE DEF tasks
  <2>4. \A c \in DOMAIN run : c \notin tasks
    <3> SUFFICES ASSUME NEW c \in DOMAIN run, c \in tasks PROVE FALSE
      OBVIOUS
    <3>1. PICK n \in Nat : Len(r) = 2 * n
      BY DEF IInv, Tree
    <3>2. Len(c) = 2 * n + 2 /\ SubSeq(c, 1, 2 * n) = r /\ c[2 * n + 1] = k /\ 2 * n < Len(c)
      BY <2>3, <3>1
    <3>3. IsAt(r, k, "delegated")
      BY <3>2 DEF IInv, Tree
    <3> QED BY <1>0, <3>3 DEF IsAt
  <2>5. /\ old \in [DOMAIN run -> RunType]
        /\ \A q \in DOMAIN run :
             /\ old[q].at = run[q].at /\ old[q].end = run[q].end
             /\ q # r => old[q].batch = run[q].batch
        /\ DOMAIN old[r].batch = Calls(r)
        /\ \A j \in Calls(r) : old[r].batch[j].at = (IF j = k THEN "delegated" ELSE run[r].batch[j].at)
    BY <1>0, CallAtShape
  <2> HIDE DEF old
  <2>6. /\ DOMAIN run' = DOMAIN run \cup tasks
        /\ \A q \in DOMAIN run : run'[q] = old[q]
        /\ \A c \in tasks : run'[c] = NewRun("queued")
    BY <1>2, <2>4
  <2>7. /\ NewRun("queued") \in RunType /\ NewRun("queued").at = "queued"
        /\ NewRun("queued").batch = <<>> /\ NewRun("queued").end = "none"
    <3>1. <<>> \in Seq(CallType) /\ FALSE \in BOOLEAN /\ 1 \in Nat /\ "none" \in Ends
      BY DEF Ends, Causes
    <3> QED BY <1>0, <3>1 DEF NewRun, RunType
  <2>8. /\ IsAt(r, k, "delegated")' /\ ~IsAt(r, k, "charged")'
        /\ \A q \in DOMAIN run, j \in Nat : \A x :
             (q = r /\ j = k) \/ IsAt(q, j, x)' = IsAt(q, j, x)
    <3>1. \A j, x : j = k \/ IsAt(r, j, x)' = IsAt(r, j, x)
      BY <2>5, <2>6 DEF IsAt, Calls
    <3>2. \A q \in DOMAIN run : \A j, x : q = r \/ IsAt(q, j, x)' = IsAt(q, j, x)
      BY <2>5, <2>6 DEF IsAt, Calls
    <3>3. IsAt(r, k, "delegated")' /\ ~IsAt(r, k, "charged")'
      BY <2>5, <2>6 DEF IsAt, Calls
    <3> QED BY <3>1, <3>2, <3>3
  <2>9. \A c \in tasks, j \in Nat : \A x : ~IsAt(c, j, x)'
    BY <2>6, <2>7 DEF IsAt, Calls
  <2>10. budget' \in BudgetType /\ budget'.depth = budget.depth + 1
         /\ budget'.steps = budget.steps /\ budget'.toolCalls = budget.toolCalls
    <3>1. PICK b \in BudgetType : b = budget
      BY <1>0 DEF Types
    <3>2. PICK n \in Nat : n = b.depth + 1
      BY DEF BudgetType
    <3>3. budget' = [b EXCEPT !.depth = n]
      BY <1>2, <3>1, <3>2 DEF EnterSubagent
    <3> QED BY <3>1, <3>2, <3>3 DEF BudgetType
  <2>11. Types'
    <3>1. \A c \in DOMAIN run' : c \in Seq(Nat) /\ run'[c] \in RunType
      BY <1>0, <2>3, <2>5, <2>6, <2>7 DEF Types
    <3>2. run' \in [DOMAIN run' -> RunType]
      BY <1>2, <3>1
    <3>3. Root \in DOMAIN run'
      BY <1>0, <2>6 DEF Types
    <3> QED BY <1>0, <2>10, <3>1, <3>2, <3>3 DEF Types
  <2>12. Tree'
    <3> SUFFICES ASSUME NEW q \in DOMAIN run'
                 PROVE  /\ run'[q].at = "dispatch" \/ run'[q].batch = <<>>
                        /\ \E n \in Nat : Len(q) = 2 * n
                        /\ \A i \in Nat : 2 * i < Len(q) =>
                             /\ SubSeq(q, 1, 2 * i) \in DOMAIN run'
                             /\ IsAt(SubSeq(q, 1, 2 * i), q[2 * i + 1], "delegated")'
      BY DEF Tree
    <3>1. \A p \in DOMAIN run, j \in Nat : IsAt(p, j, "delegated") => IsAt(p, j, "delegated")'
      BY <2>8
    <3>2. \A p \in DOMAIN run, i \in Nat : 2 * i < Len(p) =>
            /\ SubSeq(p, 1, 2 * i) \in DOMAIN run' /\ p[2 * i + 1] \in Nat
            /\ IsAt(SubSeq(p, 1, 2 * i), p[2 * i + 1], "delegated")'
      <4> SUFFICES ASSUME NEW p \in DOMAIN run, NEW i \in Nat, 2 * i < Len(p)
                   PROVE  /\ SubSeq(p, 1, 2 * i) \in DOMAIN run' /\ p[2 * i + 1] \in Nat
                          /\ IsAt(SubSeq(p, 1, 2 * i), p[2 * i + 1], "delegated")'
        OBVIOUS
      <4>1. p \in Seq(Nat) /\ p[2 * i + 1] \in Nat
        BY <1>0 DEF Types
      <4>2. SubSeq(p, 1, 2 * i) \in DOMAIN run /\ IsAt(SubSeq(p, 1, 2 * i), p[2 * i + 1], "delegated")
        BY DEF IInv, Tree
      <4> QED BY <2>6, <3>1, <4>1, <4>2
    <3>3. CASE q \in DOMAIN run
      <4>1. run'[q].at = "dispatch" \/ run'[q].batch = <<>>
        BY <2>1, <2>5, <2>6, <3>3
      <4>2. \E n \in Nat : Len(q) = 2 * n
        BY <3>3 DEF IInv, Tree
      <4> QED BY <3>2, <3>3, <4>1, <4>2
    <3>4. CASE q \in tasks
      <4>1. PICK n \in Nat : Len(r) = 2 * n
        BY DEF IInv, Tree
      <4>2. run'[q].batch = <<>> /\ Len(q) = 2 * (n + 1)
        BY <2>3, <2>6, <2>7, <3>4, <4>1
      <4>3. ASSUME NEW i \in Nat, 2 * i < Len(q)
            PROVE  /\ SubSeq(q, 1, 2 * i) \in DOMAIN run'
                   /\ IsAt(SubSeq(q, 1, 2 * i), q[2 * i + 1], "delegated")'
        <5>1. CASE i = n
          <6>1. SubSeq(q, 1, 2 * i) = r /\ q[2 * i + 1] = k
            BY <2>3, <3>4, <4>1, <5>1
          <6> QED BY <2>6, <2>8, <6>1
        <5>2. CASE i < n
          <6>1. 2 * i \in 0..Len(r) /\ 2 * i + 1 \in 1..Len(r) /\ 2 * i < Len(r)
            BY <4>1, <5>2
          <6>2. SubSeq(q, 1, 2 * i) = SubSeq(r, 1, 2 * i) /\ q[2 * i + 1] = r[2 * i + 1]
            BY <2>3, <3>4, <6>1
          <6> QED BY <3>2, <6>1, <6>2
        <5> QED BY <4>2, <4>3, <5>1, <5>2
      <4>4. n + 1 \in Nat
        OBVIOUS
      <4> QED BY <4>2, <4>3, <4>4
    <3> QED BY <2>6, <3>3, <3>4
  <2>13. /\ CallsAt("delegated")' = CallsAt("delegated") \cup {<<r, k>>}
         /\ <<r, k>> \notin CallsAt("delegated")
         /\ CallsAt("charged")' = CallsAt("charged")
    <3>1. ~IsAt(r, k, "delegated") /\ ~IsAt(r, k, "charged")
      BY <1>0 DEF IsAt
    <3>2. ASSUME NEW x, NEW q \in DOMAIN run \cup DOMAIN run', NEW j \in Nat
          PROVE  \/ q = r /\ j = k
                 \/ (q \in DOMAIN run' /\ IsAt(q, j, x)') <=> (q \in DOMAIN run /\ IsAt(q, j, x))
      BY <2>4, <2>6, <2>8, <2>9
    <3>3. r \in DOMAIN run'
      BY <2>6
    <3>4. ASSUME NEW x
          PROVE  /\ IsAt(r, k, x)' => CallsAt(x)' = CallsAt(x) \cup {<<r, k>>}
                 /\ ~IsAt(r, k, x)' => CallsAt(x)' = CallsAt(x) \ {<<r, k>>}
                 /\ IsAt(r, k, x) <=> <<r, k>> \in CallsAt(x)
      BY <2>1, <3>2, <3>3, CallsChange
    <3>5. CallsAt("delegated")' = CallsAt("delegated") \cup {<<r, k>>}
      BY <2>8, <3>4
    <3>6. CallsAt("charged")' = CallsAt("charged") \ {<<r, k>>}
      BY <2>8, <3>4
    <3>7. <<r, k>> \notin CallsAt("charged") /\ <<r, k>> \notin CallsAt("delegated")
      BY <3>1, <3>4
    <3> QED BY <3>5, <3>6, <3>7
  <2>14. CallsCharged'
    BY <1>0, <2>10, <2>13 DEF IInv, CallsCharged, CtxDone
  <2>15. StepsCharged'
    <3>1. RunsAt("begin")' = RunsAt("begin")
      BY <2>4, <2>5, <2>6, <2>7 DEF RunsAt
    <3> QED BY <1>0, <2>10, <3>1 DEF IInv, StepsCharged, CtxDone
  <2>16. OneCause'
    BY <1>0, <2>5, <2>6, <2>7 DEF IInv, OneCause
  <2>17. Depth'
    <3>1. IsFiniteSet(CallsAt("delegated")) /\ budget.depth = Cardinality(CallsAt("delegated"))
      BY DEF IInv, Depth
    <3>2. IsFiniteSet(CallsAt("delegated")') /\ budget'.depth = Cardinality(CallsAt("delegated")')
      BY <2>10, <2>13, <3>1, FS_AddElement
    <3>3. ASSUME SubagentDepth > 0, NEW q \in DOMAIN run' PROVE Level(q) <= SubagentDepth
      <4>1. CASE q \in DOMAIN run
        BY <3>3, <4>1 DEF IInv, Depth
      <4>2. CASE q \in tasks
        <5>1. PICK n \in Nat : Len(r) = 2 * n
          BY DEF IInv, Tree
        <5>2. Level(r) = n /\ Level(q) = n + 1
          <6>1. Len(q) = 2 * (n + 1)
            BY <2>3, <4>2, <5>1
          <6> QED BY <5>1, <6>1 DEF Level
        <5>3. budget.depth \in Nat /\ SubagentDepth \in Nat
          BY <1>0, LimitsAssumption DEF Types, BudgetType
        <5>4. budget.depth < SubagentDepth
          BY <1>2, <3>3, <5>3 DEF MayEnter, Reached
        <5>5. Level(r) <= budget.depth
          BY <3>1, OpenAboveEach DEF IInv
        <5> QED BY <5>2, <5>3, <5>4, <5>5
      <4> QED BY <2>6, <4>1, <4>2
    <3> QED BY <3>2, <3>3 DEF Depth
  <2> QED BY <2>11, <2>12, <2>14, <2>15, <2>16, <2>17 DEF IInv
<1> QED BY <1>1, <1>2 DEF Delegate
(* A delegation closes when all its runs are joined; none of them has a    *)
(* call of its own left, so nothing hangs below what is forgotten.         *)
LEMMA JoinOK ==
  ASSUME IInv, NEW r \in DOMAIN run, NEW k \in Calls(r), JoinAll(r, k)
  PROVE  IInv'
<1> DEFINE kids == Children(r, k)
<1>0. /\ run[r].batch[k].at = "delegated" /\ UNCHANGED <<cause, began, ran>> /\ Types
      /\ \A c \in kids : run[c].at = "joined"
      /\ r \in Seq(Nat) /\ Len(r) \in Nat
      /\ ExitSubagent
  BY DEF JoinAll, Join, IInv, Types
<1>1. PICK at \in {"failed", "ok"} :
        run' = [d \in DOMAIN run \ kids |-> CallAt(r, k, at)[d]]
  BY DEF JoinAll, Join
<1>2. at \in CallPhases
  BY DEF CallPhases, Finished
<1> DEFINE old == CallAt(r, k, at)
<1>3. /\ old \in [DOMAIN run -> RunType]
      /\ \A q \in DOMAIN run :
           /\ old[q].at = run[q].at /\ old[q].end = run[q].end
           /\ q # r => old[q].batch = run[q].batch
      /\ DOMAIN old[r].batch = Calls(r)
      /\ \A j \in Calls(r) : old[r].batch[j].at = (IF j = k THEN at ELSE run[r].batch[j].at)
  BY <1>0, <1>2, CallAtShape
<1>4. /\ k \in Nat /\ run[r].at = "dispatch"
      /\ \A q \in DOMAIN run : run[q].at = "dispatch" \/ run[q].batch = <<>>
  <2>1. run[r].batch \in Seq(CallType)
    BY <1>0 DEF Types, RunType
  <2>2. k \in DOMAIN run[r].batch
    BY DEF Calls
  <2>3. k \in Nat /\ run[r].batch # <<>>
    BY <2>1, <2>2
  <2> QED BY <2>3 DEF IInv, Tree
<1>5. /\ kids \subseteq DOMAIN run
      /\ \A c \in kids : Len(c) = Len(r) + 2 /\ run[c].batch = <<>>
      /\ \A c \in DOMAIN run : Len(c) = Len(r) + 2 /\ SubSeq(c, 1, Len(r)) = r /\ c[Len(r) + 1] = k
           => c \in kids
  <2>1. kids \subseteq DOMAIN run /\ \A c \in kids : Len(c) = Len(r) + 2
    BY DEF Children
  <2>2. \A c \in kids : run[c].batch = <<>>
    BY <1>0, <1>4, <2>1
  <2>3. ASSUME NEW c \in DOMAIN run, Len(c) = Len(r) + 2, SubSeq(c, 1, Len(r)) = r, c[Len(r) + 1] = k
        PROVE  c \in kids
    <3>1. c \in Seq(Nat)
      BY <1>0 DEF Types
    <3>2. SubSeq(c, 1, Len(r) + 1) = Append(r, k)
      BY <1>0, <1>4, <2>3, <3>1, IsChild
    <3> QED BY <2>3, <3>2 DEF Children
  <2> QED BY <2>1, <2>2, <2>3
<1>6. r \notin kids /\ Root \notin kids
  BY <1>0, <1>5 DEF Root
<1> HIDE DEF kids, old
<1>7. /\ DOMAIN run' = DOMAIN run \ kids
      /\ \A q \in DOMAIN run' : q \in DOMAIN run /\ run'[q] = old[q]
  BY <1>1 DEF old
<1>8. /\ ~IsAt(r, k, "delegated")' /\ ~IsAt(r, k, "charged")' /\ r \in DOMAIN run'
      /\ \A q \in DOMAIN run', j \in Nat : \A x :
           (q = r /\ j = k) \/ (IsAt(q, j, x)' <=> IsAt(q, j, x))
  <2>1. r \in DOMAIN run'
    BY <1>6, <1>7
  <2>2. \A j, x : j = k \/ (IsAt(r, j, x)' <=> IsAt(r, j, x))
    BY <1>3, <1>7, <2>1 DEF IsAt, Calls
  <2>3. \A q \in DOMAIN run' : \A j, x : q = r \/ (IsAt(q, j, x)' <=> IsAt(q, j, x))
    BY <1>3, <1>7 DEF IsAt, Calls
  <2>4. ~IsAt(r, k, "delegated")' /\ ~IsAt(r, k, "charged")'
    BY <1>3, <1>7, <2>1 DEF IsAt, Calls
  <2> QED BY <2>1, <2>2, <2>3, <2>4
<1>9. \A c \in kids : \A j, x : ~IsAt(c, j, x)
  BY <1>5 DEF IsAt, Calls
<1>10. IsAt(r, k, "delegated") /\ ~IsAt(r, k, "charged")
  BY <1>0 DEF IsAt
<1>11. /\ CallsAt("delegated")' = CallsAt("delegated") \ {<<r, k>>}
       /\ <<r, k>> \in CallsAt("delegated")
       /\ CallsAt("charged")' = CallsAt("charged")
  <2>1. ASSUME NEW x, NEW q \in DOMAIN run \cup DOMAIN run', NEW j \in Nat
        PROVE  \/ q = r /\ j = k
               \/ (q \in DOMAIN run' /\ IsAt(q, j, x)') <=> (q \in DOMAIN run /\ IsAt(q, j, x))
    BY <1>7, <1>8, <1>9
  <2>2. ASSUME NEW x
        PROVE  /\ ~IsAt(r, k, x)' => CallsAt(x)' = CallsAt(x) \ {<<r, k>>}
               /\ IsAt(r, k, x) <=> <<r, k>> \in CallsAt(x)
    BY <1>4, <1>8, <2>1, CallsChange
  <2>3. CallsAt("delegated")' = CallsAt("delegated") \ {<<r, k>>}
    BY <1>8, <2>2
  <2>4. CallsAt("charged")' = CallsAt("charged") \ {<<r, k>>}
    BY <1>8, <2>2
  <2>5. <<r, k>> \notin CallsAt("charged") /\ <<r, k>> \in CallsAt("delegated")
    BY <1>10, <2>2
  <2> QED BY <2>3, <2>4, <2>5
<1>12. /\ IsFiniteSet(CallsAt("delegated")) /\ budget.depth = Cardinality(CallsAt("delegated"))
       /\ IsFiniteSet(CallsAt("delegated")')
       /\ Cardinality(CallsAt("delegated")') = Cardinality(CallsAt("delegated")) - 1
       /\ Cardinality(CallsAt("delegated")') \in Nat
  <2>1. IsFiniteSet(CallsAt("delegated")) /\ budget.depth = Cardinality(CallsAt("delegated"))
    BY DEF IInv, Depth
  <2> QED BY <1>11, <2>1, FS_RemoveElement, FS_CardinalityType
<1>13. /\ budget' \in BudgetType /\ budget'.depth = Cardinality(CallsAt("delegated")')
       /\ budget'.steps = budget.steps /\ budget'.toolCalls = budget.toolCalls
  <2>1. PICK b \in BudgetType : b = budget
    BY <1>0 DEF Types
  <2>2. b.depth > 0 /\ b.depth - 1 = Cardinality(CallsAt("delegated")')
    BY <1>12, <2>1 DEF BudgetType
  <2>3. budget' = [b EXCEPT !.depth = b.depth - 1]
    BY <1>0, <2>1, <2>2 DEF ExitSubagent
  <2>4. PICK n \in Nat : n = b.depth - 1
    BY <1>12, <2>2
  <2> QED BY <2>1, <2>2, <2>3, <2>4 DEF BudgetType
<1>14. Types'
  <2>1. run' \in [DOMAIN run' -> RunType]
    BY <1>1, <1>3, <1>7 DEF old
  <2> QED BY <1>0, <1>6, <1>7, <1>13, <2>1 DEF Types
<1>15. Tree'
  <2> SUFFICES ASSUME NEW q \in DOMAIN run'
               PROVE  /\ run'[q].at = "dispatch" \/ run'[q].batch = <<>>
                      /\ \E n \in Nat : Len(q) = 2 * n
                      /\ \A i \in Nat : 2 * i < Len(q) =>
                           /\ SubSeq(q, 1, 2 * i) \in DOMAIN run'
                           /\ IsAt(SubSeq(q, 1, 2 * i), q[2 * i + 1], "delegated")'
    BY DEF Tree
  <2>1. q \in DOMAIN run /\ q \in Seq(Nat)
    BY <1>0, <1>7 DEF Types
  <2>2. run'[q].at = "dispatch" \/ run'[q].batch = <<>>
    BY <1>3, <1>4, <1>7
  <2>3. PICK n \in Nat : Len(q) = 2 * n
    BY <2>1 DEF IInv, Tree
  <2>4. ASSUME NEW i \in Nat, 2 * i < Len(q)
        PROVE  /\ SubSeq(q, 1, 2 * i) \in DOMAIN run'
               /\ IsAt(SubSeq(q, 1, 2 * i), q[2 * i + 1], "delegated")'
    <3> DEFINE p == SubSeq(q, 1, 2 * i)
               j == q[2 * i + 1]
    <3>1. p \in DOMAIN run /\ IsAt(p, j, "delegated") /\ j \in Nat
      BY <2>1, <2>4 DEF IInv, Tree
    <3>2. p \in DOMAIN run'
      BY <1>7, <1>9, <3>1
    <3>3. ~(p = r /\ j = k)
      <4> SUFFICES ASSUME p = r, j = k PROVE FALSE
        OBVIOUS
      <4> DEFINE e == SubSeq(q, 1, 2 * i + 2)
      <4>1. 2 * i + 2 <= Len(q) /\ 2 * i \in Nat /\ 2 * i + 2 \in Nat
        BY <2>3, <2>4
      <4>2. /\ e \in Seq(Nat) /\ Len(e) = 2 * i + 2 /\ e[2 * i + 1] = k
            /\ SubSeq(e, 1, 2 * i) = r /\ Len(r) = 2 * i
            /\ 2 * i + 2 = Len(q) => e = q
        BY <2>1, <4>1, PrefixPath
      <4>3. e \in DOMAIN run
        <5>1. CASE 2 * i + 2 = Len(q)
          BY <2>1, <4>2, <5>1
        <5>2. CASE 2 * i + 2 < Len(q)
          <6>1. i + 1 \in Nat /\ 2 * (i + 1) = 2 * i + 2
            OBVIOUS
          <6> QED BY <2>1, <5>2, <6>1 DEF IInv, Tree
        <5> QED BY <2>1, <4>1, <5>1, <5>2
      <4> HIDE DEF e
      <4>4. e \in kids
        BY <1>5, <4>2, <4>3
      <4>5. CASE 2 * i + 2 = Len(q)
        BY <1>7, <4>2, <4>4, <4>5
      <4>6. CASE 2 * i + 2 < Len(q)
        <5>1. i + 1 \in Nat /\ 2 * (i + 1) = 2 * i + 2
          OBVIOUS
        <5>2. IsAt(e, q[2 * (i + 1) + 1], "delegated")
          BY <2>1, <4>6, <5>1 DEF IInv, Tree, e
        <5> QED BY <1>9, <4>4, <5>2
      <4> QED BY <2>1, <4>1, <4>5, <4>6
    <3> QED BY <1>8, <3>1, <3>2, <3>3
  <2> QED BY <2>2, <2>3, <2>4
<1>16. CallsCharged'
  BY <1>0, <1>11, <1>13 DEF IInv, CallsCharged, CtxDone
<1>17. StepsCharged'
  <2>1. RunsAt("begin")' = RunsAt("begin")
    BY <1>0, <1>3, <1>7 DEF RunsAt
  <2> QED BY <1>0, <1>13, <2>1 DEF IInv, StepsCharged, CtxDone
<1>18. OneCause'
  BY <1>0, <1>3, <1>7 DEF IInv, OneCause
<1>19. Depth'
  BY <1>7, <1>12, <1>13 DEF IInv, Depth
<1> QED BY <1>14, <1>15, <1>16, <1>17, <1>18, <1>19 DEF IInv
-----------------------------------------------------------------------------
(* The environment, and every step. *)

LEMMA StillIsQuiet ==
  ASSUME IInv, UNCHANGED run
  PROVE  Undisturbed
<1>1. /\ \A q \in DOMAIN run : run[q].at = "dispatch" \/ run[q].batch = <<>>
      /\ run \in [DOMAIN run -> RunType]
  BY DEF IInv, Tree, Types
<1>2. \A q, k, at : IsAt(q, k, at)' = IsAt(q, k, at)
  BY DEF IsAt, Calls
<1> QED BY <1>1, <1>2 DEF Undisturbed

LEMMA OutsideOK ==
  ASSUME IInv, WallClock \/ Abandon \/ Close \/ UNCHANGED vars
  PROVE  IInv'
<1>1. UNCHANGED <<run, budget, began, ran>> /\ Types
  BY DEF WallClock, Abandon, Close, vars, IInv
<1>2. cause' \in Causes /\ (CtxDone => cause' = cause)
  BY <1>1 DEF WallClock, Abandon, Close, vars, Abort, Causes, Types
<1>3. budget' \in BudgetType /\ Undisturbed
  BY <1>1, StillIsQuiet DEF Types
<1> QED BY <1>1, <1>2, <1>3, Quiet

LEMMA NextOK ==
  ASSUME IInv, [Next]_vars
  PROVE  IInv'
<1>1. CASE Work
  <2>1. PICK r \in DOMAIN run : RunSteps(r)
    BY <1>1 DEF Work
  <2>2. CASE Top(r)
    BY <2>2, TopOK
  <2>3. CASE ChargeStep(r)
    BY <2>3, ChargeStepOK
  <2>4. CASE Begin(r)
    BY <2>4, BeginOK
  <2>5. CASE CallFails(r)
    BY <2>5, CallFailsOK
  <2>6. CASE CallReturns(r)
    BY <2>6, CallReturnsOK
  <2>7. CASE Dispatched(r)
    BY <2>7, DispatchedOK
  <2>8. CASE EmitIter(r) \/ StartBranch(r) \/ EmitStart(r) \/ EmitEnd(r)
    BY <2>8, EmitsOK
  <2>9. CASE Forward(r)
    BY <2>9, ForwardOK
  <2>10. ASSUME NEW k \in Calls(r), CallSteps(r, k) PROVE IInv'
    BY <2>10, AcquireOK, ChargeCallOK, HandOnOK, DelegateOK, JoinOK DEF CallSteps
  <2> QED BY <2>1, <2>2, <2>3, <2>4, <2>5, <2>6, <2>7, <2>8, <2>9, <2>10 DEF RunSteps
<1>2. CASE WallClock \/ Abandon \/ Close \/ UNCHANGED vars
  BY <1>2, OutsideOK
<1> QED BY <1>1, <1>2 DEF Next

LEMMA Invariance == Spec => []IInv
<1>1. Init => IInv
  BY InitOK
<1>2. IInv /\ [Next]_vars => IInv'
  BY NextOK
<1> QED BY <1>1, <1>2, PTL DEF Spec

-----------------------------------------------------------------------------
(* The theorems. *)

LEMMA OpenCalls ==
  ASSUME Types
  PROVE  CallsAt("delegated") =
           UNION {{<<r, k>> : k \in {j \in Calls(r) : run[r].batch[j].at = "delegated"}}
                    : r \in DOMAIN run}
<1> DEFINE Of(r) == {<<r, k>> : k \in {j \in Calls(r) : run[r].batch[j].at = "delegated"}}
           all == UNION {Of(r) : r \in DOMAIN run}
<1>1. \A r \in DOMAIN run : Calls(r) \subseteq Nat
  <2> TAKE r \in DOMAIN run
  <2>1. run[r].batch \in Seq(CallType)
    BY DEF Types, RunType
  <2> QED BY <2>1 DEF Calls
<1>2. ASSUME NEW p \in CallsAt("delegated") PROVE p \in all
  <2>1. p[1] \in DOMAIN run /\ p = <<p[1], p[2]>> /\ IsAt(p[1], p[2], "delegated")
    BY <1>2 DEF CallsAt
  <2>2. p \in Of(p[1])
    BY <2>1 DEF IsAt
  <2> QED BY <2>1, <2>2
<1>3. ASSUME NEW p \in all PROVE p \in CallsAt("delegated")
  <2>1. PICK r \in DOMAIN run : p \in Of(r)
    OBVIOUS
  <2>2. PICK k \in Calls(r) : p = <<r, k>> /\ run[r].batch[k].at = "delegated"
    BY <2>1
  <2>3. k \in Nat
    BY <1>1
  <2> QED BY <2>2, <2>3 DEF CallsAt, IsAt
<1> QED BY <1>2, <1>3

(* governor.Budget (budget.go, governor.go) shared by a tree of runs of    *)
(* any shape: iterations and tool calls let through stay below their caps  *)
(* however the runs race for the last one, the depth counter is the number *)
(* of delegations still open and bounds the nesting, and whatever a limit  *)
(* stopped blames the one limit that was reached first.                    *)
THEOREM OneBudgetAlways == Spec => []OneBudget
<1>1. IInv => OneBudget
  <2> SUFFICES ASSUME IInv PROVE OneBudget
    OBVIOUS
  <2>1. CapsHoldUnderRaces
    BY DEF CapsHoldUnderRaces, IInv, StepsCharged, CallsCharged
  <2>2. DepthIsOpenDelegations
    BY OpenCalls DEF DepthIsOpenDelegations, IInv, Depth
  <2> QED BY <2>1, <2>2 DEF OneBudget, IInv
<1> QED BY <1>1, Invariance, PTL

(* subagent.go and tool/dispatch.go: no run outlives the call that started *)
(* it.  As long as a child is in the tree its parent is there, dispatching *)
(* the batch the call is of, and that call has not come back.              *)
THEOREM NoOrphansEver == Spec => []NoOrphans
<1>1. IInv => NoOrphans
  <2> SUFFICES ASSUME IInv, NEW c \in DOMAIN run \ {Root}
               PROVE  /\ Parent(c) \in DOMAIN run /\ run[Parent(c)].at = "dispatch"
                      /\ IsAt(Parent(c), c[Len(c) - 1], "delegated")
    BY DEF NoOrphans, IsAt
  <2>1. c \in Seq(Nat) /\ c # <<>>
    BY DEF IInv, Types, Root
  <2>2. PICK n \in Nat : Len(c) = 2 * n
    BY DEF IInv, Tree
  <2>3. n # 0
    BY <2>1, <2>2
  <2>4. /\ n - 1 \in Nat /\ 2 * (n - 1) < Len(c)
        /\ 2 * (n - 1) = Len(c) - 2 /\ 2 * (n - 1) + 1 = Len(c) - 1
    BY <2>2, <2>3
  <2>5. /\ SubSeq(c, 1, 2 * (n - 1)) \in DOMAIN run
        /\ IsAt(SubSeq(c, 1, 2 * (n - 1)), c[2 * (n - 1) + 1], "delegated")
    BY <2>4 DEF IInv, Tree
  <2>6. Parent(c) \in DOMAIN run /\ IsAt(Parent(c), c[Len(c) - 1], "delegated")
    BY <2>4, <2>5 DEF Parent
  <2>7. run[Parent(c)].batch # <<>>
    BY <2>6 DEF IsAt, Calls
  <2> QED BY <2>6, <2>7 DEF IInv, Tree
<1> QED BY <1>1, Invariance, PTL

-----------------------------------------------------------------------------
(***************************************************************************)
(* How long a retry waits.                                                 *)
(***************************************************************************)
LEMMA Power ==
  ASSUME NEW n \in Nat
  PROVE  /\ IsFiniteSet(SUBSET (1..n)) /\ Cardinality(SUBSET (1..n)) = 2^n
         /\ 2^n \in Nat \ {0}
<1>1. IsFiniteSet(1..n) /\ Cardinality(1..n) = n
  BY FS_Interval
<1>2. IsFiniteSet(SUBSET (1..n)) /\ Cardinality(SUBSET (1..n)) = 2^n
  BY <1>1, FS_SUBSET
<1>3. {} \in SUBSET (1..n)
  OBVIOUS
<1>4. Cardinality(SUBSET (1..n)) \in Nat /\ Cardinality(SUBSET (1..n)) # 0
  BY <1>2, <1>3, FS_CardinalityType, FS_EmptySet
<1> QED
  BY <1>2, <1>4

LEMMA PowerGrows ==
  ASSUME NEW n \in Nat, NEW m \in Nat, n <= m
  PROVE  2^n <= 2^m
<1>1. SUBSET (1..n) \subseteq SUBSET (1..m)
  OBVIOUS
<1>2. Cardinality(SUBSET (1..n)) <= Cardinality(SUBSET (1..m))
  BY <1>1, Power, FS_Subset
<1> QED
  BY <1>2, Power

(* Each subset of 1..n is one of 1..n+1 with and one without the last.     *)
LEMMA PowerDoubles ==
  ASSUME NEW n \in Nat
  PROVE  2 * 2^n <= 2^(n + 1)
<1> DEFINE A == SUBSET (1..n)
           B == {T \cup {n + 1} : T \in A}
           h == [T \in A |-> T \cup {n + 1}]
<1>1. IsFiniteSet(A) /\ Cardinality(A) = 2^n /\ 2^n \in Nat
  BY Power
<1>2. \A T \in A : n + 1 \notin T
  OBVIOUS
<1>3. h \in Bijection(A, B)
  <2>1. h \in [A -> B] /\ \A b \in B : \E T \in A : h[T] = b
    OBVIOUS
  <2>2. ASSUME NEW T \in A, NEW U \in A, h[T] = h[U] PROVE T = U
    <3>1. T \cup {n + 1} = U \cup {n + 1}
      BY <2>2
    <3> QED
      BY <1>2, <3>1
  <2> QED
    BY <2>1, <2>2 DEF Bijection, Injection, Surjection, IsInjective
<1>4. IsFiniteSet(B) /\ Cardinality(B) = 2^n
  BY <1>1, <1>3, FS_Bijection DEF ExistsBijection
<1>5. A \cap B = {}
  BY <1>2
<1>6. IsFiniteSet(A \cup B) /\ Cardinality(A \cup B) = 2^n + 2^n
  <2>1. Cardinality(A \cap B) = 0
    BY <1>5, FS_EmptySet
  <2> HIDE DEF A, B
  <2> QED
    BY <1>1, <1>4, <2>1, FS_Union
<1>7. A \cup B \subseteq SUBSET (1..(n + 1))
  <2>1. 1..n \subseteq 1..(n + 1) /\ n + 1 \in 1..(n + 1)
    OBVIOUS
  <2> QED
    BY <2>1
<1>8. Cardinality(A \cup B) <= 2^(n + 1)
  <2>1. n + 1 \in Nat
    OBVIOUS
  <2>2. IsFiniteSet(SUBSET (1..(n + 1))) /\ Cardinality(SUBSET (1..(n + 1))) = 2^(n + 1)
    BY <2>1, Power
  <2> HIDE DEF A, B
  <2> QED
    BY <1>7, <2>2, FS_Subset
<1> QED
  BY <1>1, <1>6, <1>8

(* What a duration can tell is not wrapped.                                *)
LEMMA NotWrapped ==
  ASSUME NEW d \in Nat, d <= Largest
  PROVE  Wrapped(d) = d
<1>1. Width \in Nat \ {0} /\ Width - 1 \in Nat /\ (Width - 1) + 1 = Width
  BY ModelCallAssumption
<1>2. PICK M \in Nat : M = 2^(Width - 1) /\ M > 0
  <2>1. 2^(Width - 1) \in Nat \ {0}
    BY <1>1, Power
  <2> QED
    BY <2>1
<1>3. PICK N \in Nat : N = 2^Width
  BY <1>1, Power
<1>4. 2 * M <= N
  BY <1>1, <1>2, <1>3, PowerDoubles
<1>5. d <= M - 1
  BY <1>2 DEF Largest
<1>6. (d + M) % N = d + M
  BY <1>2, <1>3, <1>4, <1>5
<1>7. Wrapped(d) = ((d + M) % N) - M
  BY <1>2, <1>3 DEF Wrapped
<1> QED
  BY <1>2, <1>6, <1>7

(* A policy, normalized, has a positive base and a cap not below it; both  *)
(* can be told but for the one at a width that tells nothing.              *)
LEMMA PolicyIsSound ==
  ASSUME NEW base \in -1..Largest, NEW cap \in -1..Largest,
         NEW p, p = Normalized([base |-> base, cap |-> cap])
  PROVE  /\ Largest \in Nat
         /\ p.base \in Nat \ {0} /\ p.cap \in Nat /\ p.base <= p.cap
         /\ p.cap <= Largest \/ (p.cap = 1 /\ Largest = 0)
<1>1. Largest \in Nat
  <2>1. Width - 1 \in Nat
    BY ModelCallAssumption
  <2>2. 2^(Width - 1) \in Nat \ {0}
    BY <2>1, Power
  <2> QED
    BY <2>2 DEF Largest
<1>2. Largest \div 2 \in Nat /\ Largest \div 2 <= Largest
  BY <1>1
<1>3. PICK b \in Nat : b = (IF base <= 0 THEN 1 ELSE base) /\ b > 0 /\ (b <= Largest \/ (b = 1 /\ Largest = 0))
  BY <1>1
<1>4. PICK c \in Nat : c = (IF cap <= 0 THEN Largest \div 2 ELSE cap) /\ c <= Largest
  BY <1>1, <1>2
<1>5. p = [base |-> b, cap |-> IF c < b THEN b ELSE c]
  BY <1>3, <1>4 DEF Normalized, DefaultRetryPolicy
<1> QED
  BY <1>1, <1>3, <1>4, <1>5

LEMMA BackoffIsExact ==
  ASSUME NEW base \in -1..Largest, NEW cap \in -1..Largest, NEW n \in Nat,
         NEW p, p = Normalized([base |-> base, cap |-> cap])
  PROVE  Backoff(p, n) = IF p.base * 2^n > p.cap THEN p.cap ELSE p.base * 2^n
<1>1. /\ Largest \in Nat
      /\ p.base \in Nat \ {0} /\ p.cap \in Nat /\ p.base <= p.cap
      /\ p.cap <= Largest \/ (p.cap = 1 /\ Largest = 0)
  BY PolicyIsSound
<1>2. PICK b \in Nat \ {0}, c \in Nat : b = p.base /\ c = p.cap
  BY <1>1
<1>3. PICK t \in Nat \ {0} : t = 2^n
  BY Power
<1>4. Width - 1 \in Nat /\ Width \in Nat
  BY ModelCallAssumption
<1>5. PICK M \in Nat \ {0} : M = 2^(Width - 1)
  BY <1>4, Power
<1>6. Largest = M - 1
  BY <1>5 DEF Largest
<1>7. b * t \in Nat /\ b * t >= t
  <2>1. PICK e \in Nat : b = e + 1
    BY b - 1 \in Nat
  <2>2. b * t = e * t + t /\ e * t \in Nat
    BY <2>1
  <2> QED
    BY <2>2
<1>8. CASE n >= Width - 1
  <2>1. M <= t
    BY <1>3, <1>4, <1>5, <1>8, PowerGrows
  <2>2. c <= M
    BY <1>1, <1>2, <1>5, <1>6
  <2>3. b * t >= c
    BY <1>7, <2>1, <2>2
  <2>4. Backoff(p, n) = c
    BY <1>2, <1>8 DEF Backoff
  <2> QED
    BY <1>2, <1>3, <1>7, <2>3, <2>4
<1>9. CASE n < Width - 1
  <2>1. c <= Largest
    <3>1. n + 1 \in Nat /\ n + 1 <= Width - 1
      BY <1>4, <1>9
    <3>2. 2 * t <= M
      BY <1>3, <1>4, <1>5, <3>1, PowerDoubles, PowerGrows, Power
    <3> QED
      BY <1>1, <1>2, <1>3, <1>5, <1>6, <3>2
  <2>2. PICK q \in Nat, r \in Nat : c = q * t + r /\ r < t /\ q = c \div t
    BY <1>2, <1>3
  <2>3. Backoff(p, n) = IF b > q THEN c ELSE Wrapped(b * t)
    BY <1>2, <1>3, <1>4, <1>9, <2>2 DEF Backoff
  <2>4. CASE b > q
    <3>1. PICK e \in Nat : b = q + 1 + e
      <4>1. b - (q + 1) \in Nat /\ b = q + 1 + (b - (q + 1))
        BY <2>2, <2>4, <1>2
      <4> QED
        BY <4>1
    <3>2. b * t = q * t + t + e * t /\ e * t \in Nat /\ q * t \in Nat
      BY <3>1, <1>3
    <3>3. b * t > c
      BY <1>3, <2>2, <3>2
    <3> QED
      BY <1>2, <1>3, <2>3, <2>4, <3>3
  <2>5. CASE b <= q
    <3>1. PICK e \in Nat : q = b + e
      <4>1. q - b \in Nat /\ q = b + (q - b)
        BY <2>2, <2>5, <1>2
      <4> QED
        BY <4>1
    <3>2. q * t = b * t + e * t /\ e * t \in Nat
      BY <3>1, <1>3
    <3>3. b * t <= c
      BY <1>7, <2>2, <3>2
    <3>4. Wrapped(b * t) = b * t
      BY <1>1, <1>7, <1>2, <2>1, <3>3, NotWrapped
    <3> QED
      BY <1>2, <1>3, <1>7, <2>3, <2>5, <3>3, <3>4
  <2> QED
    BY <1>2, <2>2, <2>4, <2>5
<1> QED
  BY <1>4, <1>8, <1>9

LEMMA HintIsAFloor ==
  ASSUME NEW base \in -1..Largest, NEW cap \in -1..Largest, NEW n \in Nat,
         NEW p, p = Normalized([base |-> base, cap |-> cap]),
         2 * Backoff(p, n) <= Largest,
         NEW secs \in 0..(Largest \div (2 * Second)), NEW hint \in RetryAfter(client, secs),
         NEW d \in Delay(p, n, hint)
  PROVE  d >= Backoff(p, n) /\ d >= secs * Second
<1>1. Largest \in Nat /\ Backoff(p, n) \in Nat
  <2>1. p.base \in Nat /\ p.cap \in Nat /\ Largest \in Nat
    BY PolicyIsSound
  <2>2. p.base * 2^n \in Nat
    <3>1. PICK t \in Nat : t = 2^n
      BY Power
    <3> QED
      BY <2>1, <3>1
  <2> QED
    BY <2>1, <2>2, BackoffIsExact
<1>2. secs \in Nat /\ 4 * secs <= Largest
  BY <1>1 DEF Second
<1>3. hint = secs * 2
  <2>1. secs * 2 \in Nat /\ secs * 2 <= Largest
    BY <1>1, <1>2
  <2>2. Wrapped(secs * 2) = secs * 2
    BY <2>1, NotWrapped
  <2> QED
    BY <2>1, <2>2 DEF RetryAfter, IntegerHint, FloatHint, Second
<1>4. PICK w \in Nat : w = (IF hint > Backoff(p, n) THEN hint ELSE Backoff(p, n))
  BY <1>1, <1>2, <1>3
<1>5. w >= Backoff(p, n) /\ w >= hint /\ 2 * w <= Largest
  BY <1>1, <1>2, <1>3, <1>4
<1>6. PICK more \in 0..w : d = Wrapped(w + more)
  BY <1>4 DEF Delay
<1>7. d = w + more
  BY <1>1, <1>4, <1>5, <1>6, NotWrapped
<1> QED
  BY <1>1, <1>2, <1>3, <1>4, <1>5, <1>6, <1>7 DEF Second

(* The wait between two attempts is the base doubled that often up to the  *)
(* cap, at any width, and never less than what the provider asked for, as  *)
(* long as twice of it can be told (llm/middleware.go, normalized, Backoff *)
(* and delay; the clients' retryAfter).                                    *)
THEOREM WaitsAreAlwaysAsTold == ModelCallFairSpec => []WaitsAsTold
<1>1. WaitsAsTold
  <2> SUFFICES ASSUME NEW base \in -1..Largest, NEW cap \in -1..Largest, NEW n \in 0..(2 * Width),
                      NEW p, p = Normalized([base |-> base, cap |-> cap]),
                      NEW wait, wait = IF p.base * 2^n > p.cap THEN p.cap ELSE p.base * 2^n
               PROVE  /\ p.base > 0 /\ Backoff(p, n) = wait
                      /\ \A secs \in 0..(Largest \div (2 * Second)) :
                           \A hint \in RetryAfter(client, secs) :
                             2 * wait <= Largest =>
                               \A d \in Delay(p, n, hint) : d >= wait /\ d >= secs * Second
    BY DEF WaitsAsTold
  <2>1. n \in Nat
    BY ModelCallAssumption
  <2>2. Backoff(p, n) = wait
    BY <2>1, BackoffIsExact
  <2>3. p.base > 0
    BY PolicyIsSound
  <2> QED
    BY <2>1, <2>2, <2>3, HintIsAFloor
<1> QED
  BY <1>1, PTL

-----------------------------------------------------------------------------
(* Induction, and what FlattenSeq gives of one sequence more.              *)
LEMMA LeastNumber ==
  ASSUME NEW S \in SUBSET Nat, S # {}
  PROVE  \E n \in S : \A m \in S : n <= m
<1> DEFINE R == {p \in Nat \X Nat : p[1] < p[2]}
<1>1. IsWellFoundedOn(R, Nat)
  BY NatLessThanWellFounded DEF OpToRel
<1> HIDE DEF R
<1>2. PICK n \in S : \A m \in S : ~(<<m, n>> \in R)
  BY <1>1, WFMin
<1>3. \A m \in S : ~(m < n)
  BY <1>2 DEF R
<1> QED BY <1>3

LEMMA Inductively ==
  ASSUME NEW S, 0 \in S, \A n \in Nat : n \in S => n + 1 \in S
  PROVE  \A n \in Nat : n \in S
<1> SUFFICES ASSUME Nat \ S # {} PROVE FALSE
  OBVIOUS
<1>1. PICK n \in Nat \ S : \A m \in Nat \ S : n <= m
  <2>1. Nat \ S \in SUBSET Nat
    OBVIOUS
  <2> QED BY <2>1, LeastNumber
<1>2. n # 0 /\ n - 1 \in Nat /\ n - 1 \in S
  BY <1>1
<1> QED BY <1>1, <1>2

Joined(v, x, i) == IF i = 1 THEN x ELSE v \o x

Joins(s, n, f) == f = [i \in 1..n |-> Joined(f[i - 1], s[i], i)]

LEMMA JoinsExists ==
  ASSUME NEW s
  PROVE  \A n \in Nat : \E f : Joins(s, n, f)
<1> DEFINE N == {n \in Nat : \E f : Joins(s, n, f)}
<1>1. 0 \in N
  <2>1. Joins(s, 0, [i \in 1..0 |-> 0])
    BY DEF Joins
  <2> QED BY <2>1
<1>2. ASSUME NEW n \in Nat, n \in N PROVE n + 1 \in N
  <2>1. PICK f : Joins(s, n, f)
    BY <1>2
  <2> DEFINE g == [i \in 1..(n + 1) |-> Joined(f[i - 1], s[i], i)]
  <2>0. g = [i \in 1..(n + 1) |-> Joined(f[i - 1], s[i], i)]
    OBVIOUS
  <2> HIDE DEF g
  <2>2. \A i \in 1..n : f[i] = Joined(f[i - 1], s[i], i)
    BY <2>1 DEF Joins
  <2>3. \A i \in 1..n : g[i] = f[i]
    BY <2>0, <2>2
  <2>4. g = [i \in 1..(n + 1) |-> Joined(g[i - 1], s[i], i)]
    <3>1. \A i \in 1..(n + 1) : i # 1 => g[i - 1] = f[i - 1]
      BY <2>3
    <3>2. \A i \in 1..(n + 1) : Joined(g[i - 1], s[i], i) = Joined(f[i - 1], s[i], i)
      BY <3>1 DEF Joined
    <3> QED BY <2>0, <3>2
  <2>5. Joins(s, n + 1, g)
    BY <2>4 DEF Joins
  <2> QED BY <2>5
<1> HIDE DEF N
<1>3. \A n \in Nat : n \in N
  BY <1>1, <1>2, Inductively
<1> QED BY <1>3 DEF N

LEMMA JoinsAgree ==
  ASSUME NEW s, NEW t, NEW n \in Nat, NEW m \in Nat, n <= m, n >= 1,
         \A i \in 1..n : s[i] = t[i],
         NEW f, Joins(s, n, f), NEW g, Joins(t, m, g)
  PROVE  f[n] = g[n]
<1> DEFINE N == {k \in Nat : k + 1 <= n => f[k + 1] = g[k + 1]}
<1>0. /\ \A i \in 1..n : f[i] = Joined(f[i - 1], s[i], i)
      /\ \A i \in 1..m : g[i] = Joined(g[i - 1], t[i], i)
  <2>1. \A i \in 1..n : f[i] = Joined(f[i - 1], s[i], i)
    BY DEF Joins
  <2>2. \A i \in 1..m : g[i] = Joined(g[i - 1], t[i], i)
    BY DEF Joins
  <2> QED BY <2>1, <2>2
<1>1. 0 \in N
  <2>1. 1 \in 1..n /\ 1 \in 1..m
    OBVIOUS
  <2>2. f[1] = s[1] /\ g[1] = t[1]
    BY <1>0, <2>1 DEF Joined
  <2> QED BY <2>1, <2>2
<1>2. ASSUME NEW k \in Nat, k \in N PROVE k + 1 \in N
  <2> SUFFICES ASSUME (k + 1) + 1 <= n PROVE f[(k + 1) + 1] = g[(k + 1) + 1]
    OBVIOUS
  <2> DEFINE p == (k + 1) + 1
  <2>1. f[k + 1] = g[k + 1] /\ p \in 1..n /\ p \in 1..m /\ p - 1 = k + 1 /\ p # 1
    BY <1>2
  <2> HIDE DEF p
  <2>2. f[p] = Joined(f[p - 1], s[p], p) /\ g[p] = Joined(g[p - 1], t[p], p) /\ s[p] = t[p]
    BY <1>0, <2>1
  <2> QED BY <2>1, <2>2 DEF p
<1> HIDE DEF N
<1>3. n - 1 \in N
  <2>1. n - 1 \in Nat
    OBVIOUS
  <2> QED BY <1>1, <1>2, <2>1, Inductively
<1> QED BY <1>3 DEF N

LEMMA FlattenIsJoined ==
  ASSUME NEW s, Len(s) \in Nat, Len(s) >= 1
  PROVE  \E f : Joins(s, Len(s), f) /\ FlattenSeq(s) = f[Len(s)]
<1> DEFINE f == CHOOSE f : Joins(s, Len(s), f)
<1>1. Joins(s, Len(s), f)
  BY JoinsExists
<1>2. FlattenSeq(s) = f[Len(s)]
  BY DEF FlattenSeq, Joins, Joined
<1> QED BY <1>1, <1>2

LEMMA FlattenLonger ==
  ASSUME NEW s, NEW t, NEW n \in Nat, n >= 1, Len(s) = n, Len(t) = n + 1,
         \A i \in 1..n : s[i] = t[i]
  PROVE  FlattenSeq(t) = FlattenSeq(s) \o t[n + 1]
<1>1. PICK f : Joins(s, n, f) /\ FlattenSeq(s) = f[n]
  BY FlattenIsJoined
<1>2. n + 1 \in Nat /\ n + 1 >= 1 /\ n <= n + 1
  OBVIOUS
<1>3. PICK g : Joins(t, n + 1, g) /\ FlattenSeq(t) = g[n + 1]
  BY <1>2, FlattenIsJoined
<1>4. f[n] = g[n]
  <2> DEFINE m == n + 1
  <2>1. m \in Nat /\ n <= m /\ Joins(t, m, g) /\ Joins(s, n, f)
    BY <1>1, <1>2, <1>3
  <2> HIDE DEF m
  <2> QED BY <2>1, JoinsAgree
<1>5. g[n + 1] = g[n] \o t[n + 1]
  <2>1. \A i \in 1..(n + 1) : g[i] = Joined(g[i - 1], t[i], i)
    BY <1>3 DEF Joins
  <2>2. n + 1 \in 1..(n + 1) /\ (n + 1) - 1 = n /\ n + 1 # 1
    OBVIOUS
  <2>3. g[n + 1] = Joined(g[(n + 1) - 1], t[n + 1], n + 1)
    BY <2>1, <2>2
  <2> QED BY <2>2, <2>3 DEF Joined
<1> QED BY <1>1, <1>3, <1>4, <1>5

LEMMA FlattenOne ==
  ASSUME NEW t, Len(t) = 1
  PROVE  FlattenSeq(t) = t[1]
<1>1. PICK g : Joins(t, 1, g) /\ FlattenSeq(t) = g[1]
  <2>1. Len(t) \in Nat /\ Len(t) >= 1
    OBVIOUS
  <2>2. \E g : Joins(t, Len(t), g) /\ FlattenSeq(t) = g[Len(t)]
    BY <2>1, FlattenIsJoined
  <2> QED BY <2>2
<1>2. \A i \in 1..1 : g[i] = Joined(g[i - 1], t[i], i)
  BY <1>1 DEF Joins
<1> QED BY <1>1, <1>2 DEF Joined

LEMMA FlattenOneMore ==
  ASSUME NEW S, NEW s \in Seq(Seq(S)), NEW x \in Seq(S)
  PROVE  FlattenSeq(Append(s, x)) = FlattenSeq(s) \o x
<1>1. /\ Len(s) \in Nat /\ Len(Append(s, x)) = Len(s) + 1 /\ Append(s, x)[Len(s) + 1] = x
      /\ \A i \in 1..Len(s) : s[i] = Append(s, x)[i]
  OBVIOUS
<1>2. CASE Len(s) = 0
  <2>1. s = <<>> /\ <<>> \o x = x
    BY <1>2, ConcatEmptySeq
  <2>2. FlattenSeq(s) = <<>>
    BY <2>1 DEF FlattenSeq
  <2>3. FlattenSeq(Append(s, x)) = Append(s, x)[1]
    BY <1>1, <1>2, FlattenOne
  <2> QED BY <1>1, <1>2, <2>1, <2>2, <2>3
<1>3. CASE Len(s) # 0
  <2>1. Len(s) >= 1
    BY <1>1, <1>3
  <2>2. FlattenSeq(Append(s, x)) = FlattenSeq(s) \o Append(s, x)[Len(s) + 1]
    BY <1>1, <2>1, FlattenLonger
  <2> QED BY <1>1, <2>2
<1> QED BY <1>2, <1>3

SplitLast(S, s, n) == \E t \in Seq(S), x \in S : Len(t) = n /\ s = Append(t, x) /\ x = s[n + 1]

LEMMA LastOff ==
  ASSUME NEW S, NEW s \in Seq(S), NEW n \in Nat, Len(s) = n + 1
  PROVE  SplitLast(S, s, n)
<1> DEFINE t == SubSeq(s, 1, n)
           x == s[n + 1]
<1>1. t \in Seq(S) /\ x \in S /\ Len(t) = n /\ \A i \in 1..n : t[i] = s[i]
  OBVIOUS
<1> HIDE DEF t
<1>2. s = Append(t, x)
  <2>1. /\ Append(t, x) \in Seq(S) /\ Len(Append(t, x)) = n + 1
        /\ \A i \in 1..(n + 1) : Append(t, x)[i] = s[i]
    BY <1>1
  <2> QED BY <2>1, SeqEqual
<1> QED BY <1>1, <1>2 DEF SplitLast

LEMMA ToSetAppend ==
  ASSUME NEW S, NEW s \in Seq(S), NEW x \in S
  PROVE  ToSet(Append(s, x)) = ToSet(s) \cup {x}
<1>1. /\ DOMAIN s = 1..Len(s) /\ DOMAIN Append(s, x) = 1..(Len(s) + 1) /\ Len(s) \in Nat
      /\ Append(s, x)[Len(s) + 1] = x /\ \A i \in 1..Len(s) : Append(s, x)[i] = s[i]
  OBVIOUS
<1>2. \A i \in 1..(Len(s) + 1) : i = Len(s) + 1 \/ i \in 1..Len(s)
  BY <1>1
<1>3. \A y : y \in ToSet(Append(s, x)) <=> (y \in ToSet(s) \/ y = x)
  <2> SUFFICES ASSUME NEW y PROVE y \in ToSet(Append(s, x)) <=> (y \in ToSet(s) \/ y = x)
    OBVIOUS
  <2>1. ASSUME y \in ToSet(Append(s, x)) PROVE y \in ToSet(s) \/ y = x
    BY <1>1, <1>2, <2>1 DEF ToSet
  <2>2. ASSUME y \in ToSet(s) PROVE y \in ToSet(Append(s, x))
    BY <1>1, <2>2 DEF ToSet
  <2>3. x \in ToSet(Append(s, x))
    BY <1>1 DEF ToSet
  <2> QED BY <2>1, <2>2, <2>3
<1> QED BY <1>3

-----------------------------------------------------------------------------
(* Rising sequences of numbers.                                            *)
LEMMA RisingAppend ==
  ASSUME NEW s \in Seq(Nat), NEW x \in Nat, Rising(s), \A y \in ToSet(s) : y < x
  PROVE  Rising(Append(s, x))
<1> DEFINE t == Append(s, x)
           n == Len(s)
<1>1. /\ n \in Nat /\ Len(t) = n + 1 /\ t[n + 1] = x
      /\ \A i \in 1..n : t[i] = s[i] /\ s[i] \in ToSet(s)
  BY DEF ToSet
<1> HIDE DEF t
<1>2. \A i, j \in 1..(n + 1) : i < j => i \in 1..n /\ (j \in 1..n \/ j = n + 1)
  BY <1>1
<1>3. \A i, j \in 1..n : i < j => s[i] < s[j]
  BY DEF Rising
<1> HIDE DEF n
<1>4. ASSUME NEW i \in 1..(n + 1), NEW j \in 1..(n + 1), i < j PROVE t[i] < t[j]
  <2>1. i \in 1..n /\ t[i] = s[i] /\ t[i] < x
    BY <1>1, <1>2, <1>4
  <2>2. CASE j \in 1..n
    BY <1>1, <1>3, <1>4, <2>1, <2>2
  <2>3. CASE j = n + 1
    BY <1>1, <2>1, <2>3
  <2> QED
    BY <1>2, <1>4, <2>2, <2>3
<1>5. Rising(t)
  BY <1>1, <1>4 DEF Rising
<1> QED
  BY <1>5 DEF t

LEMMA RisingConcat ==
  ASSUME NEW u \in Seq(Nat), NEW v \in Seq(Nat), Rising(u), Rising(v),
         \A x \in ToSet(u), y \in ToSet(v) : x < y
  PROVE  u \o v \in Seq(Nat) /\ Rising(u \o v) /\ ToSet(u \o v) = ToSet(u) \cup ToSet(v)
<1> DEFINE t == u \o v
           n == Len(u)
           m == Len(v)
<1>1. /\ n \in Nat /\ m \in Nat /\ t \in Seq(Nat) /\ Len(t) = n + m
      /\ \A i \in 1..(n + m) : t[i] = IF i <= n THEN u[i] ELSE v[i - n]
      /\ DOMAIN u = 1..n /\ DOMAIN v = 1..m
  OBVIOUS
<1> HIDE DEF t
<1>2. DOMAIN t = 1..(n + m)
  BY <1>1
<1>3. /\ \A i \in 1..n : u[i] \in ToSet(u)
      /\ \A i \in 1..m : v[i] \in ToSet(v)
      /\ \A i, j \in 1..n : i < j => u[i] < u[j]
      /\ \A i, j \in 1..m : i < j => v[i] < v[j]
  BY <1>1 DEF Rising, ToSet
<1> HIDE DEF n, m
<1>4. ASSUME NEW i \in 1..(n + m), NEW j \in 1..(n + m), i < j PROVE t[i] < t[j]
  <2>1. CASE j <= n
    <3>1. i \in 1..n /\ j \in 1..n
      BY <1>1, <1>4, <2>1
    <3> QED
      BY <1>1, <1>3, <1>4, <2>1, <3>1
  <2>2. CASE i <= n /\ n < j
    <3>1. i \in 1..n /\ j - n \in 1..m
      BY <1>1, <1>4, <2>2
    <3>2. t[i] = u[i] /\ t[j] = v[j - n]
      BY <1>1, <2>2
    <3> QED
      BY <1>3, <3>1, <3>2
  <2>3. CASE n < i
    <3>1. i - n \in 1..m /\ j - n \in 1..m /\ i - n < j - n
      <4>1. i \in Nat /\ j \in Nat /\ n \in Nat /\ m \in Nat
            /\ n < i /\ i < j /\ i <= n + m /\ j <= n + m
        BY <1>1, <1>4, <2>3
      <4> QED
        BY ONLY <4>1
    <3>2. t[i] = v[i - n] /\ t[j] = v[j - n]
      BY <1>1, <1>4, <2>3
    <3> QED
      BY <1>3, <3>1, <3>2
  <2> QED
    BY <1>1, <2>1, <2>2, <2>3
<1>5. Rising(t)
  BY <1>1, <1>4 DEF Rising
<1>6. ToSet(t) = ToSet(u) \cup ToSet(v)
  <2>1. ASSUME NEW i \in 1..(n + m) PROVE t[i] \in ToSet(u) \cup ToSet(v)
    <3>1. CASE i <= n
      BY <1>1, <1>3, <3>1
    <3>2. CASE n < i
      <4>1. i - n \in 1..m /\ t[i] = v[i - n]
        BY <1>1, <3>2
      <4> QED
        BY <1>3, <4>1
    <3> QED
      BY <1>1, <3>1, <3>2
  <2>2. ASSUME NEW i \in 1..n PROVE u[i] \in ToSet(t)
    <3>1. i \in 1..(n + m) /\ t[i] = u[i]
      BY <1>1
    <3> QED
      BY <1>2, <3>1 DEF ToSet
  <2>3. ASSUME NEW i \in 1..m PROVE v[i] \in ToSet(t)
    <3>1. n + i \in 1..(n + m) /\ ~(n + i <= n) /\ (n + i) - n = i
      BY <1>1
    <3>2. t[n + i] = v[i]
      BY <1>1, <3>1
    <3> QED
      BY <1>2, <3>1, <3>2 DEF ToSet
  <2> QED
    BY <1>1, <1>2, <2>1, <2>2, <2>3 DEF ToSet
<1> QED
  BY <1>1, <1>5, <1>6 DEF t

(* Rising sequences, one above the other, are joined to a rising one.      *)
Stacked(s) ==
  /\ \A i \in 1..Len(s) : Rising(s[i])
  /\ \A i, j \in 1..Len(s) : i < j => \A x \in ToSet(s[i]), y \in ToSet(s[j]) : x < y

JoinsUp(s) ==
  /\ FlattenSeq(s) \in Seq(Nat) /\ Rising(FlattenSeq(s))
  /\ ToSet(FlattenSeq(s)) = UNION {ToSet(s[i]) : i \in 1..Len(s)}

LEMMA FlattenNothing == FlattenSeq(<<>>) = <<>>
BY DEF FlattenSeq

LEMMA JoinedMore ==
  ASSUME NEW t \in Seq(Seq(Nat)), NEW x \in Seq(Nat), JoinsUp(t), Stacked(Append(t, x))
  PROVE  JoinsUp(Append(t, x))
<1> DEFINE s == Append(t, x)
           n == Len(t)
           F == FlattenSeq(t)
<1>1. /\ n \in Nat /\ Len(s) = n + 1 /\ s[n + 1] = x /\ \A i \in 1..n : s[i] = t[i]
  OBVIOUS
<1>2. FlattenSeq(s) = F \o x
  BY FlattenOneMore
<1>3. F \in Seq(Nat) /\ Rising(F) /\ ToSet(F) = UNION {ToSet(t[i]) : i \in 1..n}
  BY DEF JoinsUp
<1>4. Stacked(s)
  OBVIOUS
<1> HIDE DEF s, F, n
<1>5. n + 1 \in 1..(n + 1) /\ (\A i \in 1..n : i \in 1..(n + 1) /\ i < n + 1)
      /\ \A i \in 1..(n + 1) : i \in 1..n \/ i = n + 1
  BY <1>1
<1>6. Rising(x)
  BY <1>1, <1>4, <1>5 DEF Stacked
<1>7. \A y \in ToSet(F), z \in ToSet(x) : y < z
  <2> SUFFICES ASSUME NEW y \in ToSet(F), NEW z \in ToSet(x) PROVE y < z
    OBVIOUS
  <2>1. PICK i \in 1..n : y \in ToSet(t[i])
    BY <1>3
  <2>2. i \in 1..(n + 1) /\ i < n + 1 /\ y \in ToSet(s[i]) /\ z \in ToSet(s[n + 1])
    BY <1>1, <1>5, <2>1
  <2> QED
    BY <1>1, <1>4, <1>5, <2>2 DEF Stacked
<1>8. F \o x \in Seq(Nat) /\ Rising(F \o x) /\ ToSet(F \o x) = ToSet(F) \cup ToSet(x)
  BY <1>3, <1>6, <1>7, RisingConcat
<1>9. ToSet(F) \cup ToSet(x) = UNION {ToSet(s[i]) : i \in 1..(n + 1)}
  BY <1>1, <1>3, <1>5
<1>10. JoinsUp(s)
  BY <1>1, <1>2, <1>8, <1>9 DEF JoinsUp
<1> QED
  BY <1>10 DEF s

LEMMA StackedJoins ==
  ASSUME NEW s \in Seq(Seq(Nat)), Stacked(s)
  PROVE  JoinsUp(s)
<1> DEFINE N == {n \in Nat : \A u \in Seq(Seq(Nat)) : Len(u) = n /\ Stacked(u) => JoinsUp(u)}
<1>1. 0 \in N
  <2>1. JoinsUp(<<>>)
    <3>1. <<>> \in Seq(Nat) /\ Len(<<>>) = 0 /\ 1..0 = {} /\ DOMAIN <<>> = {}
      OBVIOUS
    <3>2. Rising(<<>>) /\ ToSet(<<>>) = {}
      BY <3>1 DEF Rising, ToSet
    <3>3. UNION {ToSet(<<>>[i]) : i \in 1..0} = {}
      BY <3>1
    <3> QED
      BY <3>1, <3>2, <3>3, FlattenNothing DEF JoinsUp
  <2>2. \A u \in Seq(Seq(Nat)) : Len(u) = 0 => u = <<>>
    OBVIOUS
  <2> QED
    BY <2>1, <2>2
<1>2. ASSUME NEW n \in Nat, n \in N PROVE n + 1 \in N
  <2>0. ASSUME NEW u \in Seq(Seq(Nat)), Len(u) = n + 1, Stacked(u) PROVE JoinsUp(u)
    <3>1. PICK t \in Seq(Seq(Nat)), x \in Seq(Nat) : Len(t) = n /\ u = Append(t, x)
      <4>1. SplitLast(Seq(Nat), u, n)
        BY <2>0, LastOff
      <4> QED
        BY <4>1 DEF SplitLast
    <3>2. \A i \in 1..n : u[i] = t[i] /\ i \in 1..(n + 1)
      BY <3>1
    <3>3. Stacked(t)
      BY <2>0, <3>1, <3>2 DEF Stacked
    <3>4. JoinsUp(t)
      BY <1>2, <3>1, <3>3
    <3> QED
      BY <2>0, <3>1, <3>4, JoinedMore
  <2> QED
    BY <2>0
<1> HIDE DEF N
<1>3. Len(s) \in N
  <2>1. Len(s) \in Nat
    OBVIOUS
  <2> QED
    BY <1>1, <1>2, <2>1, Inductively
<1> QED
  BY <1>3 DEF N

-----------------------------------------------------------------------------
(* What the sink was given, one delta at a time.                           *)
Delta == [kind : Kinds, index : Nat, ids : BOOLEAN, frag : Nat]

(* What is told of the elements one by one, told of one more.              *)
LEMMA ToldOfOneMore ==
  ASSUME NEW S, NEW m \in Seq(S), NEW x \in S, NEW n \in Nat, Len(m) = n,
         NEW f \in [1..(n + 1) -> S], f[n + 1] = x, \A j \in 1..n : f[j] = m[j]
  PROVE  f = Append(m, x)
<1>1. f \in Seq(S) /\ Len(f) = n + 1
  OBVIOUS
<1>2. /\ Append(m, x) \in Seq(S) /\ Len(Append(m, x)) = n + 1 /\ Append(m, x)[n + 1] = x
      /\ \A j \in 1..n : Append(m, x)[j] = m[j]
  OBVIOUS
<1>3. \A j \in 1..(n + 1) : j = n + 1 \/ j \in 1..n
  OBVIOUS
<1>4. \A j \in 1..(n + 1) : f[j] = Append(m, x)[j]
  BY <1>2, <1>3
<1> QED
  BY <1>1, <1>2, <1>4, SeqEqual

LEMMA FragsOneMore ==
  ASSUME NEW s \in Seq(Delta), NEW d \in Delta, NEW kind, Frags(s, kind) \in Seq(Nat)
  PROVE  Frags(Append(s, d), kind) =
           IF d.kind = kind THEN Append(Frags(s, kind), d.frag) ELSE Frags(s, kind)
<1> DEFINE Of(e) == IF e.kind = kind THEN <<e.frag>> ELSE <<>>
           t == Append(s, d)
           n == Len(s)
           m == [j \in DOMAIN s |-> Of(s[j])]
<1>1. \A e \in Delta : Of(e) \in Seq(Nat)
  BY DEF Delta
<1>2. n \in Nat /\ DOMAIN s = 1..n /\ DOMAIN t = 1..(n + 1) /\ t[n + 1] = d
      /\ \A j \in 1..n : t[j] = s[j] /\ s[j] \in Delta
  OBVIOUS
<1>3. Of(d) \in Seq(Nat)
  BY <1>1
<1>4. m \in Seq(Seq(Nat)) /\ Len(m) = n /\ \A j \in 1..n : m[j] = Of(s[j])
  <2> HIDE DEF Of, n
  <2> QED
    BY <1>1, <1>2
<1>5. [j \in DOMAIN t |-> Of(t[j])] = Append(m, Of(d))
  <2> DEFINE f == [j \in DOMAIN t |-> Of(t[j])]
  <2> HIDE DEF Of, n, m, t
  <2>1. \A j \in 1..(n + 1) : j = n + 1 \/ j \in 1..n
    BY <1>2
  <2>2. \A j \in 1..(n + 1) : t[j] \in Delta
    BY <1>2, <2>1
  <2>3. f \in [1..(n + 1) -> Seq(Nat)] /\ f[n + 1] = Of(d) /\ \A j \in 1..n : f[j] = m[j]
    BY <1>1, <1>2, <1>4, <2>2
  <2> HIDE DEF f
  <2>4. f = Append(m, Of(d))
    BY <1>2, <1>3, <1>4, <2>3, ToldOfOneMore
  <2> QED
    BY <2>4 DEF f
<1>6. Frags(t, kind) = FlattenSeq(Append(m, Of(d))) /\ Frags(s, kind) = FlattenSeq(m)
  BY <1>5 DEF Frags
<1> HIDE DEF m, t
<1>7. Frags(t, kind) = Frags(s, kind) \o Of(d)
  BY <1>3, <1>4, <1>6, FlattenOneMore
<1>8. CASE d.kind = kind
  <2>1. Of(d) = <<d.frag>> /\ d.frag \in Nat
    BY <1>8 DEF Delta
  <2>2. Frags(s, kind) \o <<d.frag>> = Append(Frags(s, kind), d.frag)
    BY <2>1
  <2> QED
    BY <1>7, <1>8, <2>1, <2>2 DEF t
<1>9. CASE d.kind # kind
  <2>1. Of(d) = <<>>
    BY <1>9
  <2>2. Frags(s, kind) \o <<>> = Frags(s, kind)
    OBVIOUS
  <2> QED
    BY <1>7, <1>9, <2>1, <2>2 DEF t
<1> QED
  BY <1>8, <1>9

LEMMA ArgumentsOneMore ==
  ASSUME NEW s \in Seq(Delta), NEW d \in Delta, NEW index, Arguments(s, index) \in Seq(Nat)
  PROVE  Arguments(Append(s, d), index) =
           IF About(d, index) /\ d.frag # 0 THEN Append(Arguments(s, index), d.frag)
                                            ELSE Arguments(s, index)
<1> DEFINE Of(e) == IF About(e, index) /\ e.frag # 0 THEN <<e.frag>> ELSE <<>>
           t == Append(s, d)
           n == Len(s)
           m == [j \in DOMAIN s |-> Of(s[j])]
<1>1. \A e \in Delta : Of(e) \in Seq(Nat)
  BY DEF Delta
<1>2. n \in Nat /\ DOMAIN s = 1..n /\ DOMAIN t = 1..(n + 1) /\ t[n + 1] = d
      /\ \A j \in 1..n : t[j] = s[j] /\ s[j] \in Delta
  OBVIOUS
<1>3. Of(d) \in Seq(Nat)
  BY <1>1
<1>4. m \in Seq(Seq(Nat)) /\ Len(m) = n /\ \A j \in 1..n : m[j] = Of(s[j])
  <2> HIDE DEF Of, n
  <2> QED
    BY <1>1, <1>2
<1>5. [j \in DOMAIN t |-> Of(t[j])] = Append(m, Of(d))
  <2> DEFINE f == [j \in DOMAIN t |-> Of(t[j])]
  <2> HIDE DEF Of, n, m, t
  <2>1. \A j \in 1..(n + 1) : j = n + 1 \/ j \in 1..n
    BY <1>2
  <2>2. \A j \in 1..(n + 1) : t[j] \in Delta
    BY <1>2, <2>1
  <2>3. f \in [1..(n + 1) -> Seq(Nat)] /\ f[n + 1] = Of(d) /\ \A j \in 1..n : f[j] = m[j]
    BY <1>1, <1>2, <1>4, <2>2
  <2> HIDE DEF f
  <2>4. f = Append(m, Of(d))
    BY <1>2, <1>3, <1>4, <2>3, ToldOfOneMore
  <2> QED
    BY <2>4 DEF f
<1>6. Arguments(t, index) = FlattenSeq(Append(m, Of(d))) /\ Arguments(s, index) = FlattenSeq(m)
  BY <1>5 DEF Arguments
<1> HIDE DEF m, t
<1>7. Arguments(t, index) = Arguments(s, index) \o Of(d)
  BY <1>3, <1>4, <1>6, FlattenOneMore
<1>8. CASE About(d, index) /\ d.frag # 0
  <2>1. Of(d) = <<d.frag>> /\ d.frag \in Nat
    BY <1>8 DEF Delta
  <2>2. Arguments(s, index) \o <<d.frag>> = Append(Arguments(s, index), d.frag)
    BY <2>1
  <2> QED
    BY <1>7, <1>8, <2>1, <2>2 DEF t
<1>9. CASE ~(About(d, index) /\ d.frag # 0)
  <2>1. Of(d) = <<>>
    BY <1>9
  <2>2. Arguments(s, index) \o <<>> = Arguments(s, index)
    OBVIOUS
  <2> QED
    BY <1>7, <1>9, <2>1, <2>2 DEF t
<1> QED
  BY <1>8, <1>9

LEMMA NothingShown ==
  ASSUME NEW kind, NEW index
  PROVE  Frags(<<>>, kind) = <<>> /\ Arguments(<<>>, index) = <<>>
<1>1. Frags(<<>>, kind) = <<>>
  <2>1. [j \in DOMAIN <<>> |-> IF <<>>[j].kind = kind THEN <<(<<>>[j].frag)>> ELSE <<>>] = <<>>
    OBVIOUS
  <2> QED
    BY <2>1, FlattenNothing DEF Frags
<1>2. Arguments(<<>>, index) = <<>>
  <2>1. [j \in DOMAIN <<>> |-> IF About(<<>>[j], index) /\ <<>>[j].frag # 0
                                 THEN <<(<<>>[j].frag)>> ELSE <<>>] = <<>>
    OBVIOUS
  <2> QED
    BY <2>1, FlattenNothing DEF Arguments
<1> QED
  BY <1>1, <1>2

-----------------------------------------------------------------------------
(* A finite set whose elements have different weights can be put in order. *)
InLine(S, w, q) ==
  /\ q \in [1..Cardinality(S) -> S] /\ Range(q) = S
  /\ \A i, j \in 1..Cardinality(S) : i < j => w[q[i]] < w[q[j]]

LEMMA WeightsAreBounded ==
  ASSUME NEW T, NEW w \in [T -> Nat], IsFiniteSet(T)
  PROVE  \E m \in Nat : \A x \in T : w[x] < m
<1> DEFINE N == {n \in Nat : \A S \in SUBSET T : IsFiniteSet(S) /\ Cardinality(S) = n =>
                               \E m \in Nat : \A x \in S : w[x] < m}
<1>1. 0 \in N
  <2>1. \A S \in SUBSET T : IsFiniteSet(S) /\ Cardinality(S) = 0 => \A x \in S : w[x] < 0
    BY FS_EmptySet
  <2> QED
    BY <2>1
<1>2. ASSUME NEW n \in Nat, n \in N PROVE n + 1 \in N
  <2>0. ASSUME NEW S \in SUBSET T, IsFiniteSet(S), Cardinality(S) = n + 1
        PROVE  \E m \in Nat : \A x \in S : w[x] < m
    <3>1. S # {}
      BY <2>0, FS_EmptySet
    <3>2. PICK x \in S : TRUE
      BY <3>1
    <3>3. IsFiniteSet(S \ {x}) /\ Cardinality(S \ {x}) = n
      <4>1. IsFiniteSet(S \ {x}) /\ Cardinality(S \ {x}) = Cardinality(S) - 1
        BY <2>0, <3>2, FS_RemoveElement
      <4> QED
        BY <2>0, <4>1
    <3>4. PICK m \in Nat : \A y \in S \ {x} : w[y] < m
      BY <1>2, <3>3
    <3>5. w[x] \in Nat /\ \A y \in S : w[y] \in Nat
      OBVIOUS
    <3>6. \A y \in S : w[y] < m + w[x] + 1
      BY <3>4, <3>5
    <3> QED
      BY <3>5, <3>6
  <2> QED
    BY <2>0
<1> HIDE DEF N
<1>3. Cardinality(T) \in N
  BY <1>1, <1>2, Inductively, FS_CardinalityType
<1> QED
  BY <1>3 DEF N

LEMMA LineUp ==
  ASSUME NEW T, NEW w \in [T -> Nat], IsFiniteSet(T),
         \A x, y \in T : w[x] = w[y] => x = y
  PROVE  \E q : InLine(T, w, q)
<1> DEFINE N == {m \in Nat : \A S \in SUBSET T : (\A x \in S : w[x] < m) => \E q : InLine(S, w, q)}
<1>1. 0 \in N
  <2> SUFFICES ASSUME NEW S \in SUBSET T, \A x \in S : w[x] < 0
               PROVE  \E q : InLine(S, w, q)
    OBVIOUS
  <2>1. S = {}
    OBVIOUS
  <2>2. Cardinality(S) = 0 /\ 1..0 = {}
    BY <2>1, FS_EmptySet
  <2>3. [i \in 1..0 |-> 0] \in [1..0 -> S] /\ Range([i \in 1..0 |-> 0]) = {}
    BY <2>2 DEF Range
  <2>4. InLine(S, w, [i \in 1..0 |-> 0])
    BY <2>1, <2>2, <2>3 DEF InLine
  <2> QED
    BY <2>4
<1>2. ASSUME NEW m \in Nat, m \in N PROVE m + 1 \in N
  <2>0. ASSUME NEW S \in SUBSET T, \A x \in S : w[x] < m + 1
        PROVE  \E q : InLine(S, w, q)
    <3>0. \A x \in S : w[x] \in Nat
      OBVIOUS
    <3>1. CASE \A x \in S : w[x] < m
      BY <1>2, <3>1
    <3>2. ASSUME NEW k \in S, ~(w[k] < m) PROVE \E q : InLine(S, w, q)
      <4> DEFINE R == S \ {k}
                 n == Cardinality(R)
      <4>1. w[k] = m /\ \A x \in R : w[x] < m
        <5>1. w[k] = m
          BY <2>0, <3>0, <3>2
        <5>2. \A x \in R : w[x] # m
          BY <5>1
        <5> QED
          BY <2>0, <3>0, <5>1, <5>2
      <4>2. R \in SUBSET T
        OBVIOUS
      <4>3. PICK q : InLine(R, w, q)
        BY <1>2, <4>1, <4>2
      <4>4. IsFiniteSet(S) /\ IsFiniteSet(R) /\ n \in Nat /\ Cardinality(S) = n + 1
        <5>1. IsFiniteSet(S) /\ Cardinality(S) \in Nat
          BY FS_Subset, FS_CardinalityType
        <5>2. IsFiniteSet(R) /\ n = Cardinality(S) - 1
          BY <5>1, FS_RemoveElement
        <5>3. n \in Nat
          BY <5>2, FS_CardinalityType
        <5> QED
          BY <5>1, <5>2, <5>3
      <4> DEFINE p == [i \in 1..(n + 1) |-> IF i = n + 1 THEN k ELSE q[i]]
      <4> HIDE DEF n
      <4>5. q \in [1..n -> R] /\ Range(q) = R /\ \A i, j \in 1..n : i < j => w[q[i]] < w[q[j]]
        BY <4>3 DEF InLine, n
      <4> HIDE DEF R
      <4>6. R \subseteq S /\ k \in S /\ S = R \cup {k}
        BY DEF R
      <4>7. \A i \in 1..(n + 1) : i = n + 1 \/ i \in 1..n
        BY <4>4
      <4>8. p \in [1..(n + 1) -> S] /\ p[n + 1] = k /\ \A i \in 1..n : p[i] = q[i] /\ i # n + 1
        BY <4>4, <4>5, <4>6, <4>7
      <4> HIDE DEF p
      <4>9. Range(p) = S
        <5>1. \A x \in R : \E i \in 1..(n + 1) : p[i] = x
          BY <4>4, <4>5, <4>8 DEF Range
        <5>2. n + 1 \in 1..(n + 1)
          BY <4>4
        <5> QED
          BY <4>6, <4>8, <5>1, <5>2 DEF Range
      <4>10. ASSUME NEW i \in 1..(n + 1), NEW j \in 1..(n + 1), i < j PROVE w[p[i]] < w[p[j]]
        <5>1. i \in 1..n
          BY <4>4, <4>10
        <5>2. p[i] = q[i] /\ q[i] \in R
          BY <4>5, <4>8, <5>1
        <5>3. CASE j \in 1..n
          BY <4>5, <4>8, <4>10, <5>1, <5>3
        <5>4. CASE j = n + 1
          BY <4>1, <4>8, <5>2, <5>4
        <5> QED
          BY <4>7, <5>3, <5>4
      <4>11. InLine(S, w, p)
        BY <4>4, <4>8, <4>9, <4>10 DEF InLine
      <4> QED
        BY <4>11
    <3> QED
      BY <3>1, <3>2
  <2> QED
    BY <2>0
<1> HIDE DEF N
<1>3. PICK m \in Nat : \A x \in T : w[x] < m
  BY WeightsAreBounded
<1>4. m \in N
  BY <1>1, <1>2, Inductively
<1> QED
  BY <1>3, <1>4 DEF N


-----------------------------------------------------------------------------
(* What holds of a stream: where its blocks are, what they hold, what was  *)
(* told of them.                                                           *)
StreamTypes ==
  /\ client \in Clients /\ events \in Nat /\ streams \in BOOLEAN
  /\ IsFiniteSet(DOMAIN acc) /\ DOMAIN acc \subseteq Kinds \X Nat
  /\ acc \in [DOMAIN acc -> Seq(Nat)]
  /\ named \subseteq DOMAIN acc /\ announced \subseteq DOMAIN acc
  /\ sink \in Seq(Delta) /\ opened \in [{"text", "thinking"} -> SUBSET Nat]

Placed ==
  /\ client = "anthropic" =>
       /\ \A k \in DOMAIN acc : k[2] < Cardinality(DOMAIN acc)
       /\ \A k, l \in DOMAIN acc : k[2] = l[2] => k = l
  /\ client = "openai" =>
       /\ announced = named
       /\ \A k \in DOMAIN acc : IF k[1] = "tool" THEN k \in named ELSE k[1] # "other" /\ k[2] = 0

Numbered ==
  /\ \A k \in DOMAIN acc : Rising(acc[k]) /\ ToSet(acc[k]) \subseteq 1..events
  /\ \A k, l \in DOMAIN acc : k[1] = l[1] /\ k[1] # "tool" /\ k[2] < l[2] =>
       \A x \in ToSet(acc[k]), y \in ToSet(acc[l]) : x < y

Fragments(kind) == UNION {ToSet(acc[k]) : k \in {l \in DOMAIN acc : l[1] = kind}}

Told ==
  \A kind \in {"text", "thinking"} :
    /\ Frags(sink, kind) \in Seq(Nat) /\ Rising(Frags(sink, kind))
    /\ ToSet(Frags(sink, kind)) = Fragments(kind) \ opened[kind]
    /\ opened[kind] \subseteq Fragments(kind)

ArgumentsOf(i) == IF <<"tool", i>> \in DOMAIN acc THEN acc[<<"tool", i>>] ELSE <<>>

Argued == \A i \in Nat : Arguments(sink, i) = ArgumentsOf(i)

Voiced(k) == {j \in DOMAIN sink : About(sink[j], k[2])}

Introduced ==
  /\ \A j \in DOMAIN sink : <<sink[j].kind, sink[j].index>> \in DOMAIN acc
  /\ \A k \in named :
       /\ k[1] = "tool" /\ Voiced(k) # {}
       /\ \A j \in Voiced(k) : sink[j].ids <=> \A l \in Voiced(k) : j <= l

StreamInv == StreamTypes /\ Placed /\ Numbered /\ Told /\ Argued /\ Introduced

-----------------------------------------------------------------------------
(* The blocks of an answer are in order, since no two have the same place. *)
Place(k) ==
  IF client = "anthropic" THEN k[2] ELSE IF k[1] = "tool" THEN 2 + k[2] ELSE Rank(k[1])

LEMMA PlacesDiffer ==
  ASSUME StreamTypes, Placed, NEW k \in DOMAIN acc, NEW l \in DOMAIN acc
  PROVE  /\ Place(k) \in Nat
         /\ Place(k) = Place(l) => k = l
         /\ Place(k) < Place(l) => Before(k, l)
<1>1. /\ client \in Clients
      /\ k \in Kinds \X Nat /\ l \in Kinds \X Nat
  BY DEF StreamTypes
<1>2. /\ k[1] \in Kinds /\ k[2] \in Nat /\ k = <<k[1], k[2]>>
      /\ l[1] \in Kinds /\ l[2] \in Nat /\ l = <<l[1], l[2]>>
  BY <1>1
<1>3. CASE client = "anthropic"
  BY <1>2, <1>3 DEF Place, Before, Placed
<1>4. CASE client = "openai"
  <2>1. /\ IF k[1] = "tool" THEN TRUE ELSE k[1] # "other" /\ k[2] = 0
        /\ IF l[1] = "tool" THEN TRUE ELSE l[1] # "other" /\ l[2] = 0
    BY <1>4 DEF Placed
  <2>2. /\ k[1] = "tool" \/ (k[1] \in {"text", "thinking"} /\ k[2] = 0)
        /\ l[1] = "tool" \/ (l[1] \in {"text", "thinking"} /\ l[2] = 0)
    BY <1>2, <2>1 DEF Kinds
  <2>3. Rank("text") = 1 /\ Rank("thinking") = 0 /\ Rank("tool") = 2
    BY DEF Rank
  <2>4. client # "anthropic"
    BY <1>4
  <2>5. /\ Place(k) = IF k[1] = "tool" THEN 2 + k[2] ELSE Rank(k[1])
        /\ Place(l) = IF l[1] = "tool" THEN 2 + l[2] ELSE Rank(l[1])
        /\ Before(k, l) <=> IF k[1] = l[1] THEN k[2] < l[2] ELSE Rank(k[1]) < Rank(l[1])
    BY <2>4 DEF Place, Before
  <2>6. CASE k[1] = "tool" /\ l[1] = "tool"
    BY <1>2, <2>5, <2>6
  <2>7. CASE k[1] = "tool" /\ l[1] # "tool"
    BY <1>2, <2>2, <2>3, <2>5, <2>7
  <2>8. CASE k[1] # "tool" /\ l[1] = "tool"
    BY <1>2, <2>2, <2>3, <2>5, <2>8
  <2>9. CASE k[1] # "tool" /\ l[1] # "tool"
    BY <1>2, <2>2, <2>3, <2>5, <2>9
  <2> QED
    BY <2>6, <2>7, <2>8, <2>9
<1> QED
  BY <1>1, <1>3, <1>4 DEF Clients

Ordered(q, T) ==
  /\ q \in [1..Cardinality(T) -> T] /\ Range(q) = T
  /\ \A i, j \in 1..Cardinality(T) : i < j => Before(q[i], q[j])

LEMMA OrderFound ==
  ASSUME StreamTypes, Placed, NEW T \in SUBSET DOMAIN acc
  PROVE  Ordered(InOrder(T), T)
<1> DEFINE w == [k \in T |-> Place(k)]
           n == Cardinality(T)
<1>1. w \in [T -> Nat] /\ (\A k, l \in T : w[k] = w[l] => k = l)
      /\ \A k, l \in T : w[k] < w[l] => Before(k, l)
  BY PlacesDiffer
<1>2. IsFiniteSet(T)
  BY FS_Subset DEF StreamTypes
<1> HIDE DEF w
<1>3. PICK q : InLine(T, w, q)
  BY <1>1, <1>2, LineUp
<1>4. Ordered(q, T)
  BY <1>1, <1>3 DEF InLine, Ordered
<1>5. \A r \in [1..n -> T] : DOMAIN r = 1..n
  OBVIOUS
<1>6. \E r \in [1..n -> T] : Range(r) = T /\ \A i, j \in DOMAIN r : i < j => Before(r[i], r[j])
  BY <1>4, <1>5 DEF Ordered
<1>7. /\ InOrder(T) \in [1..n -> T] /\ Range(InOrder(T)) = T
      /\ \A i, j \in DOMAIN InOrder(T) : i < j => Before(InOrder(T)[i], InOrder(T)[j])
  BY <1>6 DEF InOrder
<1> QED
  BY <1>5, <1>7 DEF Ordered

(* Text and scratchpad of the content: all that the blocks hold, in order. *)
LEMMA ContentTold ==
  ASSUME StreamTypes, Placed, Numbered, NEW kind \in {"text", "thinking"}
  PROVE  /\ Parts(Content, kind) \in Seq(Nat) /\ Rising(Parts(Content, kind))
         /\ ToSet(Parts(Content, kind)) = Fragments(kind)
<1> DEFINE T == {k \in DOMAIN acc : Stays(k)}
           q == InOrder(T)
           n == Cardinality(T)
           s == [i \in 1..n |-> IF q[i][1] = kind THEN acc[q[i]] ELSE <<>>]
<1>1. T \in SUBSET DOMAIN acc
  OBVIOUS
<1>2. Ordered(q, T)
  BY <1>1, OrderFound
<1>3. n \in Nat
  BY <1>1, FS_Subset, FS_CardinalityType DEF StreamTypes
<1>4. q \in [1..n -> T] /\ Range(q) = T /\ DOMAIN q = 1..n
  BY <1>2 DEF Ordered
<1>5. Content = [i \in 1..n |-> Block(q[i])]
  BY <1>4 DEF Content
<1>6. Parts(Content, kind) = FlattenSeq(s)
  <2>1. DOMAIN Content = 1..n
    BY <1>5
  <2>2. \A i \in 1..n : Content[i].kind = q[i][1] /\ Content[i].parts = acc[q[i]]
    BY <1>5 DEF Block
  <2>3. [i \in DOMAIN Content |-> IF Content[i].kind = kind THEN Content[i].parts ELSE <<>>] = s
    BY <2>1, <2>2
  <2> QED
    BY <2>3 DEF Parts
<1> HIDE DEF q
<1>7. \A k \in T : k \in DOMAIN acc /\ acc[k] \in Seq(Nat)
  BY <1>1 DEF StreamTypes
<1>8. s \in Seq(Seq(Nat)) /\ Len(s) = n
      /\ \A i \in 1..n : s[i] = IF q[i][1] = kind THEN acc[q[i]] ELSE <<>>
  <2>1. \A i \in 1..n : q[i] \in T
    BY <1>4
  <2>2. \A i \in 1..n : (IF q[i][1] = kind THEN acc[q[i]] ELSE <<>>) \in Seq(Nat)
    BY <1>7, <2>1
  <2> HIDE DEF n
  <2> QED
    BY <1>3, <2>2
<1>9. /\ \A i \in 1..n : q[i] \in T
      /\ \A i, j \in 1..n : i < j => Before(q[i], q[j])
  BY <1>2, <1>4 DEF Ordered
<1> HIDE DEF s, n
<1>10. Rising(<<>>) /\ ToSet(<<>>) = {}
  BY DEF Rising, ToSet
<1>11. \A x \in {"text", "thinking"} : x # "tool"
  OBVIOUS
<1>12. Stacked(s)
  <2>1. ASSUME NEW i \in 1..n PROVE Rising(s[i])
    BY <1>7, <1>8, <1>9, <1>10, <2>1 DEF Numbered
  <2>2. ASSUME NEW i \in 1..n, NEW j \in 1..n, i < j, NEW x \in ToSet(s[i]), NEW y \in ToSet(s[j])
        PROVE  x < y
    <3>1. q[i][1] = kind /\ s[i] = acc[q[i]] /\ q[j][1] = kind /\ s[j] = acc[q[j]]
      BY <1>8, <1>10, <2>2
    <3>2. q[i][2] < q[j][2]
      BY <1>9, <2>2, <3>1 DEF Before
    <3>3. q[i] \in DOMAIN acc /\ q[j] \in DOMAIN acc /\ kind # "tool"
      BY <1>7, <1>9, <1>11, <2>2
    <3> QED
      BY <2>2, <3>1, <3>2, <3>3 DEF Numbered
  <2> QED
    BY <1>8, <2>1, <2>2 DEF Stacked
<1>13. JoinsUp(s)
  BY <1>8, <1>12, StackedJoins
<1>14. UNION {ToSet(s[i]) : i \in 1..n} = Fragments(kind)
  <2>1. ASSUME NEW i \in 1..n, NEW x \in ToSet(s[i]) PROVE x \in Fragments(kind)
    <3>1. q[i][1] = kind /\ s[i] = acc[q[i]] /\ q[i] \in DOMAIN acc
      BY <1>7, <1>8, <1>9, <1>10, <2>1
    <3> QED
      BY <2>1, <3>1 DEF Fragments
  <2>2. ASSUME NEW x \in Fragments(kind) PROVE \E i \in 1..n : x \in ToSet(s[i])
    <3>1. PICK k \in DOMAIN acc : k[1] = kind /\ x \in ToSet(acc[k])
      BY <2>2 DEF Fragments
    <3>2. acc[k] # <<>> /\ k[1] # "other"
      BY <1>10, <3>1
    <3>3. k \in T
      BY <3>1, <3>2 DEF Stays
    <3>4. PICK i \in 1..n : q[i] = k
      BY <1>4, <3>3 DEF Range
    <3> QED
      BY <1>8, <3>1, <3>4
  <2> QED
    BY <2>1, <2>2
<1> QED
  BY <1>6, <1>8, <1>13, <1>14 DEF JoinsUp

(* The answer that is made of a stream is what was told of it.             *)
IsWhatStreamed(content) ==
  /\ \A kind \in {"text", "thinking"} :
       LET given == Frags(sink, kind)
           reply == Parts(content, kind)
       IN  /\ Rising(given) /\ Rising(reply)
           /\ ToSet(given) = ToSet(reply) \ opened[kind] /\ opened[kind] \subseteq ToSet(reply)
  /\ \A i \in DOMAIN content :
       LET told == {j \in DOMAIN sink : About(sink[j], content[i].index)}
       IN  content[i].kind = "tool" /\ content[i].id =>
             /\ told # {} /\ \A j \in told : sink[j].ids <=> \A l \in told : j <= l
             /\ Arguments(sink, content[i].index) = content[i].parts

LEMMA ContentIsWhatStreamed ==
  ASSUME StreamInv
  PROVE  IsWhatStreamed(Content)
<1>1. ASSUME NEW kind \in {"text", "thinking"}
      PROVE  LET given == Frags(sink, kind)
                 reply == Parts(Content, kind)
             IN  /\ Rising(given) /\ Rising(reply)
                 /\ ToSet(given) = ToSet(reply) \ opened[kind]
                 /\ opened[kind] \subseteq ToSet(reply)
  <2>1. Rising(Parts(Content, kind)) /\ ToSet(Parts(Content, kind)) = Fragments(kind)
    BY <1>1, ContentTold DEF StreamInv
  <2>2. /\ Rising(Frags(sink, kind))
        /\ ToSet(Frags(sink, kind)) = Fragments(kind) \ opened[kind]
        /\ opened[kind] \subseteq Fragments(kind)
    BY <1>1 DEF StreamInv, Told
  <2> QED
    BY ONLY <2>1, <2>2
<1>2. ASSUME NEW i \in DOMAIN Content, Content[i].kind = "tool", Content[i].id,
             NEW told, told = {j \in DOMAIN sink : About(sink[j], Content[i].index)}
      PROVE  /\ told # {} /\ \A j \in told : sink[j].ids <=> \A l \in told : j <= l
             /\ Arguments(sink, Content[i].index) = Content[i].parts
  <2> DEFINE T == {k \in DOMAIN acc : Stays(k)}
             q == InOrder(T)
  <2>1. DOMAIN Content = DOMAIN q /\ Content[i] = Block(q[i])
    BY <1>2 DEF Content
  <2>2. T \in SUBSET DOMAIN acc
    OBVIOUS
  <2>3. Ordered(q, T)
    BY <2>2, OrderFound DEF StreamInv
  <2>4. q[i] \in T
    BY <1>2, <2>1, <2>3 DEF Ordered
  <2>5. PICK k \in DOMAIN acc : k = q[i]
    BY <2>2, <2>4
  <2> HIDE DEF T, q
  <2>6. /\ Content[i].kind = k[1] /\ Content[i].index = k[2] /\ Content[i].id = (k \in named)
        /\ Content[i].parts = acc[k]
    BY <2>1, <2>5 DEF Block
  <2>7. k \in named /\ k[1] = "tool"
    BY <1>2, <2>6
  <2>8. told = Voiced(k)
    BY <1>2, <2>6 DEF Voiced
  <2>9. k \in Kinds \X Nat
    BY DEF StreamInv, StreamTypes
  <2>10. k[2] \in Nat /\ k = <<"tool", k[2]>>
    BY <2>7, <2>9
  <2>11. Arguments(sink, k[2]) = acc[k]
    BY <2>10 DEF StreamInv, Argued, ArgumentsOf
  <2>12. Introduced
    BY DEF StreamInv
  <2> QED
    BY <2>6, <2>7, <2>8, <2>11, <2>12 DEF Introduced
<1> QED
  BY <1>1, <1>2 DEF IsWhatStreamed

-----------------------------------------------------------------------------
(* A step that leaves the stream alone, and one that starts it again.      *)
StreamRests == UNCHANGED <<client, streams, acc, named, announced, sink, events, opened>>

LEMMA RestKeepsStream ==
  ASSUME StreamInv, StreamRests
  PROVE  StreamInv'
BY DEF StreamInv, StreamRests, StreamTypes, Placed, Numbered, Fragments, Told, ArgumentsOf, Argued,
       Voiced, Introduced

LEMMA NothingTold == Rising(<<>>) /\ ToSet(<<>>) = {} /\ <<>> \in Seq(Nat)
BY DEF Rising, ToSet

Emptied ==
  /\ client \in Clients /\ streams \in BOOLEAN
  /\ acc = <<>> /\ named = {} /\ announced = {} /\ events = 0 /\ sink = <<>>
  /\ opened = Unopened

LEMMA EmptyIsSound == Emptied => StreamInv
<1> SUFFICES ASSUME Emptied PROVE StreamInv
  OBVIOUS
<1>0. /\ client \in Clients /\ streams \in BOOLEAN
      /\ acc = <<>> /\ named = {} /\ announced = {} /\ events = 0 /\ sink = <<>>
      /\ opened = Unopened
  BY DEF Emptied
<1>1. DOMAIN acc = {} /\ acc \in [{} -> Seq(Nat)] /\ DOMAIN sink = {} /\ sink \in Seq(Delta)
  <2>1. DOMAIN <<>> = {} /\ <<>> \in [{} -> Seq(Nat)] /\ <<>> \in Seq(Delta)
    OBVIOUS
  <2> QED
    BY <1>0, <2>1
<1>2. StreamTypes
  <2>1. opened \in [{"text", "thinking"} -> SUBSET Nat]
    BY <1>0 DEF Unopened
  <2> QED
    BY <1>0, <1>1, <2>1, FS_EmptySet DEF StreamTypes
<1>3. Placed /\ Numbered /\ Introduced
  BY <1>0, <1>1 DEF Placed, Numbered, Introduced
<1>4. Told
  <2>1. \A kind : Fragments(kind) = {}
    BY <1>0, <1>1 DEF Fragments
  <2>2. \A kind \in {"text", "thinking"} : opened[kind] = {}
    BY <1>0 DEF Unopened
  <2> QED
    BY <1>0, <2>1, <2>2, NothingShown, NothingTold DEF Told
<1>5. Argued
  <2>1. \A i : ArgumentsOf(i) = <<>>
    BY <1>0, <1>1 DEF ArgumentsOf
  <2> QED
    BY <1>0, <2>1, NothingShown DEF Argued
<1> QED
  BY <1>2, <1>3, <1>4, <1>5 DEF StreamInv

LEMMA EmptyAgain == Emptied' => StreamInv'
BY EmptyIsSound, PTL

-----------------------------------------------------------------------------
(* The blocks with one more of them, or one of them longer.                *)
Old(k) == IF k \in DOMAIN acc THEN acc[k] ELSE <<>>

LEMMA OldIsNumbered ==
  ASSUME StreamTypes, Numbered, NEW k
  PROVE  Old(k) \in Seq(Nat) /\ Rising(Old(k)) /\ ToSet(Old(k)) \subseteq 1..events
BY NothingTold DEF Old, StreamTypes, Numbered

LEMMA WithOneBlock ==
  ASSUME StreamTypes, NEW k \in Kinds \X Nat, NEW p \in Seq(Nat), acc' = With(k, p)
  PROVE  /\ DOMAIN acc' = DOMAIN acc \cup {k} /\ IsFiniteSet(DOMAIN acc')
         /\ DOMAIN acc' \subseteq Kinds \X Nat /\ acc' \in [DOMAIN acc' -> Seq(Nat)]
         /\ acc'[k] = p /\ \A l \in DOMAIN acc : l # k => acc'[l] = acc[l]
<1>1. DOMAIN acc' = DOMAIN acc \cup {k}
  BY DEF With
<1>2. IsFiniteSet(DOMAIN acc')
  <2>1. IsFiniteSet(DOMAIN acc)
    BY DEF StreamTypes
  <2>2. IsFiniteSet(DOMAIN acc \cup {k})
    BY <2>1, FS_AddElement
  <2> QED
    BY <1>1, <2>2
<1>3. acc'[k] = p /\ \A l \in DOMAIN acc : l # k => acc'[l] = acc[l]
  BY DEF With
<1>4. acc' \in [DOMAIN acc' -> Seq(Nat)]
  BY <1>1, <1>3 DEF With, StreamTypes
<1>5. DOMAIN acc' \subseteq Kinds \X Nat
  BY <1>1 DEF StreamTypes
<1> QED
  BY <1>1, <1>2, <1>3, <1>4, <1>5

(* The last block of its kind gets the fragment that has just come.        *)
Lasts(k) == k[1] # "tool" => \A l \in DOMAIN acc : l[1] = k[1] => l[2] <= k[2]

LEMMA FragmentKeepsNumbers ==
  ASSUME StreamTypes, Numbered, NEW k \in Kinds \X Nat, Lasts(k), Adds(k), events' = events + 1
  PROVE  Numbered'
<1> DEFINE p == Append(Old(k), events + 1)
<1>1. Old(k) \in Seq(Nat) /\ Rising(Old(k)) /\ ToSet(Old(k)) \subseteq 1..events /\ events \in Nat
  BY OldIsNumbered DEF StreamTypes
<1>2. p \in Seq(Nat) /\ Rising(p) /\ ToSet(p) = ToSet(Old(k)) \cup {events + 1}
  <2>1. \A y \in ToSet(Old(k)) : y < events + 1
    BY <1>1
  <2>2. events + 1 \in Nat
    BY <1>1
  <2> QED
    BY <1>1, <2>1, <2>2, RisingAppend, ToSetAppend
<1>3. acc' = With(k, p)
  BY DEF Adds, Old, Frag
<1> HIDE DEF p
<1>4. /\ DOMAIN acc' = DOMAIN acc \cup {k} /\ acc'[k] = p
      /\ \A l \in DOMAIN acc : l # k => acc'[l] = acc[l]
  BY <1>2, <1>3, WithOneBlock
<1>5. ASSUME NEW l \in DOMAIN acc' PROVE Rising(acc'[l]) /\ ToSet(acc'[l]) \subseteq 1..(events + 1)
  <2>1. CASE l = k
    BY <1>1, <1>2, <1>4, <2>1
  <2>2. CASE l # k
    <3>1. l \in DOMAIN acc /\ acc'[l] = acc[l]
      BY <1>4, <2>2
    <3>2. Rising(acc[l]) /\ ToSet(acc[l]) \subseteq 1..events
      BY <3>1 DEF Numbered
    <3> QED
      BY <1>1, <3>1, <3>2
  <2> QED
    BY <2>1, <2>2
<1>6. ASSUME NEW a \in DOMAIN acc', NEW b \in DOMAIN acc', a[1] = b[1], a[1] # "tool", a[2] < b[2],
             NEW x \in ToSet(acc'[a]), NEW y \in ToSet(acc'[b])
      PROVE  x < y
  <2>0. k[2] \in Nat /\ \A l \in DOMAIN acc : l[2] \in Nat
    BY DEF StreamTypes
  <2>1. a # k
    <3> SUFFICES ASSUME a = k PROVE FALSE
      OBVIOUS
    <3>1. b \in DOMAIN acc
      BY <1>4, <1>6, <2>0
    <3>2. b[2] <= k[2]
      BY <1>6, <3>1 DEF Lasts
    <3> QED
      BY <1>6, <2>0, <3>1, <3>2
  <2>2. a \in DOMAIN acc /\ acc'[a] = acc[a]
    BY <1>4, <2>1
  <2>3. x \in 1..events
    BY <1>6, <2>2 DEF Numbered
  <2>4. CASE b # k
    <3>1. b \in DOMAIN acc /\ acc'[b] = acc[b]
      BY <1>4, <2>4
    <3> QED
      BY <1>6, <2>2, <3>1 DEF Numbered
  <2>5. CASE b = k
    <3>1. y \in ToSet(Old(k)) \/ y = events + 1
      BY <1>2, <1>4, <1>6, <2>5
    <3>2. CASE y = events + 1
      BY <1>1, <2>3, <3>2
    <3>3. CASE y \in ToSet(Old(k))
      <4>1. k \in DOMAIN acc /\ y \in ToSet(acc[k])
        BY <3>3, NothingTold DEF Old
      <4> QED
        BY <1>6, <2>2, <2>5, <4>1 DEF Numbered
    <3> QED
      BY <3>1, <3>2, <3>3
  <2> QED
    BY <2>4, <2>5
<1> QED
  BY <1>5, <1>6 DEF Numbered

LEMMA BlockKeepsNumbers ==
  ASSUME StreamTypes, Numbered, NEW k \in Kinds \X Nat, k \notin DOMAIN acc, acc' = With(k, <<>>),
         events' = events + 1
  PROVE  Numbered'
<1>1. /\ DOMAIN acc' = DOMAIN acc \cup {k} /\ acc'[k] = <<>>
      /\ \A l \in DOMAIN acc : l # k => acc'[l] = acc[l]
  BY NothingTold, WithOneBlock
<1>2. ASSUME NEW l \in DOMAIN acc', l # k PROVE l \in DOMAIN acc /\ acc'[l] = acc[l]
  BY <1>1, <1>2
<1>3. events \in Nat /\ 1..events \subseteq 1..(events + 1)
  BY DEF StreamTypes
<1>4. ASSUME NEW l \in DOMAIN acc' PROVE Rising(acc'[l]) /\ ToSet(acc'[l]) \subseteq 1..(events + 1)
  BY <1>1, <1>2, <1>3, NothingTold DEF Numbered
<1>5. ASSUME NEW a \in DOMAIN acc', NEW b \in DOMAIN acc', a[1] = b[1], a[1] # "tool", a[2] < b[2],
             NEW x \in ToSet(acc'[a]), NEW y \in ToSet(acc'[b])
      PROVE  x < y
  <2>1. a # k /\ b # k
    BY <1>1, <1>5, NothingTold
  <2> QED
    BY <1>2, <1>5, <2>1 DEF Numbered
<1> QED
  BY <1>4, <1>5 DEF Numbered

-----------------------------------------------------------------------------
(* What the sink is told is what the block gets.                           *)
Tells(k, ids, frag) ==
  sink' = Append(sink, [kind |-> k[1], index |-> k[2], ids |-> ids, frag |-> frag])

LEMMA FragmentsGrow ==
  ASSUME StreamTypes, Numbered, NEW k \in Kinds \X Nat, Adds(k), NEW kind
  PROVE  /\ Fragments(kind)' = Fragments(kind) \cup (IF k[1] = kind THEN {events + 1} ELSE {})
         /\ kind \in {"text", "thinking"} => Fragments(kind) \subseteq 1..events
<1> DEFINE p == Append(Old(k), events + 1)
<1>1. Old(k) \in Seq(Nat) /\ ToSet(Old(k)) \subseteq 1..events /\ events \in Nat
  BY OldIsNumbered DEF StreamTypes
<1>2. p \in Seq(Nat) /\ ToSet(p) = ToSet(Old(k)) \cup {events + 1}
  BY <1>1, ToSetAppend
<1>3. acc' = With(k, p)
  BY DEF Adds, Old, Frag
<1> HIDE DEF p
<1>4. /\ DOMAIN acc' = DOMAIN acc \cup {k} /\ acc'[k] = p
      /\ \A l \in DOMAIN acc : l # k => acc'[l] = acc[l]
  BY <1>2, <1>3, WithOneBlock
<1>5. Fragments(kind)' = Fragments(kind) \cup (IF k[1] = kind THEN {events + 1} ELSE {})
  <2>1. Fragments(kind)' = UNION {ToSet(acc'[l]) : l \in {m \in DOMAIN acc' : m[1] = kind}}
    BY DEF Fragments
  <2>2. ASSUME NEW x, x \in Fragments(kind)'
        PROVE  x \in Fragments(kind) \cup (IF k[1] = kind THEN {events + 1} ELSE {})
    <3>1. PICK l \in DOMAIN acc' : l[1] = kind /\ x \in ToSet(acc'[l])
      BY <2>1, <2>2
    <3>2. CASE l # k
      BY <1>4, <3>1, <3>2 DEF Fragments
    <3>3. CASE l = k
      <4>1. x \in ToSet(Old(k)) \/ x = events + 1
        BY <1>2, <1>4, <3>1, <3>3
      <4>2. CASE x \in ToSet(Old(k))
        <5>1. k \in DOMAIN acc /\ x \in ToSet(acc[k])
          BY <4>2, NothingTold DEF Old
        <5> QED
          BY <3>1, <3>3, <5>1 DEF Fragments
      <4> QED
        BY <3>1, <3>3, <4>1, <4>2
    <3> QED
      BY <3>2, <3>3
  <2>3. ASSUME NEW x \in Fragments(kind) PROVE x \in Fragments(kind)'
    <3>1. PICK l \in DOMAIN acc : l[1] = kind /\ x \in ToSet(acc[l])
      BY <2>3 DEF Fragments
    <3>2. l \in DOMAIN acc' /\ x \in ToSet(acc'[l])
      <4>1. CASE l = k
        <5>1. Old(k) = acc[k]
          BY <4>1 DEF Old
        <5> QED
          BY <1>2, <1>4, <3>1, <4>1, <5>1
      <4>2. CASE l # k
        BY <1>4, <3>1, <4>2
      <4> QED
        BY <4>1, <4>2
    <3> QED
      BY <2>1, <3>1, <3>2
  <2>4. k[1] = kind => events + 1 \in Fragments(kind)'
    BY <1>2, <1>4, <2>1
  <2> QED
    BY <2>2, <2>3, <2>4
<1>6. kind \in {"text", "thinking"} => Fragments(kind) \subseteq 1..events
  BY DEF Fragments, Numbered
<1> QED
  BY <1>5, <1>6

LEMMA FragmentIsTold ==
  ASSUME StreamTypes, Numbered, Told, NEW k \in Kinds \X Nat, NEW ids \in BOOLEAN, Adds(k),
         IF k[1] = "other" THEN sink' = sink ELSE Tells(k, ids, events + 1), opened' = opened
  PROVE  Told'
<1> DEFINE d == [kind |-> k[1], index |-> k[2], ids |-> ids, frag |-> events + 1]
<1>1. events \in Nat
  BY DEF StreamTypes
<1>2. d \in Delta /\ d.kind = k[1] /\ d.frag = events + 1
  BY <1>1 DEF Delta
<1> HIDE DEF d
<1> SUFFICES ASSUME NEW kind \in {"text", "thinking"}
             PROVE  /\ Frags(sink', kind) \in Seq(Nat) /\ Rising(Frags(sink', kind))
                    /\ ToSet(Frags(sink', kind)) = Fragments(kind)' \ opened'[kind]
                    /\ opened'[kind] \subseteq Fragments(kind)'
  BY DEF Told
<1>3. /\ Frags(sink, kind) \in Seq(Nat) /\ Rising(Frags(sink, kind))
      /\ ToSet(Frags(sink, kind)) = Fragments(kind) \ opened[kind]
  BY DEF Told
<1>4. /\ Fragments(kind)' = Fragments(kind) \cup (IF k[1] = kind THEN {events + 1} ELSE {})
      /\ Fragments(kind) \subseteq 1..events
  BY FragmentsGrow
<1>5. /\ opened[kind] \subseteq Fragments(kind) /\ opened'[kind] = opened[kind]
      /\ events + 1 \notin opened[kind]
  BY <1>1, <1>4 DEF Told
<1>6. CASE k[1] = kind
  <2>1. sink' = Append(sink, d)
    BY <1>6 DEF Tells, d
  <2>2. Frags(sink', kind) = Append(Frags(sink, kind), events + 1)
    BY <1>2, <1>3, <1>6, <2>1, FragsOneMore DEF StreamTypes
  <2>3. \A y \in Fragments(kind) : y < events + 1
    BY <1>1, <1>4
  <2>4. Rising(Append(Frags(sink, kind), events + 1))
    <3>1. events + 1 \in Nat /\ \A y \in ToSet(Frags(sink, kind)) : y < events + 1
      BY <1>1, <1>3, <2>3
    <3> QED
      BY ONLY <1>3, <3>1, RisingAppend
  <2>5. ToSet(Append(Frags(sink, kind), events + 1)) =
          (Fragments(kind) \ opened[kind]) \cup {events + 1}
    BY <1>1, <1>3, ToSetAppend
  <2> QED
    BY <1>1, <1>3, <1>4, <1>6, <1>5, <2>2, <2>4, <2>5
<1>7. CASE k[1] # kind
  <2>1. Frags(sink', kind) = Frags(sink, kind)
    <3>1. CASE k[1] = "other"
      BY <3>1
    <3>2. CASE k[1] # "other"
      <4>1. sink' = Append(sink, d)
        BY <3>2 DEF Tells, d
      <4> QED
        BY <1>2, <1>3, <1>7, <4>1, FragsOneMore DEF StreamTypes
    <3> QED
      BY <3>1, <3>2
  <2> QED
    BY <1>3, <1>4, <1>7, <1>5, <2>1
<1> QED
  BY <1>6, <1>7

LEMMA FragmentIsArgued ==
  ASSUME StreamTypes, Numbered, Argued, NEW k \in Kinds \X Nat, NEW ids \in BOOLEAN, Adds(k),
         IF k[1] = "other" THEN sink' = sink ELSE Tells(k, ids, events + 1)
  PROVE  Argued'
<1> DEFINE p == Append(Old(k), events + 1)
           d == [kind |-> k[1], index |-> k[2], ids |-> ids, frag |-> events + 1]
<1>1. Old(k) \in Seq(Nat) /\ events \in Nat /\ k = <<k[1], k[2]>>
  BY OldIsNumbered DEF StreamTypes
<1>2. p \in Seq(Nat)
  BY <1>1
<1>3. acc' = With(k, p)
  BY DEF Adds, Old, Frag
<1>4. d \in Delta /\ d.kind = k[1] /\ d.index = k[2] /\ d.frag = events + 1 /\ d.frag # 0
  BY <1>1 DEF Delta
<1>0. p = Append(Old(k), events + 1)
  OBVIOUS
<1> HIDE DEF p, d
<1>5. /\ DOMAIN acc' = DOMAIN acc \cup {k} /\ acc'[k] = p
      /\ \A l \in DOMAIN acc : l # k => acc'[l] = acc[l]
  BY <1>2, <1>3, WithOneBlock
<1> SUFFICES ASSUME NEW i \in Nat PROVE Arguments(sink', i) = ArgumentsOf(i)'
  BY DEF Argued
<1>6. Arguments(sink, i) = ArgumentsOf(i)
  BY DEF Argued
<1>7. ArgumentsOf(i) = Old(<<"tool", i>>) /\ ArgumentsOf(i) \in Seq(Nat)
  BY NothingTold DEF ArgumentsOf, Old, StreamTypes
<1>8. CASE k = <<"tool", i>>
  <2>1. k[1] = "tool" /\ k[2] = i
    BY <1>8
  <2>2. sink' = Append(sink, d) /\ About(d, i)
    BY <1>4, <2>1 DEF Tells, d, About
  <2>3. Arguments(sink', i) = Append(Arguments(sink, i), events + 1)
    BY <1>4, <1>6, <1>7, <2>2, ArgumentsOneMore DEF StreamTypes
  <2>4. ArgumentsOf(i)' = p
    BY <1>5, <1>8 DEF ArgumentsOf
  <2> QED
    BY <1>0, <1>6, <1>7, <1>8, <2>3, <2>4
<1>9. CASE k # <<"tool", i>>
  <2>1. ArgumentsOf(i)' = ArgumentsOf(i)
    BY <1>5, <1>9 DEF ArgumentsOf
  <2>2. ~About(d, i)
    BY <1>1, <1>4, <1>9 DEF About
  <2>3. Arguments(sink', i) = Arguments(sink, i)
    <3>1. CASE k[1] = "other"
      BY <3>1
    <3>2. CASE k[1] # "other"
      <4>1. sink' = Append(sink, d)
        BY <3>2 DEF Tells, d
      <4> QED
        BY <1>4, <1>6, <1>7, <2>2, <4>1, ArgumentsOneMore DEF StreamTypes
    <3> QED
      BY <3>1, <3>2
  <2> QED
    BY <1>6, <2>1, <2>3
<1> QED
  BY <1>8, <1>9

-----------------------------------------------------------------------------
(* Id and name are told with the first delta about a call, and only then.  *)
Names(k, ids) ==
  /\ named \subseteq named' /\ named' \subseteq named \cup {k}
  /\ k \in named' => k[1] = "tool" /\ IF k \in named THEN ~ids ELSE ids /\ k \notin DOMAIN acc

LEMMA NamesIntroduce ==
  ASSUME StreamTypes, Introduced, NEW k \in Kinds \X Nat, NEW ids \in BOOLEAN, NEW frag \in Nat,
         Tells(k, ids, frag), Names(k, ids), DOMAIN acc' = DOMAIN acc \cup {k}
  PROVE  Introduced'
<1> DEFINE d == [kind |-> k[1], index |-> k[2], ids |-> ids, frag |-> frag]
           n == Len(sink)
<1>1. sink' = Append(sink, d) /\ d \in Delta
  BY DEF Tells, Delta
<1>2. d.kind = k[1] /\ d.index = k[2] /\ (d.ids <=> ids) /\ k = <<k[1], k[2]>>
  OBVIOUS
<1> HIDE DEF d
<1>3. /\ n \in Nat /\ DOMAIN sink = 1..n /\ DOMAIN sink' = 1..(n + 1) /\ sink'[n + 1] = d
      /\ \A j \in 1..n : sink'[j] = sink[j]
  BY <1>1 DEF StreamTypes
<1> HIDE DEF n
<1>4. /\ \A j \in 1..(n + 1) : j = n + 1 \/ j \in 1..n
      /\ \A j \in 1..n : j \in 1..(n + 1) /\ j < n + 1 /\ ~(n + 1 <= j) /\ j \in Int
      /\ n + 1 \in 1..(n + 1) /\ n + 1 <= n + 1
  BY <1>3
<1>5. ASSUME NEW j \in DOMAIN sink' PROVE <<sink'[j].kind, sink'[j].index>> \in DOMAIN acc'
  <2>1. CASE j = n + 1
    BY <1>2, <1>3, <2>1
  <2>2. CASE j # n + 1
    <3>1. j \in DOMAIN sink /\ sink'[j] = sink[j]
      BY <1>3, <1>4, <2>2
    <3> QED
      BY <3>1 DEF Introduced
  <2> QED
    BY <2>1, <2>2
<1>6. ASSUME NEW l
      PROVE  /\ Voiced(l) \subseteq 1..n
             /\ Voiced(l)' = Voiced(l) \cup (IF About(d, l[2]) THEN {n + 1} ELSE {})
  <2>1. Voiced(l)' = {j \in 1..(n + 1) : About(sink'[j], l[2])}
    BY <1>3 DEF Voiced
  <2>2. Voiced(l) = {j \in 1..n : About(sink[j], l[2])}
    BY <1>3 DEF Voiced
  <2>3. \A j \in 1..n : About(sink'[j], l[2]) <=> About(sink[j], l[2])
    BY <1>3
  <2>4. About(sink'[n + 1], l[2]) <=> About(d, l[2])
    BY <1>3
  <2> QED
    BY <1>4, <2>1, <2>2, <2>3, <2>4
<1>7. ASSUME NEW l \in named', l \in named, ~About(d, l[2])
      PROVE  /\ l[1] = "tool" /\ Voiced(l)' # {}
             /\ \A j \in Voiced(l)' : sink'[j].ids <=> \A m \in Voiced(l)' : j <= m
  <2>1. Voiced(l)' = Voiced(l) /\ Voiced(l) \subseteq 1..n
    BY <1>6, <1>7
  <2>2. /\ l[1] = "tool" /\ Voiced(l) # {}
        /\ \A j \in Voiced(l) : sink[j].ids <=> \A m \in Voiced(l) : j <= m
    BY <1>7 DEF Introduced
  <2>3. \A j \in Voiced(l) : sink'[j] = sink[j]
    BY <1>3, <2>1
  <2> QED
    BY ONLY <2>1, <2>2, <2>3
<1>8. ASSUME NEW l \in named', l \in named, About(d, l[2])
      PROVE  /\ l[1] = "tool" /\ Voiced(l)' # {}
             /\ \A j \in Voiced(l)' : sink'[j].ids <=> \A m \in Voiced(l)' : j <= m
  <2>1. Voiced(l)' = Voiced(l) \cup {n + 1} /\ Voiced(l) \subseteq 1..n
    BY <1>6, <1>8
  <2>2. /\ l[1] = "tool" /\ Voiced(l) # {}
        /\ \A j \in Voiced(l) : sink[j].ids <=> \A m \in Voiced(l) : j <= m
    BY <1>8 DEF Introduced
  <2>3. \A j \in Voiced(l) : sink'[j] = sink[j]
    BY <1>3, <2>1
  <2>4. l = k /\ k \in named
    <3>1. l \in Kinds \X Nat
      BY <1>8 DEF StreamTypes
    <3>2. l = <<l[1], l[2]>> /\ k[1] = "tool" /\ k[2] = l[2]
      BY <1>2, <1>8, <3>1 DEF About
    <3>3. l = k
      BY <1>2, <2>2, <3>2
    <3> QED
      BY <1>8, <3>3
  <2>5. ~ids /\ ~d.ids
    BY <1>2, <1>8, <2>4 DEF Names
  <2>6. \A j \in Voiced(l) : j \in 1..n /\ j <= n + 1 /\ ~(n + 1 <= j)
    BY <1>4, <2>1
  <2>7. ASSUME NEW j \in Voiced(l)' PROVE sink'[j].ids <=> \A m \in Voiced(l)' : j <= m
    <3>1. CASE j \in Voiced(l)
      BY <2>1, <2>2, <2>3, <2>6, <3>1
    <3>2. CASE j = n + 1
      <4>1. ~sink'[j].ids
        BY <1>3, <2>5, <3>2
      <4>2. PICK m \in Voiced(l) : TRUE
        BY <2>2
      <4>3. m \in Voiced(l)' /\ ~(j <= m)
        BY <2>1, <2>6, <3>2
      <4> QED
        BY <4>1, <4>3
    <3> QED
      BY <2>1, <2>7, <3>1, <3>2
  <2> QED
    BY <2>1, <2>2, <2>7
<1>9. ASSUME NEW l \in named', l \notin named
      PROVE  /\ l[1] = "tool" /\ Voiced(l)' # {}
             /\ \A j \in Voiced(l)' : sink'[j].ids <=> \A m \in Voiced(l)' : j <= m
  <2>1. l = k /\ k[1] = "tool" /\ ids /\ k \notin DOMAIN acc
    BY <1>9 DEF Names
  <2>2. Voiced(k) = {}
    <3> SUFFICES ASSUME NEW j \in DOMAIN sink, About(sink[j], k[2]) PROVE FALSE
      BY DEF Voiced
    <3>1. <<sink[j].kind, sink[j].index>> = k
      BY <1>2, <2>1 DEF About
    <3>2. <<sink[j].kind, sink[j].index>> \in DOMAIN acc
      BY DEF Introduced
    <3> QED
      BY <2>1, <3>1, <3>2
  <2>3. About(d, k[2])
    BY <1>2, <2>1 DEF About
  <2>4. Voiced(l)' = {n + 1}
    BY <1>6, <2>1, <2>2, <2>3
  <2>5. sink'[n + 1].ids
    BY <1>2, <1>3, <2>1
  <2> QED
    BY <1>4, <2>1, <2>4, <2>5
<1>10. \A l \in named' : /\ l[1] = "tool" /\ Voiced(l)' # {}
                         /\ \A j \in Voiced(l)' : sink'[j].ids <=> \A m \in Voiced(l)' : j <= m
  BY <1>7, <1>8, <1>9
<1> QED
  BY <1>5, <1>10 DEF Introduced

LEMMA NothingNamed ==
  ASSUME StreamTypes, Introduced, sink' = sink, named' = named, DOMAIN acc \subseteq DOMAIN acc'
  PROVE  Introduced'
BY DEF Introduced, Voiced

LEMMA BlockIsTold ==
  ASSUME StreamTypes, Told, Argued, NEW k \in Kinds \X Nat, k \notin DOMAIN acc,
         acc' = With(k, <<>>), NEW ids \in BOOLEAN, ids => k[1] = "tool",
         IF ids THEN Tells(k, TRUE, 0) ELSE sink' = sink, opened' = opened
  PROVE  Told' /\ Argued'
<1> DEFINE d == [kind |-> k[1], index |-> k[2], ids |-> TRUE, frag |-> 0]
<1>1. /\ DOMAIN acc' = DOMAIN acc \cup {k} /\ acc'[k] = <<>>
      /\ \A l \in DOMAIN acc : l # k => acc'[l] = acc[l]
  BY NothingTold, WithOneBlock
<1>2. d \in Delta /\ d.kind = k[1] /\ d.frag = 0
  BY DEF Delta
<1>3. ids => sink' = Append(sink, d)
  BY DEF Tells
<1> HIDE DEF d
<1>4. sink \in Seq(Delta)
  BY DEF StreamTypes
<1>5. ASSUME NEW kind \in {"text", "thinking"}
      PROVE  Frags(sink', kind) = Frags(sink, kind) /\ Fragments(kind)' = Fragments(kind)
  <2>1. CASE ids
    <3>1. d.kind # kind
      BY <1>2, <1>5, <2>1
    <3>2. Frags(sink, kind) \in Seq(Nat)
      BY DEF Told
    <3> QED
      <4>1. Frags(sink', kind) = Frags(sink, kind)
        BY <1>2, <1>3, <1>4, <2>1, <3>1, <3>2, FragsOneMore
      <4>2. Fragments(kind)' = Fragments(kind)
        BY <1>1, NothingTold DEF Fragments
      <4> QED
        BY <4>1, <4>2
  <2>2. CASE ~ids
    BY <1>1, <2>2, NothingTold DEF Fragments
  <2> QED
    BY <2>1, <2>2
<1>6. ASSUME NEW i \in Nat
      PROVE  Arguments(sink', i) = Arguments(sink, i) /\ ArgumentsOf(i)' = ArgumentsOf(i)
  <2>1. ArgumentsOf(i)' = ArgumentsOf(i)
    BY <1>1 DEF ArgumentsOf
  <2>2. Arguments(sink, i) \in Seq(Nat)
    <3>1. ArgumentsOf(i) \in Seq(Nat)
      BY NothingTold DEF ArgumentsOf, StreamTypes
    <3> QED
      BY <3>1 DEF Argued
  <2>3. CASE ids
    BY <1>2, <1>3, <1>4, <2>1, <2>2, <2>3, ArgumentsOneMore
  <2>4. CASE ~ids
    BY <2>1, <2>4
  <2> QED
    BY <2>3, <2>4
<1> QED
  BY <1>5, <1>6 DEF Told, Argued

(* What a start brings is in the block, and the sink is not told.          *)
Brings(k) ==
  /\ k[1] \in {"text", "thinking"} /\ Adds(k) /\ sink' = sink /\ named' = named
  /\ opened' = [opened EXCEPT ![k[1]] = @ \cup {events + 1}]

LEMMA BringsUntold ==
  ASSUME StreamTypes, Numbered, Told, Argued, NEW k \in Kinds \X Nat, Brings(k)
  PROVE  Told' /\ Argued'
<1>1. /\ k[1] \in {"text", "thinking"} /\ Adds(k) /\ sink' = sink
      /\ \A kind \in {"text", "thinking"} :
           opened'[kind] = opened[kind] \cup (IF k[1] = kind THEN {events + 1} ELSE {})
  BY DEF Brings, StreamTypes
<1>2. events \in Nat
  BY DEF StreamTypes
<1>3. ASSUME NEW kind \in {"text", "thinking"}
      PROVE  /\ ToSet(Frags(sink', kind)) = Fragments(kind)' \ opened'[kind]
             /\ opened'[kind] \subseteq Fragments(kind)'
  <2>1. /\ Fragments(kind)' = Fragments(kind) \cup (IF k[1] = kind THEN {events + 1} ELSE {})
        /\ Fragments(kind) \subseteq 1..events
    BY <1>1, FragmentsGrow
  <2>2. events + 1 \notin Fragments(kind)
    BY <1>2, <2>1
  <2>3. /\ ToSet(Frags(sink, kind)) = Fragments(kind) \ opened[kind]
        /\ opened[kind] \subseteq Fragments(kind)
    BY DEF Told
  <2> QED
    BY <1>1, <2>1, <2>2, <2>3
<1>4. Told'
  BY <1>1, <1>3 DEF Told
<1>5. ASSUME NEW i \in Nat PROVE ArgumentsOf(i)' = ArgumentsOf(i)
  <2>1. k # <<"tool", i>>
    BY <1>1
  <2> QED
    BY <1>1, <2>1 DEF Adds, With, ArgumentsOf
<1> QED
  BY <1>1, <1>4, <1>5 DEF Argued

-----------------------------------------------------------------------------
(* The events of a stream.                                                 *)
LEMMA SinkStaysTyped ==
  ASSUME StreamTypes, NEW k \in Kinds \X Nat, NEW ids \in BOOLEAN, NEW frag \in Nat,
         Tells(k, ids, frag)
  PROVE  sink' \in Seq(Delta)
<1>1. [kind |-> k[1], index |-> k[2], ids |-> ids, frag |-> frag] \in Delta
  BY DEF Delta
<1> QED
  BY <1>1 DEF StreamTypes, Tells

Folded == client' = client /\ streams' = streams /\ events' = events + 1

LEMMA FragmentKeepsStream ==
  ASSUME StreamInv, NEW k \in Kinds \X Nat, NEW ids \in BOOLEAN, Lasts(k), Adds(k), Folded,
         IF k[1] = "other" THEN sink' = sink /\ named' = named
                           ELSE Tells(k, ids, events + 1) /\ Names(k, ids),
         announced' \subseteq DOMAIN acc \cup {k}, Placed', opened' = opened
  PROVE  StreamInv'
<1>1. StreamTypes /\ Numbered /\ Told /\ Argued /\ Introduced
  BY DEF StreamInv
<1>2. events' = events + 1 /\ client' = client /\ streams' = streams
  BY DEF Folded
<1>3. Numbered'
  BY <1>1, <1>2, FragmentKeepsNumbers
<1>4. Told' /\ Argued'
  BY <1>1, FragmentIsTold, FragmentIsArgued
<1>5. /\ DOMAIN acc' = DOMAIN acc \cup {k} /\ IsFiniteSet(DOMAIN acc')
      /\ DOMAIN acc' \subseteq Kinds \X Nat /\ acc' \in [DOMAIN acc' -> Seq(Nat)]
  <2>1. Old(k) \in Seq(Nat) /\ events + 1 \in Nat
    BY <1>1, OldIsNumbered DEF StreamTypes
  <2>2. Append(Old(k), events + 1) \in Seq(Nat)
    BY <2>1
  <2>3. acc' = With(k, Append(Old(k), events + 1))
    BY DEF Adds, Old, Frag
  <2> QED
    BY <1>1, <2>2, <2>3, WithOneBlock
<1>6. Introduced'
  <2>1. CASE k[1] = "other"
    BY <1>1, <1>5, <2>1, NothingNamed
  <2>2. CASE k[1] # "other"
    <3>1. events + 1 \in Nat
      BY <1>1 DEF StreamTypes
    <3> QED
      BY <1>1, <1>5, <2>2, <3>1, NamesIntroduce
  <2> QED
    BY <2>1, <2>2
<1>7. StreamTypes'
  <2>1. sink' \in Seq(Delta)
    <3>1. events + 1 \in Nat
      BY <1>1 DEF StreamTypes
    <3> QED
      BY <1>1, <3>1, SinkStaysTyped DEF StreamTypes
  <2>2. named' \subseteq DOMAIN acc'
    BY <1>1, <1>5 DEF Names, StreamTypes
  <2> QED
    BY <1>1, <1>2, <1>5, <2>1, <2>2 DEF StreamTypes
<1> QED
  BY <1>3, <1>4, <1>6, <1>7 DEF StreamInv

LEMMA BlockKeepsStream ==
  ASSUME StreamInv, NEW k \in Kinds \X Nat, k \notin DOMAIN acc, NEW ids \in BOOLEAN,
         ids => k[1] = "tool", acc' = With(k, <<>>), Folded, announced' = announced,
         named' = (IF ids THEN named \cup {k} ELSE named),
         IF ids THEN Tells(k, TRUE, 0) ELSE sink' = sink, Placed', opened' = opened
  PROVE  StreamInv'
<1>1. StreamTypes /\ Numbered /\ Told /\ Argued /\ Introduced
  BY DEF StreamInv
<1>2. events' = events + 1 /\ client' = client /\ streams' = streams
  BY DEF Folded
<1>3. Numbered'
  BY <1>1, <1>2, BlockKeepsNumbers
<1>4. Told' /\ Argued'
  BY <1>1, BlockIsTold
<1>5. /\ DOMAIN acc' = DOMAIN acc \cup {k} /\ IsFiniteSet(DOMAIN acc')
      /\ DOMAIN acc' \subseteq Kinds \X Nat /\ acc' \in [DOMAIN acc' -> Seq(Nat)]
  BY <1>1, NothingTold, WithOneBlock
<1>6. named \subseteq DOMAIN acc
  BY <1>1 DEF StreamTypes
<1>7. Introduced'
  <2>1. CASE ids
    <3>1. Names(k, TRUE)
      BY <1>6, <2>1 DEF Names
    <3> QED
      BY <1>1, <1>5, <2>1, <3>1, NamesIntroduce
  <2>2. CASE ~ids
    BY <1>1, <1>5, <2>2, NothingNamed
  <2> QED
    BY <2>1, <2>2
<1>8. StreamTypes'
  <2>1. sink' \in Seq(Delta)
    <3>1. CASE ids
      BY <1>1, <3>1, SinkStaysTyped
    <3>2. CASE ~ids
      BY <1>1, <3>2 DEF StreamTypes
    <3> QED
      BY <3>1, <3>2
  <2> QED
    BY <1>1, <1>2, <1>5, <2>1 DEF StreamTypes
<1> QED
  BY <1>3, <1>4, <1>7, <1>8 DEF StreamInv

LEMMA BringsKeepsStream ==
  ASSUME StreamInv, NEW k \in Kinds \X Nat, Lasts(k), Brings(k), Folded,
         announced' = announced, Placed'
  PROVE  StreamInv'
<1>1. StreamTypes /\ Numbered /\ Told /\ Argued /\ Introduced
  BY DEF StreamInv
<1>2. /\ events' = events + 1 /\ client' = client /\ streams' = streams
      /\ Adds(k) /\ sink' = sink /\ named' = named /\ events \in Nat
  BY <1>1 DEF Folded, Brings, StreamTypes
<1>3. Numbered'
  BY <1>1, <1>2, FragmentKeepsNumbers
<1>4. Told' /\ Argued'
  BY <1>1, BringsUntold
<1>5. /\ DOMAIN acc' = DOMAIN acc \cup {k} /\ IsFiniteSet(DOMAIN acc')
      /\ DOMAIN acc' \subseteq Kinds \X Nat /\ acc' \in [DOMAIN acc' -> Seq(Nat)]
  <2>1. Append(Old(k), events + 1) \in Seq(Nat)
    BY <1>1, <1>2, OldIsNumbered
  <2>2. acc' = With(k, Append(Old(k), events + 1))
    BY <1>2 DEF Adds, Old, Frag
  <2> QED
    BY <1>1, <2>1, <2>2, WithOneBlock
<1>6. Introduced'
  BY <1>1, <1>2, <1>5, NothingNamed
<1>7. opened' \in [{"text", "thinking"} -> SUBSET Nat]
  BY <1>1, <1>2 DEF Brings, StreamTypes
<1>8. StreamTypes'
  BY <1>1, <1>2, <1>5, <1>7 DEF StreamTypes
<1> QED
  BY <1>3, <1>4, <1>6, <1>8 DEF StreamInv

LEMMA FoldsIsFolded ==
  ASSUME Folds
  PROVE  /\ Folded /\ pc' = pc /\ err' = err /\ answer' = answer
BY DEF Folds, Folded, Frag, fixed

LEMMA BlockStartKeepsStream ==
  ASSUME StreamInv, NEW kind \in Kinds, NEW ids \in BOOLEAN, ids => kind = "tool",
         NEW brings \in BOOLEAN, brings => kind \in {"text", "thinking"},
         BlockStart(kind, ids, brings)
  PROVE  StreamInv'
<1>1. client = "anthropic" /\ client # "openai" /\ Folded
  BY FoldsIsFolded DEF BlockStart, Streaming
<1>2. PICK n \in Nat : n = Cardinality(DOMAIN acc)
  BY FS_CardinalityType DEF StreamInv, StreamTypes
<1>3. PICK k \in Kinds \X Nat : k = <<kind, n>>
  OBVIOUS
<1>4. k[1] = kind /\ k[2] = n
  BY <1>3
<1>5. /\ IsFiniteSet(DOMAIN acc) /\ (\A l \in DOMAIN acc : l[2] < n /\ l[2] \in Nat)
      /\ \A l, m \in DOMAIN acc : l[2] = m[2] => l = m
  BY <1>1, <1>2 DEF StreamInv, StreamTypes, Placed
<1>6. k \notin DOMAIN acc
  BY <1>4, <1>5
<1>7. /\ IF brings THEN Adds(k) ELSE acc' = With(k, <<>>)
      /\ announced' = announced
      /\ named' = (IF ids THEN named \cup {k} ELSE named)
      /\ IF ids THEN Tells(k, TRUE, 0) ELSE sink' = sink
      /\ opened' = IF brings THEN [opened EXCEPT ![kind] = @ \cup {events + 1}] ELSE opened
  BY <1>2, <1>3 DEF BlockStart, Shows, Tells, Frag
<1>8. Placed'
  <2>1. DOMAIN acc' = DOMAIN acc \cup {k}
    BY <1>7 DEF With, Adds
  <2>2. Cardinality(DOMAIN acc') = n + 1
    BY <1>2, <1>5, <1>6, <2>1, FS_AddElement
  <2>3. client' = "anthropic" /\ client' # "openai"
    BY <1>1 DEF Folded
  <2>4. /\ \A l \in DOMAIN acc' : l[2] < n + 1
        /\ \A l, m \in DOMAIN acc' : l[2] = m[2] => l = m
    BY <1>4, <1>5, <2>1
  <2> QED
    BY <2>2, <2>3, <2>4 DEF Placed
<1>9. CASE ~brings
  BY <1>1, <1>4, <1>6, <1>7, <1>8, <1>9, BlockKeepsStream
<1>10. CASE brings
  <2>1. Brings(k)
    <3>1. kind \in {"text", "thinking"} /\ ~ids
      BY <1>10
    <3> QED
      BY <1>4, <1>7, <1>10, <3>1 DEF Brings
  <2>2. Lasts(k)
    BY <1>4, <1>5 DEF Lasts
  <2> QED
    BY <1>1, <1>7, <1>8, <2>1, <2>2, BringsKeepsStream
<1> QED
  BY <1>9, <1>10

LEMMA BlockDeltaKeepsStream ==
  ASSUME StreamInv, BlockDelta
  PROVE  StreamInv'
<1>1. /\ client = "anthropic" /\ client # "openai" /\ Folded
      /\ named' = named /\ announced' = announced /\ opened' = opened
  BY FoldsIsFolded DEF BlockDelta, Streaming
<1>2. PICK k \in DOMAIN acc :
        /\ k[2] = Cardinality(DOMAIN acc) - 1 /\ Adds(k)
        /\ IF k[1] = "other" THEN UNCHANGED <<sink, seen>> ELSE Shows(k, FALSE, Frag)
  BY DEF BlockDelta
<1>3. k \in Kinds \X Nat /\ \A l \in DOMAIN acc : l \in Kinds \X Nat
  BY DEF StreamInv, StreamTypes
<1>4. PICK n \in Nat : n = Cardinality(DOMAIN acc)
  BY FS_CardinalityType DEF StreamInv, StreamTypes
<1>5. \A l \in DOMAIN acc : l[2] < n /\ l[2] \in Nat
  BY <1>1, <1>3, <1>4 DEF StreamInv, Placed
<1>6. Lasts(k)
  BY <1>2, <1>4, <1>5 DEF Lasts
<1>7. IF k[1] = "other" THEN sink' = sink ELSE Tells(k, FALSE, events + 1)
  BY <1>2 DEF Shows, Tells, Frag
<1>8. Names(k, FALSE)
  BY <1>1 DEF Names, StreamInv, Introduced
<1>9. announced' \subseteq DOMAIN acc \cup {k}
  BY <1>1 DEF StreamInv, StreamTypes
<1>10. Placed'
  <2>1. DOMAIN acc' = DOMAIN acc
    BY <1>2 DEF Adds, With
  <2>2. client' = client
    BY <1>1 DEF Folded
  <2> QED
    BY <1>1, <2>1, <2>2 DEF StreamInv, Placed
<1> QED
  BY <1>1, <1>2, <1>3, <1>6, <1>7, <1>8, <1>9, <1>10, FragmentKeepsStream

LEMMA ChunkTextKeepsStream ==
  ASSUME StreamInv, NEW kind \in {"text", "thinking"}, ChunkText(kind)
  PROVE  StreamInv'
<1>1. /\ client = "openai" /\ client # "anthropic" /\ Folded
      /\ named' = named /\ announced' = announced /\ opened' = opened
  BY FoldsIsFolded DEF ChunkText, Streaming
<1>2. PICK k \in Kinds \X Nat : k = <<kind, 0>>
  BY DEF Kinds
<1>3. k[1] = kind /\ k[2] = 0 /\ k[1] # "tool" /\ k[1] # "other"
  BY <1>2
<1>4. Adds(k) /\ Tells(k, FALSE, events + 1)
  BY <1>2 DEF ChunkText, Shows, Tells, Frag
<1>5. /\ \A l \in DOMAIN acc : IF l[1] = "tool" THEN l \in named ELSE l[1] # "other" /\ l[2] = 0
      /\ announced = named /\ named \subseteq DOMAIN acc
  BY <1>1 DEF StreamInv, Placed, StreamTypes
<1>6. Lasts(k)
  BY <1>3, <1>5 DEF Lasts
<1>7. \A l \in named : l[1] = "tool"
  BY DEF StreamInv, Introduced
<1>8. Names(k, FALSE)
  BY <1>1, <1>3, <1>7 DEF Names
<1>9. Placed'
  <2>1. DOMAIN acc' = DOMAIN acc \cup {k}
    BY <1>4 DEF Adds, With
  <2>2. client' = client
    BY <1>1 DEF Folded
  <2>3. \A l \in DOMAIN acc' : IF l[1] = "tool" THEN l \in named ELSE l[1] # "other" /\ l[2] = 0
    BY <1>3, <1>5, <2>1
  <2> QED
    BY <1>1, <1>5, <2>2, <2>3 DEF Placed
<1>10. announced' \subseteq DOMAIN acc \cup {k}
  BY <1>1, <1>5
<1> QED
  BY <1>1, <1>3, <1>4, <1>6, <1>8, <1>9, <1>10, FragmentKeepsStream

LEMMA ChunkCallKeepsStream ==
  ASSUME StreamInv, NEW i \in Nat, NEW ids \in BOOLEAN, ChunkCall(i, ids)
  PROVE  StreamInv'
<1>1. client = "openai" /\ client # "anthropic" /\ Folded /\ opened' = opened
  BY FoldsIsFolded DEF ChunkCall, Streaming
<1>2. PICK k \in Kinds \X Nat : k = <<"tool", i>>
  BY DEF Kinds
<1>3. k[1] = "tool" /\ k[1] # "other"
  BY <1>2
<1>4. PICK told \in BOOLEAN : told = (k \in named' \ announced)
  <2>1. CASE k \in named' \ announced
    <3>1. TRUE = (k \in named' \ announced)
      BY <2>1
    <3> QED
      BY <3>1
  <2>2. CASE k \notin named' \ announced
    <3>1. FALSE = (k \in named' \ announced)
      BY <2>2
    <3> QED
      BY <3>1
  <2> QED
    BY <2>1, <2>2
<1>5. /\ k \in DOMAIN acc \/ ids
      /\ Adds(k) /\ Tells(k, told, events + 1)
      /\ named' = (IF ids THEN named \cup {k} ELSE named)
      /\ announced' = announced \cup named'
  BY <1>2, <1>4 DEF ChunkCall, Shows, Tells, Frag
<1>6. /\ \A l \in DOMAIN acc : IF l[1] = "tool" THEN l \in named ELSE l[1] # "other" /\ l[2] = 0
      /\ announced = named /\ named \subseteq DOMAIN acc
  BY <1>1 DEF StreamInv, Placed, StreamTypes
<1>7. k \in named' /\ named' = named \cup {k} /\ announced' = named'
  BY <1>3, <1>5, <1>6
<1>8. Lasts(k)
  BY <1>3 DEF Lasts
<1>9. Names(k, told)
  <2>1. k \in DOMAIN acc => k \in named
    BY <1>3, <1>6
  <2>2. told <=> k \notin named
    BY <1>4, <1>6, <1>7
  <2> QED
    BY <1>3, <1>7, <2>1, <2>2 DEF Names
<1>10. Placed'
  <2>1. DOMAIN acc' = DOMAIN acc \cup {k}
    BY <1>5 DEF Adds, With
  <2>2. client' = client
    BY <1>1 DEF Folded
  <2>3. \A l \in DOMAIN acc' : IF l[1] = "tool" THEN l \in named' ELSE l[1] # "other" /\ l[2] = 0
    BY <1>3, <1>6, <1>7, <2>1
  <2> QED
    BY <1>1, <1>7, <2>2, <2>3 DEF Placed
<1>11. announced' \subseteq DOMAIN acc \cup {k}
  BY <1>6, <1>7
<1> QED
  BY <1>1, <1>3, <1>5, <1>8, <1>9, <1>10, <1>11, FragmentKeepsStream

-----------------------------------------------------------------------------
(* The rest of the steps leave the stream as it is, or empty it; a call    *)
(* comes back with no error from EndOfStream, or from a body nobody was    *)
(* listening to.                                                           *)
AnswerInv ==
  /\ StreamInv
  /\ pc # "done" => err = "none"
  /\ pc = "body" => ~streams
  /\ AnswerIsWhatStreamed

Stops(e) ==
  /\ StreamRests
  /\ \/ pc' = "sleep" /\ err' = err
     \/ pc' = "done" /\ err' = e

LEMMA FailuresStop ==
  ASSUME NEW e, pc # "done", Fails(e) \/ (e = "cause" /\ Returns(e))
  PROVE  Stops(e) \/ Stops("cause")
BY DEF Fails, Goes, Returns, Stops, StreamRests, fixed, stream

LEMMA StopsKeepAnswer ==
  ASSUME AnswerInv, pc # "done", NEW e, e # "none", Fails(e) \/ (e = "cause" /\ Returns(e))
  PROVE  AnswerInv'
<1>1. Stops(e) \/ Stops("cause")
  BY FailuresStop
<1>2. StreamRests
  BY <1>1 DEF Stops
<1>3. StreamInv'
  BY <1>2, RestKeepsStream DEF AnswerInv
<1>4. err = "none"
  BY DEF AnswerInv
<1>5. (pc' = "sleep" /\ err' = "none") \/ (pc' = "done" /\ err' # "none")
  BY <1>1, <1>4 DEF Stops
<1> QED
  BY <1>3, <1>5 DEF AnswerInv, AnswerIsWhatStreamed

LEMMA GoesKeepsAnswer ==
  ASSUME AnswerInv, pc # "done", NEW to, to # "done", to = "body" => ~streams, Goes(to), UNCHANGED stream
  PROVE  AnswerInv'
<1>1. StreamRests /\ pc' = to /\ err' = err /\ streams' = streams
  BY DEF Goes, fixed, stream, StreamRests
<1>2. StreamInv'
  BY <1>1, RestKeepsStream DEF AnswerInv
<1> QED
  BY <1>1, <1>2 DEF AnswerInv, AnswerIsWhatStreamed

LEMMA SleepOverKeepsAnswer ==
  ASSUME AnswerInv, SleepOver
  PROVE  AnswerInv'
<1>1. pc = "sleep" /\ pc # "done"
  BY DEF SleepOver
<1>2. CASE Returns("cause")
  BY <1>1, <1>2, StopsKeepAnswer
<1>3. CASE pc' = "post" /\ Fresh /\ UNCHANGED <<fixed, err>>
  <2>1. /\ acc' = <<>> /\ named' = {} /\ announced' = {} /\ events' = 0 /\ sink' = <<>>
        /\ opened' = Unopened
    BY <1>3, Zenon DEF Fresh
  <2>2. client' = client /\ streams' = streams
    BY <1>3 DEF fixed
  <2>3. client' \in Clients /\ streams' \in BOOLEAN
    BY <2>2 DEF AnswerInv, StreamInv, StreamTypes
  <2>4. StreamInv'
    BY <2>1, <2>3, EmptyAgain DEF Emptied, Unopened
  <2> QED
    BY <1>1, <1>3, <2>4 DEF AnswerInv, AnswerIsWhatStreamed
<1> QED
  BY <1>2, <1>3 DEF SleepOver

LEMMA ErrorsAreErrors ==
  ASSUME client \in Clients
  PROVE  /\ PostError # "none" /\ ReadError # "none"
         /\ \A s \in DOMAIN ClassOfStatus : ClassOfStatus[s] # "none"
         /\ \A e \in StreamErrors : e # "none"
<1>1. AbortError # "none"
  BY DEF AbortError
<1>2. PostError # "none" /\ ReadError # "none"
  BY <1>1 DEF PostError, ReadError, Clients
<1>3. \A s \in DOMAIN ClassOfStatus : ClassOfStatus[s] # "none"
  BY DEF ClassOfStatus
<1>4. \A e \in StreamErrors : e # "none"
  BY DEF StreamErrors
<1> QED
  BY <1>2, <1>3, <1>4

LEMMA PostKeepsAnswer ==
  ASSUME AnswerInv, Post
  PROVE  AnswerInv'
<1>1. pc = "post" /\ pc # "done" /\ client \in Clients
  BY DEF Post, AnswerInv, StreamInv, StreamTypes
<1>2. \/ Returns("badRequest") \/ Fails(PostError)
      \/ (Goes("headers") /\ UNCHANGED stream)
  BY DEF Post
<1>3. CASE Returns("badRequest")
  <2>1. StreamRests /\ pc' = "done" /\ err' = "badRequest"
    BY <1>3 DEF Returns, StreamRests, fixed, stream
  <2>2. StreamInv'
    BY <2>1, RestKeepsStream DEF AnswerInv
  <2> QED
    BY <2>1, <2>2 DEF AnswerInv, AnswerIsWhatStreamed
<1>4. CASE Fails(PostError)
  BY <1>1, <1>4, ErrorsAreErrors, StopsKeepAnswer
<1>5. CASE Goes("headers") /\ UNCHANGED stream
  BY <1>1, <1>5, GoesKeepsAnswer
<1> QED
  BY <1>2, <1>3, <1>4, <1>5

LEMMA EndOfStreamKeepsAnswer ==
  ASSUME AnswerInv, EndOfStream
  PROVE  AnswerInv'
<1>1. pc = "stream" /\ pc # "done" /\ err = "none"
  BY DEF EndOfStream, AnswerInv
<1>2. Fails("transport") \/ Answers(Content)
  BY DEF EndOfStream
<1>3. CASE Fails("transport")
  BY <1>1, <1>3, StopsKeepAnswer
<1>4. CASE Answers(Content)
  <2> DEFINE Done == pc' = "done" /\ answer' = Content /\ UNCHANGED <<fixed, err, stream>>
  <2>1. Fails("server") \/ Done
    BY <1>4 DEF Answers
  <2>2. CASE Fails("server")
    BY <1>1, <2>2, StopsKeepAnswer
  <2>3. CASE Done
    <3>1. PICK content : content = Content
      OBVIOUS
    <3>2. IsWhatStreamed(content)
      BY <3>1, ContentIsWhatStreamed DEF AnswerInv
    <3>3. answer' = content /\ pc' = "done"
      BY <2>3, <3>1
    <3>4. StreamRests /\ err' = err
      BY <2>3 DEF StreamRests, fixed, stream
    <3>5. sink' = sink /\ opened' = opened
      BY <3>4 DEF StreamRests
    <3>6. AnswerIsWhatStreamed'
      BY <3>2, <3>3, <3>5 DEF AnswerIsWhatStreamed, IsWhatStreamed
    <3>7. StreamInv'
      BY <3>4, RestKeepsStream DEF AnswerInv
    <3> QED
      BY <1>1, <3>3, <3>4, <3>6, <3>7 DEF AnswerInv
  <2> QED
    BY <2>1, <2>2, <2>3
<1> QED
  BY <1>2, <1>3, <1>4

LEMMA BufferedKeepsAnswer ==
  ASSUME AnswerInv, Buffered
  PROVE  AnswerInv'
<1>1. pc = "body" /\ pc # "done" /\ ~streams /\ err = "none"
  BY DEF Buffered, AnswerInv
<1> DEFINE Done == pc' = "done" /\ StreamRests /\ err' = err
<1>2. Done \/ Fails("server") \/ Fails("transport") \/ Fails("badRequest")
  BY DEF Buffered, StreamRests, fixed
<1>3. CASE Done
  <2>1. StreamInv'
    BY <1>3, RestKeepsStream DEF AnswerInv
  <2>2. ~streams'
    BY <1>1, <1>3 DEF StreamRests
  <2> QED
    BY <1>1, <1>3, <2>1, <2>2 DEF AnswerInv, AnswerIsWhatStreamed
<1>4. CASE Fails("server")
  BY <1>1, <1>4, StopsKeepAnswer
<1>5. CASE Fails("transport")
  BY <1>1, <1>5, StopsKeepAnswer
<1>6. CASE Fails("badRequest")
  BY <1>1, <1>6, StopsKeepAnswer
<1> QED
  BY <1>2, <1>3, <1>4, <1>5, <1>6

(* While the stream runs nothing is answered yet.                          *)
LEMMA EventsKeepAnswer ==
  ASSUME AnswerInv, pc = "stream", StreamInv', pc' = pc, err' = err
  PROVE  AnswerInv'
BY DEF AnswerInv, AnswerIsWhatStreamed

LEMMA StreamEventsKeepAnswer ==
  ASSUME AnswerInv, Events
  PROVE  AnswerInv'
<1>0. StreamInv
  BY DEF AnswerInv
<1>1. ASSUME NEW kind \in Kinds, NEW ids \in BOOLEAN, NEW brings \in BOOLEAN,
             ids => kind = "tool", brings => kind \in {"text", "thinking"},
             BlockStart(kind, ids, brings)
      PROVE  AnswerInv'
  <2>1. pc = "stream" /\ pc' = pc /\ err' = err
    BY <1>1, FoldsIsFolded DEF BlockStart, Streaming
  <2>2. StreamInv'
    BY <1>0, <1>1, BlockStartKeepsStream
  <2> QED
    BY <2>1, <2>2, EventsKeepAnswer
<1>2. CASE BlockDelta
  <2>1. pc = "stream" /\ pc' = pc /\ err' = err
    BY <1>2, FoldsIsFolded DEF BlockDelta, Streaming
  <2>2. StreamInv'
    BY <1>0, <1>2, BlockDeltaKeepsStream
  <2> QED
    BY <2>1, <2>2, EventsKeepAnswer
<1>3. ASSUME NEW kind \in {"text", "thinking"}, ChunkText(kind) PROVE AnswerInv'
  <2>1. pc = "stream" /\ pc' = pc /\ err' = err
    BY <1>3, FoldsIsFolded DEF ChunkText, Streaming
  <2>2. StreamInv'
    BY <1>0, <1>3, ChunkTextKeepsStream
  <2> QED
    BY <2>1, <2>2, EventsKeepAnswer
<1>4. ASSUME NEW i \in ToolIndices, NEW ids \in BOOLEAN, ChunkCall(i, ids) PROVE AnswerInv'
  <2>1. pc = "stream" /\ pc' = pc /\ err' = err
    BY <1>4, FoldsIsFolded DEF ChunkCall, Streaming
  <2>2. StreamInv'
    BY <1>0, <1>4, ModelCallAssumption, ChunkCallKeepsStream
  <2> QED
    BY <2>1, <2>2, EventsKeepAnswer
<1>5. ASSUME NEW s \in Reasons, StopReason(s) PROVE AnswerInv'
  <2>1. pc = "stream" /\ pc' = pc /\ err' = err /\ StreamRests
    BY <1>5, Zenon DEF StopReason, StreamRests, fixed
  <2>2. StreamInv'
    BY <1>0, <2>1, RestKeepsStream
  <2> QED
    BY <2>1, <2>2, EventsKeepAnswer
<1>6. CASE Noise
  <2>1. pc = "stream" /\ pc' = pc /\ err' = err /\ StreamRests
    BY <1>6 DEF Noise, StreamRests, fixed
  <2>2. StreamInv'
    BY <1>0, <2>1, RestKeepsStream
  <2> QED
    BY <2>1, <2>2, EventsKeepAnswer
<1> QED
  BY <1>1, <1>2, <1>3, <1>4, <1>5, <1>6 DEF Events

LEMMA StepsKeepAnswer ==
  ASSUME AnswerInv, [ModelCallNext]_modelCallVars
  PROVE  AnswerInv'
<1>0. client \in Clients
  BY DEF AnswerInv, StreamInv, StreamTypes
<1>1. CASE SleepOver
  BY <1>1, SleepOverKeepsAnswer
<1>2. CASE Post
  BY <1>2, PostKeepsAnswer
<1>3. CASE Refused
  <2>1. PICK s \in DOMAIN ClassOfStatus : Fails(ClassOfStatus[s])
    BY <1>3 DEF Refused
  <2>2. pc # "done" /\ ClassOfStatus[s] # "none"
    BY <1>0, <1>3, ErrorsAreErrors DEF Refused
  <2> QED
    BY <2>1, <2>2, StopsKeepAnswer
<1>4. CASE Unreachable
  <2>1. pc # "done" /\ PostError # "none" /\ Fails(PostError)
    BY <1>0, <1>4, ErrorsAreErrors DEF Unreachable
  <2> QED
    BY <2>1, StopsKeepAnswer
<1>5. CASE Accepted
  <2>1. /\ pc # "done" /\ UNCHANGED stream
        /\ (streams /\ Goes("stream")) \/ (~streams /\ Goes("body"))
    BY <1>5 DEF Accepted
  <2> QED
    BY <2>1, GoesKeepsAnswer
<1>6. CASE Buffered
  BY <1>6, BufferedKeepsAnswer
<1>7. CASE Events
  BY <1>7, StreamEventsKeepAnswer
<1>8. CASE EndOfStream
  BY <1>8, EndOfStreamKeepsAnswer
<1>9. CASE ErrorEvent
  <2>1. pc # "done" /\ ((\E e \in StreamErrors : Fails(e)) \/ Fails("server"))
    BY <1>9 DEF ErrorEvent
  <2>2. CASE Fails("server")
    BY <2>1, <2>2, StopsKeepAnswer
  <2>3. ASSUME NEW e \in StreamErrors, Fails(e) PROVE AnswerInv'
    BY <1>0, <2>1, <2>3, ErrorsAreErrors, StopsKeepAnswer
  <2> QED
    BY <2>1, <2>2, <2>3
<1>10. CASE ReadBreaks \/ Silence
  <2>1. pc # "done" /\ ReadError # "none" /\ Fails(ReadError)
    BY <1>0, <1>10, ErrorsAreErrors DEF ReadBreaks, Silence, Streaming
  <2> QED
    BY <2>1, StopsKeepAnswer
<1>11. CASE BodySilence
  <2>1. pc # "done" /\ Fails("transport")
    BY <1>11 DEF BodySilence
  <2> QED
    BY <2>1, StopsKeepAnswer
<1>12. ASSUME NEW why, CtxEnds(why) PROVE AnswerInv'
  <2>1. StreamRests /\ pc' = pc /\ pc # "done" /\ err' = err /\ streams' = streams
    BY <1>12 DEF CtxEnds, StreamRests, fixed, stream
  <2>2. StreamInv'
    BY <2>1, RestKeepsStream DEF AnswerInv
  <2> QED
    BY <2>1, <2>2 DEF AnswerInv, AnswerIsWhatStreamed
<1>13. CASE UNCHANGED modelCallVars
  <2>1. /\ StreamRests /\ pc' = pc /\ err' = err /\ streams' = streams /\ answer' = answer /\ sink' = sink
        /\ opened' = opened
    BY <1>13 DEF modelCallVars, StreamRests, fixed, stream
  <2>2. StreamInv'
    BY <2>1, RestKeepsStream DEF AnswerInv
  <2> QED
    BY <2>1, <2>2 DEF AnswerInv, AnswerIsWhatStreamed
<1> QED
  BY <1>1, <1>2, <1>3, <1>4, <1>5, <1>6, <1>7, <1>8, <1>9, <1>10, <1>11, <1>12, <1>13
     DEF ModelCallNext

LEMMA LongestFound ==
  ASSUME NEW T, T # {}, IsFiniteSet(T), NEW w \in [T -> Nat]
  PROVE  \E p \in T : \A q \in T : w[q] <= w[p]
<1> DEFINE Bounds == {m \in Nat : \A x \in T : w[x] < m}
<1>1. Bounds \in SUBSET Nat /\ Bounds # {}
  BY WeightsAreBounded
<1>2. PICK m \in Bounds : \A b \in Bounds : m <= b
  BY <1>1, LeastNumber
<1>3. m \in Nat /\ m # 0 /\ \A x \in T : w[x] \in Nat /\ w[x] < m
  BY <1>2
<1>4. m - 1 \in Nat /\ m - 1 \notin Bounds
  BY <1>2, <1>3
<1>5. PICK p \in T : ~(w[p] < m - 1)
  BY <1>4
<1> QED
  BY <1>3, <1>5

LEMMA RouteIsClient ==
  ASSUME NEW name
  PROVE  Route(name) \in Clients
<1> DEFINE fits == {p \in DOMAIN Routes : p # <<>> /\ IsPrefix(p, name)}
           w == [p \in fits |-> Len(p)]
<1>1. /\ Leaf \in Clients /\ Routes \in [DOMAIN Routes -> Clients]
      /\ fits \subseteq DOMAIN Routes /\ IsFiniteSet(DOMAIN Routes)
      /\ \A p \in DOMAIN Routes : Len(p) \in Nat
  BY ModelCallAssumption
<1>2. CASE fits = {}
  BY <1>1, <1>2 DEF Route
<1>3. CASE fits # {}
  <2>1. IsFiniteSet(fits) /\ w \in [fits -> Nat]
    BY <1>1, FS_Subset
  <2>2. \E p \in fits : \A q \in fits : w[q] <= w[p]
    BY <1>3, <2>1, LongestFound
  <2>3. \E p \in fits : \A q \in fits : Len(q) <= Len(p)
    BY <2>2
  <2>4. PICK p \in fits : p = CHOOSE l \in fits : \A q \in fits : Len(q) <= Len(l)
    BY <2>3
  <2>5. Routes[p] \in Clients
    BY <1>1, <2>4
  <2>6. Route(name) = Leaf \/ Route(name) = Routes[p]
    BY <2>4 DEF Route
  <2> QED
    BY <1>1, <2>5, <2>6
<1> QED
  BY <1>2, <1>3

(* However often a call was retried and whichever client answered it, the  *)
(* reply is what the last attempt streamed: its text and its scratchpad,   *)
(* those fragments that the sink was given and those that came with the    *)
(* start of a block (of which it hears nothing), each once and in its      *)
(* place; and the arguments of each call, announced once, with id and name,*)
(* before any of them (stream.go's readStream and decodeStream; WithRetry).*)
THEOREM AnswerIsAlwaysWhatStreamed == ModelCallFairSpec => []AnswerIsWhatStreamed
<1>1. ModelCallInit => AnswerInv
  <2> SUFFICES ASSUME ModelCallInit PROVE AnswerInv
    OBVIOUS
  <2>1. /\ acc = <<>> /\ named = {} /\ announced = {} /\ events = 0 /\ sink = <<>>
        /\ opened = Unopened /\ pc = "post" /\ err = "none" /\ streams \in BOOLEAN
    BY Zenon DEF ModelCallInit
  <2>2. client \in Clients
    BY RouteIsClient, Zenon DEF ModelCallInit
  <2>3. StreamInv
    BY <2>1, <2>2, EmptyIsSound DEF Emptied
  <2> QED
    BY <2>1, <2>3 DEF AnswerInv, AnswerIsWhatStreamed
<1>2. AnswerInv /\ [ModelCallNext]_modelCallVars => AnswerInv'
  BY StepsKeepAnswer
<1>3. AnswerInv => AnswerIsWhatStreamed
  BY DEF AnswerInv
<1> QED
  BY <1>1, <1>2, <1>3, PTL DEF ModelCallFairSpec
=============================================================================
