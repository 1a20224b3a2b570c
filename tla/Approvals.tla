----------------------------- MODULE Approvals -----------------------------
(***************************************************************************)
(* httpapi/approvals.go, with the ask of permission/gate.go that waits in  *)
(* it: a session's tool calls parked on a human.  A call waits on the      *)
(* agent's dispatch goroutine; the answer comes on a request's, and        *)
(* Session.Cancel and Session.close may release it or end its context      *)
(* meanwhile.  Each action is one critical section of approvals.mu, or one *)
(* step between two.                                                       *)
(***************************************************************************)
EXTENDS Naturals

CONSTANTS
  Call,       \* invocations of the gate that need a human
  UseID,      \* tool_use ids
  Human,      \* clients that list questions and answer them
  Canceller,  \* requests that run Session.Cancel
  MaxTurns    \* bound: turns of the session

ASSUME MaxTurnsAssumption == MaxTurns \in Nat \ {0}

VARIABLES
  waiting,   \* approvals.waiting: the call parked under each id, or NoCall
  answered,  \* approvals.answered
  shut,      \* approvals.closed
  ch,        \* per call, what its channel (of capacity one) holds
  pc,        \* per call: where it is
  id,        \* per call: its tool_use id
  turn,      \* the turn in flight or, between turns, the last one
  running,   \* whether a turn is in flight
  turnOf,    \* per call: the turn that made it
  ctxDone,   \* turns whose context is done
  human,     \* per human: the question on the screen
  canceller, \* per canceller: where Session.Cancel is
  closer,    \* where Session.close is
  said       \* history: per call, the verdict its human was told was taken

queue == <<waiting, answered, shut, ch, said>>
run   == <<turn, running, turnOf, id>>
vars  == <<waiting, answered, shut, ch, pc, id, turn, running, turnOf, ctxDone,
           human, canceller, closer, said>>

NoCall == "no call"

ASSUME CallAssumption == NoCall \notin Call

Final  == {"new", "refused", "ran", "denied", "abandoned"}

Init ==
  /\ waiting = [i \in UseID |-> NoCall] /\ answered = {} /\ shut = FALSE
  /\ ch = [c \in Call |-> "empty"] /\ pc = [c \in Call |-> "new"]
  /\ id \in [Call -> UseID]
  /\ turn = 0 /\ running = FALSE /\ turnOf = [c \in Call |-> 0] /\ ctxDone = {}
  /\ human = [h \in Human |-> NoCall]
  /\ canceller = [p \in Canceller |-> [at |-> "idle"]]
  /\ closer = [at |-> "idle"] /\ said = [c \in Call |-> "none"]

-----------------------------------------------------------------------------
(* The waiter: approve, as ask calls it. *)

(* register, or its refusal: the queue is closed, or the id is parked. *)
Register(c) ==
  /\ running /\ pc[c] = "new" /\ turnOf' = [turnOf EXCEPT ![c] = turn]
  /\ IF shut \/ waiting[id[c]] # NoCall
     THEN /\ pc' = [pc EXCEPT ![c] = "refused"]
          /\ UNCHANGED waiting
     ELSE /\ pc' = [pc EXCEPT ![c] = "registered"]
          /\ waiting' = [waiting EXCEPT ![id[c]] = c]
  /\ UNCHANGED <<answered, shut, ch, id, turn, running, ctxDone, human,
                 canceller, closer, said>>

(* The select, entered: a channel that is ready is taken, either of two    *)
(* that are; otherwise the goroutine blocks.                               *)
Select(c) ==
  /\ pc[c] = "registered"
  /\ \/ /\ ch[c] # "empty"
        /\ pc' = [pc EXCEPT ![c] = ch[c]]
        /\ ch' = [ch EXCEPT ![c] = "empty"]
     \/ /\ turnOf[c] \in ctxDone
        /\ pc' = [pc EXCEPT ![c] = "gone"] /\ UNCHANGED ch
     \/ /\ ch[c] = "empty" /\ turnOf[c] \notin ctxDone
        /\ pc' = [pc EXCEPT ![c] = "blocked"] /\ UNCHANGED ch
  /\ UNCHANGED <<waiting, answered, shut, run, ctxDone, human, canceller, closer, said>>

(* Faulty variants, as a slip in the code would make them; no specification *)
(* uses them, each shows that a property below would notice.               *)

FaultyContextIgnored(c) == FALSE /\ UNCHANGED vars

(* Blocked in it: whichever comes first unblocks it. *)
ContextUnblocks(c) ==
  /\ pc[c] = "blocked" /\ turnOf[c] \in ctxDone
  /\ pc' = [pc EXCEPT ![c] = "gone"]
  /\ UNCHANGED <<queue, run, ctxDone, human, canceller, closer>>

(* The deferred forget, which removes no other call's entry; then the      *)
(* verdict: the call runs, is refused, or was abandoned.                   *)
Verdict(p) == CASE p = "yes" -> "ran" [] p = "no" -> "denied" [] p = "gone" -> "abandoned"

FaultyForget(c, w) ==
  /\ pc[c] \in {"yes", "no", "gone"} /\ waiting' = w
  /\ pc' = [pc EXCEPT ![c] = Verdict(pc[c])]
  /\ UNCHANGED <<answered, shut, ch, said, run, ctxDone, human, canceller, closer>>

FaultyForgetByKey(c) == FaultyForget(c, [waiting EXCEPT ![id[c]] = NoCall])

FaultyForgetNothing(c) == FaultyForget(c, waiting)

Forget(c) ==
  /\ pc[c] \in {"yes", "no", "gone"}
  /\ waiting' = IF waiting[id[c]] = c THEN [waiting EXCEPT ![id[c]] = NoCall] ELSE waiting
  /\ pc' = [pc EXCEPT ![c] = Verdict(pc[c])]
  /\ UNCHANGED <<answered, shut, ch, said, run, ctxDone, human, canceller, closer>>

-----------------------------------------------------------------------------
(* Sending v to the calls C: one blocked in its select has it at once, for *)
(* another it stays in the channel.                                        *)
Deliver(C, v) ==
  /\ pc' = [c \in Call |-> IF c \in C /\ pc[c] = "blocked" THEN v ELSE pc[c]]
  /\ ch' = [c \in Call |-> IF c \in C /\ pc[c] # "blocked" THEN v ELSE ch[c]]

Parked == {waiting[i] : i \in UseID} \ {NoCall}

(* pending, as a screen shows one of its questions. *)
Look(h) ==
  /\ \E c \in Parked : human' = [human EXCEPT ![h] = c]
  /\ UNCHANGED <<queue, pc, run, ctxDone, canceller, closer>>

FaultyResolveKeepsEntry(h, v) ==
  /\ human[h] # NoCall
  /\ LET i == id[human[h]]  c == waiting[i]
     IN  IF c = NoCall THEN UNCHANGED <<answered, ch, pc, said>>
         ELSE /\ answered' = answered \cup {i}
              /\ Deliver({c}, v)
              /\ said' = [said EXCEPT ![c] = v]
  /\ human' = [human EXCEPT ![h] = NoCall]
  /\ UNCHANGED <<waiting, shut, run, ctxDone, canceller, closer>>

(* resolve, by the id on the screen; an error when nothing waits under it. *)
Resolve(h, v) ==
  /\ human[h] # NoCall
  /\ LET i == id[human[h]]  c == waiting[i]
     IN  IF c = NoCall THEN UNCHANGED <<waiting, answered, ch, pc, said>>
         ELSE /\ waiting' = [waiting EXCEPT ![i] = NoCall]
              /\ answered' = answered \cup {i}
              /\ Deliver({c}, v)
              /\ said' = [said EXCEPT ![c] = IF c = human[h] THEN v ELSE "misdirected"]
  /\ human' = [human EXCEPT ![h] = NoCall]
  /\ UNCHANGED <<shut, run, ctxDone, canceller, closer>>

FaultyReleaseKeepsEntries ==
  /\ Deliver(Parked, "no")
  /\ UNCHANGED <<waiting, answered, said, human, run>>

(* release: every parked call is denied. *)
Release ==
  /\ waiting' = [i \in UseID |-> NoCall]
  /\ answered' = answered \cup {i \in UseID : waiting[i] # NoCall}
  /\ Deliver(Parked, "no")
  /\ UNCHANGED <<said, human, run>>

-----------------------------------------------------------------------------
(* Session.Cancel: deny, read cancel, call it. *)

CancelDeny(p) ==
  /\ canceller[p].at = "idle" /\ Release
  /\ canceller' = [canceller EXCEPT ![p] = [at |-> "denied"]]
  /\ UNCHANGED <<shut, ctxDone, closer>>

CancelRead(p) ==
  /\ canceller[p].at = "denied"
  /\ canceller' = [canceller EXCEPT ![p] = IF running THEN [at |-> "calling", turn |-> turn]
                                                      ELSE [at |-> "idle"]]
  /\ UNCHANGED <<queue, pc, run, ctxDone, human, closer>>

CancelCall(p) ==
  /\ canceller[p].at = "calling"
  /\ ctxDone' = ctxDone \cup {canceller[p].turn}
  /\ canceller' = [canceller EXCEPT ![p] = [at |-> "idle"]]
  /\ UNCHANGED <<queue, pc, run, human, closer>>

(* Session.close: close the queue, mark the session, call cancel, wait. *)
CloseQueue ==
  /\ closer.at = "idle" /\ Release /\ shut' = TRUE
  /\ closer' = [at |-> "shut"]
  /\ UNCHANGED <<ctxDone, canceller>>

CloseMark ==
  /\ closer.at = "shut"
  /\ closer' = [at |-> "marked", turns |-> IF running THEN {turn} ELSE {}]
  /\ UNCHANGED <<queue, pc, run, ctxDone, human, canceller>>

CloseCancel ==
  /\ closer.at = "marked" /\ ctxDone' = ctxDone \cup closer.turns
  /\ closer' = [at |-> "waiting"]
  /\ UNCHANGED <<queue, pc, run, human, canceller>>

-----------------------------------------------------------------------------
(* The turns the calls are made in. *)

StartTurn ==
  /\ ~running /\ turn < MaxTurns /\ closer.at \in {"idle", "shut"}
  /\ turn' = turn + 1 /\ running' = TRUE
  /\ UNCHANGED <<queue, pc, id, turnOf, ctxDone, human, canceller, closer>>

(* The dispatcher waits for every call it made. *)
EndTurn ==
  /\ running /\ \A c \in Call : pc[c] \in Final
  /\ running' = FALSE /\ ctxDone' = ctxDone \cup {turn}
  /\ UNCHANGED <<queue, pc, id, turn, turnOf, human, canceller, closer>>

(* A limit of the turn's budget. *)
Abort ==
  /\ running /\ turn \notin ctxDone /\ ctxDone' = ctxDone \cup {turn}
  /\ UNCHANGED <<queue, pc, run, human, canceller, closer>>

-----------------------------------------------------------------------------
Wait(c) == Select(c) \/ ContextUnblocks(c) \/ Forget(c)

Next ==
  \/ \E c \in Call : Register(c) \/ Wait(c)
  \/ \E h \in Human : Look(h) \/ \E v \in {"yes", "no"} : Resolve(h, v)
  \/ \E p \in Canceller : CancelDeny(p) \/ CancelRead(p) \/ CancelCall(p)
  \/ CloseQueue \/ CloseMark \/ CloseCancel
  \/ StartTurn \/ EndTurn \/ Abort

Spec == Init /\ [][Next]_vars

(* Goroutines that can take a step take it.  Nobody has to answer. *)
FairSpec ==
  /\ Spec
  /\ \A c \in Call : WF_vars(Wait(c))
  /\ \A p \in Canceller : WF_vars(CancelRead(p)) /\ WF_vars(CancelCall(p))
  /\ WF_vars(CloseMark) /\ WF_vars(CloseCancel) /\ WF_vars(EndTurn)

-----------------------------------------------------------------------------
TypeOK ==
  /\ waiting \in [UseID -> Call \cup {NoCall}] /\ answered \subseteq UseID
  /\ shut \in BOOLEAN /\ running \in BOOLEAN
  /\ ch \in [Call -> {"empty", "yes", "no"}]
  /\ pc \in [Call -> Final \cup {"registered", "blocked", "yes", "no", "gone"}]
  /\ id \in [Call -> UseID] /\ turn \in 0..MaxTurns
  /\ turnOf \in [Call -> 0..MaxTurns] /\ ctxDone \subseteq 1..MaxTurns
  /\ human \in [Human -> Call \cup {NoCall}]
  /\ said \in [Call -> {"none", "yes", "no", "misdirected"}]
  /\ canceller \in [Canceller -> [at : {"idle", "denied"}]
                               \cup [at : {"calling"}, turn : 1..MaxTurns]]
  /\ closer \in [at : {"idle", "shut", "waiting"}]
               \cup [at : {"marked"}, turns : SUBSET (1..MaxTurns)]

(* resolve and release send while they hold the mutex, on a channel with   *)
(* room for one: a call that is in the queue has an empty channel and is   *)
(* still in its select or on the way there, so the send never blocks, and  *)
(* no call gets two verdicts.                                              *)
SendNeverBlocks ==
  \A i \in UseID : waiting[i] # NoCall =>
    LET c == waiting[i]
    IN  id[c] = i /\ ch[c] = "empty" /\ pc[c] \in {"registered", "blocked", "gone"}

(* A call never outruns its entry: one still waiting for a verdict is in   *)
(* the queue, where a human, a cancel and a close find it, or its verdict  *)
(* is already in its channel.                                              *)
WaitersAreFound ==
  \A c \in Call :
    /\ pc[c] = "blocked" => waiting[id[c]] = c
    /\ pc[c] = "registered" => (waiting[id[c]] = c) # (ch[c] # "empty")

(* No question is left on the list once its turn is over. *)
QuestionsEndWithTheirTurn ==
  Parked # {} => running /\ \A c \in Parked : turnOf[c] = turn

(* A call that runs was allowed by somebody looking at that very call, and *)
(* a refusal somebody was told was taken is kept.  A verdict is matched by *)
(* id alone, so this is said of calls that share theirs with no other.     *)
OnlyAllowedRun ==
  \A c \in Call : (\A d \in Call \ {c} : id[d] # id[c]) =>
    /\ pc[c] \in {"yes", "ran"} => said[c] = "yes"
    /\ said[c] = "no" => pc[c] \notin {"yes", "ran"}

(* Cancelling, a limit or a close frees every call of the turn, and the    *)
(* turn ends.                                                              *)
StoppedTurnsEnd ==
  /\ \A t \in 1..MaxTurns : (t \in ctxDone) ~> (turn # t \/ ~running)
  /\ (closer.at = "shut") ~> (closer.at = "waiting" /\ ~running)

-----------------------------------------------------------------------------
(* approvals.go says of deny: "it is what makes the answer deterministic   *)
(* (denied) instead of a race": a call denied while it waited is denied.   *)
DenyDecides ==
  [][\A c \in Call : pc'[c] = "gone" /\ pc[c] # "gone" => ch[c] # "no"]_vars
=============================================================================
