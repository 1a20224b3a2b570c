-------------------------- MODULE ApprovalsProofs --------------------------
(***************************************************************************)
(* Theorems about Approvals for any number of calls, humans, cancellers    *)
(* and turns, and any choice of ids, shared ones included.                 *)
(***************************************************************************)
EXTENDS Approvals, TLAPS

-----------------------------------------------------------------------------
(* The inductive invariant.  A call that has not ended belongs to the turn *)
(* in flight (the dispatcher waits for it); one that was not made yet has  *)
(* no verdict in its channel; a verdict that allows a call, wherever it    *)
(* is on its way, is one that somebody was told was taken.                 *)

TurnsStartAtOne == running => turn # 0

CallsAreOfTheTurn == \A c \in Call : pc[c] \notin Final => running /\ turnOf[c] = turn

NewCallsHaveNoVerdict == \A c \in Call : pc[c] = "new" => ch[c] = "empty"

Alone(c) == \A d \in Call \ {c} : id[d] # id[c]

Allowed(c) == ch[c] = "yes" \/ pc[c] \in {"yes", "ran"}

AllowanceWasTold == \A c \in Call : Alone(c) /\ Allowed(c) => said[c] = "yes"

Book == TurnsStartAtOne /\ CallsAreOfTheTurn /\ NewCallsHaveNoVerdict

IInv == TypeOK /\ Book /\ SendNeverBlocks /\ WaitersAreFound /\ AllowanceWasTold

LEMMA InitIInv == Init => IInv
<1> SUFFICES ASSUME Init PROVE IInv
  OBVIOUS
<1>1. TypeOK
  <2>1. canceller \in [Canceller -> [at : {"idle", "denied"}]
                                   \cup [at : {"calling"}, turn : 1..MaxTurns]]
    BY DEF Init
  <2>2. closer \in [at : {"idle", "shut", "waiting"}]
                   \cup [at : {"marked"}, turns : SUBSET (1..MaxTurns)]
    BY DEF Init
  <2>3. pc \in [Call -> Final \cup {"registered", "blocked", "yes", "no", "gone"}]
    BY DEF Init, Final
  <2>4. said \in [Call -> {"none", "yes", "no", "misdirected"}]
    BY DEF Init
  <2>5. 0 \in 0..MaxTurns
    BY MaxTurnsAssumption
  <2>6. turnOf \in [Call -> 0..MaxTurns]
    BY <2>5 DEF Init
  <2>7. /\ waiting \in [UseID -> Call \cup {NoCall}]
        /\ ch \in [Call -> {"empty", "yes", "no"}]
        /\ human \in [Human -> Call \cup {NoCall}]
    BY DEF Init
  <2>8. /\ answered \subseteq UseID /\ shut \in BOOLEAN /\ running \in BOOLEAN
        /\ id \in [Call -> UseID] /\ turn \in 0..MaxTurns /\ ctxDone \subseteq 1..MaxTurns
    BY <2>5 DEF Init
  <2> QED
    BY <2>1, <2>2, <2>3, <2>4, <2>6, <2>7, <2>8 DEF TypeOK
<1>2. Book
  BY DEF Init, Book, TurnsStartAtOne, CallsAreOfTheTurn, NewCallsHaveNoVerdict, Final
<1>3. SendNeverBlocks /\ WaitersAreFound /\ AllowanceWasTold
  BY DEF Init, SendNeverBlocks, WaitersAreFound, AllowanceWasTold, Allowed
<1> QED
  BY <1>1, <1>2, <1>3 DEF IInv

-----------------------------------------------------------------------------
(* The queue's part of the invariant, which only the waiter and the two    *)
(* operations that send a verdict can disturb.                             *)

QueueTyped ==
  /\ waiting \in [UseID -> Call \cup {NoCall}]
  /\ ch \in [Call -> {"empty", "yes", "no"}]
  /\ pc \in [Call -> Final \cup {"registered", "blocked", "yes", "no", "gone"}]

QueueInv ==
  QueueTyped /\ SendNeverBlocks /\ WaitersAreFound /\ NewCallsHaveNoVerdict

(* Sending one verdict to calls that are in the queue, and taking them out *)
(* of it, in the same critical section: no channel is sent to twice, and   *)
(* no call is left waiting with neither an entry nor a verdict.            *)
LEMMA DeliverToParked ==
  ASSUME IInv, NEW C \in SUBSET Parked, NEW v \in {"yes", "no"},
         Deliver(C, v), id' = id,
         waiting' = [i \in UseID |-> IF waiting[i] \in C THEN NoCall ELSE waiting[i]]
  PROVE  /\ QueueInv'
         /\ \A c \in Call : pc'[c] \in Final <=> pc[c] \in Final
<1> USE DEF IInv, TypeOK
<1>1. \A c \in C : /\ c \in Call /\ waiting[id[c]] = c /\ ch[c] = "empty"
                   /\ pc[c] \in {"registered", "blocked", "gone"}
  BY DEF Parked, SendNeverBlocks
<1>2. \A c \in Call : /\ pc'[c] = IF c \in C /\ pc[c] = "blocked" THEN v ELSE pc[c]
                      /\ ch'[c] = IF c \in C /\ pc[c] # "blocked" THEN v ELSE ch[c]
  BY DEF Deliver
<1>3. \A c \in Call : waiting'[id[c]] = c <=> waiting[id[c]] = c /\ c \notin C
  BY CallAssumption, <1>1
<1>4. QueueTyped'
  BY DEF QueueTyped, Deliver
<1>5. SendNeverBlocks'
  BY <1>2 DEF SendNeverBlocks
<1>6. WaitersAreFound'
  <2>1. ASSUME NEW c \in Call
        PROVE  /\ pc'[c] = "blocked" => waiting'[id[c]] = c
               /\ pc'[c] = "registered" => (waiting'[id[c]] = c) # (ch'[c] # "empty")
    <3>1. CASE c \in C
      <4>1. waiting'[id[c]] # c
        BY <3>1, <1>3
      <4>2. pc'[c] # "blocked" /\ (pc'[c] = "registered" => ch'[c] # "empty")
        BY <3>1, <1>2
      <4> QED
        BY <4>1, <4>2
    <3>2. CASE c \notin C
      <4>1. pc'[c] = pc[c] /\ ch'[c] = ch[c]
        BY <3>2, <1>2
      <4>2. waiting'[id[c]] = c <=> waiting[id[c]] = c
        BY <3>2, <1>3
      <4> QED
        BY <4>1, <4>2 DEF WaitersAreFound
    <3> QED
      BY <3>1, <3>2
  <2>2. UNCHANGED id
    OBVIOUS
  <2> HIDE DEF IInv, TypeOK
  <2> QED
    BY <2>1, <2>2 DEF WaitersAreFound
<1>7. NewCallsHaveNoVerdict'
  BY <1>1, <1>2 DEF NewCallsHaveNoVerdict, Book
<1>8. \A c \in Call : pc'[c] \in Final <=> pc[c] \in Final
  BY <1>2 DEF Final
<1> QED
  BY <1>4, <1>5, <1>6, <1>7, <1>8 DEF QueueInv

-----------------------------------------------------------------------------
(* A step that leaves the queue, the channels and the calls alone keeps    *)
(* all that is said of them.                                               *)
LEMMA QuietStep ==
  ASSUME IInv, UNCHANGED <<waiting, ch, pc, id, said>>,
         TypeOK', TurnsStartAtOne', CallsAreOfTheTurn'
  PROVE  IInv'
<1>1. NewCallsHaveNoVerdict'
  BY DEF IInv, Book, NewCallsHaveNoVerdict
<1>2. SendNeverBlocks' /\ WaitersAreFound'
  BY DEF IInv, SendNeverBlocks, WaitersAreFound
<1>3. AllowanceWasTold'
  BY DEF IInv, AllowanceWasTold, Alone, Allowed
<1> QED
  BY <1>1, <1>2, <1>3 DEF IInv, Book

(* Register puts a call with an empty channel under an id that is free, so *)
(* no other call's entry is replaced.                                      *)
LEMMA RegisterIInv ==
  ASSUME IInv, NEW c \in Call, Register(c)
  PROVE  IInv'
<1> USE DEF IInv, Book
<1>1. TypeOK'
  BY DEF Register, TypeOK, Final
<1>2. TurnsStartAtOne'
  BY DEF Register, TurnsStartAtOne
<1>3. CallsAreOfTheTurn'
  BY DEF Register, CallsAreOfTheTurn, TypeOK, Final
<1>4. \A d \in Call \ {c} : pc'[d] = pc[d] /\ (waiting'[id[d]] = d <=> waiting[id[d]] = d)
  BY CallAssumption DEF Register, TypeOK
<1>5. ch[c] = "empty" /\ pc[c] = "new"
  BY DEF Register, NewCallsHaveNoVerdict
<1>6. NewCallsHaveNoVerdict'
  BY DEF Register, NewCallsHaveNoVerdict, TypeOK
<1>7. SendNeverBlocks'
  BY <1>5 DEF Register, SendNeverBlocks, TypeOK
<1>8. WaitersAreFound'
  <2> SUFFICES ASSUME NEW d \in Call
               PROVE  /\ pc'[d] = "blocked" => waiting'[id[d]] = d
                      /\ pc'[d] = "registered" =>
                           (waiting'[id[d]] = d) # (ch[d] # "empty")
    BY DEF WaitersAreFound, Register
  <2>1. CASE d # c
    BY <2>1, <1>4 DEF WaitersAreFound
  <2>2. CASE d = c
    <3>1. pc'[c] # "blocked" /\ (pc'[c] = "registered" => waiting'[id[c]] = c)
      BY <1>5 DEF Register, TypeOK
    <3> QED
      BY <2>2, <3>1, <1>5
  <2> QED
    BY <2>1, <2>2
<1>9. AllowanceWasTold'
  BY <1>4, <1>5 DEF Register, AllowanceWasTold, Alone, Allowed, TypeOK
<1> QED
  BY <1>1, <1>2, <1>3, <1>6, <1>7, <1>8, <1>9

(* A select that takes a verdict takes it from a channel whose call has    *)
(* left the queue; one that blocks found the channel empty, so the call is *)
(* still in it.                                                            *)
LEMMA SelectIInv ==
  ASSUME IInv, NEW c \in Call, Select(c)
  PROVE  IInv'
<1> USE DEF IInv, Book
<1>1. pc[c] = "registered" /\ UNCHANGED <<waiting, id, said, turn, running, turnOf>>
  BY DEF Select, run
<1>2. TypeOK'
  BY DEF Select, TypeOK, run
<1>3. \A d \in Call \ {c} : pc'[d] = pc[d] /\ ch'[d] = ch[d]
  BY DEF Select, TypeOK
<1>4. \/ ch[c] # "empty" /\ pc'[c] = ch[c] /\ ch'[c] = "empty"
      \/ pc'[c] = "gone" /\ ch'[c] = ch[c]
      \/ ch[c] = "empty" /\ pc'[c] = "blocked" /\ ch'[c] = ch[c]
  BY DEF Select, TypeOK
<1>5. pc[c] \notin Final /\ pc'[c] \notin Final /\ pc'[c] \notin {"ran", "registered"}
  BY <1>1, <1>4 DEF TypeOK, Final
<1>6. TurnsStartAtOne' /\ CallsAreOfTheTurn'
  BY <1>1, <1>3, <1>5 DEF TurnsStartAtOne, CallsAreOfTheTurn
<1>7. NewCallsHaveNoVerdict'
  BY <1>1, <1>3, <1>5 DEF NewCallsHaveNoVerdict, Final
<1>8. ch[c] # "empty" => waiting[id[c]] # c
  BY CallAssumption DEF SendNeverBlocks, TypeOK
<1>9. SendNeverBlocks'
  <2> SUFFICES ASSUME NEW i \in UseID, waiting[i] # NoCall
               PROVE  /\ id[waiting[i]] = i /\ ch'[waiting[i]] = "empty"
                      /\ pc'[waiting[i]] \in {"registered", "blocked", "gone"}
    BY <1>1 DEF SendNeverBlocks
  <2>1. waiting[i] \in Call
    BY DEF TypeOK
  <2> QED
    BY <2>1, <1>3, <1>4, <1>8 DEF SendNeverBlocks
<1>10. WaitersAreFound'
  <2> SUFFICES ASSUME NEW d \in Call
               PROVE  /\ pc'[d] = "blocked" => waiting[id[d]] = d
                      /\ pc'[d] = "registered" =>
                           (waiting[id[d]] = d) # (ch'[d] # "empty")
    BY <1>1 DEF WaitersAreFound
  <2>1. CASE d # c
    BY <2>1, <1>3 DEF WaitersAreFound
  <2>2. CASE d = c
    <3>1. pc'[c] = "blocked" => ch[c] = "empty"
      BY <1>4 DEF TypeOK
    <3>2. ch[c] = "empty" => waiting[id[c]] = c
      BY <1>1 DEF WaitersAreFound
    <3> QED
      BY <2>2, <3>1, <3>2, <1>5
  <2> QED
    BY <2>1, <2>2
<1>11. AllowanceWasTold'
  BY <1>1, <1>3, <1>4, <1>5 DEF AllowanceWasTold, Alone, Allowed, TypeOK
<1> QED
  BY <1>2, <1>6, <1>7, <1>9, <1>10, <1>11

LEMMA ContextUnblocksIInv ==
  ASSUME IInv, NEW c \in Call, ContextUnblocks(c)
  PROVE  IInv'
<1> USE DEF IInv, Book
<1>1. pc[c] = "blocked" /\ pc' = [pc EXCEPT ![c] = "gone"]
  BY DEF ContextUnblocks
<1>2. UNCHANGED <<waiting, answered, shut, ch, said, id, turn, running, turnOf,
                  ctxDone, human, canceller, closer>>
  BY DEF ContextUnblocks, queue, run
<1>3. TypeOK'
  BY <1>1, <1>2 DEF TypeOK
<1>4. TurnsStartAtOne' /\ CallsAreOfTheTurn'
  BY <1>1, <1>2 DEF TurnsStartAtOne, CallsAreOfTheTurn, TypeOK, Final
<1>5. NewCallsHaveNoVerdict'
  BY <1>1, <1>2 DEF NewCallsHaveNoVerdict, TypeOK
<1>6. SendNeverBlocks'
  BY <1>1, <1>2 DEF SendNeverBlocks, TypeOK
<1>7. WaitersAreFound'
  BY <1>1, <1>2 DEF WaitersAreFound, TypeOK
<1>8. AllowanceWasTold'
  BY <1>1, <1>2 DEF AllowanceWasTold, Alone, Allowed, TypeOK
<1> QED
  BY <1>3, <1>4, <1>5, <1>6, <1>7, <1>8

(* Forget clears the entry only if it is the call's own, and after it the  *)
(* call has ended.                                                         *)
LEMMA ForgetIInv ==
  ASSUME IInv, NEW c \in Call, Forget(c)
  PROVE  IInv'
<1> USE DEF IInv, Book
<1>1. /\ pc[c] \in {"yes", "no", "gone"}
      /\ waiting' = IF waiting[id[c]] = c THEN [waiting EXCEPT ![id[c]] = NoCall]
                                          ELSE waiting
      /\ pc' = [pc EXCEPT ![c] = Verdict(pc[c])]
  BY DEF Forget
<1>2. UNCHANGED <<answered, shut, ch, said, id, turn, running, turnOf,
                  ctxDone, human, canceller, closer>>
  BY DEF Forget, run
<1>3. /\ pc'[c] \in {"ran", "denied", "abandoned"}
      /\ pc'[c] = "ran" => pc[c] = "yes"
      /\ \A d \in Call \ {c} : pc'[d] = pc[d]
  BY <1>1 DEF Verdict, TypeOK
<1>4. \A i \in UseID : waiting'[i] # NoCall => waiting'[i] = waiting[i]
  BY <1>1 DEF TypeOK
<1>5. waiting'[id[c]] # c
  BY <1>1, CallAssumption DEF TypeOK
<1>6. \A d \in Call \ {c} : waiting'[id[d]] = d <=> waiting[id[d]] = d
  BY <1>1, CallAssumption DEF TypeOK
<1>7. TypeOK'
  BY <1>1, <1>2, <1>3 DEF TypeOK, Final
<1>8. TurnsStartAtOne' /\ CallsAreOfTheTurn'
  BY <1>2, <1>3 DEF TurnsStartAtOne, CallsAreOfTheTurn, Final
<1>9. NewCallsHaveNoVerdict'
  BY <1>2, <1>3 DEF NewCallsHaveNoVerdict
<1>10. SendNeverBlocks'
  BY <1>2, <1>3, <1>4, <1>5 DEF SendNeverBlocks, TypeOK
<1>11. WaitersAreFound'
  <2> SUFFICES ASSUME NEW d \in Call
               PROVE  /\ pc'[d] = "blocked" => waiting'[id[d]] = d
                      /\ pc'[d] = "registered" =>
                           (waiting'[id[d]] = d) # (ch[d] # "empty")
    BY <1>2 DEF WaitersAreFound
  <2>1. CASE d = c
    BY <2>1, <1>3
  <2>2. CASE d # c
    BY <2>2, <1>3, <1>6 DEF WaitersAreFound
  <2> QED
    BY <2>1, <2>2
<1>12. AllowanceWasTold'
  BY <1>1, <1>2, <1>3 DEF AllowanceWasTold, Alone, Allowed
<1> QED
  BY <1>7, <1>8, <1>9, <1>10, <1>11, <1>12

-----------------------------------------------------------------------------
(* Cancel and close deny every parked call: nobody is allowed by it.       *)
LEMMA ReleaseIInv ==
  ASSUME IInv, Release, UNCHANGED said, TypeOK', TurnsStartAtOne'
  PROVE  IInv'
<1> USE DEF IInv, Book
<1>1. UNCHANGED <<turn, running, turnOf, id>> /\ Deliver(Parked, "no")
  BY DEF Release, run
<1>2. waiting' = [i \in UseID |-> IF waiting[i] \in Parked THEN NoCall ELSE waiting[i]]
  BY DEF Release, Parked
<1>3. QueueInv' /\ \A c \in Call : pc'[c] \in Final <=> pc[c] \in Final
  BY <1>1, <1>2, DeliverToParked
<1>4. CallsAreOfTheTurn'
  BY <1>1, <1>3 DEF CallsAreOfTheTurn
<1>5. \A c \in Call : Allowed(c)' => Allowed(c)
  BY <1>1 DEF Allowed, Deliver
<1>6. AllowanceWasTold'
  BY <1>1, <1>5 DEF AllowanceWasTold, Alone
<1> QED
  BY <1>3, <1>4, <1>6 DEF QueueInv

(* A human's verdict reaches the call that waits under the id on the       *)
(* screen, which, unless the id is shared, is the call on the screen.      *)
LEMMA ResolveIInv ==
  ASSUME IInv, NEW h \in Human, NEW v \in {"yes", "no"}, Resolve(h, v)
  PROVE  IInv'
<1> USE DEF IInv, Book
<1>1. /\ human[h] \in Call
      /\ human' = [human EXCEPT ![h] = NoCall]
      /\ UNCHANGED <<shut, turn, running, turnOf, id, ctxDone, canceller, closer>>
  BY DEF Resolve, run, TypeOK
<1> DEFINE i == id[human[h]]
           c == waiting[i]
<1>2. i \in UseID
  BY <1>1 DEF TypeOK
<1>3. CASE c = NoCall
  <2>1. UNCHANGED <<waiting, answered, ch, pc, said, id>>
    BY <1>1, <1>3 DEF Resolve
  <2>2. TypeOK'
    BY <1>1, <2>1 DEF TypeOK
  <2>3. TurnsStartAtOne' /\ CallsAreOfTheTurn'
    BY <1>1, <2>1 DEF TurnsStartAtOne, CallsAreOfTheTurn
  <2> QED
    BY <2>1, <2>2, <2>3, QuietStep
<1>4. CASE c # NoCall
  <2>1. /\ waiting' = [waiting EXCEPT ![i] = NoCall]
        /\ answered' = answered \cup {i}
        /\ Deliver({c}, v)
        /\ said' = [said EXCEPT ![c] = IF c = human[h] THEN v ELSE "misdirected"]
    BY <1>4 DEF Resolve
  <2>2. /\ c \in Call /\ {c} \in SUBSET Parked
        /\ id[c] = i /\ ch[c] = "empty" /\ pc[c] \in {"registered", "blocked", "gone"}
    BY <1>2, <1>4 DEF Parked, SendNeverBlocks, TypeOK
  <2>3. \A j \in UseID : waiting[j] = c <=> j = i
    BY <1>2, <1>4 DEF SendNeverBlocks
  <2>4. waiting' = [j \in UseID |-> IF waiting[j] \in {c} THEN NoCall ELSE waiting[j]]
    BY <2>1, <2>3 DEF TypeOK
  <2>5. QueueInv' /\ \A d \in Call : pc'[d] \in Final <=> pc[d] \in Final
    BY <1>1, <2>1, <2>2, <2>4, DeliverToParked
  <2>6. said' \in [Call -> {"none", "yes", "no", "misdirected"}]
    BY <2>1 DEF TypeOK
  <2>7. answered' \subseteq UseID /\ human' \in [Human -> Call \cup {NoCall}]
    BY <1>1, <1>2, <2>1 DEF TypeOK
  <2>8. TypeOK'
    BY <1>1, <2>5, <2>6, <2>7 DEF TypeOK, QueueInv, QueueTyped
  <2>9. TurnsStartAtOne' /\ CallsAreOfTheTurn'
    BY <1>1, <2>5 DEF TurnsStartAtOne, CallsAreOfTheTurn
  <2>10. ASSUME NEW d \in Call, Alone(d)', Allowed(d)'
         PROVE  said'[d] = "yes"
    <3>1. Alone(d)
      BY <1>1, <2>10 DEF Alone
    <3>2. CASE d = c
      <4>1. c = human[h]
        BY <1>1, <2>2, <3>1, <3>2 DEF Alone
      <4>2. v = "yes"
        BY <2>1, <2>2, <2>10, <3>2 DEF Allowed, Deliver
      <4> QED
        BY <2>1, <2>2, <3>2, <4>1, <4>2 DEF TypeOK
    <3>3. CASE d # c
      <4>1. Allowed(d)
        BY <2>1, <2>10, <3>3 DEF Allowed, Deliver
      <4> QED
        BY <2>1, <3>1, <3>3, <4>1 DEF AllowanceWasTold, TypeOK
    <3> QED
      BY <3>2, <3>3
  <2> QED
    BY <2>5, <2>8, <2>9, <2>10 DEF QueueInv, AllowanceWasTold
<1> QED
  BY <1>3, <1>4

-----------------------------------------------------------------------------
(* Cancel denies what is parked, reads the turn and ends its context, each *)
(* in a critical section of its own.                                       *)
LEMMA CancelIInv ==
  ASSUME IInv, NEW p \in Canceller, CancelDeny(p) \/ CancelRead(p) \/ CancelCall(p)
  PROVE  IInv'
<1> USE DEF IInv, Book
<1>1. CASE CancelDeny(p)
  <2>1. /\ Release /\ canceller' = [canceller EXCEPT ![p] = [at |-> "denied"]]
        /\ UNCHANGED <<shut, ctxDone, closer, said, human, turn, running, turnOf, id>>
    BY <1>1 DEF CancelDeny, Release, run
  <2>2. TypeOK'
    <3>1. canceller' \in [Canceller -> [at : {"idle", "denied"}]
                                       \cup [at : {"calling"}, turn : 1..MaxTurns]]
      BY <2>1 DEF TypeOK
    <3>2. /\ answered' \subseteq UseID /\ waiting' \in [UseID -> Call \cup {NoCall}]
          /\ ch' \in [Call -> {"empty", "yes", "no"}]
          /\ pc' \in [Call -> Final \cup {"registered", "blocked", "yes", "no", "gone"}]
      BY <2>1 DEF Release, Deliver, TypeOK
    <3> QED
      BY <2>1, <3>1, <3>2 DEF TypeOK
  <2>3. TurnsStartAtOne'
    BY <2>1 DEF TurnsStartAtOne
  <2> QED
    BY <2>1, <2>2, <2>3, ReleaseIInv
<1>2. CASE CancelRead(p)
  <2>1. UNCHANGED <<waiting, answered, shut, ch, said, pc, turn, running, turnOf, id,
                    ctxDone, human, closer>>
    BY <1>2 DEF CancelRead, queue, run
  <2>2. running => turn \in 1..MaxTurns
    BY DEF TurnsStartAtOne, TypeOK
  <2>3. canceller' \in [Canceller -> [at : {"idle", "denied"}]
                                     \cup [at : {"calling"}, turn : 1..MaxTurns]]
    BY <1>2, <2>2 DEF CancelRead, TypeOK
  <2>4. TypeOK' /\ TurnsStartAtOne' /\ CallsAreOfTheTurn'
    BY <2>1, <2>3 DEF TypeOK, TurnsStartAtOne, CallsAreOfTheTurn
  <2> QED
    BY <2>1, <2>4, QuietStep
<1>3. CASE CancelCall(p)
  <2>1. /\ canceller[p].at = "calling" /\ ctxDone' = ctxDone \cup {canceller[p].turn}
        /\ UNCHANGED <<waiting, answered, shut, ch, said, pc, turn, running, turnOf, id,
                       human, closer>>
    BY <1>3 DEF CancelCall, queue, run
  <2>2. canceller[p].turn \in 1..MaxTurns
    <3>1. canceller[p] \in [at : {"idle", "denied"}] \cup [at : {"calling"}, turn : 1..MaxTurns]
      BY DEF TypeOK
    <3> QED
      BY <2>1, <3>1
  <2>3. canceller' \in [Canceller -> [at : {"idle", "denied"}]
                                     \cup [at : {"calling"}, turn : 1..MaxTurns]]
    BY <1>3 DEF CancelCall, TypeOK
  <2>4. TypeOK' /\ TurnsStartAtOne' /\ CallsAreOfTheTurn'
    BY <2>1, <2>2, <2>3 DEF TypeOK, TurnsStartAtOne, CallsAreOfTheTurn
  <2> QED
    BY <2>1, <2>4, QuietStep
<1> QED
  BY <1>1, <1>2, <1>3

(* close: the same, and the queue stays closed. *)
LEMMA CloseIInv ==
  ASSUME IInv, CloseQueue \/ CloseMark \/ CloseCancel
  PROVE  IInv'
<1> USE DEF IInv, Book
<1>1. CASE CloseQueue
  <2>1. /\ Release /\ shut' = TRUE /\ closer' = [at |-> "shut"]
        /\ UNCHANGED <<ctxDone, canceller, said, human, turn, running, turnOf, id>>
    BY <1>1 DEF CloseQueue, Release, run
  <2>2. TypeOK'
    <3>1. /\ answered' \subseteq UseID /\ waiting' \in [UseID -> Call \cup {NoCall}]
          /\ ch' \in [Call -> {"empty", "yes", "no"}]
          /\ pc' \in [Call -> Final \cup {"registered", "blocked", "yes", "no", "gone"}]
      BY <2>1 DEF Release, Deliver, TypeOK
    <3> QED
      BY <2>1, <3>1 DEF TypeOK
  <2>3. TurnsStartAtOne'
    BY <2>1 DEF TurnsStartAtOne
  <2> QED
    BY <2>1, <2>2, <2>3, ReleaseIInv
<1>2. CASE CloseMark
  <2>1. UNCHANGED <<waiting, answered, shut, ch, said, pc, turn, running, turnOf, id,
                    ctxDone, human, canceller>>
    BY <1>2 DEF CloseMark, queue, run
  <2>2. running => turn \in 1..MaxTurns
    BY DEF TurnsStartAtOne, TypeOK
  <2>3. closer' \in [at : {"marked"}, turns : SUBSET (1..MaxTurns)]
    BY <1>2, <2>2 DEF CloseMark
  <2>4. TypeOK' /\ TurnsStartAtOne' /\ CallsAreOfTheTurn'
    BY <2>1, <2>3 DEF TypeOK, TurnsStartAtOne, CallsAreOfTheTurn
  <2> QED
    BY <2>1, <2>4, QuietStep
<1>3. CASE CloseCancel
  <2>1. /\ closer.at = "marked" /\ ctxDone' = ctxDone \cup closer.turns
        /\ closer' = [at |-> "waiting"]
        /\ UNCHANGED <<waiting, answered, shut, ch, said, pc, turn, running, turnOf, id,
                       human, canceller>>
    BY <1>3 DEF CloseCancel, queue, run
  <2>2. closer.turns \subseteq 1..MaxTurns
    BY <2>1 DEF TypeOK
  <2>3. TypeOK' /\ TurnsStartAtOne' /\ CallsAreOfTheTurn'
    BY <2>1, <2>2 DEF TypeOK, TurnsStartAtOne, CallsAreOfTheTurn
  <2> QED
    BY <2>1, <2>3, QuietStep
<1> QED
  BY <1>1, <1>2, <1>3

(* A turn starts when no call of an earlier one is left, and ends when all *)
(* of its own have ended.                                                  *)
LEMMA TurnIInv ==
  ASSUME IInv, StartTurn \/ EndTurn \/ Abort
  PROVE  IInv'
<1> USE DEF IInv, Book
<1>1. UNCHANGED <<waiting, answered, shut, ch, said, pc, id, turnOf, human, canceller, closer>>
  BY DEF StartTurn, EndTurn, Abort, queue, run
<1>2. turn' \in 0..MaxTurns /\ running' \in BOOLEAN /\ ctxDone' \subseteq 1..MaxTurns
  <2>1. CASE StartTurn
    <3>1. turn' = turn + 1 /\ turn < MaxTurns /\ ctxDone' = ctxDone
      BY <2>1 DEF StartTurn
    <3>2. turn' \in 0..MaxTurns
      BY <3>1, MaxTurnsAssumption DEF TypeOK
    <3>3. running' \in BOOLEAN
      BY <2>1 DEF StartTurn
    <3> QED
      BY <3>1, <3>2, <3>3 DEF TypeOK
  <2>2. CASE EndTurn
    <3>1. turn' = turn /\ running' \in BOOLEAN /\ ctxDone' = ctxDone \cup {turn}
      BY <2>2 DEF EndTurn
    <3>2. turn # 0
      BY <2>2 DEF EndTurn, TurnsStartAtOne
    <3> QED
      BY <3>1, <3>2, MaxTurnsAssumption DEF TypeOK
  <2>3. CASE Abort
    <3>1. turn' = turn /\ running' = running /\ ctxDone' = ctxDone \cup {turn}
      BY <2>3 DEF Abort, run
    <3>2. turn # 0
      BY <2>3 DEF Abort, TurnsStartAtOne
    <3> QED
      BY <3>1, <3>2, MaxTurnsAssumption DEF TypeOK
  <2> QED
    BY <2>1, <2>2, <2>3
<1>3. TypeOK'
  BY <1>1, <1>2 DEF TypeOK
<1>4. TurnsStartAtOne'
  <2>1. CASE StartTurn
    BY <2>1, MaxTurnsAssumption DEF StartTurn, TurnsStartAtOne, TypeOK
  <2>2. CASE EndTurn
    BY <2>2 DEF EndTurn, TurnsStartAtOne
  <2>3. CASE Abort
    BY <2>3 DEF Abort, TurnsStartAtOne, run
  <2> QED
    BY <2>1, <2>2, <2>3
<1>5. CallsAreOfTheTurn'
  BY <1>1 DEF StartTurn, EndTurn, Abort, CallsAreOfTheTurn, run
<1> QED
  BY <1>1, <1>3, <1>4, <1>5, QuietStep

LEMMA LookIInv ==
  ASSUME IInv, NEW h \in Human, Look(h)
  PROVE  IInv'
<1> USE DEF IInv, Book
<1>1. UNCHANGED <<waiting, answered, shut, ch, said, pc, turn, running, turnOf, id,
                  ctxDone, canceller, closer>>
  BY DEF Look, queue, run
<1>2. human' \in [Human -> Call \cup {NoCall}]
  BY DEF Look, Parked, TypeOK
<1>3. TypeOK' /\ TurnsStartAtOne' /\ CallsAreOfTheTurn'
  BY <1>1, <1>2 DEF TypeOK, TurnsStartAtOne, CallsAreOfTheTurn
<1> QED
  BY <1>1, <1>3, QuietStep

LEMMA StutterIInv == IInv /\ UNCHANGED vars => IInv'
<1> SUFFICES ASSUME IInv, UNCHANGED vars PROVE IInv'
  OBVIOUS
<1>1. TypeOK' /\ TurnsStartAtOne' /\ CallsAreOfTheTurn'
  BY DEF IInv, Book, vars, TypeOK, TurnsStartAtOne, CallsAreOfTheTurn
<1> QED
  BY <1>1, QuietStep DEF vars

(* IInv is an invariant: it holds at first, and every step keeps it. *)
THEOREM Inductive == Spec => []IInv
<1>1. IInv /\ [Next]_vars => IInv'
  <2> SUFFICES ASSUME IInv, [Next]_vars PROVE IInv'
    OBVIOUS
  <2>1. ASSUME NEW c \in Call, Register(c) \/ Wait(c) PROVE IInv'
    BY <2>1, RegisterIInv, SelectIInv, ContextUnblocksIInv, ForgetIInv DEF Wait
  <2>2. ASSUME NEW h \in Human, Look(h) \/ \E v \in {"yes", "no"} : Resolve(h, v) PROVE IInv'
    BY <2>2, LookIInv, ResolveIInv
  <2>3. ASSUME NEW p \in Canceller, CancelDeny(p) \/ CancelRead(p) \/ CancelCall(p)
        PROVE  IInv'
    BY <2>3, CancelIInv
  <2>4. CASE CloseQueue \/ CloseMark \/ CloseCancel
    BY <2>4, CloseIInv
  <2>5. CASE StartTurn \/ EndTurn \/ Abort
    BY <2>5, TurnIInv
  <2>6. CASE UNCHANGED vars
    BY <2>6, StutterIInv
  <2> QED
    BY <2>1, <2>2, <2>3, <2>4, <2>5, <2>6 DEF Next
<1> QED
  BY <1>1, InitIInv, PTL DEF Spec

-----------------------------------------------------------------------------
(* Every variable has its type. *)
THEOREM TypeCorrect == Spec => []TypeOK
<1>1. IInv => TypeOK
  BY DEF IInv
<1> QED
  BY <1>1, Inductive, PTL

(* resolve and release never block on a send while they hold the queue's   *)
(* mutex, however many cancels, closes and humans answer at once.          *)
THEOREM SendsDoNotBlock == Spec => []SendNeverBlocks
<1>1. IInv => SendNeverBlocks
  BY DEF IInv
<1> QED
  BY <1>1, Inductive, PTL

(* A call that waits can be found by whoever has to release it, or has its *)
(* verdict already.                                                        *)
THEOREM NoWaiterIsLost == Spec => []WaitersAreFound
<1>1. IInv => WaitersAreFound
  BY DEF IInv
<1> QED
  BY <1>1, Inductive, PTL

(* The list of questions never shows one whose turn is over. *)
THEOREM NoStaleQuestions == Spec => []QuestionsEndWithTheirTurn
<1>1. IInv => QuestionsEndWithTheirTurn
  <2> SUFFICES ASSUME IInv, NEW c \in Parked
               PROVE  running /\ turnOf[c] = turn
    BY DEF QuestionsEndWithTheirTurn
  <2>1. c \in Call /\ pc[c] \in {"registered", "blocked", "gone"}
    BY DEF IInv, TypeOK, Parked, SendNeverBlocks
  <2> QED
    BY <2>1 DEF IInv, Book, CallsAreOfTheTurn, Final
<1> QED
  BY <1>1, Inductive, PTL

(* A call that shares its id with no other runs only by a yes to that very *)
(* call, and one that was told no never runs.                              *)
THEOREM RunsOnlyIfAllowed == Spec => []OnlyAllowedRun
<1>1. IInv => OnlyAllowedRun
  BY DEF IInv, OnlyAllowedRun, AllowanceWasTold, Alone, Allowed
<1> QED
  BY <1>1, Inductive, PTL
=============================================================================
