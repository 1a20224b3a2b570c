------------------------------ MODULE LogProofs ------------------------------
(***************************************************************************)
(* Theorems about what a run leaves to be read: EventLog, its events, for  *)
(* every buffer capacity, set of followers, starting positions and length  *)
(* of run; and the trace and the counts of Telemetry, for every tree of    *)
(* calls and every cap.                                                    *)
(***************************************************************************)
EXTENDS EventLog, Telemetry, SequenceTheorems, FiniteSetTheorems, WellFoundedInduction, TLAPS

-----------------------------------------------------------------------------
(* The inductive invariant: the four invariants, and the bookkeeping that  *)
(* makes them inductive.  A clone is not empty in the yield loop and empty *)
(* before the first snapshot, and nobody holds a generation of changed     *)
(* that does not exist yet.                                                *)
FollowerBook ==
  \A f \in Follower :
    /\ pc[f] = "yield" => batch[f] # <<>>
    /\ pc[f] = "new" => batch[f] = <<>>
    /\ wait[f] <= changed

IInv ==
  /\ TypeOK /\ FollowerBook
  /\ NumbersNeverChange /\ BatchIsNumbered /\ NoLostWakeup /\ ExhaustedMeansAll

-----------------------------------------------------------------------------
(* Eviction keeps the numbering: the suffix that survives an append that   *)
(* grew the buffer past Cap starts at the event numbered base + excess.    *)
LEMMA SuffixElements ==
  ASSUME NEW S, NEW s \in Seq(S), NEW k \in 1..Len(s) + 1
  PROVE  /\ SubSeq(s, k, Len(s)) \in Seq(S)
         /\ Len(SubSeq(s, k, Len(s))) = Len(s) - k + 1
         /\ \A i \in 1..(Len(s) - k + 1) :
              SubSeq(s, k, Len(s))[i] = s[k + i - 1]
<1>1. Len(s) \in Nat
  OBVIOUS
<1>2. SubSeq(s, k, Len(s)) \in Seq(S)
  BY <1>1
<1>3. Len(SubSeq(s, k, Len(s))) = Len(s) - k + 1
  BY <1>1
<1>4. ASSUME NEW i \in 1..(Len(s) - k + 1)
      PROVE  SubSeq(s, k, Len(s))[i] = s[k + i - 1]
  BY <1>1
<1> QED
  BY <1>2, <1>3, <1>4

-----------------------------------------------------------------------------
(* A log nobody has written to or followed yet satisfies it.               *)
LEMMA InitIInv == Init => IInv
<1> SUFFICES ASSUME Init PROVE IInv
  OBVIOUS
<1>1. TypeOK
  <2>1. <<>> \in Seq(Event)
    OBVIOUS
  <2> QED
    BY <2>1 DEF Init, TypeOK
<1>2. NumbersNeverChange
  BY CapAssumption DEF Init, NumbersNeverChange
<1> QED
  BY <1>1, <1>2 DEF Init, IInv, FollowerBook, BatchIsNumbered, NoLostWakeup,
     ExhaustedMeansAll

(* An append keeps the numbering, leaves every clone right (the events     *)
(* already numbered do not move) and outdates every generation held.       *)
LEMMA AppendIInv ==
  ASSUME IInv, NEW e \in Event, AppendEvent(e)
  PROVE  IInv'
<1> DEFINE grown == Append(events, e)
           excess == Len(grown) - Cap
<1> USE CapAssumption DEF IInv
<1>1. /\ produced \in Seq(Event) /\ events \in Seq(Event) /\ base \in Nat
      /\ changed \in Nat /\ Len(events) \in Nat /\ Len(produced) \in Nat
  BY DEF TypeOK
<1>2. /\ produced' \in Seq(Event) /\ Len(produced') = Len(produced) + 1
      /\ produced'[Len(produced) + 1] = e
      /\ \A i \in 1..Len(produced) : produced'[i] = produced[i]
  BY <1>1 DEF AppendEvent
<1>3. /\ grown \in Seq(Event) /\ Len(grown) = Len(events) + 1
      /\ \A i \in 1..Len(grown) : grown[i] = produced'[base + i]
  <2>1. /\ grown \in Seq(Event) /\ Len(grown) = Len(events) + 1
        /\ grown[Len(events) + 1] = e
        /\ \A i \in 1..Len(events) : grown[i] = events[i]
    BY <1>1
  <2> HIDE DEF grown
  <2>2. base + Len(events) = Len(produced)
    BY DEF NumbersNeverChange
  <2>3. ASSUME NEW i \in 1..Len(grown)
        PROVE  grown[i] = produced'[base + i]
    <3>1. CASE i = Len(events) + 1
      BY <3>1, <2>1, <2>2, <1>1, <1>2
    <3>2. CASE i \in 1..Len(events)
      <4>1. events[i] = produced[base + i] /\ base + i \in 1..Len(produced)
        BY <3>2, <2>2, <1>1 DEF NumbersNeverChange
      <4> QED
        BY <4>1, <3>2, <2>1, <1>2
    <3> QED
      BY <3>1, <3>2, <2>1, <1>1
  <2> QED
    BY <2>1, <2>3
<1>4. NumbersNeverChange' /\ events' \in Seq(Event) /\ base' \in Nat
  <2>1. CASE excess > 0
    <3>1. events' = SubSeq(grown, excess + 1, Len(grown)) /\ base' = base + excess
      BY <2>1 DEF AppendEvent
    <3>2. excess + 1 \in 1..Len(grown) + 1 /\ excess = 1
      BY <1>1, <1>3, <2>1 DEF NumbersNeverChange
    <3> HIDE DEF grown, excess
    <3>3. /\ events' \in Seq(Event)
          /\ Len(events') = Len(grown) - 1
          /\ \A i \in 1..(Len(grown) - 1) : events'[i] = grown[i + 1]
      BY <3>1, <3>2, <1>1, <1>3, SuffixElements
    <3>4. Len(events) = Cap
      BY <3>2, <1>1, <1>3 DEF NumbersNeverChange, excess
    <3>5. base' + Len(events') = Len(produced') /\ Len(events') = Cap
      <4>1. base + Len(events) = Len(produced) /\ base' = base + 1
        BY <3>1, <3>2, <1>1 DEF NumbersNeverChange
      <4>2. Len(events') = Len(events)
        BY <3>3, <1>1, <1>3
      <4> QED
        BY <4>1, <4>2, <3>4, <1>1, <1>2
    <3>6. ASSUME NEW i \in 1..Len(events')
          PROVE  events'[i] = produced'[base' + i]
      <4>1. i \in 1..(Len(grown) - 1) /\ i + 1 \in 1..Len(grown)
        BY <3>3, <1>1, <1>3
      <4>2. base + (i + 1) = base' + i
        BY <3>1, <3>2, <1>1
      <4> QED
        BY <4>1, <4>2, <3>3, <1>3
    <3>7. base' \in Nat /\ Len(events') <= Cap
      BY <3>1, <3>2, <3>5, <1>1
    <3> QED
      BY <3>3, <3>5, <3>6, <3>7 DEF NumbersNeverChange
  <2>2. CASE ~(excess > 0)
    <3>1. events' = grown /\ base' = base
      BY <2>2 DEF AppendEvent
    <3>2. Len(grown) <= Cap
      BY <2>2, <1>1, <1>3
    <3> HIDE DEF grown, excess
    <3> QED
      BY <3>1, <3>2, <1>1, <1>2, <1>3 DEF NumbersNeverChange
  <2> QED
    BY <2>1, <2>2
<1>5. TypeOK'
  BY <1>1, <1>2, <1>4 DEF TypeOK, AppendEvent
<1>6. FollowerBook'
  BY DEF TypeOK, AppendEvent, FollowerBook
<1>7. BatchIsNumbered'
  <2> SUFFICES ASSUME NEW f \in Follower
               PROVE  /\ batch[f] # <<>> => seq[f] + Len(batch[f]) <= Len(produced')
                      /\ \A i \in 1..Len(batch[f]) :
                           batch[f][i] = produced'[seq[f] + i]
    BY DEF BatchIsNumbered, AppendEvent
  <2>1. seq[f] \in Nat /\ batch[f] \in Seq(Event) /\ Len(batch[f]) \in Nat
    BY DEF TypeOK
  <2>2. /\ batch[f] # <<>> => seq[f] + Len(batch[f]) <= Len(produced)
        /\ \A i \in 1..Len(batch[f]) : batch[f][i] = produced[seq[f] + i]
    BY DEF BatchIsNumbered
  <2>3. CASE batch[f] = <<>>
    BY <2>3
  <2>4. CASE batch[f] # <<>>
    <3>1. seq[f] + Len(batch[f]) <= Len(produced)
      BY <2>2, <2>4
    <3>2. ASSUME NEW i \in 1..Len(batch[f])
          PROVE  batch[f][i] = produced'[seq[f] + i]
      <4>1. seq[f] + i \in 1..Len(produced)
        BY <3>1, <2>1, <1>1
      <4> QED
        BY <4>1, <2>2, <1>2
    <3> QED
      BY <3>1, <3>2, <2>1, <1>1, <1>2
  <2> QED
    BY <2>3, <2>4
<1>8. NoLostWakeup'
  BY <1>1 DEF TypeOK, FollowerBook, NoLostWakeup, AppendEvent
<1>9. ExhaustedMeansAll'
  BY DEF ExhaustedMeansAll, AppendEvent
<1> QED
  BY <1>4, <1>5, <1>6, <1>7, <1>8, <1>9

(* The deferred end of drain adds no event; its wake outdates every        *)
(* generation held, so nobody stays parked beside the end.                 *)
LEMMA FinishIInv == IInv /\ Finish => IInv'
<1> SUFFICES ASSUME IInv, Finish PROVE IInv'
  OBVIOUS
<1> USE DEF IInv, Finish
<1>1. TypeOK'
  BY DEF TypeOK
<1>2. FollowerBook' /\ NoLostWakeup'
  BY DEF TypeOK, FollowerBook, NoLostWakeup
<1>3. NumbersNeverChange' /\ BatchIsNumbered' /\ ExhaustedMeansAll'
  BY DEF NumbersNeverChange, BatchIsNumbered, ExhaustedMeansAll
<1> QED
  BY <1>1, <1>2, <1>3

(* What the locked section of Follow leaves in the follower's hands.       *)
LEMMA SnapshotTakes ==
  ASSUME IInv, NEW f \in Follower, Snapshot(f)
  PROVE  /\ seq'[f] \in Nat /\ batch'[f] \in Seq(Event)
         /\ batch'[f] # <<>> => seq'[f] + Len(batch'[f]) <= Len(produced)
         /\ \A i \in 1..Len(batch'[f]) : batch'[f][i] = produced[seq'[f] + i]
         /\ batch'[f] = <<>> => seq'[f] >= Len(produced)
<1> DEFINE s == Larger(seq[f], base)
           b == SubSeq(events, s - base + 1, Len(events))
<1>1. /\ seq \in [Follower -> Nat] /\ batch \in [Follower -> Seq(Event)]
      /\ events \in Seq(Event) /\ base \in Nat /\ Len(events) \in Nat
      /\ produced \in Seq(Event) /\ Len(produced) \in Nat
  BY DEF IInv, TypeOK
<1>2. s \in Nat /\ s >= base
  BY <1>1 DEF Larger
<1>3. seq'[f] = s /\ batch'[f] = b
  BY <1>1 DEF Snapshot
<1> HIDE DEF s
<1>4. /\ base + Len(events) = Len(produced)
      /\ \A i \in 1..Len(events) : events[i] = produced[base + i]
  BY DEF IInv, NumbersNeverChange
<1>5. CASE s <= Len(produced)
  <2>1. s - base + 1 \in 1..Len(events) + 1
    BY <1>1, <1>2, <1>4, <1>5
  <2>2. /\ b \in Seq(Event)
        /\ Len(b) = Len(events) - (s - base)
        /\ \A i \in 1..(Len(events) - (s - base)) : b[i] = events[s - base + i]
    BY <2>1, <1>1, <1>2, SuffixElements
  <2> HIDE DEF b
  <2>3. ASSUME NEW i \in 1..Len(b) PROVE b[i] = produced[s + i]
    <3>1. i \in 1..(Len(events) - (s - base)) /\ s - base + i \in 1..Len(events)
      BY <2>2, <1>1, <1>2, <1>4
    <3>2. base + (s - base + i) = s + i
      BY <3>1, <1>1, <1>2
    <3> QED
      BY <2>2, <3>1, <3>2, <1>4
  <2>4. b = <<>> => s >= Len(produced)
    BY <2>2, <1>1, <1>2, <1>4, <1>5
  <2>5. s + Len(b) <= Len(produced)
    BY <2>2, <1>1, <1>2, <1>4, <1>5
  <2> QED
    BY <2>2, <2>3, <2>4, <2>5, <1>2, <1>3
<1>6. CASE s > Len(produced)
  <2>1. b = <<>>
    BY <1>1, <1>2, <1>4, <1>6
  <2>2. batch'[f] = <<>>
    BY <2>1, <1>3
  <2> QED
    BY <2>2, <1>1, <1>2, <1>3, <1>6
<1> QED
  BY <1>1, <1>2, <1>5, <1>6

(* The locked section of Follow keeps it: the clone is numbered from the   *)
(* clamped position, and whoever goes on to park saw nothing and no end.   *)
LEMMA SnapshotIInv ==
  ASSUME IInv, NEW f \in Follower, Snapshot(f)
  PROVE  IInv'
<1> USE DEF IInv
<1>0. UNCHANGED <<produced, events, base, changed, finished, gone, handed>>
  BY DEF Snapshot, log
<1>1. /\ seq'[f] \in Nat /\ batch'[f] \in Seq(Event)
      /\ batch'[f] # <<>> => seq'[f] + Len(batch'[f]) <= Len(produced)
      /\ \A i \in 1..Len(batch'[f]) : batch'[f][i] = produced[seq'[f] + i]
      /\ batch'[f] = <<>> => seq'[f] >= Len(produced)
  BY SnapshotTakes
<1>2. /\ pc[f] = "snap"
      /\ seq' = [seq EXCEPT ![f] = seq'[f]]
      /\ batch' = [batch EXCEPT ![f] = batch'[f]]
      /\ wait' = [wait EXCEPT ![f] = changed]
      /\ pc' = [pc EXCEPT ![f] = IF batch'[f] # <<>> THEN "yield"
                                 ELSE IF finished THEN "exhausted" ELSE "wait"]
  BY DEF Snapshot, TypeOK
<1>3. TypeOK'
  BY <1>0, <1>1, <1>2 DEF TypeOK
<1>4. NumbersNeverChange'
  BY <1>0 DEF NumbersNeverChange
<1>5. FollowerBook'
  BY <1>0, <1>2 DEF TypeOK, FollowerBook
<1>6. BatchIsNumbered'
  <2> SUFFICES ASSUME NEW g \in Follower
               PROVE  /\ batch'[g] # <<>> => seq'[g] + Len(batch'[g]) <= Len(produced)
                      /\ \A i \in 1..Len(batch'[g]) :
                           batch'[g][i] = produced[seq'[g] + i]
    BY <1>0 DEF BatchIsNumbered
  <2>1. CASE g = f
    BY <2>1, <1>1
  <2>2. CASE g # f
    BY <2>2, <1>2 DEF BatchIsNumbered, TypeOK
  <2> QED
    BY <2>1, <2>2
<1>7. NoLostWakeup' /\ ExhaustedMeansAll'
  BY <1>0, <1>1, <1>2 DEF TypeOK, NoLostWakeup, ExhaustedMeansAll
<1> QED
  BY <1>3, <1>4, <1>5, <1>6, <1>7

(* Handing over one event shifts the clone and the number together.        *)
LEMMA YieldIInv ==
  ASSUME IInv, NEW f \in Follower, NEW more \in BOOLEAN, Yield(f, more)
  PROVE  IInv'
<1> USE DEF IInv
<1>0. UNCHANGED <<produced, events, base, changed, finished, wait, gone>>
  BY DEF Yield, log
<1>1. /\ seq[f] \in Nat /\ batch[f] \in Seq(Event) /\ batch[f] # <<>>
      /\ seq'[f] = seq[f] + 1 /\ batch'[f] = Tail(batch[f])
      /\ handed'[f] = <<seq[f], Head(batch[f])>>
  BY DEF Yield, TypeOK, FollowerBook
<1>2. /\ Head(batch[f]) \in Event /\ Tail(batch[f]) \in Seq(Event)
      /\ Len(batch[f]) \in Nat \ {0} /\ Len(Tail(batch[f])) = Len(batch[f]) - 1
      /\ \A i \in 1..(Len(batch[f]) - 1) : Tail(batch[f])[i] = batch[f][i + 1]
  BY <1>1
<1>3. TypeOK'
  <2>1. seq' \in [Follower -> Nat] /\ batch' \in [Follower -> Seq(Event)]
    BY <1>1, <1>2 DEF Yield, TypeOK
  <2>2. handed' \in [Follower -> {<<>>} \cup (Nat \X Event)]
    BY <1>1, <1>2 DEF Yield, TypeOK
  <2>3. pc' \in [Follower -> {"new", "snap", "yield", "wait", "exhausted", "left"}]
    BY DEF Yield, TypeOK
  <2> QED
    BY <1>0, <2>1, <2>2, <2>3 DEF TypeOK
<1>4. NumbersNeverChange'
  BY <1>0 DEF NumbersNeverChange
<1>5. FollowerBook'
  <2> SUFFICES ASSUME NEW g \in Follower
               PROVE  /\ pc'[g] = "yield" => batch'[g] # <<>>
                      /\ pc'[g] = "new" => batch'[g] = <<>>
                      /\ wait[g] <= changed
    BY <1>0 DEF FollowerBook
  <2>1. CASE g = f
    <3>1. (pc'[f] = "yield" => Len(batch[f]) # 1) /\ pc'[f] # "new"
      BY DEF Yield, TypeOK
    <3>2. pc'[f] = "yield" => Len(batch'[f]) # 0
      BY <3>1, <1>1, <1>2
    <3>3. Len(batch'[f]) # 0 => batch'[f] # <<>>
      OBVIOUS
    <3>4. pc'[f] # "new"
      BY <3>1
    <3> HIDE DEF IInv
    <3> QED
      BY <2>1, <3>2, <3>3, <3>4 DEF IInv, FollowerBook
  <2>2. CASE g # f
    BY <2>2 DEF Yield, TypeOK, FollowerBook
  <2> QED
    BY <2>1, <2>2
<1>6. BatchIsNumbered'
  <2> SUFFICES ASSUME NEW g \in Follower
               PROVE  /\ batch'[g] # <<>> => seq'[g] + Len(batch'[g]) <= Len(produced)
                      /\ \A i \in 1..Len(batch'[g]) :
                           batch'[g][i] = produced[seq'[g] + i]
    BY <1>0 DEF BatchIsNumbered
  <2>1. CASE g = f
    <3>1. /\ seq[f] + Len(batch[f]) <= Len(produced)
          /\ \A i \in 1..Len(batch[f]) : batch[f][i] = produced[seq[f] + i]
      BY <1>1 DEF BatchIsNumbered
    <3>2. ASSUME NEW i \in 1..Len(Tail(batch[f]))
          PROVE  Tail(batch[f])[i] = produced[seq[f] + 1 + i]
      <4> HIDE DEF IInv
      <4>1. i + 1 \in 1..Len(batch[f]) /\ seq[f] + 1 + i = seq[f] + (i + 1)
        <5> DEFINE a == Len(batch[f])
                   b == Len(Tail(batch[f]))
        <5>1. i \in 1..b /\ a \in Nat /\ b = a - 1 /\ seq[f] \in Nat
          BY <1>1, <1>2
        <5> HIDE DEF a, b
        <5>2. i + 1 \in 1..a /\ seq[f] + 1 + i = seq[f] + (i + 1)
          BY ONLY <5>1
        <5> QED
          BY <5>2 DEF a
      <4>2. Tail(batch[f])[i] = batch[f][i + 1]
        BY <1>2
      <4> QED
        BY <3>1, <4>1, <4>2
    <3>3. seq[f] + 1 + Len(Tail(batch[f])) <= Len(produced)
      BY <3>1, <1>1, <1>2 DEF TypeOK
    <3> HIDE DEF IInv
    <3> QED
      BY <2>1, <3>2, <3>3, <1>1
  <2>2. CASE g # f
    BY <2>2 DEF BatchIsNumbered, Yield, TypeOK
  <2> QED
    BY <2>1, <2>2
<1>7. NoLostWakeup' /\ ExhaustedMeansAll'
  BY <1>0 DEF Yield, TypeOK, NoLostWakeup, ExhaustedMeansAll
<1> QED
  BY <1>3, <1>4, <1>5, <1>6, <1>7

(* Before its first snapshot a follower holds no clone a new starting      *)
(* number could misnumber.                                                 *)
LEMMA OpenIInv ==
  ASSUME IInv, NEW f \in Follower, NEW from \in From, Open(f, from)
  PROVE  IInv'
<1> USE DEF IInv, log, Open
<1>0. Larger(from, 0) \in Nat
  BY FromAssumption DEF Larger
<1>1. TypeOK'
  BY <1>0 DEF TypeOK
<1>2. FollowerBook' /\ NoLostWakeup' /\ ExhaustedMeansAll'
  BY DEF TypeOK, FollowerBook, NoLostWakeup, ExhaustedMeansAll
<1>3. NumbersNeverChange'
  BY DEF NumbersNeverChange
<1>4. BatchIsNumbered'
  <2> SUFFICES ASSUME NEW g \in Follower
               PROVE  /\ batch[g] # <<>> => seq'[g] + Len(batch[g]) <= Len(produced)
                      /\ \A i \in 1..Len(batch[g]) :
                           batch[g][i] = produced[seq'[g] + i]
    BY DEF BatchIsNumbered
  <2>1. CASE g = f
    BY <2>1 DEF FollowerBook
  <2>2. CASE g # f
    BY <2>2 DEF TypeOK, BatchIsNumbered
  <2> QED
    BY <2>1, <2>2
<1> QED
  BY <1>1, <1>2, <1>3, <1>4

(* Waking, or leaving a parked follower on its context, disturbs nothing:  *)
(* neither touches a clone, a number or a generation.                      *)
LEMMA ParkedIInv ==
  ASSUME IInv, NEW f \in Follower, Wake(f) \/ LeaveOnCtx(f) \/ CtxDone(f)
  PROVE  IInv'
<1> USE DEF IInv, log, Wake, LeaveOnCtx, CtxDone
<1>1. UNCHANGED <<produced, events, base, changed, finished, seq, batch, wait, handed>>
  OBVIOUS
<1>2. TypeOK' /\ FollowerBook'
  BY <1>1 DEF TypeOK, FollowerBook
<1>3. NumbersNeverChange' /\ BatchIsNumbered'
  BY <1>1 DEF NumbersNeverChange, BatchIsNumbered
<1>4. NoLostWakeup' /\ ExhaustedMeansAll'
  BY <1>1 DEF TypeOK, NoLostWakeup, ExhaustedMeansAll
<1> QED
  BY <1>2, <1>3, <1>4

(* A step of nobody keeps it.                                              *)
LEMMA StutterIInv == IInv /\ UNCHANGED vars => IInv'
BY DEF vars, IInv, TypeOK, FollowerBook, NumbersNeverChange, BatchIsNumbered,
   NoLostWakeup, ExhaustedMeansAll

(* Every step of the drain and of a follower keeps it.                     *)
LEMMA NextIInv == IInv /\ [Next]_vars => IInv'
<1> SUFFICES ASSUME IInv, [Next]_vars PROVE IInv'
  OBVIOUS
<1>1. ASSUME NEW e \in Event, AppendEvent(e) PROVE IInv'
  BY <1>1, AppendIInv
<1>2. CASE Finish
  BY <1>2, FinishIInv
<1>3. ASSUME NEW f \in Follower, NEW from \in From, Open(f, from) PROVE IInv'
  BY <1>3, OpenIInv
<1>4. ASSUME NEW f \in Follower, Snapshot(f) PROVE IInv'
  BY <1>4, SnapshotIInv
<1>5. ASSUME NEW f \in Follower, NEW more \in BOOLEAN, Yield(f, more) PROVE IInv'
  BY <1>5, YieldIInv
<1>6. ASSUME NEW f \in Follower, Wake(f) \/ LeaveOnCtx(f) \/ CtxDone(f) PROVE IInv'
  BY <1>6, ParkedIInv
<1>7. CASE UNCHANGED vars
  BY <1>7, StutterIInv
<1> QED
  BY <1>1, <1>2, <1>3, <1>4, <1>5, <1>6, <1>7 DEF Next, Drain, Follow

(* It holds in every reachable state, for every capacity and all followers. *)
THEOREM Inductive == Spec => []IInv
BY InitIInv, NextIInv, PTL DEF Spec

-----------------------------------------------------------------------------
(* Every variable of the log and its followers keeps its type: numbers and *)
(* generations never go below zero, whatever a follower asks to start at.  *)
THEOREM TypeCorrect == Spec => []TypeOK
<1>1. IInv => TypeOK
  BY DEF IInv
<1> QED
  BY <1>1, Inductive, PTL

(* Sequence numbers are dense and never change, whatever is evicted: for   *)
(* every capacity and every length of run (Buffered.append).               *)
THEOREM NumberingIsStable == Spec => []NumbersNeverChange
<1>1. IInv => NumbersNeverChange
  BY DEF IInv
<1> QED
  BY <1>1, Inductive, PTL

(* A clone made under the lock stays correctly numbered while appends and  *)
(* evictions go on (Buffered.Follow yields outside the lock).              *)
THEOREM ClonesStayRight == Spec => []BatchIsNumbered
<1>1. IInv => BatchIsNumbered
  BY DEF IInv
<1> QED
  BY <1>1, Inductive, PTL

(* No follower ever parks on a channel that no later append or end will    *)
(* close while it still has something to read: for any number of           *)
(* followers.                                                              *)
THEOREM WakeupsAreNotLost == Spec => []NoLostWakeup
<1>1. IInv => NoLostWakeup
  BY DEF IInv
<1> QED
  BY <1>1, Inductive, PTL

(* A follower released by the end of the run has been past every event.    *)
THEOREM LastEventsReachFollowers == Spec => []ExhaustedMeansAll
<1>1. IInv => ExhaustedMeansAll
  BY DEF IInv
<1> QED
  BY <1>1, Inductive, PTL

(* A follower's position jumps only to the oldest event retained.          *)
THEOREM OnlyEvictionSkips == Spec => GapsAreEvictions
<1> DEFINE Step == \A f \in Follower :
                     seq'[f] > seq[f] + 1 /\ pc[f] # "new"
                       => seq'[f] = base /\ pc[f] = "snap"
<1>1. IInv /\ [Next]_vars => [Step]_vars
  <2> SUFFICES ASSUME IInv, Next, NEW f \in Follower,
                      seq'[f] > seq[f] + 1, pc[f] # "new"
               PROVE  seq'[f] = base /\ pc[f] = "snap"
    OBVIOUS
  <2>0. TypeOK /\ seq[f] \in Nat
    BY DEF IInv, TypeOK
  <2>1. seq'[f] # seq[f] /\ seq'[f] # seq[f] + 1
    BY <2>0
  <2>2. PICK g \in Follower :
          \/ \E from \in From : Open(g, from)
          \/ Snapshot(g)
          \/ \E more \in BOOLEAN : Yield(g, more)
    BY <2>1 DEF Next, Drain, Follow, AppendEvent, Finish, Wake, LeaveOnCtx, CtxDone
  <2>3. g = f
    BY <2>0, <2>1, <2>2 DEF TypeOK, Open, Snapshot, Yield
  <2>4. Snapshot(f)
    BY <2>0, <2>1, <2>2, <2>3 DEF TypeOK, Open, Yield
  <2> QED
    BY <2>0, <2>1, <2>4 DEF TypeOK, Snapshot, Larger
<1> QED
  BY <1>1, Inductive, PTL DEF Spec, GapsAreEvictions

-----------------------------------------------------------------------------
(* The buffer implements the abstract log: clones, generations and         *)
(* evictions inside the buffer are invisible to a follower, which sees     *)
(* only consecutive events, skips only what is gone, and an end that comes *)
(* after everything else.                                                  *)
LEMMA InitRefines == Init => Reliable!Init
BY DEF Init, Reliable!Init, Status

(* An append, with its eviction, is one Produce of the abstract log.       *)
LEMMA AppendRefines ==
  ASSUME IInv, NEW e \in Event, AppendEvent(e)
  PROVE  Reliable!Produce
<1>1. base' \in base..Len(produced')
  <2>1. base' >= base
    BY CapAssumption DEF IInv, TypeOK, AppendEvent
  <2>2. base' <= Len(produced') /\ Len(produced') \in Nat /\ base' \in Nat
    <3>1. NumbersNeverChange' /\ TypeOK'
      BY AppendIInv DEF IInv
    <3>2. Len(events') \in Nat /\ base' \in Nat /\ Len(produced') \in Nat
      BY <3>1 DEF TypeOK
    <3> QED
      BY <3>1, <3>2 DEF NumbersNeverChange
  <2> QED
    BY <2>1, <2>2 DEF IInv, TypeOK
<1> QED
  BY <1>1 DEF AppendEvent, Reliable!Produce

(* What a follower does is a step of its abstract counterpart: the clamp   *)
(* is Skip, a yield Hand, an exhausted snapshot Exhaust; taking a clone,   *)
(* parking and waking are invisible.                                       *)
LEMMA FollowerRefines ==
  ASSUME IInv, NEW f \in Follower, NEW more \in BOOLEAN,
         \/ \E from \in From : Open(f, from)
         \/ Snapshot(f) \/ Yield(f, more)
         \/ Wake(f) \/ LeaveOnCtx(f) \/ CtxDone(f)
  PROVE  [Reliable!Next]_(Reliable!avars)
<1>0. TypeOK /\ TypeOK'
  BY OpenIInv, SnapshotIInv, YieldIInv, ParkedIInv DEF IInv
<1>1. CASE \E from \in From : Open(f, from)
  <2>1. Reliable!Join(f)
    BY <1>0, <1>1 DEF Open, TypeOK, Reliable!Join, Status, log
  <2> QED
    BY <2>1 DEF Reliable!Next
<1>2. CASE Snapshot(f)
  <2>0. /\ UNCHANGED <<produced, base, finished, handed>> /\ pc[f] = "snap"
        /\ seq' = [seq EXCEPT ![f] = Larger(seq[f], base)]
        /\ pc' = [pc EXCEPT ![f] = pc'[f]]
        /\ pc'[f] \in {"yield", "wait", "exhausted"}
        /\ pc'[f] = "exhausted" => finished /\ batch'[f] = <<>>
    BY <1>0, <1>2 DEF Snapshot, TypeOK, log
  <2>1. seq[f] \in Nat /\ base \in Nat /\ Len(produced) \in Nat
    BY <1>0 DEF TypeOK
  <2>2. CASE seq[f] < base
    <3>0. Larger(seq[f], base) = base
      BY <2>1, <2>2 DEF Larger
    <3>1. seq' = [seq EXCEPT ![f] = base]
      BY <2>0, <3>0
    <3>2. base < Len(produced)
      BY <2>1, <2>2, CapAssumption DEF IInv, TypeOK, NumbersNeverChange
    <3>3. batch'[f] # <<>>
      <4>1. seq'[f] = base
        BY <3>1, <1>0 DEF TypeOK
      <4> QED
        BY <4>1, <3>2, <2>1, <1>2, SnapshotTakes
    <3>4. pc'[f] \in {"yield", "wait"}
      BY <2>0, <3>3
    <3>5. [g \in Follower |-> Status(pc[g])]' = [g \in Follower |-> Status(pc[g])]
      BY <2>0, <3>4, <1>0 DEF TypeOK, Status
    <3>6. Status(pc[f]) = "following"
      BY <2>0 DEF Status
    <3>7. Reliable!Skip(f)
      BY <2>0, <2>2, <3>1, <3>5, <3>6 DEF Reliable!Skip
    <3> QED
      BY <3>7 DEF Reliable!Next
  <2>3. CASE ~(seq[f] < base)
    <3>1. seq' = seq
      BY <2>0, <2>1, <2>3, <1>0 DEF Larger, TypeOK
    <3>2. CASE pc'[f] = "exhausted"
      <4>1. finished /\ seq[f] >= Len(produced)
        BY <2>0, <3>1, <3>2, <1>2, SnapshotTakes
      <4>2. /\ [g \in Follower |-> Status(pc[g])]'
                 = [[g \in Follower |-> Status(pc[g])] EXCEPT ![f] = "exhausted"]
            /\ Status(pc[f]) = "following"
        BY <2>0, <3>2, <1>0 DEF TypeOK, Status
      <4>3. Reliable!Exhaust(f)
        BY <2>0, <3>1, <4>1, <4>2 DEF Reliable!Exhaust
      <4> QED
        BY <4>3 DEF Reliable!Next
    <3>3. CASE pc'[f] # "exhausted"
      <4>1. [g \in Follower |-> Status(pc[g])]' = [g \in Follower |-> Status(pc[g])]
        BY <2>0, <3>3, <1>0 DEF TypeOK, Status
      <4> QED
        BY <2>0, <3>1, <4>1 DEF Reliable!avars
    <3> QED
      BY <3>2, <3>3
  <2> QED
    BY <2>2, <2>3
<1>3. CASE Yield(f, more)
  <2>1. /\ seq[f] \in Nat /\ batch[f] \in Seq(Event) /\ Len(batch[f]) \in Nat
        /\ Len(produced) \in Nat
    BY <1>0 DEF TypeOK
  <2>2. batch[f] # <<>> /\ pc[f] = "yield"
    BY <1>3 DEF Yield, IInv, FollowerBook
  <2>3. Len(batch[f]) > 0 /\ Head(batch[f]) = batch[f][1]
    BY <2>1, <2>2
  <2>4. seq[f] < Len(produced) /\ Head(batch[f]) = produced[seq[f] + 1]
    BY <2>1, <2>2, <2>3 DEF IInv, BatchIsNumbered
  <2>5. /\ UNCHANGED <<produced, base, finished>>
        /\ handed' = [handed EXCEPT ![f] = <<seq[f], produced[seq[f] + 1]>>]
        /\ seq' = [seq EXCEPT ![f] = @ + 1]
    BY <1>3, <2>4 DEF Yield, log
  <2>6. /\ Status(pc[f]) = "following"
        /\ \/ UNCHANGED [g \in Follower |-> Status(pc[g])]
           \/ [g \in Follower |-> Status(pc[g])]'
                = [[g \in Follower |-> Status(pc[g])] EXCEPT ![f] = "left"]
    BY <1>0, <1>3, <2>2 DEF Yield, TypeOK, Status
  <2>7. Reliable!Hand(f)
    BY <2>4, <2>5, <2>6 DEF Reliable!Hand
  <2> QED
    BY <2>7 DEF Reliable!Next
<1>4. CASE Wake(f)
  BY <1>0, <1>4 DEF Wake, TypeOK, Reliable!avars, Status, log
<1>5. CASE LeaveOnCtx(f)
  <2>1. Reliable!Leave(f)
    BY <1>0, <1>5 DEF LeaveOnCtx, TypeOK, Reliable!Leave, Status, log
  <2> QED
    BY <2>1 DEF Reliable!Next
<1>6. CASE CtxDone(f)
  BY <1>0, <1>6 DEF CtxDone, TypeOK, Reliable!avars, Status, log
<1> QED
  BY <1>1, <1>2, <1>3, <1>4, <1>5, <1>6

(* The refinement: every behaviour of Buffered is one of the abstract log. *)
THEOREM ImplementsReliable == Spec => ImplementsReliableLog
<1>1. IInv /\ [Next]_vars => [Reliable!Next]_(Reliable!avars)
  <2> SUFFICES ASSUME IInv, [Next]_vars PROVE [Reliable!Next]_(Reliable!avars)
    OBVIOUS
  <2>1. ASSUME NEW e \in Event, AppendEvent(e) PROVE Reliable!Produce
    BY <2>1, AppendRefines
  <2>2. CASE Finish
    BY <2>2 DEF Finish, Reliable!Next, Reliable!End
  <2>3. ASSUME NEW f \in Follower, NEW from \in From, Open(f, from)
        PROVE  [Reliable!Next]_(Reliable!avars)
    BY <2>3, FollowerRefines
  <2>4. ASSUME NEW f \in Follower, NEW more \in BOOLEAN,
               \/ Snapshot(f) \/ Yield(f, more)
               \/ Wake(f) \/ LeaveOnCtx(f) \/ CtxDone(f)
        PROVE  [Reliable!Next]_(Reliable!avars)
    BY <2>4, FollowerRefines
  <2>5. CASE UNCHANGED vars
    BY <2>5 DEF vars, Reliable!avars
  <2> QED
    BY <2>1, <2>2, <2>3, <2>4, <2>5 DEF Next, Drain, Follow, Reliable!Next
<1> QED
  BY <1>1, InitRefines, Inductive, PTL DEF Spec, ImplementsReliableLog, Reliable!Spec

-----------------------------------------------------------------------------
(***************************************************************************)
(* The trace.                                                              *)
(***************************************************************************)
TraceTypeOK ==
  /\ st \in [Frames -> {"new", "open", "closing", "out", "blown"}]
  /\ host \in {"starts", "waits", "closed", "killed"}
  /\ file \in Seq(Frames \cup {"torn"})

Going(f) == st[f] \in {"open", "closing"}

(* A call is made in one that is open, and a closing one has no calls left.*)
Nested == \A f \in Frames : Going(f) /\ Caller[f] \in Frames => st[Caller[f]] = "open"

(* While the process lives, the file holds the calls that have ended, and  *)
(* when it is closed none is going on.                                     *)
Written ==
  /\ host # "killed" =>
       /\ \A n \in DOMAIN file : file[n] \in Frames /\ st[file[n]] = "out"
       /\ \A f \in Frames : st[f] = "out" => \E n \in DOMAIN file : file[n] = f
  /\ host = "closed" => \A f \in Frames : ~Going(f)

Ordered ==
  \A m, n \in DOMAIN file : m < n /\ file[n] # "torn" =>
    file[m] # file[n] /\ Caller[file[m]] # "host" /\ file[n] \notin Callees(file[m])

TraceInv == TraceTypeOK /\ Nested /\ Written /\ Readable /\ Ordered

(* The root's run goes on for as long as any call does: else the calls     *)
(* that go on would be made in each other.                                 *)
LEMMA RootGoesOn ==
  ASSUME TraceTypeOK, Nested, NEW r \in Frames, Caller[r] = "host", NEW f \in Frames, Going(f)
  PROVE  Going(r)
<1> DEFINE S == {g \in Frames : Going(g)}
<1>1. S \in SUBSET Frames /\ S # {}
  OBVIOUS
<1>2. PICK g \in S : Caller[g] \notin S
  BY <1>1, TreeAssumption
<1>3. Caller[g] \notin Frames
  <2> SUFFICES ASSUME Caller[g] \in Frames PROVE FALSE
    OBVIOUS
  <2>1. st[Caller[g]] = "open"
    BY <1>2 DEF Nested
  <2> QED
    BY <1>2, <2>1 DEF Going
<1>4. Caller[g] = "host"
  BY <1>2, <1>3, TelemetryAssumption
<1>5. g = r
  BY <1>2, <1>4, TreeAssumption
<1> QED
  BY <1>2, <1>5

LEMMA TraceBegins == TelemetryInit => TraceInv
<1> SUFFICES ASSUME TelemetryInit PROVE TraceInv
  OBVIOUS
<1>1. file = <<>> /\ DOMAIN file = {}
  BY DEF TelemetryInit
<1>2. TraceTypeOK
  <2>1. <<>> \in Seq(Frames \cup {"torn"})
    OBVIOUS
  <2> QED
    BY <1>1, <2>1 DEF TelemetryInit, TraceTypeOK, Unstarted
<1>3. \A f \in Frames : st[f] = "new"
  BY DEF TelemetryInit, Unstarted
<1> QED
  BY <1>1, <1>2, <1>3 DEF TelemetryInit, TraceInv, Nested, Written, Going, Readable, Ordered

(* A step that writes no span changes what the spans say only by what it   *)
(* does to the calls that are not out.                                     *)
LEMMA FileStands ==
  ASSUME TraceInv, TraceTypeOK', Nested', file' = file, host = "killed" <=> host' = "killed",
         \A f \in Frames : st[f] = "out" <=> st'[f] = "out",
         host' = "closed" => \A f \in Frames : ~Going(f)'
  PROVE  TraceInv'
<1>1. Readable' /\ Ordered'
  BY DEF TraceInv, Readable, Ordered, Callees
<1>2. Written'
  BY DEF TraceInv, Written
<1> QED
  BY <1>1, <1>2 DEF TraceInv

LEMMA StartsTrace ==
  ASSUME TraceInv, NEW f \in Frames, Starts(f)
  PROVE  TraceInv'
<1>1. /\ st' = [st EXCEPT ![f] = "open"] /\ st[f] = "new" /\ UNCHANGED <<host, file>>
      /\ host # "closed" /\ (Caller[f] \in Frames => st[Caller[f]] = "open")
  BY TreeAssumption DEF Starts, MayStart, Alive
<1>2. TraceTypeOK'
  BY <1>1 DEF TraceInv, TraceTypeOK
<1>3. Nested'
  BY <1>1 DEF TraceInv, TraceTypeOK, Nested, Going
<1> QED
  BY <1>1, <1>2, <1>3, FileStands DEF TraceInv, TraceTypeOK

LEMMA ReturnsTrace ==
  ASSUME TraceInv, NEW f \in Frames, NEW r, NEW d, Returns(f, r, d)
  PROVE  TraceInv'
<1>1. PICK s \in {"blown", "closing"} : st' = [st EXCEPT ![f] = s]
  BY DEF Returns
<1>2. st[f] = "open" /\ UNCHANGED <<host, file>> /\ host # "closed"
  BY DEF Returns, Alive
<1>3. \A g \in Frames : Caller[g] = f => ~Going(g)
  BY DEF Returns, CalleesOver, Callees, Over, Going
<1>4. TraceTypeOK'
  BY <1>1, <1>2 DEF TraceInv, TraceTypeOK
<1>5. Nested'
  <2> SUFFICES ASSUME NEW g \in Frames, Going(g)', Caller[g] \in Frames
               PROVE  st'[Caller[g]] = "open"
    BY DEF Nested
  <2>1. Going(g)
    BY <1>1, <1>2 DEF TraceInv, TraceTypeOK, Going
  <2>2. Caller[g] # f /\ st[Caller[g]] = "open"
    BY <1>3, <2>1 DEF TraceInv, Nested
  <2> QED
    BY <1>1, <2>2 DEF TraceInv, TraceTypeOK
<1> QED
  BY <1>1, <1>2, <1>4, <1>5, FileStands DEF TraceInv, TraceTypeOK

(* A span is written after those under it, and before its caller's.        *)
LEMMA EndsTrace ==
  ASSUME TraceInv, NEW f \in Frames, Ends(f)
  PROVE  TraceInv'
<1> USE DEF TraceInv
<1>1. /\ st' = [st EXCEPT ![f] = "out"] /\ st[f] = "closing"
      /\ host \notin {"killed", "closed"} /\ UNCHANGED host /\ file' = Append(file, f)
  BY DEF Ends, Written, Going
<1> DEFINE n == Len(file)
<1>2. n \in Nat /\ DOMAIN file = 1..n /\ DOMAIN file' = 1..(n + 1)
      /\ file'[n + 1] = f /\ \A m \in 1..n : file'[m] = file[m]
  BY <1>1 DEF TraceTypeOK
<1>3. \A m \in 1..n : file[m] \in Frames /\ st[file[m]] = "out" /\ file[m] # f
  BY <1>1, <1>2 DEF Written
<1>4. TraceTypeOK'
  <2>1. file' \in Seq(Frames \cup {"torn"})
    BY <1>1 DEF TraceTypeOK
  <2> QED
    BY <1>1, <2>1 DEF TraceTypeOK
<1>5. Nested'
  <2> SUFFICES ASSUME NEW g \in Frames, Going(g)', Caller[g] \in Frames
               PROVE  st'[Caller[g]] = "open"
    BY DEF Nested
  <2>1. Going(g)
    BY <1>1 DEF TraceTypeOK, Going
  <2>2. st[Caller[g]] = "open"
    BY <2>1 DEF Nested
  <2> QED
    BY <1>1, <2>2 DEF TraceTypeOK
<1>6. Written'
  <2>1. \A m \in DOMAIN file' : file'[m] \in Frames /\ st'[file'[m]] = "out"
    BY <1>1, <1>2, <1>3 DEF TraceTypeOK
  <2>2. ASSUME NEW g \in Frames, st'[g] = "out" PROVE \E m \in DOMAIN file' : file'[m] = g
    <3>1. CASE g = f
      BY <1>2, <3>1
    <3>2. CASE g # f
      <4>1. st[g] = "out"
        BY <1>1, <2>2, <3>2 DEF TraceTypeOK
      <4>2. PICK m \in 1..n : file[m] = g
        BY <1>1, <1>2, <4>1 DEF Written
      <4> QED
        BY <1>2, <4>2
    <3> QED
      BY <3>1, <3>2
  <2> QED
    BY <1>1, <2>1, <2>2 DEF Written
<1>7. Readable'
  BY <1>2, <1>3, TreeAssumption DEF Readable
<1>8. Ordered'
  <2> SUFFICES ASSUME NEW m \in DOMAIN file', NEW k \in DOMAIN file', m < k
               PROVE  /\ file'[m] # file'[k] /\ Caller[file'[m]] # "host"
                      /\ file'[k] \notin Callees(file'[m])
    BY DEF Ordered, Callees
  <2>1. m \in 1..n /\ file'[m] = file[m] /\ file[m] \in Frames
    BY <1>2, <1>3
  <2>2. CASE k \in 1..n
    <3>1. file'[k] = file[k] /\ file[k] # "torn"
      BY <1>2, <1>3, <2>2, TreeAssumption
    <3> QED
      BY <1>2, <2>1, <2>2, <3>1 DEF Ordered
  <2>3. CASE k = n + 1
    <3>1. file'[k] = f /\ file[m] # f
      BY <1>2, <1>3, <2>1, <2>3
    <3>2. Caller[file[m]] # "host"
      <4>1. ~Going(file[m]) /\ Going(f)
        BY <1>1, <1>3, <2>1 DEF Going
      <4> QED
        BY <2>1, <4>1, RootGoesOn
    <3>3. Caller[f] # file[m]
      BY <1>1, <1>3, <2>1 DEF Nested, Going
    <3> QED
      BY <2>1, <3>1, <3>2, <3>3 DEF Callees
  <2> QED
    BY <1>2, <2>2, <2>3
<1> QED
  BY <1>4, <1>5, <1>6, <1>7, <1>8

(* The host closes the file when the root's run is over: then all are.     *)
LEMMA HostClosesTrace ==
  ASSUME TraceInv, HostCloses
  PROVE  TraceInv'
<1>1. UNCHANGED <<st, file>> /\ host = "waits" /\ host' = "closed"
  BY DEF HostCloses, frames
<1>2. PICK r \in Frames : Caller[r] = "host"
  BY TreeAssumption
<1>3. ~Going(r)
  BY <1>2 DEF HostCloses, Callees, Over, Going
<1>4. \A f \in Frames : ~Going(f)
  BY <1>2, <1>3, RootGoesOn DEF TraceInv
<1>5. TraceTypeOK' /\ Nested' /\ \A f \in Frames : Going(f)' <=> Going(f)
  BY <1>1 DEF TraceInv, TraceTypeOK, Nested, Going
<1> QED
  BY <1>1, <1>4, <1>5, FileStands DEF TraceInv

(* A kill tears at most the last line, and no line comes after it.         *)
LEMMA KilledTrace ==
  ASSUME TraceInv, Killed
  PROVE  TraceInv'
<1> USE DEF TraceInv
<1>1. st' = Unstarted /\ host' = "killed" /\ host # "killed" /\ file' \in {file, Append(file, "torn")}
  BY DEF Killed, Alive
<1> DEFINE n == Len(file)
<1>2. n \in Nat /\ DOMAIN file = 1..n
  BY DEF TraceTypeOK
<1>3. \A m \in 1..n : file[m] \in Frames /\ file[m] # "torn"
  BY <1>1, <1>2, TreeAssumption DEF Written
<1>4. file' \in Seq(Frames \cup {"torn"}) /\ Len(file') \in {n, n + 1}
      /\ \A m \in 1..n : file'[m] = file[m]
  BY <1>1, <1>2 DEF TraceTypeOK
<1>5. Len(file') = n + 1 => file'[n + 1] = "torn"
  BY <1>1, <1>2 DEF TraceTypeOK
<1>6. PICK k \in Nat : k = Len(file') /\ DOMAIN file' = 1..k /\ k \in {n, n + 1}
  <2>1. Len(file') \in Nat /\ DOMAIN file' = 1..Len(file')
    BY <1>4
  <2> QED
    BY <1>4, <2>1
<1>7. TraceTypeOK'
  BY <1>1, <1>4 DEF TraceTypeOK, Unstarted
<1>8. Nested' /\ Written'
  BY <1>1 DEF Unstarted, Nested, Written, Going
<1> HIDE DEF n
<1>9. Readable'
  <2> SUFFICES ASSUME NEW m \in 1..k, file'[m] = "torn" PROVE m = k
    BY <1>6 DEF Readable
  <2>1. m \notin 1..n
    BY <1>3, <1>4
  <2> QED
    BY ONLY <1>2, <1>6, <2>1
<1>10. Ordered'
  <2> SUFFICES ASSUME NEW m \in 1..k, NEW o \in 1..k, m < o, file'[o] # "torn"
               PROVE  /\ file'[m] # file'[o] /\ Caller[file'[m]] # "host"
                      /\ file'[o] \notin Callees(file'[m])
    BY <1>6 DEF Ordered, Callees
  <2>1. o # n + 1 \/ k = n
    BY <1>2, <1>5, <1>6
  <2>2. o \in 1..n /\ m \in 1..n
    BY ONLY <1>2, <1>6, <2>1, m \in 1..k, o \in 1..k, m < o
  <2> QED
    BY <1>2, <1>3, <1>4, <2>2 DEF Ordered
<1> QED
  BY <1>7, <1>8, <1>9, <1>10

LEMMA TraceStep == TraceInv /\ [TelemetryNext]_telemetryVars => TraceInv'
<1> SUFFICES ASSUME TraceInv, [TelemetryNext]_telemetryVars PROVE TraceInv'
  OBVIOUS
<1>1. ASSUME UNCHANGED <<st, file>>, UNCHANGED host \/ (host = "starts" /\ host' = "waits")
      PROVE  TraceInv'
  <2>1. TraceTypeOK' /\ Nested' /\ \A f \in Frames : Going(f)' <=> Going(f)
    BY <1>1 DEF TraceInv, TraceTypeOK, Nested, Going
  <2>2. host' = "closed" => \A f \in Frames : ~Going(f)
    BY <1>1 DEF TraceInv, Written
  <2> QED
    BY <1>1, <2>1, <2>2, FileStands
<1>2. ASSUME NEW f \in Frames, Starts(f) PROVE TraceInv'
  BY <1>2, StartsTrace
<1>3. ASSUME NEW f \in Frames, Ends(f) PROVE TraceInv'
  BY <1>3, EndsTrace
<1>4. ASSUME NEW f \in Frames, Records(f) PROVE TraceInv'
  BY <1>1, <1>4 DEF Records, frames
<1>5. ASSUME NEW f \in Frames, NEW r, NEW d, Returns(f, r, d) PROVE TraceInv'
  BY <1>5, ReturnsTrace
<1>6. CASE NewMetrics
  BY <1>1, <1>6 DEF NewMetrics, frames
<1>7. CASE HostStarts
  BY <1>1, <1>7 DEF HostStarts, frames
<1>8. CASE HostRecords
  BY <1>1, <1>8 DEF HostRecords, frames
<1>9. CASE HostCloses
  BY <1>9, HostClosesTrace
<1>10. CASE Killed
  BY <1>10, KilledTrace
<1>11. CASE Scraped
  BY <1>1, <1>11 DEF Scraped, frames
<1>12. CASE UNCHANGED telemetryVars
  BY <1>1, <1>12 DEF telemetryVars, frames
<1> QED
  BY <1>2, <1>3, <1>4, <1>5, <1>6, <1>7, <1>8, <1>9, <1>10, <1>11, <1>12 DEF TelemetryNext

(* The trace that is left reads as a tree, whatever calls ran side by      *)
(* side, panicked or were killed: each span once and after those under it, *)
(* and none missing from a closed one but those a panic went past          *)
(* (trace.go, Active.End; sink.go, fileSink.Emit and ReadFile).            *)
THEOREM TraceIsAlwaysWhole == TelemetrySpec => []TraceIsWhole
<1>1. TraceInv => TraceIsWhole
  <2> SUFFICES ASSUME TraceInv PROVE TraceIsWhole
    OBVIOUS
  <2>1. ASSUME host = "closed", NEW f \in Frames, st[f] \notin {"new", "blown"}
        PROVE  f \in ReadFile
    <3>1. st[f] = "out"
      BY <2>1 DEF TraceInv, TraceTypeOK, Written, Going
    <3>2. PICK n \in DOMAIN file : file[n] = f
      BY <2>1, <3>1 DEF TraceInv, Written
    <3> QED
      BY <3>2, TreeAssumption DEF ReadFile
  <2> QED
    BY <2>1 DEF TraceInv, TraceIsWhole, Readable, Ordered
<1> QED
  BY <1>1, TraceBegins, TraceStep, PTL DEF TelemetrySpec

-----------------------------------------------------------------------------
(***************************************************************************)
(* Lists joined, which a list of what counts is made of.                   *)
(***************************************************************************)
LEMMA LeastNumber ==
  ASSUME NEW S \in SUBSET Nat, S # {}
  PROVE  \E n \in S : \A m \in S : n <= m
<1> DEFINE R == {p \in Nat \X Nat : p[1] < p[2]}
<1>1. IsWellFoundedOn(R, Nat)
  BY NatLessThanWellFounded DEF OpToRel
<1> HIDE DEF R
<1>2. PICK n \in S : \A m \in S : ~(<<m, n>> \in R)
  BY <1>1, WFMin
<1>3. \A m \in S : ~(m < n)
  BY <1>2 DEF R
<1> QED BY <1>3

LEMMA Inductively ==
  ASSUME NEW S, 0 \in S, \A n \in Nat : n \in S => n + 1 \in S
  PROVE  \A n \in Nat : n \in S
<1> SUFFICES ASSUME Nat \ S # {} PROVE FALSE
  OBVIOUS
<1>1. PICK n \in Nat \ S : \A m \in Nat \ S : n <= m
  <2>1. Nat \ S \in SUBSET Nat
    OBVIOUS
  <2> QED BY <2>1, LeastNumber
<1>2. n # 0 /\ n - 1 \in Nat /\ n - 1 \in S
  BY <1>1
<1> QED BY <1>1, <1>2

Joined(v, x, i) == IF i = 1 THEN x ELSE v \o x

Joins(s, n, f) == f = [i \in 1..n |-> Joined(f[i - 1], s[i], i)]

LEMMA JoinsExists ==
  ASSUME NEW s
  PROVE  \A n \in Nat : \E f : Joins(s, n, f)
<1> DEFINE N == {n \in Nat : \E f : Joins(s, n, f)}
<1>1. 0 \in N
  <2>1. Joins(s, 0, [i \in 1..0 |-> 0])
    BY DEF Joins
  <2> QED BY <2>1
<1>2. ASSUME NEW n \in Nat, n \in N PROVE n + 1 \in N
  <2>1. PICK f : Joins(s, n, f)
    BY <1>2
  <2> DEFINE g == [i \in 1..(n + 1) |-> Joined(f[i - 1], s[i], i)]
  <2>0. g = [i \in 1..(n + 1) |-> Joined(f[i - 1], s[i], i)]
    OBVIOUS
  <2> HIDE DEF g
  <2>2. \A i \in 1..n : f[i] = Joined(f[i - 1], s[i], i)
    BY <2>1 DEF Joins
  <2>3. \A i \in 1..n : g[i] = f[i]
    BY <2>0, <2>2
  <2>4. g = [i \in 1..(n + 1) |-> Joined(g[i - 1], s[i], i)]
    <3>1. \A i \in 1..(n + 1) : i # 1 => g[i - 1] = f[i - 1]
      BY <2>3
    <3>2. \A i \in 1..(n + 1) : Joined(g[i - 1], s[i], i) = Joined(f[i - 1], s[i], i)
      BY <3>1 DEF Joined
    <3> QED BY <2>0, <3>2
  <2>5. Joins(s, n + 1, g)
    BY <2>4 DEF Joins
  <2> QED BY <2>5
<1> HIDE DEF N
<1>3. \A n \in Nat : n \in N
  BY <1>1, <1>2, Inductively
<1> QED BY <1>3 DEF N

LEMMA JoinsAgree ==
  ASSUME NEW s, NEW t, NEW n \in Nat, NEW m \in Nat, n <= m, n >= 1,
         \A i \in 1..n : s[i] = t[i],
         NEW f, Joins(s, n, f), NEW g, Joins(t, m, g)
  PROVE  f[n] = g[n]
<1> DEFINE N == {k \in Nat : k + 1 <= n => f[k + 1] = g[k + 1]}
<1>0. /\ \A i \in 1..n : f[i] = Joined(f[i - 1], s[i], i)
      /\ \A i \in 1..m : g[i] = Joined(g[i - 1], t[i], i)
  <2>1. \A i \in 1..n : f[i] = Joined(f[i - 1], s[i], i)
    BY DEF Joins
  <2>2. \A i \in 1..m : g[i] = Joined(g[i - 1], t[i], i)
    BY DEF Joins
  <2> QED BY <2>1, <2>2
<1>1. 0 \in N
  <2>1. 1 \in 1..n /\ 1 \in 1..m
    OBVIOUS
  <2>2. f[1] = s[1] /\ g[1] = t[1]
    BY <1>0, <2>1 DEF Joined
  <2> QED BY <2>1, <2>2
<1>2. ASSUME NEW k \in Nat, k \in N PROVE k + 1 \in N
  <2> SUFFICES ASSUME (k + 1) + 1 <= n PROVE f[(k + 1) + 1] = g[(k + 1) + 1]
    OBVIOUS
  <2> DEFINE p == (k + 1) + 1
  <2>1. f[k + 1] = g[k + 1] /\ p \in 1..n /\ p \in 1..m /\ p - 1 = k + 1 /\ p # 1
    BY <1>2
  <2> HIDE DEF p
  <2>2. f[p] = Joined(f[p - 1], s[p], p) /\ g[p] = Joined(g[p - 1], t[p], p) /\ s[p] = t[p]
    BY <1>0, <2>1
  <2> QED BY <2>1, <2>2 DEF p
<1> HIDE DEF N
<1>3. n - 1 \in N
  <2>1. n - 1 \in Nat
    OBVIOUS
  <2> QED BY <1>1, <1>2, <2>1, Inductively
<1> QED BY <1>3 DEF N

LEMMA FlattenIsJoined ==
  ASSUME NEW s, Len(s) \in Nat, Len(s) >= 1
  PROVE  \E f : Joins(s, Len(s), f) /\ FlattenSeq(s) = f[Len(s)]
<1> DEFINE f == CHOOSE f : Joins(s, Len(s), f)
<1>1. Joins(s, Len(s), f)
  BY JoinsExists
<1>2. FlattenSeq(s) = f[Len(s)]
  BY DEF FlattenSeq, Joins, Joined
<1> QED BY <1>1, <1>2

LEMMA FlattenLonger ==
  ASSUME NEW s, NEW t, NEW n \in Nat, n >= 1, Len(s) = n, Len(t) = n + 1,
         \A i \in 1..n : s[i] = t[i]
  PROVE  FlattenSeq(t) = FlattenSeq(s) \o t[n + 1]
<1>1. PICK f : Joins(s, n, f) /\ FlattenSeq(s) = f[n]
  BY FlattenIsJoined
<1>2. n + 1 \in Nat /\ n + 1 >= 1 /\ n <= n + 1
  OBVIOUS
<1>3. PICK g : Joins(t, n + 1, g) /\ FlattenSeq(t) = g[n + 1]
  BY <1>2, FlattenIsJoined
<1>4. f[n] = g[n]
  <2> DEFINE m == n + 1
  <2>1. m \in Nat /\ n <= m /\ Joins(t, m, g) /\ Joins(s, n, f)
    BY <1>1, <1>2, <1>3
  <2> HIDE DEF m
  <2> QED BY <2>1, JoinsAgree
<1>5. g[n + 1] = g[n] \o t[n + 1]
  <2>1. \A i \in 1..(n + 1) : g[i] = Joined(g[i - 1], t[i], i)
    BY <1>3 DEF Joins
  <2>2. n + 1 \in 1..(n + 1) /\ (n + 1) - 1 = n /\ n + 1 # 1
    OBVIOUS
  <2>3. g[n + 1] = Joined(g[(n + 1) - 1], t[n + 1], n + 1)
    BY <2>1, <2>2
  <2> QED BY <2>2, <2>3 DEF Joined
<1> QED BY <1>1, <1>3, <1>4, <1>5

LEMMA FlattenOne ==
  ASSUME NEW t, Len(t) = 1
  PROVE  FlattenSeq(t) = t[1]
<1>1. PICK g : Joins(t, 1, g) /\ FlattenSeq(t) = g[1]
  <2>1. Len(t) \in Nat /\ Len(t) >= 1
    OBVIOUS
  <2>2. \E g : Joins(t, Len(t), g) /\ FlattenSeq(t) = g[Len(t)]
    BY <2>1, FlattenIsJoined
  <2> QED BY <2>2
<1>2. \A i \in 1..1 : g[i] = Joined(g[i - 1], t[i], i)
  BY <1>1 DEF Joins
<1> QED BY <1>1, <1>2 DEF Joined

LEMMA FlattenOneMore ==
  ASSUME NEW S, NEW s \in Seq(Seq(S)), NEW x \in Seq(S)
  PROVE  FlattenSeq(Append(s, x)) = FlattenSeq(s) \o x
<1>1. /\ Len(s) \in Nat /\ Len(Append(s, x)) = Len(s) + 1 /\ Append(s, x)[Len(s) + 1] = x
      /\ \A i \in 1..Len(s) : s[i] = Append(s, x)[i]
  OBVIOUS
<1>2. CASE Len(s) = 0
  <2>1. s = <<>> /\ <<>> \o x = x
    BY <1>2, ConcatEmptySeq
  <2>2. FlattenSeq(s) = <<>>
    BY <2>1 DEF FlattenSeq
  <2>3. FlattenSeq(Append(s, x)) = Append(s, x)[1]
    BY <1>1, <1>2, FlattenOne
  <2> QED BY <1>1, <1>2, <2>1, <2>2, <2>3
<1>3. CASE Len(s) # 0
  <2>1. Len(s) >= 1
    BY <1>1, <1>3
  <2>2. FlattenSeq(Append(s, x)) = FlattenSeq(s) \o Append(s, x)[Len(s) + 1]
    BY <1>1, <2>1, FlattenLonger
  <2> QED BY <1>1, <2>2
<1> QED BY <1>2, <1>3

SplitLast(S, s, n) == \E t \in Seq(S), x \in S : Len(t) = n /\ s = Append(t, x) /\ x = s[n + 1]

LEMMA LastOff ==
  ASSUME NEW S, NEW s \in Seq(S), NEW n \in Nat, Len(s) = n + 1
  PROVE  SplitLast(S, s, n)
<1> DEFINE t == SubSeq(s, 1, n)
           x == s[n + 1]
<1>1. t \in Seq(S) /\ x \in S /\ Len(t) = n /\ \A i \in 1..n : t[i] = s[i]
  OBVIOUS
<1> HIDE DEF t
<1>2. s = Append(t, x)
  <2>1. /\ Append(t, x) \in Seq(S) /\ Len(Append(t, x)) = n + 1
        /\ \A i \in 1..(n + 1) : Append(t, x)[i] = s[i]
    BY <1>1
  <2> QED BY <2>1, SeqEqual
<1> QED BY <1>1, <1>2 DEF SplitLast

LEMMA ToSetAppend ==
  ASSUME NEW S, NEW s \in Seq(S), NEW x \in S
  PROVE  ToSet(Append(s, x)) = ToSet(s) \cup {x}
<1>1. /\ DOMAIN s = 1..Len(s) /\ DOMAIN Append(s, x) = 1..(Len(s) + 1) /\ Len(s) \in Nat
      /\ Append(s, x)[Len(s) + 1] = x /\ \A i \in 1..Len(s) : Append(s, x)[i] = s[i]
  OBVIOUS
<1>2. \A i \in 1..(Len(s) + 1) : i = Len(s) + 1 \/ i \in 1..Len(s)
  BY <1>1
<1>3. \A y : y \in ToSet(Append(s, x)) <=> (y \in ToSet(s) \/ y = x)
  <2> SUFFICES ASSUME NEW y PROVE y \in ToSet(Append(s, x)) <=> (y \in ToSet(s) \/ y = x)
    OBVIOUS
  <2>1. ASSUME y \in ToSet(Append(s, x)) PROVE y \in ToSet(s) \/ y = x
    BY <1>1, <1>2, <2>1 DEF ToSet
  <2>2. ASSUME y \in ToSet(s) PROVE y \in ToSet(Append(s, x))
    BY <1>1, <2>2 DEF ToSet
  <2>3. x \in ToSet(Append(s, x))
    BY <1>1 DEF ToSet
  <2> QED BY <2>1, <2>2, <2>3
<1> QED BY <1>3

-----------------------------------------------------------------------------
(***************************************************************************)
(* The counts.                                                             *)
(***************************************************************************)
Tallies == {"llmCalls", "toolCalls", "toolDur", "runs"}

(* All operations there may be.                                            *)
Ways == {"ok", "answer", "error", "panic"}

Closings ==
  {c \in Frames \X Ways \X Durations : Role[c[1]] = "tool" => c[2] \in {"ok", "error"}}

Ops ==
  ToSet(RunStarted) \cup {SetTo("runsActive", <<>>, 0)} \cup
  UNION {ToSet(ClosingOps(c[1], c[2], c[3])) : c \in Closings}

(* Whose calls an instrument counts. *)
By(i) ==
  CASE i = "llmCalls" -> "llm" [] i \in {"toolCalls", "toolDur"} -> "tool" [] OTHER -> "run"

Value(i, k) == IF i = "toolDur" THEN vecs[i][k].count ELSE vecs[i][k]

Units(i) == UNION {{k} \X (1..Value(i, k)) : k \in DOMAIN vecs[i]}

Clear(w, i) == \A n \in DOMAIN todo[w] : todo[w][n].name # i

(* Calls that have closed and have nothing left to tell the instrument.    *)
Recorded(i) == {f \in Frames : Role[f] = By(i) /\ st[f] \in {"closing", "out"} /\ Clear(f, i)}

(* Runs that have been counted in. *)
Entered ==
  {f \in Frames : Role[f] = "run" /\ (st[f] \in {"closing", "out"} \/ (st[f] = "open" /\ Idle(f)))}

Single(s, i) == \A m, n \in DOMAIN s : s[m].name = i /\ s[n].name = i => m = n

(* An operation on an instrument of ours is of the kind it should be, and  *)
(* of a writer that is at the point where it should be made.               *)
Fits(w, o) ==
  /\ o.name \in Instruments
  /\ w \in Frames /\ st[w] = "open" => o.name = "runsActive"
  /\ o.name \in Tallies =>
       /\ w \in Frames /\ Role[w] = By(o.name) /\ st[w] = "closing"
       /\ IF o.name = "toolDur" THEN o.op = "observe" ELSE o.op = "add" /\ o.v = 1
  /\ o.name = "runsActive" =>
       /\ o.labels = Canon(<<>>)
       /\ \/ w = "host" /\ o.op = "set" /\ o.v = 0
          \/ /\ w \in Frames /\ Role[w] = "run" /\ o.op = "add"
             /\ (st[w] = "open" /\ o.v = 1) \/ (st[w] = "closing" /\ o.v = -1)

Stepping(w) ==
  /\ step[w].at \in {"get", "missed", "have", "swap"}
  /\ Idle(w) => step[w].at = "get"
  /\ step[w].at \in {"have", "swap"} => step[w].key \in DOMAIN vecs[Head(todo[w]).name]
  /\ step[w].at = "swap" => Head(todo[w]).op = "add"

Telling(w) ==
  /\ \A n \in DOMAIN todo[w] : Fits(w, todo[w][n])
  /\ \A i \in Tallies \cup {"runsActive"} : Single(todo[w], i)
  /\ Stepping(w)
  /\ w \in Frames /\ st[w] \in {"new", "blown", "out"} => Idle(w)

Writing == \A w \in Writers : Telling(w)

Roomy(i) ==
  /\ IsFiniteSet(DOMAIN vecs[i])
  /\ \/ Cardinality(DOMAIN vecs[i]) <= MaxSeries
     \/ Cardinality(DOMAIN vecs[i]) = MaxSeries + 1 /\ Overflow \in DOMAIN vecs[i]

Tallied(i) ==
  /\ \A k \in DOMAIN vecs[i] : Value(i, k) \in Nat
  /\ IsFiniteSet(Units(i)) /\ IsFiniteSet(Recorded(i))
  /\ Cardinality(Units(i)) = Cardinality(Recorded(i))

(* The one label set under which the gauge is kept. *)
TheKey == IF MaxSeries = 0 THEN Overflow ELSE Canon(<<>>)

Gauged ==
  /\ IsFiniteSet(Entered) /\ IsFiniteSet(Recorded("runsActive"))
  /\ \A k \in DOMAIN vecs["runsActive"] :
       k = TheKey /\ vecs["runsActive"][k] = Cardinality(Entered) - Cardinality(Recorded("runsActive"))
  /\ DOMAIN vecs["runsActive"] = {} => Entered = {} /\ Recorded("runsActive") = {}

Begun ==
  /\ host \in {"waits", "closed"} => built > 0
  /\ host = "starts" => \A f \in Frames : st[f] = "new"
  /\ Agents = 1 => host = "starts" \/ Idle("host")
  /\ built = 0 => \A w \in Writers : Idle(w)
  /\ DOMAIN vecs = IF built = 0 THEN {} ELSE Instruments
  /\ built \in 0..Agents /\ view \in Views
  /\ todo \in [Writers -> Seq(Ops)] /\ DOMAIN step = Writers

Counting ==
  /\ host = "killed" => vecs = <<>>
  /\ host # "killed" =>
       /\ Begun /\ Writing /\ \A i \in DOMAIN vecs : Roomy(i)
       /\ built > 0 =>
            /\ \A i \in Tallies : Known(i) => Tallied(i)
            /\ Agents = 1 /\ Known("runsActive") => Gauged

-----------------------------------------------------------------------------
(* What is told of the elements one by one, told of one more.              *)
LEMMA ToldOfOneMore ==
  ASSUME NEW S, NEW m \in Seq(S), NEW x \in S, NEW n \in Nat, Len(m) = n,
         NEW f \in [1..(n + 1) -> S], f[n + 1] = x, \A j \in 1..n : f[j] = m[j]
  PROVE  f = Append(m, x)
<1>1. f \in Seq(S) /\ Len(f) = n + 1
  OBVIOUS
<1>2. /\ Append(m, x) \in Seq(S) /\ Len(Append(m, x)) = n + 1 /\ Append(m, x)[n + 1] = x
      /\ \A j \in 1..n : Append(m, x)[j] = m[j]
  OBVIOUS
<1>3. \A j \in 1..(n + 1) : j = n + 1 \/ j \in 1..n
  OBVIOUS
<1>4. \A j \in 1..(n + 1) : f[j] = Append(m, x)[j]
  BY <1>2, <1>3
<1> QED
  BY <1>1, <1>2, <1>4, SeqEqual

LEMMA TrackedOneMore ==
  ASSUME NEW S, NEW s \in Seq(S), NEW o \in S, Tracked(s) \in Seq(S)
  PROVE  Tracked(Append(s, o)) = IF Counted(o) THEN Append(Tracked(s), o) ELSE Tracked(s)
<1> DEFINE Kept(e) == IF Counted(e) THEN <<e>> ELSE <<>>
           t == Append(s, o)
           n == Len(s)
           m == [j \in DOMAIN s |-> Kept(s[j])]
<1>1. \A e \in S : Kept(e) \in Seq(S)
  OBVIOUS
<1>2. n \in Nat /\ DOMAIN s = 1..n /\ DOMAIN t = 1..(n + 1) /\ t[n + 1] = o
      /\ \A j \in 1..n : t[j] = s[j] /\ s[j] \in S
  OBVIOUS
<1>3. Kept(o) \in Seq(S)
  BY <1>1
<1>4. m \in Seq(Seq(S)) /\ Len(m) = n /\ \A j \in 1..n : m[j] = Kept(s[j])
  <2> HIDE DEF Kept, n
  <2> QED
    BY <1>1, <1>2
<1>5. [j \in DOMAIN t |-> Kept(t[j])] = Append(m, Kept(o))
  <2> DEFINE f == [j \in DOMAIN t |-> Kept(t[j])]
  <2> HIDE DEF Kept, n, m, t
  <2>1. \A j \in 1..(n + 1) : j = n + 1 \/ j \in 1..n
    BY <1>2
  <2>2. \A j \in 1..(n + 1) : t[j] \in S
    BY <1>2, <2>1
  <2>3. f \in [1..(n + 1) -> Seq(S)] /\ f[n + 1] = Kept(o) /\ \A j \in 1..n : f[j] = m[j]
    BY <1>1, <1>2, <1>4, <2>2
  <2> HIDE DEF f
  <2>4. f = Append(m, Kept(o))
    BY <1>2, <1>3, <1>4, <2>3, ToldOfOneMore
  <2> QED
    BY <2>4 DEF f
<1>6. Tracked(t) = FlattenSeq(Append(m, Kept(o))) /\ Tracked(s) = FlattenSeq(m)
  BY <1>5 DEF Tracked
<1> HIDE DEF m, t
<1>7. Tracked(t) = Tracked(s) \o Kept(o)
  BY <1>3, <1>4, <1>6, FlattenOneMore
<1>8. CASE Counted(o)
  <2>1. Kept(o) = <<o>>
    BY <1>8
  <2>2. Tracked(s) \o <<o>> = Append(Tracked(s), o)
    OBVIOUS
  <2> QED
    BY <1>7, <1>8, <2>1, <2>2 DEF t
<1>9. CASE ~Counted(o)
  <2>1. Kept(o) = <<>>
    BY <1>9
  <2>2. Tracked(s) \o <<>> = Tracked(s)
    OBVIOUS
  <2> QED
    BY <1>7, <1>9, <2>1, <2>2 DEF t
<1> QED
  BY <1>8, <1>9

(* Of a list of operations those that count are tracked, each once.        *)
IsTracked(S, s) ==
  /\ Tracked(s) \in Seq(S)
  /\ ToSet(Tracked(s)) = {o \in ToSet(s) : Counted(o)}
  /\ \A i : Single(s, i) => Single(Tracked(s), i)

LEMMA NothingTracked ==
  ASSUME NEW S
  PROVE  IsTracked(S, <<>>) /\ Tracked(<<>>) = <<>>
<1>1. [n \in DOMAIN <<>> |-> IF Counted(<<>>[n]) THEN << (<<>>[n]) >> ELSE <<>>] = <<>>
  OBVIOUS
<1>2. FlattenSeq(<<>>) = <<>>
  BY DEF FlattenSeq
<1>3. Tracked(<<>>) = <<>>
  BY <1>1, <1>2 DEF Tracked
<1>4. <<>> \in Seq(S) /\ DOMAIN <<>> = {}
  OBVIOUS
<1>5. ToSet(<<>>) = {}
  BY <1>4 DEF ToSet
<1> QED
  BY <1>3, <1>4, <1>5 DEF IsTracked

LEMMA SingleAppend ==
  ASSUME NEW S, NEW s \in Seq(S), NEW o \in S, NEW i
  PROVE  Single(Append(s, o), i) <=> Single(s, i) /\ (o.name = i => \A x \in ToSet(s) : x.name # i)
<1> DEFINE t == Append(s, o)
           n == Len(s)
<1>1. n \in Nat /\ DOMAIN s = 1..n /\ DOMAIN t = 1..(n + 1) /\ t[n + 1] = o
      /\ \A j \in 1..n : t[j] = s[j]
  OBVIOUS
<1> HIDE DEF t, n
<1>2. /\ \A j \in 1..(n + 1) : j = n + 1 \/ j \in 1..n
      /\ \A j \in 1..n : j \in 1..(n + 1) /\ j # n + 1
      /\ n + 1 \in 1..(n + 1)
  BY <1>1
<1>3. \A x : x \in ToSet(s) <=> \E j \in 1..n : x = s[j]
  BY <1>1 DEF ToSet
<1>4. ASSUME Single(t, i) PROVE Single(s, i) /\ (o.name = i => \A x \in ToSet(s) : x.name # i)
  <2>1. Single(s, i)
    BY <1>1, <1>2, <1>4 DEF Single
  <2>2. ASSUME o.name = i, NEW x \in ToSet(s), x.name = i PROVE FALSE
    <3>1. PICK j \in 1..n : x = s[j]
      BY <1>3, <2>2
    <3> QED
      BY <1>1, <1>2, <1>4, <2>2, <3>1 DEF Single
  <2> QED
    BY <2>1, <2>2
<1>5. ASSUME Single(s, i), o.name = i => \A x \in ToSet(s) : x.name # i PROVE Single(t, i)
  <2>1. ASSUME NEW j \in 1..n, o.name = i PROVE s[j].name # i
    BY <1>3, <1>5, <2>1
  <2> QED
    BY <1>1, <1>2, <1>5, <2>1 DEF Single
<1> QED
  BY <1>4, <1>5 DEF t

LEMMA OpsAreTracked ==
  ASSUME NEW S, NEW s \in Seq(S)
  PROVE  IsTracked(S, s)
<1> DEFINE N == {n \in Nat : \A u \in Seq(S) : Len(u) = n => IsTracked(S, u)}
<1>1. 0 \in N
  <2>1. \A u \in Seq(S) : Len(u) = 0 => u = <<>>
    OBVIOUS
  <2> QED
    BY <2>1, NothingTracked
<1>2. ASSUME NEW n \in Nat, n \in N PROVE n + 1 \in N
  <2>0. ASSUME NEW u \in Seq(S), Len(u) = n + 1 PROVE IsTracked(S, u)
    <3>1. PICK t \in Seq(S), o \in S : Len(t) = n /\ u = Append(t, o)
      <4>1. SplitLast(S, u, n)
        BY <2>0, LastOff
      <4> QED
        BY <4>1 DEF SplitLast
    <3>2. IsTracked(S, t)
      BY <1>2, <3>1
    <3>3. Tracked(t) \in Seq(S) /\ ToSet(Tracked(t)) = {x \in ToSet(t) : Counted(x)}
      BY <3>2 DEF IsTracked
    <3>4. Tracked(u) = IF Counted(o) THEN Append(Tracked(t), o) ELSE Tracked(t)
      BY <3>1, <3>3, TrackedOneMore
    <3>5. ToSet(u) = ToSet(t) \cup {o}
      BY <3>1, ToSetAppend
    <3>6. CASE Counted(o)
      <4>1. Tracked(u) = Append(Tracked(t), o) /\ Tracked(u) \in Seq(S)
        BY <3>3, <3>4, <3>6
      <4>2. ToSet(Tracked(u)) = ToSet(Tracked(t)) \cup {o}
        BY <3>3, <4>1, ToSetAppend
      <4>3. ToSet(Tracked(u)) = {x \in ToSet(u) : Counted(x)}
        BY <3>3, <3>5, <3>6, <4>2
      <4>4. ASSUME NEW i, Single(u, i) PROVE Single(Tracked(u), i)
        <5>1. Single(t, i) /\ (o.name = i => \A x \in ToSet(t) : x.name # i)
          BY <3>1, <4>4, SingleAppend
        <5>2. Single(Tracked(t), i) /\ (o.name = i => \A x \in ToSet(Tracked(t)) : x.name # i)
          BY <3>2, <3>3, <5>1 DEF IsTracked
        <5> QED
          BY <3>3, <4>1, <5>2, SingleAppend
      <4> QED
        BY <4>1, <4>3, <4>4 DEF IsTracked
    <3>7. CASE ~Counted(o)
      <4>1. Tracked(u) = Tracked(t)
        BY <3>4, <3>7
      <4>2. ToSet(Tracked(u)) = {x \in ToSet(u) : Counted(x)}
        BY <3>3, <3>5, <3>7, <4>1
      <4>3. ASSUME NEW i, Single(u, i) PROVE Single(Tracked(u), i)
        <5>1. Single(t, i)
          BY <3>1, <4>3, SingleAppend
        <5> QED
          BY <3>2, <4>1, <5>1 DEF IsTracked
      <4> QED
        BY <3>3, <4>1, <4>2, <4>3 DEF IsTracked
    <3> QED
      BY <3>6, <3>7
  <2> QED
    BY <2>0
<1> HIDE DEF N
<1>3. Len(s) \in N
  <2>1. Len(s) \in Nat
    OBVIOUS
  <2> QED
    BY <1>1, <1>2, <2>1, Inductively
<1> QED
  BY <1>3 DEF N

(* What an operation is, its labels left as they are.                      *)
LEMMA AnOp ==
  ASSUME NEW i, NEW l, NEW v
  PROVE  /\ Op(i, l, v).op = "add" /\ Op(i, l, v).name = i
         /\ Op(i, l, v).labels = Canon(l) /\ Op(i, l, v).v = v
         /\ SetTo(i, l, v).op = "set" /\ SetTo(i, l, v).name = i
         /\ SetTo(i, l, v).labels = Canon(l) /\ SetTo(i, l, v).v = v
         /\ Observe(i, l, v).op = "observe" /\ Observe(i, l, v).name = i
<1> DEFINE c == Canon(l)
<1> HIDE DEF c
<1>1. /\ Op(i, l, v) = [op |-> "add", name |-> i, labels |-> c, v |-> v]
      /\ SetTo(i, l, v) = [Op(i, l, v) EXCEPT !.op = "set"]
      /\ Observe(i, l, v) = [Op(i, l, v) EXCEPT !.op = "observe"]
  BY DEF Op, SetTo, Observe, c
<1>2. c = Canon(l)
  BY DEF c
<1> QED
  BY <1>1, <1>2

(* An operation of a call whose work is done is on an instrument for calls *)
(* of its role, and adds one to it.                                        *)
Speaks(w, o) ==
  /\ o.name \in Tallies =>
       /\ Role[w] = By(o.name)
       /\ IF o.name = "toolDur" THEN o.op = "observe" ELSE o.op = "add" /\ o.v = 1
  /\ o.name = "runsActive" =>
       o.labels = Canon(<<>>) /\ Role[w] = "run" /\ o.op = "add" /\ o.v = -1

Tells(w, s) ==
  /\ \A o \in ToSet(s) : Speaks(w, o)
  /\ \A i \in Tallies \cup {"runsActive"} :
       Single(s, i) /\ (Role[w] = By(i) => \E o \in ToSet(s) : o.name = i)

LEMMA RunTells ==
  ASSUME NEW f \in Frames, Role[f] = "run", NEW r, NEW d
  PROVE  RunOps(r, d) \in Seq(ToSet(RunOps(r, d))) /\ Tells(f, RunOps(r, d))
<1>1. PICK a, b, c :
        /\ RunOps(r, d) = <<a, b, c>>
        /\ a.name = "runsActive" /\ a.labels = Canon(<<>>) /\ a.op = "add" /\ a.v = -1
        /\ b.name = "runs" /\ b.op = "add" /\ b.v = 1 /\ c.name = "runDur"
  BY AnOp DEF RunOps, RunFinished
<1> DEFINE s == <<a, b, c>>
<1>2. s \in Seq({a, b, c}) /\ DOMAIN s = 1..3 /\ s[1] = a /\ s[2] = b /\ s[3] = c
  OBVIOUS
<1> HIDE DEF s
<1>3. ToSet(s) = {a, b, c}
  BY <1>2 DEF ToSet
<1>4. \A o \in ToSet(s) : Speaks(f, o)
  BY <1>1, <1>3 DEF Speaks, Tallies, By
<1>5. ASSUME NEW i \in Tallies \cup {"runsActive"}
      PROVE  Single(s, i) /\ (Role[f] = By(i) => \E o \in ToSet(s) : o.name = i)
  <2>1. Single(s, i)
    BY <1>1, <1>2 DEF Single, Tallies
  <2>2. Role[f] = By(i) => i \in {"runs", "runsActive"}
    BY DEF By, Tallies
  <2> QED
    BY <1>1, <1>3, <2>1, <2>2
<1> QED
  BY <1>1, <1>2, <1>3, <1>4, <1>5 DEF Tells, s

LEMMA ToolTells ==
  ASSUME NEW f \in Frames, Role[f] = "tool", NEW r, NEW d
  PROVE  ToolOps(f, r, d) \in Seq(ToSet(ToolOps(f, r, d))) /\ Tells(f, ToolOps(f, r, d))
<1>1. PICK a, b :
        /\ ToolOps(f, r, d) = <<a, b>>
        /\ a.name = "toolDur" /\ a.op = "observe" /\ b.name = "toolCalls" /\ b.op = "add" /\ b.v = 1
  BY AnOp DEF ToolOps
<1> DEFINE s == <<a, b>>
<1>2. s \in Seq({a, b}) /\ DOMAIN s = 1..2 /\ s[1] = a /\ s[2] = b
  OBVIOUS
<1> HIDE DEF s
<1>3. ToSet(s) = {a, b}
  BY <1>2 DEF ToSet
<1>4. \A o \in ToSet(s) : Speaks(f, o)
  BY <1>1, <1>3 DEF Speaks, Tallies, By
<1>5. ASSUME NEW i \in Tallies \cup {"runsActive"}
      PROVE  Single(s, i) /\ (Role[f] = By(i) => \E o \in ToSet(s) : o.name = i)
  <2>1. Single(s, i)
    BY <1>1, <1>2 DEF Single, Tallies
  <2>2. Role[f] = By(i) => i \in {"toolCalls", "toolDur"}
    BY DEF By, Tallies
  <2> QED
    BY <1>1, <1>3, <2>1, <2>2
<1> QED
  BY <1>1, <1>2, <1>3, <1>4, <1>5 DEF Tells, s

LEMMA LLMTells ==
  ASSUME NEW f \in Frames, Role[f] = "llm", NEW r, NEW d
  PROVE  LLMOps(f, r, d) \in Seq(ToSet(LLMOps(f, r, d))) /\ Tells(f, LLMOps(f, r, d))
<1> DEFINE Others == {"llmDur", "llmTokens", "llmCost", "llmUnpriced"}
<1>1. PICK a, b, t :
        /\ LLMOps(f, r, d) = <<a, b>> \o t
        /\ a.name = "llmCalls" /\ a.op = "add" /\ a.v = 1 /\ b.name = "llmDur"
        /\ t \in Seq(ToSet(t)) /\ \A o \in ToSet(t) : o.name \in Others
  <2> DEFINE model == <<"model", "m">>
             who == <<model, <<"purpose", "other">> >>
             said == Append(who, <<"outcome", Word(IF r = "error" THEN r ELSE "ok")>>)
             a == Op("llmCalls", said, 1)
             b == Observe("llmDur", who, d)
             c1 == Op("llmTokens", <<model, <<"kind", "input">> >>, 1)
             c2 == Op("llmTokens", <<model, <<"kind", "output">> >>, 1)
             c3 == Op("llmTokens", <<model, <<"kind", "cache_read">> >>, 0)
             c4 == Op("llmTokens", <<model, <<"kind", "cache_write">> >>, 0)
             c5 == Op("llmCost", <<model>>, 0)
             c6 == Op("llmUnpriced", <<model>>, 1)
  <2>0. LLMOps(f, r, d) = <<a, b>> \o (IF r = "error" THEN <<>> ELSE <<c1, c2, c3, c4, c5, c6>>)
    BY Zenon DEF LLMOps
  <2>1. /\ a.name = "llmCalls" /\ a.op = "add" /\ a.v = 1 /\ b.name = "llmDur"
        /\ c1.name = "llmTokens" /\ c2.name = "llmTokens" /\ c3.name = "llmTokens"
        /\ c4.name = "llmTokens" /\ c5.name = "llmCost" /\ c6.name = "llmUnpriced"
    <3>1. \A i, l, v : Op(i, l, v).name = i /\ Op(i, l, v).op = "add" /\ Op(i, l, v).v = v
                      /\ Observe(i, l, v).name = i
      BY AnOp
    <3>2. a.name = "llmCalls" /\ a.op = "add" /\ a.v = 1
      <4> HIDE DEF said
      <4> QED
        BY ONLY <3>1
    <3>3. /\ b.name = "llmDur" /\ c1.name = "llmTokens" /\ c2.name = "llmTokens"
          /\ c3.name = "llmTokens" /\ c4.name = "llmTokens"
          /\ c5.name = "llmCost" /\ c6.name = "llmUnpriced"
      BY ONLY <3>1
    <3> QED
      BY <3>2, <3>3
  <2> HIDE DEF a, b, c1, c2, c3, c4, c5, c6
  <2> DEFINE u == <<c1, c2, c3, c4, c5, c6>>
             e == <<>>
  <2>2. u \in Seq({c1, c2, c3, c4, c5, c6}) /\ ToSet(u) = {c1, c2, c3, c4, c5, c6}
    BY DEF ToSet
  <2>3. e \in Seq({}) /\ ToSet(e) = {}
    BY DEF ToSet
  <2> HIDE DEF u, e
  <2>4. \A o \in ToSet(u) : o.name \in Others
    BY <2>1, <2>2
  <2>5. CASE r = "error"
    <3>1. LLMOps(f, r, d) = <<a, b>> \o e
      BY <2>0, <2>5 DEF e
    <3> QED
      BY <2>1, <2>3, <3>1
  <2>6. CASE r # "error"
    <3>1. LLMOps(f, r, d) = <<a, b>> \o u
      BY <2>0, <2>6 DEF u
    <3> QED
      BY <2>1, <2>2, <2>4, <3>1
  <2> QED
    BY <2>5, <2>6
<1> DEFINE s == <<a, b>> \o t
           S == {a, b} \cup ToSet(t)
<1>2. /\ s \in Seq(S) /\ DOMAIN s = 1..Len(s) /\ Len(s) \in Nat /\ Len(s) >= 2 /\ s[1] = a
      /\ \A n \in 2..Len(s) : s[n] \in {b} \cup ToSet(t)
  <2>1. t \in Seq(S) /\ <<a, b>> \in Seq(S) /\ Len(t) \in Nat /\ t \in Seq(ToSet(t))
    BY <1>1
  <2>2. Len(s) = 2 + Len(t) /\ s \in Seq(S) /\ s[1] = a /\ s[2] = b
        /\ \A n \in 3..Len(s) : s[n] = t[n - 2] /\ n - 2 \in 1..Len(t)
    <3> DEFINE p == <<a, b>>
    <3>1. p \in Seq(S) /\ t \in Seq(S) /\ Len(p) = 2 /\ p[1] = a /\ p[2] = b /\ Len(t) \in Nat
      BY <2>1
    <3>2. s = p \o t
      OBVIOUS
    <3> HIDE DEF p, s, S
    <3>3. /\ p \o t \in Seq(S) /\ Len(p \o t) = Len(p) + Len(t)
          /\ \A n \in 1..(Len(p) + Len(t)) : (p \o t)[n] = IF n <= Len(p) THEN p[n] ELSE t[n - Len(p)]
      BY <3>1, ConcatProperties
    <3>4. s \in Seq(S) /\ Len(s) = 2 + Len(t)
          /\ \A n \in 1..(2 + Len(t)) : s[n] = IF n <= 2 THEN p[n] ELSE t[n - 2]
      BY <3>1, <3>2, <3>3
    <3> QED
      BY <3>1, <3>4
  <2>3. \A n \in 2..Len(s) : n = 2 \/ n \in 3..Len(s)
    BY <2>1, <2>2
  <2>4. \A n \in 1..Len(t) : t[n] \in ToSet(t)
    BY <2>1
  <2> HIDE DEF s, S
  <2>5. PICK k \in Nat : k = Len(t) /\ Len(s) = 2 + k
    BY <2>1, <2>2
  <2>6. DOMAIN s = 1..Len(s)
    BY <2>2
  <2>7. Len(s) \in Nat /\ Len(s) >= 2
    BY <2>5
  <2>8. \A n \in 2..Len(s) : s[n] \in {b} \cup ToSet(t)
    BY <2>2, <2>3, <2>4
  <2> QED
    BY <2>2, <2>6, <2>7, <2>8
<1> HIDE DEF s
<1>3. ToSet(s) = S
  <2>1. ToSet(s) \subseteq S
    BY <1>2 DEF ToSet
  <2>2. a \in ToSet(s)
    BY <1>2 DEF ToSet
  <2>3. b \in ToSet(s) /\ ToSet(t) \subseteq ToSet(s)
    <3>1. t \in Seq(ToSet(t)) /\ DOMAIN t = 1..Len(t) /\ Len(t) \in Nat
      BY <1>1
    <3>2. Len(s) = 2 + Len(t) /\ s[2] = b /\ \A n \in 1..Len(t) : s[n + 2] = t[n]
      BY <3>1 DEF s
    <3>3. 2 \in DOMAIN s /\ \A n \in DOMAIN t : n + 2 \in DOMAIN s
      BY <1>2, <3>1, <3>2
    <3>4. \A x : x \in ToSet(s) <=> \E n \in DOMAIN s : x = s[n]
      BY DEF ToSet
    <3>5. \A x : x \in ToSet(t) <=> \E n \in DOMAIN t : x = t[n]
      BY DEF ToSet
    <3> QED
      BY <3>1, <3>2, <3>3, <3>4, <3>5
  <2> QED
    BY <2>1, <2>2, <2>3
<1>4. \A o \in ToSet(s) : Speaks(f, o)
  BY <1>1, <1>3 DEF Speaks, Tallies, By
<1>5. ASSUME NEW i \in Tallies \cup {"runsActive"}
      PROVE  Single(s, i) /\ (Role[f] = By(i) => \E o \in ToSet(s) : o.name = i)
  <2>1. \A n \in 2..Len(s) : s[n].name # i
    BY <1>1, <1>2 DEF Tallies
  <2>2. \A n \in DOMAIN s : n = 1 \/ n \in 2..Len(s)
    BY <1>2
  <2>3. Single(s, i)
    BY <2>1, <2>2 DEF Single
  <2>4. Role[f] = By(i) => i = "llmCalls"
    BY DEF By, Tallies
  <2> QED
    BY <1>1, <1>3, <2>3, <2>4
<1>6. s \in Seq(ToSet(s)) /\ Tells(f, s)
  BY <1>2, <1>3, <1>4, <1>5 DEF Tells
<1>7. LLMOps(f, r, d) = s
  BY <1>1 DEF s
<1> QED
  BY <1>6, <1>7

LEMMA CallTells ==
  ASSUME NEW f \in Frames, NEW r \in Ways, NEW d \in Durations,
         Role[f] = "tool" => r \in {"ok", "error"}
  PROVE  ClosingOps(f, r, d) \in Seq(Ops) /\ Tells(f, ClosingOps(f, r, d))
<1> DEFINE s == ClosingOps(f, r, d)
<1>1. s \in Seq(ToSet(s)) /\ Tells(f, s)
  <2>1. CASE Role[f] = "run"
    BY <2>1, RunTells DEF ClosingOps
  <2>2. CASE Role[f] = "tool"
    BY <2>2, ToolTells DEF ClosingOps
  <2>3. CASE Role[f] = "llm"
    BY <2>3, LLMTells DEF ClosingOps
  <2>4. CASE Role[f] \notin {"run", "tool", "llm"}
    <3>1. s = <<>>
      BY <2>4 DEF ClosingOps
    <3> DEFINE e == <<>>
    <3>2. e \in Seq({}) /\ ToSet(e) = {} /\ DOMAIN e = {}
      BY DEF ToSet
    <3> HIDE DEF e
    <3>3. \A i : Role[f] # By(i)
      BY <2>4 DEF By
    <3>4. Tells(f, e)
      BY <3>2, <3>3 DEF Tells, Single
    <3>5. e \in Seq(ToSet(e))
      BY <3>2
    <3> QED
      BY <3>1, <3>4, <3>5 DEF e
  <2> QED
    BY <2>1, <2>2, <2>3, <2>4
<1>2. ToSet(s) \subseteq Ops
  <2>1. <<f, r, d>> \in Closings
    BY DEF Closings
  <2>2. s = ClosingOps(<<f, r, d>>[1], <<f, r, d>>[2], <<f, r, d>>[3])
    OBVIOUS
  <2> QED
    BY <2>1, <2>2 DEF Ops
<1> HIDE DEF s
<1>3. s \in Seq(Ops)
  BY <1>1, <1>2
<1> QED
  BY <1>1, <1>3 DEF s

-----------------------------------------------------------------------------
(* What is known of a writer that has something to write.                  *)
AtWork(w) ==
  /\ host # "killed" /\ Begun /\ Writing /\ built > 0 /\ DOMAIN vecs = Instruments
  /\ todo[w] \in Seq(Ops) /\ todo[w] # <<>> /\ Fits(w, Head(todo[w])) /\ Head(todo[w]).name \in Instruments
  /\ Tail(todo[w]) \in Seq(Ops)
  /\ \A n \in DOMAIN Tail(todo[w]) : n + 1 \in DOMAIN todo[w] /\ n + 1 # 1
                                     /\ Tail(todo[w])[n] = todo[w][n + 1]
  /\ 1 \in DOMAIN todo[w] /\ todo[w][1] = Head(todo[w])
  /\ \A n \in DOMAIN todo[w] : n = 1 \/ (n - 1 \in DOMAIN Tail(todo[w]) /\ Tail(todo[w])[n - 1] = todo[w][n])

LEMMA HasWork ==
  ASSUME Counting, host # "killed", NEW w \in Writers, ~Idle(w)
  PROVE  AtWork(w)
<1> DEFINE s == todo[w]
<1>1. Begun /\ Writing /\ built \in Nat
  BY DEF Counting, Begun
<1>2. s \in Seq(Ops) /\ s # <<>>
  BY <1>1 DEF Begun, Idle
<1>3. built > 0
  BY <1>1 DEF Begun
<1> HIDE DEF s
<1>4. /\ Tail(s) \in Seq(Ops) /\ DOMAIN s = 1..Len(s) /\ Len(s) \in Nat /\ Len(s) >= 1
      /\ DOMAIN Tail(s) = 1..(Len(s) - 1) /\ s[1] = Head(s)
      /\ \A n \in 1..(Len(s) - 1) : Tail(s)[n] = s[n + 1]
  BY <1>2
<1>5. /\ \A n \in DOMAIN Tail(s) : n + 1 \in DOMAIN s /\ n + 1 # 1 /\ Tail(s)[n] = s[n + 1]
      /\ 1 \in DOMAIN s
      /\ \A n \in DOMAIN s : n = 1 \/ (n - 1 \in DOMAIN Tail(s) /\ Tail(s)[n - 1] = s[n])
  BY <1>4
<1>6. Fits(w, s[1])
  BY <1>1, <1>5 DEF Writing, Telling, s
<1>7. Head(s).name \in Instruments
  BY <1>4, <1>6 DEF Fits
<1>8. DOMAIN vecs = Instruments
  BY <1>1, <1>3 DEF Begun
<1> QED
  BY <1>1, <1>2, <1>3, <1>4, <1>5, <1>6, <1>7, <1>8 DEF AtWork, s

(* No series is lost. *)
Grows == \A i \in DOMAIN vecs : DOMAIN vecs[i] \subseteq DOMAIN vecs'[i]

LEMMA OtherStands ==
  ASSUME Counting, host # "killed", NEW v \in Writers, Grows, todo'[v] = todo[v], step'[v] = step[v],
         v \in Frames => st'[v] = st[v]
  PROVE  Telling(v)'
<1>1. Telling(v)
  BY DEF Counting, Writing
<1>2. \A o : Fits(v, o) => Fits(v, o)'
  BY DEF Fits
<1>3. Stepping(v)'
  <2>1. CASE Idle(v)
    BY <1>1, <2>1 DEF Telling, Stepping, Idle
  <2>2. CASE ~Idle(v)
    <3>1. Head(todo[v]).name \in DOMAIN vecs
      BY <2>2, HasWork DEF AtWork
    <3> QED
      BY <1>1, <2>2, <3>1 DEF Telling, Stepping, Idle, Grows
  <2> QED
    BY <2>1, <2>2
<1> QED
  BY <1>1, <1>2, <1>3 DEF Telling, Idle, Single

(* The writer has gone on to its next operation, or is as far as it was.   *)
LEMMA WriterGoesOn ==
  ASSUME Counting, host # "killed", NEW w \in Writers, AtWork(w), st' = st, Stepping(w)',
         todo'[w] = todo[w] \/ todo'[w] = Tail(todo[w])
  PROVE  Telling(w)'
<1>1. Telling(w)
  BY DEF Counting, Writing
<1>3. CASE todo'[w] = todo[w]
  BY <1>1, <1>3 DEF Telling, Idle, Single, Fits
<1>4. CASE todo'[w] = Tail(todo[w])
  <2>1. (\A n \in DOMAIN todo[w] : Fits(w, todo[w][n]))'
    BY <1>1, <1>4 DEF Telling, AtWork, Fits
  <2>2. ASSUME NEW i \in Tallies \cup {"runsActive"} PROVE Single(todo'[w], i)
    <3>1. Single(todo[w], i)
      BY <1>1 DEF Telling
    <3>2. SUFFICES ASSUME NEW m \in DOMAIN Tail(todo[w]), NEW n \in DOMAIN Tail(todo[w]),
                          Tail(todo[w])[m].name = i, Tail(todo[w])[n].name = i
                   PROVE  m = n
      BY <1>4 DEF Single
    <3>3. m + 1 = n + 1
      BY <3>1, <3>2 DEF Single, AtWork
    <3>4. m \in Int /\ n \in Int
      BY DEF AtWork
    <3> QED
      BY <3>3, <3>4
  <2>3. ~Idle(w)
    BY DEF AtWork, Idle
  <2>4. ~(w \in Frames /\ st'[w] \in {"new", "blown", "out"})
    BY <1>1, <2>3 DEF Telling
  <2> QED
    BY <2>1, <2>2, <2>4 DEF Telling, Single
<1> QED
  BY <1>3, <1>4

LEMMA RegistryWritten ==
  ASSUME Counting, host # "killed", NEW w \in Writers, AtWork(w), NEW q, NEW s,
         todo' = [todo EXCEPT ![w] = q], q = todo[w] \/ q = Tail(todo[w]),
         step' = [step EXCEPT ![w] = s], Stepping(w)', Grows, DOMAIN vecs' = Instruments,
         UNCHANGED <<st, host, built, view>>
  PROVE  Begun' /\ Writing'
<1>1. Begun /\ built > 0 /\ q \in Seq(Ops)
  BY DEF AtWork
<1>2. todo \in [Writers -> Seq(Ops)] /\ DOMAIN step = Writers
  BY <1>1 DEF Begun
<1>3. /\ todo'[w] = q /\ todo' \in [Writers -> Seq(Ops)] /\ DOMAIN step' = Writers
      /\ \A v \in Writers : v # w => todo'[v] = todo[v] /\ step'[v] = step[v]
  BY <1>1, <1>2
<1>4. Writing'
  <2> SUFFICES ASSUME NEW v \in Writers PROVE Telling(v)'
    BY DEF Writing
  <2>1. CASE v = w
    BY <1>3, <2>1, WriterGoesOn
  <2>2. CASE v # w
    BY <1>3, <2>2, OtherStands
  <2> QED
    BY <2>1, <2>2
<1>5. Idle("host") => Idle("host")'
  <2>1. ~Idle(w)
    BY DEF AtWork, Idle
  <2>2. "host" \in Writers
    BY TelemetryAssumption
  <2> QED
    BY <1>3, <2>1, <2>2 DEF Idle
<1>6. Begun'
  BY <1>1, <1>3, <1>5 DEF Begun
<1> QED
  BY <1>4, <1>6

-----------------------------------------------------------------------------
(* What is counted, and by how much it can change.                         *)
Valued(i) == \A k \in DOMAIN vecs[i] : Value(i, k) \in Nat

LEMMA TallyStands ==
  ASSUME NEW i, Tallied(i), Units(i)' = Units(i), Recorded(i)' = Recorded(i), Valued(i)'
  PROVE  Tallied(i)'
BY DEF Tallied, Valued

LEMMA TallyOneMore ==
  ASSUME NEW i, Tallied(i), NEW u, u \notin Units(i), Units(i)' = Units(i) \cup {u},
         NEW f, f \notin Recorded(i), Recorded(i)' = Recorded(i) \cup {f}, Valued(i)'
  PROVE  Tallied(i)'
<1>1. /\ IsFiniteSet(Units(i)) /\ IsFiniteSet(Recorded(i))
      /\ Cardinality(Units(i)) = Cardinality(Recorded(i))
  BY DEF Tallied
<1>2. /\ IsFiniteSet(Units(i) \cup {u})
      /\ Cardinality(Units(i) \cup {u}) = Cardinality(Units(i)) + 1
  BY <1>1, FS_AddElement
<1>3. /\ IsFiniteSet(Recorded(i) \cup {f})
      /\ Cardinality(Recorded(i) \cup {f}) = Cardinality(Recorded(i)) + 1
  BY <1>1, FS_AddElement
<1> QED
  BY <1>1, <1>2, <1>3 DEF Tallied, Valued

LEMMA SameSeries ==
  ASSUME NEW i, vecs'[i] = vecs[i]
  PROVE  Units(i)' = Units(i) /\ (Valued(i) => Valued(i)')
BY DEF Units, Valued, Value

LEMMA KindsOfTallies ==
  ASSUME NEW i \in Tallies, i \in Instruments
  PROVE  IF i = "toolDur" THEN Kind[i] = "histogram" ELSE Kind[i] = "counter"
BY HandlesAssumption DEF Tallies

LEMMA NewSeries ==
  ASSUME NEW i \in Tallies, i \in Instruments, NEW k, vecs'[i] = Admitted(i, k)
  PROVE  Units(i)' = Units(i) /\ (Valued(i) => Valued(i)')
<1>1. /\ DOMAIN vecs'[i] = DOMAIN vecs[i] \cup {k}
      /\ \A l \in DOMAIN vecs[i] : Value(i, l)' = Value(i, l)
  BY DEF Admitted, Value
<1>2. k \notin DOMAIN vecs[i] => Value(i, k)' = 0
  BY KindsOfTallies DEF Admitted, Value, Zero
<1>3. Valued(i) => Valued(i)'
  BY <1>1, <1>2 DEF Valued
<1>4. \A u : u \in Units(i)' <=> \E l \in DOMAIN vecs'[i] : u \in {l} \X (1..Value(i, l)')
  BY DEF Units
<1>5. \A u : u \in Units(i) <=> \E l \in DOMAIN vecs[i] : u \in {l} \X (1..Value(i, l))
  BY DEF Units
<1>6. k \notin DOMAIN vecs[i] => \A u : u \notin {k} \X (1..Value(i, k)')
  BY <1>2
<1>7. \A u : u \in Units(i)' <=> u \in Units(i)
  BY <1>1, <1>4, <1>5, <1>6
<1> QED
  BY <1>3, <1>7

LEMMA OneMoreUnit ==
  ASSUME NEW i, NEW k \in DOMAIN vecs[i], Valued(i), DOMAIN vecs'[i] = DOMAIN vecs[i],
         Value(i, k)' = Value(i, k) + 1, \A l \in DOMAIN vecs[i] : l # k => Value(i, l)' = Value(i, l)
  PROVE  /\ <<k, Value(i, k) + 1>> \notin Units(i)
         /\ Units(i)' = Units(i) \cup {<<k, Value(i, k) + 1>>}
         /\ Valued(i)'
<1>1. PICK n \in Nat : n = Value(i, k)
  BY DEF Valued
<1>2. Valued(i)'
  BY <1>1 DEF Valued
<1>3. \A u : u \in Units(i)' <=> \E l \in DOMAIN vecs[i] : u \in {l} \X (1..Value(i, l)')
  BY DEF Units
<1>4. \A u : u \in Units(i) <=> \E l \in DOMAIN vecs[i] : u \in {l} \X (1..Value(i, l))
  BY DEF Units
<1>5. \A u : u \in {k} \X (1..(n + 1)) <=> (u \in {k} \X (1..n) \/ u = <<k, n + 1>>)
  OBVIOUS
<1>6. \A l : <<k, n + 1>> \notin {l} \X (1..n) /\ (l # k => \A S : <<k, n + 1>> \notin {l} \X S)
  OBVIOUS
<1>7. <<k, n + 1>> \notin Units(i)
  BY <1>1, <1>4, <1>6
<1>8. \A u : u \in Units(i)' <=> (u \in Units(i) \/ u = <<k, n + 1>>)
  <2> SUFFICES ASSUME NEW u PROVE u \in Units(i)' <=> (u \in Units(i) \/ u = <<k, n + 1>>)
    OBVIOUS
  <2>1. ASSUME u \in Units(i)' PROVE u \in Units(i) \/ u = <<k, n + 1>>
    <3>1. PICK l \in DOMAIN vecs[i] : u \in {l} \X (1..Value(i, l)')
      BY <1>3, <2>1
    <3> QED
      BY <1>1, <1>4, <1>5, <3>1
  <2>2. ASSUME u \in Units(i) PROVE u \in Units(i)'
    <3>1. PICK l \in DOMAIN vecs[i] : u \in {l} \X (1..Value(i, l))
      BY <1>4, <2>2
    <3> QED
      BY <1>1, <1>3, <1>5, <3>1
  <2>3. <<k, n + 1>> \in Units(i)'
    BY <1>1, <1>3, <1>5
  <2> QED
    BY <2>1, <2>2, <2>3
<1> QED
  BY <1>1, <1>2, <1>7, <1>8

LEMMA HeadGone ==
  ASSUME NEW w, AtWork(w), todo'[w] = Tail(todo[w]), NEW i
  PROVE  /\ Head(todo[w]).name # i => (Clear(w, i)' <=> Clear(w, i))
         /\ Head(todo[w]).name = i /\ Single(todo[w], i) => Clear(w, i)' /\ ~Clear(w, i)
<1>1. ASSUME Head(todo[w]).name # i PROVE Clear(w, i)' <=> Clear(w, i)
  <2>1. Clear(w, i) => Clear(w, i)'
    BY DEF Clear, AtWork
  <2>2. ASSUME Clear(w, i)', NEW n \in DOMAIN todo[w] PROVE todo[w][n].name # i
    <3>1. CASE n = 1
      BY <1>1, <3>1 DEF AtWork
    <3>2. CASE n # 1
      <4>1. n - 1 \in DOMAIN Tail(todo[w]) /\ Tail(todo[w])[n - 1] = todo[w][n]
        BY <3>2 DEF AtWork
      <4> QED
        BY <2>2, <4>1 DEF Clear
    <3> QED
      BY <3>1, <3>2
  <2> QED
    BY <2>1, <2>2 DEF Clear
<1>2. ASSUME Head(todo[w]).name = i, Single(todo[w], i) PROVE Clear(w, i)' /\ ~Clear(w, i)
  <2>1. ~Clear(w, i)
    BY <1>2 DEF Clear, AtWork
  <2>2. ASSUME NEW n \in DOMAIN todo'[w], todo'[w][n].name = i PROVE FALSE
    <3>1. n + 1 \in DOMAIN todo[w] /\ n + 1 # 1 /\ todo[w][n + 1].name = i
      BY <2>2 DEF AtWork
    <3> QED
      BY <1>2, <3>1 DEF Single, AtWork
  <2> QED
    BY <2>1, <2>2 DEF Clear
<1> QED
  BY <1>1, <1>2

LEMMA SameRecords ==
  ASSUME NEW i, st' = st, \A f \in Frames : Clear(f, i)' <=> Clear(f, i)
  PROVE  Recorded(i)' = Recorded(i)
BY DEF Recorded

(* A step that writes nothing but how far its writer is. *)
LEMMA StepCounts ==
  ASSUME Counting, host # "killed", NEW w \in Writers, AtWork(w), NEW s,
         step' = [step EXCEPT ![w] = s], Stepping(w)',
         UNCHANGED <<vecs, todo, st, host, built, view>>
  PROVE  Counting'
<1>1. todo' = [todo EXCEPT ![w] = todo[w]]
  BY DEF AtWork, Begun
<1>2. Grows /\ DOMAIN vecs' = Instruments
  BY DEF Grows, AtWork
<1>3. Begun' /\ Writing'
  BY <1>1, <1>2, RegistryWritten
<1>4. \A i : Roomy(i)' <=> Roomy(i)
  BY DEF Roomy
<1>5. \A i : Tallied(i)' <=> Tallied(i)
  BY DEF Tallied, Units, Value, Recorded, Clear
<1>6. Gauged' <=> Gauged
  BY DEF Gauged, Entered, Recorded, Clear, Idle
<1> QED
  BY <1>3, <1>4, <1>5, <1>6 DEF Counting, Known

LEMMA MissesCounts ==
  ASSUME Counting, host # "killed", NEW w \in Writers, Misses(w), UNCHANGED <<st, host, built, view>>
  PROVE  Counting'
<1>1. AtWork(w) /\ DOMAIN step = Writers
  BY HasWork DEF Misses, AtWork, Begun
<1>2. step' = [step EXCEPT ![w] = [at |-> "missed"]] /\ UNCHANGED <<vecs, todo>>
  BY DEF Misses, Moves
<1>3. Stepping(w)'
  BY <1>1, <1>2 DEF Stepping, AtWork, Idle
<1> QED
  BY <1>1, <1>2, <1>3, StepCounts

LEMMA KeyThere ==
  ASSUME Counting, host # "killed", NEW w \in Writers, NEW op, Reaches(w, op)
  PROVE  AtWork(w) /\ Head(todo[w]).op = op /\ Key(w) \in DOMAIN vecs[Head(todo[w]).name]
<1>1. AtWork(w)
  BY HasWork DEF Reaches
<1>2. Stepping(w)
  BY DEF Counting, Writing, Telling
<1> QED
  BY <1>1, <1>2 DEF Reaches, Key, Stepping

LEMMA LoadsCounts ==
  ASSUME Counting, host # "killed", NEW w \in Writers, Loads(w), UNCHANGED <<st, host, built, view>>
  PROVE  Counting'
<1>1. AtWork(w) /\ Head(todo[w]).op = "add" /\ Key(w) \in DOMAIN vecs[Head(todo[w]).name]
  BY KeyThere DEF Loads
<1>2. DOMAIN step = Writers
  BY <1>1 DEF AtWork, Begun
<1>3. PICK s : /\ step' = [step EXCEPT ![w] = s] /\ s.at = "swap" /\ s.key = Key(w)
               /\ UNCHANGED <<vecs, todo>>
  BY DEF Loads, Moves
<1>4. Stepping(w)'
  BY <1>1, <1>2, <1>3 DEF Stepping, AtWork, Idle
<1> QED
  BY <1>1, <1>3, <1>4, StepCounts

LEMMA SwapFails ==
  ASSUME Counting, host # "killed", NEW w \in Writers, ~Idle(w), step[w].at = "swap",
         UNCHANGED <<vecs, todo>>, Moves(w, [at |-> "have", key |-> step[w].key]),
         UNCHANGED <<st, host, built, view>>
  PROVE  Counting'
<1>1. AtWork(w) /\ Stepping(w)
  BY HasWork DEF Counting, Writing, Telling
<1>2. DOMAIN step = Writers
  BY <1>1 DEF AtWork, Begun
<1>3. PICK s : step' = [step EXCEPT ![w] = s] /\ s.at = "have" /\ s.key = step[w].key
  <2>1. PICK k : k = step[w].key
    OBVIOUS
  <2>2. PICK s : s = [at |-> "have", key |-> k]
    OBVIOUS
  <2>3. step' = [step EXCEPT ![w] = s]
    BY <2>1, <2>2 DEF Moves
  <2>4. s.at = "have" /\ s.key = k
    BY <2>2
  <2> QED
    BY <2>1, <2>3, <2>4
<1>4. Stepping(w)'
  BY <1>1, <1>2, <1>3 DEF Stepping, AtWork, Idle
<1> QED
  BY <1>1, <1>3, <1>4, StepCounts

(* A first use of a label set makes room for it only within the cap.       *)
LEMMA StillRoomy ==
  ASSUME NEW i, NEW l, NEW k, k = Home(i, l), Roomy(i), vecs'[i] = Admitted(i, k)
  PROVE  Roomy(i)'
<1> DEFINE D == DOMAIN vecs[i]
<1>1. DOMAIN vecs'[i] = D \cup {k}
  BY DEF Admitted
<1>2. IsFiniteSet(D)
  BY DEF Roomy
<1>3. PICK n \in Nat : n = Cardinality(D)
  BY <1>2, FS_CardinalityType
<1>4. IsFiniteSet(D \cup {k})
  BY <1>2, FS_AddElement
<1>5. Cardinality(D \cup {k}) = IF k \in D THEN n ELSE n + 1
  BY <1>2, <1>3, FS_AddElement
<1>6. n <= MaxSeries \/ (n = MaxSeries + 1 /\ Overflow \in D)
  BY <1>3 DEF Roomy
<1>7. k = IF l \notin D /\ n >= MaxSeries THEN Overflow ELSE l
  BY <1>3 DEF Home
<1> HIDE DEF D
<1>8. MaxSeries \in Nat
  BY RegistryAssumption
<1>9. PICK c : c = Cardinality(D \cup {k})
  OBVIOUS
<1>10. c <= MaxSeries \/ (c = MaxSeries + 1 /\ Overflow \in D \cup {k})
  BY <1>3, <1>5, <1>6, <1>7, <1>8, <1>9
<1> QED
  BY <1>1, <1>4, <1>9, <1>10 DEF Roomy

LEMMA RoomyStands ==
  ASSUME NEW i, Roomy(i), DOMAIN vecs'[i] = DOMAIN vecs[i]
  PROVE  Roomy(i)'
BY DEF Roomy

LEMMA SameEntered ==
  ASSUME st' = st, \A f \in Frames : st[f] = "open" => (Idle(f)' <=> Idle(f))
  PROVE  Entered' = Entered
BY DEF Entered

(* The gauge has one series, made when the first run is counted. *)
LEMMA GaugeMade ==
  ASSUME Gauged, Roomy("runsActive"), "runsActive" \in Instruments,
         NEW k, k = Home("runsActive", Canon(<<>>)), vecs'["runsActive"] = Admitted("runsActive", k),
         Entered' = Entered, Recorded("runsActive")' = Recorded("runsActive")
  PROVE  Gauged'
<1> DEFINE D == DOMAIN vecs["runsActive"]
<1>1. D \subseteq {TheKey}
  BY DEF Gauged
<1>2. MaxSeries \in Nat
  BY RegistryAssumption
<1>3. k = TheKey
  <2>1. CASE Canon(<<>>) \in D
    BY <1>1, <2>1 DEF Home
  <2>2. CASE Canon(<<>>) \notin D /\ MaxSeries = 0
    <3>1. IsFiniteSet(D)
      BY DEF Roomy
    <3>2. Cardinality(D) \in Nat
      BY <3>1, FS_CardinalityType
    <3>3. Cardinality(D) >= MaxSeries
      BY <2>2, <3>2
    <3> QED
      BY <2>2, <3>3 DEF Home, TheKey
  <2>3. CASE Canon(<<>>) \notin D /\ MaxSeries # 0
    <3>1. D = {}
      BY <1>1, <2>3 DEF TheKey
    <3>2. Cardinality(D) = 0
      BY <3>1, FS_EmptySet
    <3>3. ~(Cardinality(D) >= MaxSeries)
      BY <1>2, <2>3, <3>2
    <3> QED
      BY <2>3, <3>3 DEF Home, TheKey
  <2> QED
    BY <2>1, <2>2, <2>3
<1>4. DOMAIN vecs'["runsActive"] = D \cup {TheKey}
  BY <1>3 DEF Admitted
<1>5. CASE TheKey \in D
  <2>1. vecs'["runsActive"][TheKey] = vecs["runsActive"][TheKey]
    BY <1>3, <1>5 DEF Admitted
  <2> QED
    BY <1>1, <1>4, <1>5, <2>1 DEF Gauged
<1>6. CASE TheKey \notin D
  <2>1. D = {} /\ Entered = {} /\ Recorded("runsActive") = {}
    BY <1>1, <1>6 DEF Gauged
  <2>2. Zero("runsActive") = 0
    BY HandlesAssumption DEF Zero
  <2>3. vecs'["runsActive"][TheKey] = 0
    BY <1>3, <1>6, <2>2 DEF Admitted
  <2>4. Cardinality({}) = 0
    BY FS_EmptySet
  <2>5. DOMAIN vecs'["runsActive"] = {TheKey}
    BY <1>4, <2>1
  <2> HIDE DEF D
  <2>6. Cardinality(Entered') - Cardinality(Recorded("runsActive")') = 0
    BY <2>1, <2>4
  <2> QED
    BY <2>1, <2>3, <2>5, <2>6 DEF Gauged
<1> QED
  BY <1>5, <1>6

LEMMA AdmitsCounts ==
  ASSUME Counting, host # "killed", NEW w \in Writers, Admits(w), UNCHANGED <<st, host, built, view>>
  PROVE  Counting'
<1>1. AtWork(w)
  BY HasWork DEF Admits
<1>2. PICK n, l, k : n = Head(todo[w]).name /\ l = Head(todo[w]).labels /\ k = Home(n, l)
  OBVIOUS
<1>3. PICK s : s = [at |-> "have", key |-> k]
  OBVIOUS
<1>4. /\ vecs' = [vecs EXCEPT ![n] = Admitted(n, k)] /\ step' = [step EXCEPT ![w] = s]
      /\ todo' = todo
  BY <1>2, <1>3 DEF Admits, Moves
<1>5. n \in Instruments /\ DOMAIN vecs = Instruments /\ DOMAIN step = Writers /\ built > 0
  BY <1>1, <1>2 DEF AtWork, Begun
<1>6. /\ DOMAIN vecs' = Instruments /\ vecs'[n] = Admitted(n, k)
      /\ \A i \in Instruments : i # n => vecs'[i] = vecs[i]
  BY <1>4, <1>5
<1>7. DOMAIN vecs'[n] = DOMAIN vecs[n] \cup {k}
  BY <1>6 DEF Admitted
<1>8. Grows
  BY <1>5, <1>6, <1>7 DEF Grows
<1>9. Stepping(w)'
  <2>1. s.at = "have" /\ s.key = k
    BY <1>3
  <2>2. step'[w] = s /\ ~Idle(w)'
    BY <1>1, <1>4, <1>5 DEF AtWork, Idle
  <2> QED
    BY <1>2, <1>4, <1>7, <2>1, <2>2 DEF Stepping
<1>10. todo' = [todo EXCEPT ![w] = todo[w]]
  BY <1>1, <1>4 DEF AtWork, Begun
<1>11. Begun' /\ Writing'
  BY <1>1, <1>4, <1>6, <1>8, <1>9, <1>10, RegistryWritten
<1>12. \A i \in Instruments : Roomy(i)
  BY <1>5 DEF Counting
<1>13. ASSUME NEW i \in Instruments PROVE Roomy(i)'
  <2>1. CASE i = n
    BY <1>2, <1>6, <1>12, <2>1, StillRoomy
  <2>2. CASE i # n
    BY <1>6, <1>12, <2>2, RoomyStands
  <2> QED
    BY <2>1, <2>2
<1>14. \A i : Recorded(i)' = Recorded(i)
  BY <1>4 DEF Recorded, Clear
<1>15. ASSUME NEW i \in Tallies, Known(i) PROVE Tallied(i)'
  <2>1. Tallied(i) /\ i \in Instruments
    BY <1>5, <1>15, RegistryAssumption, <1>1 DEF Counting, Known, AtWork, Begun
  <2>2. Valued(i)
    BY <2>1 DEF Tallied, Valued
  <2>3. Units(i)' = Units(i) /\ Valued(i)'
    <3>1. CASE i = n
      BY <1>6, <2>1, <2>2, <3>1, NewSeries
    <3>2. CASE i # n
      BY <1>6, <2>1, <2>2, <3>2, SameSeries
    <3> QED
      BY <3>1, <3>2
  <2> QED
    BY <1>14, <2>1, <2>3, TallyStands
<1>16. ASSUME Agents = 1, Known("runsActive") PROVE Gauged'
  <2>1. Gauged /\ "runsActive" \in Instruments
    BY <1>5, <1>16, RegistryAssumption, <1>1 DEF Counting, Known, AtWork, Begun
  <2>2. Entered' = Entered
    BY <1>4, SameEntered DEF Idle
  <2>3. CASE n = "runsActive"
    <3>1. l = Canon(<<>>)
      BY <1>1, <1>2, <2>3 DEF AtWork, Fits
    <3> QED
      BY <1>2, <1>6, <1>12, <1>14, <2>1, <2>2, <2>3, <3>1, GaugeMade
  <2>4. CASE n # "runsActive"
    <3>1. vecs'["runsActive"] = vecs["runsActive"]
      BY <1>6, <2>1, <2>4
    <3> QED
      BY <1>14, <2>1, <2>2, <3>1 DEF Gauged
  <2> QED
    BY <2>3, <2>4
<1>17. UNCHANGED <<host, built, view>>
  OBVIOUS
<1> QED
  BY <1>6, <1>11, <1>13, <1>15, <1>16, <1>17 DEF Counting, Known

(* A write: one series changes, and the writer has one operation less.     *)
Wrote(w, n, k, x) ==
  /\ n = Head(todo[w]).name /\ k \in DOMAIN vecs[n]
  /\ vecs' = [vecs EXCEPT ![n] = [vecs[n] EXCEPT ![k] = x]]
  /\ todo' = [todo EXCEPT ![w] = Tail(todo[w])] /\ step' = [step EXCEPT ![w] = Fresh]
  /\ UNCHANGED <<st, host, built, view>>

Effect(w, n, k, x) ==
  /\ DOMAIN vecs' = Instruments /\ DOMAIN vecs'[n] = DOMAIN vecs[n] /\ vecs'[n][k] = x
  /\ \A l \in DOMAIN vecs[n] : l # k => vecs'[n][l] = vecs[n][l]
  /\ \A i \in Instruments : i # n => vecs'[i] = vecs[i]
  /\ n \in Instruments /\ todo'[w] = Tail(todo[w])
  /\ \A v \in Writers : v # w => todo'[v] = todo[v]
  /\ step'[w] = Fresh
  /\ \A i : i # n => \A f \in Frames : Clear(f, i)' <=> Clear(f, i)
  /\ \A f \in Frames : f # w => (Clear(f, n)' <=> Clear(f, n))
  /\ n \in Tallies \cup {"runsActive"} => Clear(w, n)' /\ ~Clear(w, n)

LEMMA WriteTakesEffect ==
  ASSUME Counting, host # "killed", NEW w \in Writers, AtWork(w), NEW n, NEW k, NEW x, Wrote(w, n, k, x)
  PROVE  Effect(w, n, k, x)
<1>1. n \in Instruments /\ DOMAIN vecs = Instruments /\ DOMAIN step = Writers /\ DOMAIN todo = Writers
  BY DEF AtWork, Begun, Wrote
<1>2. /\ vecs' = [vecs EXCEPT ![n] = [vecs[n] EXCEPT ![k] = x]] /\ k \in DOMAIN vecs[n]
      /\ todo' = [todo EXCEPT ![w] = Tail(todo[w])] /\ step' = [step EXCEPT ![w] = Fresh]
  BY DEF Wrote
<1>3. /\ DOMAIN vecs' = Instruments /\ vecs'[n] = [vecs[n] EXCEPT ![k] = x]
      /\ \A i \in Instruments : i # n => vecs'[i] = vecs[i]
      /\ todo'[w] = Tail(todo[w]) /\ \A v \in Writers : v # w => todo'[v] = todo[v]
      /\ step'[w] = Fresh
  BY <1>1, <1>2
<1>4. /\ DOMAIN vecs'[n] = DOMAIN vecs[n] /\ vecs'[n][k] = x
      /\ \A l \in DOMAIN vecs[n] : l # k => vecs'[n][l] = vecs[n][l]
  BY <1>2, <1>3
<1>5. \A f \in Frames : f \in Writers
  BY TelemetryAssumption
<1>6. \A i, f : f \in Frames /\ f # w => (Clear(f, i)' <=> Clear(f, i))
  BY <1>3, <1>5 DEF Clear
<1>7. Head(todo[w]).name = n
  BY DEF Wrote
<1>8. \A i : i # n => (Clear(w, i)' <=> Clear(w, i))
  BY <1>3, <1>7, HeadGone
<1>9. n \in Tallies \cup {"runsActive"} => Clear(w, n)' /\ ~Clear(w, n)
  <2>1. n \in Tallies \cup {"runsActive"} => Single(todo[w], n)
    BY DEF Counting, Writing, Telling
  <2> QED
    BY <1>3, <1>7, <2>1, HeadGone
<1> QED
  BY <1>1, <1>3, <1>4, <1>6, <1>8, <1>9 DEF Effect

LEMMA TallyWritten ==
  ASSUME Counting, host # "killed", NEW w \in Writers, AtWork(w), NEW n, NEW k, NEW x,
         Wrote(w, n, k, x), Effect(w, n, k, x),
         n \in Tallies => IF n = "toolDur" THEN x.count = vecs[n][k].count + 1 ELSE x = vecs[n][k] + 1,
         NEW i \in Tallies, Known(i)
  PROVE  Tallied(i)'
<1>1. Tallied(i) /\ i \in Instruments
  BY RegistryAssumption DEF Counting, Known, AtWork, Begun
<1>2. Valued(i) /\ st' = st
  BY <1>1 DEF Tallied, Valued, Wrote
<1>3. CASE i # n
  <2>1. Units(i)' = Units(i) /\ Valued(i)'
    BY <1>1, <1>2, <1>3, SameSeries DEF Effect
  <2>2. Recorded(i)' = Recorded(i)
    BY <1>2, <1>3, SameRecords DEF Effect
  <2> QED
    BY <1>1, <2>1, <2>2, TallyStands
<1>4. CASE i = n
  <2>1. k \in DOMAIN vecs[i] /\ DOMAIN vecs'[i] = DOMAIN vecs[i]
    BY <1>4 DEF Effect, Wrote
  <2>2. /\ Value(i, k)' = Value(i, k) + 1
        /\ \A l \in DOMAIN vecs[i] : l # k => Value(i, l)' = Value(i, l)
    BY <1>4 DEF Effect, Value
  <2>3. PICK u : u \notin Units(i) /\ Units(i)' = Units(i) \cup {u} /\ Valued(i)'
    BY <1>2, <2>1, <2>2, OneMoreUnit
  <2>4. w \in Frames /\ Role[w] = By(i) /\ st[w] = "closing"
    BY <1>4 DEF AtWork, Fits, Wrote
  <2>5. w \notin Recorded(i) /\ Recorded(i)' = Recorded(i) \cup {w}
    BY <1>2, <1>4, <2>4 DEF Recorded, Effect
  <2> QED
    BY <1>1, <2>3, <2>5, TallyOneMore
<1> QED
  BY <1>3, <1>4

LEMMA GaugeWritten ==
  ASSUME Counting, host # "killed", NEW w \in Writers, AtWork(w), NEW n, NEW k, NEW x,
         Wrote(w, n, k, x), Effect(w, n, k, x), Agents = 1, Known("runsActive"),
         n = "runsActive" => \/ Head(todo[w]).op = "set" /\ x = Head(todo[w]).v
                             \/ Head(todo[w]).op = "add" /\ x = vecs[n][k] + Head(todo[w]).v
  PROVE  Gauged'
<1> DEFINE i == "runsActive"
<1>1. Gauged /\ i \in Instruments /\ st' = st /\ n \in Instruments
  BY RegistryAssumption DEF Counting, Known, AtWork, Begun, Wrote, Effect
<1>2. Frames \subseteq Writers /\ "host" \notin Frames
  BY TelemetryAssumption, TreeAssumption
<1>3. CASE n # i
  <2>1. vecs'[i] = vecs[i]
    BY <1>1, <1>3 DEF Effect
  <2>2. Recorded(i)' = Recorded(i)
    BY <1>1, <1>3, SameRecords DEF Effect
  <2>3. \A f \in Frames : st[f] = "open" => (Idle(f)' <=> Idle(f))
    <3>1. ~(w \in Frames /\ st[w] = "open")
      BY <1>3 DEF AtWork, Fits, Wrote
    <3> QED
      BY <1>2, <3>1 DEF Effect, Idle
  <2>4. Entered' = Entered
    BY <1>1, <2>3, SameEntered
  <2> QED
    BY <1>1, <2>1, <2>2, <2>4 DEF Gauged
<1>4. CASE n = i
  <2>1. PICK E, R : E = Entered /\ R = Recorded(i)
    OBVIOUS
  <2>2. IsFiniteSet(E) /\ IsFiniteSet(R)
    BY <1>1, <2>1 DEF Gauged
  <2>3. PICK a \in Nat, b \in Nat : a = Cardinality(E) /\ b = Cardinality(R)
    BY <2>2, FS_CardinalityType
  <2>4. /\ k = TheKey /\ DOMAIN vecs[i] = {TheKey} /\ DOMAIN vecs'[i] = {TheKey}
        /\ vecs[i][TheKey] = a - b /\ vecs'[i][TheKey] = x
    BY <1>1, <1>4, <2>1, <2>3 DEF Gauged, Effect, Wrote
  <2>5. PICK o : o = Head(todo[w]) /\ Fits(w, o) /\ o.name = i
    BY <1>4 DEF AtWork, Wrote
  <2>6. CASE w = "host"
    <3>1. x = 0
      BY <1>2, <1>4, <2>5, <2>6 DEF Fits
    <3>2. \A f \in Frames : st[f] = "new"
      BY <2>6 DEF AtWork, Begun, Idle
    <3>3. Entered' = {} /\ Recorded(i)' = {}
      BY <1>1, <3>2 DEF Entered, Recorded
    <3>4. IsFiniteSet({}) /\ Cardinality({}) - Cardinality({}) = 0
      BY FS_EmptySet
    <3> QED
      BY <2>4, <3>1, <3>3, <3>4 DEF Gauged
  <2>7. CASE w # "host"
    <3>1. /\ w \in Frames /\ Role[w] = "run" /\ x = a - b + o.v
          /\ (st[w] = "open" /\ o.v = 1) \/ (st[w] = "closing" /\ o.v = -1)
      BY <1>4, <2>4, <2>5, <2>7 DEF Fits
    <3>2. \A f \in Frames : f # w => (Idle(f)' <=> Idle(f))
      BY <1>2 DEF Effect, Idle
    <3>3. Clear(w, i)' /\ ~Clear(w, i) /\ \A f \in Frames : f # w => (Clear(f, i)' <=> Clear(f, i))
      BY <1>4 DEF Effect
    <3>4. CASE st[w] = "open"
      <4>1. ~Idle(w)
        BY DEF AtWork, Idle
      <4>2. Idle(w)'
        <5>1. \A m \in DOMAIN todo[w] : todo[w][m].name = i
          BY <3>1, <3>4 DEF Counting, Writing, Telling, Fits
        <5>2. todo'[w] = Tail(todo[w]) /\ todo'[w] \in Seq(Ops)
          BY DEF Effect, AtWork
        <5>3. \A m \in DOMAIN todo'[w] : todo'[w][m].name = i
          BY <5>1, <5>2 DEF AtWork
        <5>4. DOMAIN todo'[w] = {}
          BY <3>3, <5>3 DEF Clear
        <5> QED
          BY <5>2, <5>4 DEF Idle
      <4>3. Entered' = E \cup {w} /\ w \notin E
        BY <1>1, <2>1, <3>1, <3>2, <3>4, <4>1, <4>2 DEF Entered
      <4>4. Recorded(i)' = R
        BY <1>1, <2>1, <3>3, <3>4 DEF Recorded
      <4>5. IsFiniteSet(E \cup {w}) /\ Cardinality(E \cup {w}) = a + 1
        BY <2>2, <2>3, <4>3, FS_AddElement
      <4>6. x = (a + 1) - b
        BY <3>1, <3>4
      <4> QED
        BY <2>2, <2>3, <2>4, <4>3, <4>4, <4>5, <4>6 DEF Gauged
    <3>5. CASE st[w] = "closing"
      <4>1. Entered' = E
        BY <1>1, <2>1, <3>2, <3>5 DEF Entered
      <4>2. Recorded(i)' = R \cup {w} /\ w \notin R
        BY <1>1, <2>1, <3>1, <3>3, <3>5 DEF Recorded, By
      <4>3. IsFiniteSet(R \cup {w}) /\ Cardinality(R \cup {w}) = b + 1
        BY <2>2, <2>3, <4>2, FS_AddElement
      <4>4. x = a - (b + 1)
        BY <3>1, <3>5
      <4> QED
        BY <2>2, <2>3, <2>4, <4>1, <4>2, <4>3, <4>4 DEF Gauged
    <3> QED
      BY <3>1, <3>4, <3>5
  <2> QED
    BY <2>6, <2>7
<1> QED
  BY <1>3, <1>4

LEMMA WriteCounts ==
  ASSUME Counting, host # "killed", NEW w \in Writers, AtWork(w), NEW n, NEW k, NEW x,
         Wrote(w, n, k, x),
         n \in Tallies => IF n = "toolDur" THEN x.count = vecs[n][k].count + 1 ELSE x = vecs[n][k] + 1,
         n = "runsActive" => \/ Head(todo[w]).op = "set" /\ x = Head(todo[w]).v
                             \/ Head(todo[w]).op = "add" /\ x = vecs[n][k] + Head(todo[w]).v
  PROVE  Counting'
<1>1. Effect(w, n, k, x)
  BY WriteTakesEffect
<1>2. /\ todo' = [todo EXCEPT ![w] = Tail(todo[w])] /\ step' = [step EXCEPT ![w] = Fresh]
      /\ UNCHANGED <<st, host, built, view>> /\ DOMAIN vecs' = Instruments
  BY <1>1 DEF Wrote, Effect
<1>3. \A i \in Instruments : DOMAIN vecs'[i] = DOMAIN vecs[i]
  BY <1>1 DEF Effect
<1>4. Grows
  BY <1>3 DEF Grows, AtWork
<1>5. Stepping(w)'
  BY <1>1 DEF Stepping, Effect, Fresh
<1>6. Begun' /\ Writing'
  BY <1>2, <1>4, <1>5, RegistryWritten
<1>7. \A i \in Instruments : Roomy(i)'
  BY <1>3, RoomyStands DEF Counting, AtWork
<1>8. \A i \in Tallies : Known(i) => Tallied(i)'
  BY <1>1, TallyWritten
<1>9. Agents = 1 /\ Known("runsActive") => Gauged'
  BY <1>1, GaugeWritten
<1> QED
  BY <1>2, <1>6, <1>7, <1>8, <1>9 DEF Counting, Known

LEMMA SwapsCounts ==
  ASSUME Counting, host # "killed", NEW w \in Writers, Adds(w), UNCHANGED <<st, host, built, view>>
  PROVE  Counting'
<1>1. AtWork(w) /\ Stepping(w)
  BY HasWork DEF Adds, Counting, Writing, Telling
<1>2. PICK o, n, k : o = Head(todo[w]) /\ n = o.name /\ k = step[w].key
  OBVIOUS
<1>3. step[w].at = "swap" /\ ~Idle(w) /\ k \in DOMAIN vecs[n] /\ o.op = "add"
  BY <1>1, <1>2 DEF Adds, Stepping
<1>4. CASE vecs[n][k] = step[w].old
  <2>1. PICK x : x = step[w].old + o.v
    OBVIOUS
  <2>2. vecs' = [vecs EXCEPT ![n] = [vecs[n] EXCEPT ![k] = x]] /\ Finishes(w)
    <3>1. vecs' = [vecs EXCEPT ![n][k] = x] /\ Finishes(w)
      BY <1>2, <1>4, <2>1 DEF Adds, Swaps
    <3> QED
      BY <3>1
  <2>3. Wrote(w, n, k, x)
    BY <1>2, <1>3, <2>2 DEF Wrote, Finishes, Moves
  <2>4. x = vecs[n][k] + o.v
    BY <1>4, <2>1
  <2>5. n \in Tallies => n # "toolDur" /\ o.v = 1
    BY <1>1, <1>2, <1>3 DEF AtWork, Fits
  <2> QED
    BY <1>1, <1>2, <1>3, <2>3, <2>4, <2>5, WriteCounts
<1>5. CASE vecs[n][k] # step[w].old
  BY <1>2, <1>3, <1>5, SwapFails DEF Adds, Swaps
<1> QED
  BY <1>4, <1>5

LEMMA SetsCounts ==
  ASSUME Counting, host # "killed", NEW w \in Writers, Sets(w), UNCHANGED <<st, host, built, view>>
  PROVE  Counting'
<1>1. AtWork(w) /\ Head(todo[w]).op = "set" /\ Key(w) \in DOMAIN vecs[Head(todo[w]).name]
  BY KeyThere DEF Sets
<1>2. PICK o, n, k : o = Head(todo[w]) /\ n = o.name /\ k = Key(w)
  OBVIOUS
<1>3. vecs' = [vecs EXCEPT ![n] = [vecs[n] EXCEPT ![k] = o.v]] /\ Finishes(w)
  <2>1. vecs' = [vecs EXCEPT ![n][k] = o.v] /\ Finishes(w)
    BY <1>2 DEF Sets
  <2> QED
    BY <2>1
<1>4. Wrote(w, n, k, o.v)
  BY <1>1, <1>2, <1>3 DEF Wrote, Finishes, Moves
<1>5. n \notin Tallies
  BY <1>1, <1>2 DEF AtWork, Fits
<1> QED
  BY <1>1, <1>2, <1>4, <1>5, WriteCounts

LEMMA ObservesCounts ==
  ASSUME Counting, host # "killed", NEW w \in Writers, Counts(w), UNCHANGED <<st, host, built, view>>
  PROVE  Counting'
<1>1. AtWork(w) /\ Head(todo[w]).op = "observe" /\ Key(w) \in DOMAIN vecs[Head(todo[w]).name]
  BY KeyThere DEF Counts
<1>2. PICK o, n, k : o = Head(todo[w]) /\ n = o.name /\ k = Key(w)
  OBVIOUS
<1>3. PICK x : /\ vecs' = [vecs EXCEPT ![n] = [vecs[n] EXCEPT ![k] = x]] /\ Finishes(w)
               /\ x.count = vecs[n][k].count + 1
  <2> DEFINE x == With(vecs[n][k], o.v)
  <2>1. vecs' = [vecs EXCEPT ![n][k] = x] /\ Finishes(w)
    BY <1>2 DEF Counts
  <2>2. x.count = vecs[n][k].count + 1
    BY DEF With
  <2> HIDE DEF x
  <2>3. vecs' = [vecs EXCEPT ![n] = [vecs[n] EXCEPT ![k] = x]]
    BY <2>1
  <2> QED
    BY <2>1, <2>2, <2>3
<1>4. Wrote(w, n, k, x)
  BY <1>1, <1>2, <1>3 DEF Wrote, Finishes, Moves
<1>5. n \in Tallies => n = "toolDur"
  BY <1>1, <1>2 DEF AtWork, Fits
<1>6. n # "runsActive"
  BY <1>1, <1>2 DEF AtWork, Fits
<1> QED
  BY <1>1, <1>2, <1>3, <1>4, <1>5, <1>6, WriteCounts

LEMMA WritesCount ==
  ASSUME Counting, host # "killed", NEW w \in Writers, Writes(w), UNCHANGED <<st, host, built, view>>
  PROVE  Counting'
BY MissesCounts, AdmitsCounts, LoadsCounts, SwapsCounts, SetsCounts, ObservesCounts DEF Writes

-----------------------------------------------------------------------------
(* A step that leaves the registry's series alone. *)
LEMMA SeriesStand ==
  ASSUME Counting, host # "killed", built > 0, UNCHANGED <<vecs, built, view>>, host' # "killed",
         Begun', Writing',
         \A i \in Tallies : Known(i) => Recorded(i)' = Recorded(i),
         Agents = 1 /\ Known("runsActive") =>
           Entered' = Entered /\ Recorded("runsActive")' = Recorded("runsActive")
  PROVE  Counting'
<1>1. \A i : Roomy(i)' <=> Roomy(i)
  BY DEF Roomy
<1>2. ASSUME NEW i \in Tallies, Known(i) PROVE Tallied(i)'
  <2>1. Tallied(i)
    BY <1>2 DEF Counting
  <2>2. vecs'[i] = vecs[i] /\ Valued(i)
    BY <2>1 DEF Tallied, Valued
  <2>3. Units(i)' = Units(i) /\ Valued(i)'
    BY <2>2, SameSeries
  <2> QED
    BY <1>2, <2>1, <2>3, TallyStands
<1>3. Agents = 1 /\ Known("runsActive") => Gauged'
  BY DEF Counting, Gauged
<1> QED
  BY <1>1, <1>2, <1>3 DEF Counting, Known

LEMMA RunBegins ==
  /\ RunStarted \in Seq(Ops) /\ \A i : Single(RunStarted, i)
  /\ \E o : RunStarted = <<o>> /\ ToSet(RunStarted) = {o} /\ o.name = "runsActive"
            /\ o.labels = Canon(<<>>) /\ o.op = "add" /\ o.v = 1
<1>1. PICK o : RunStarted = <<o>> /\ o.name = "runsActive" /\ o.labels = Canon(<<>>)
               /\ o.op = "add" /\ o.v = 1
  BY AnOp DEF RunStarted
<1> DEFINE s == <<o>>
<1>2. s \in Seq({o}) /\ DOMAIN s = {1} /\ s[1] = o
  OBVIOUS
<1>3. ToSet(s) = {o}
  BY <1>2 DEF ToSet
<1> HIDE DEF s
<1>4. \A i : Single(s, i)
  BY <1>2 DEF Single
<1>5. {o} \subseteq Ops
  BY <1>1, <1>3 DEF Ops, s
<1>6. s \in Seq(Ops)
  BY <1>2, <1>5
<1> QED
  BY <1>1, <1>3, <1>4, <1>6 DEF s

LEMMA NewWorkWrites ==
  ASSUME Counting, host # "killed", NEW f \in Frames, Idle(f), NEW q \in Seq(Ops), NEW p,
         todo' = [todo EXCEPT ![f] = q], st' = [st EXCEPT ![f] = p], DOMAIN st = Frames,
         UNCHANGED <<vecs, step, host, built, view>>, host # "starts", built > 0,
         (\A n \in DOMAIN todo[f] : Fits(f, todo[f][n]))',
         \A i \in Tallies \cup {"runsActive"} : Single(q, i),
         p \in {"new", "blown", "out"} => q = <<>>
  PROVE  Begun' /\ Writing'
<1>0. Begun /\ Frames \subseteq Writers /\ "host" \notin Frames
  BY TelemetryAssumption, TreeAssumption DEF Counting
<1>1. /\ todo'[f] = q /\ todo' \in [Writers -> Seq(Ops)]
      /\ \A v \in Writers : v # f => todo'[v] = todo[v]
  BY <1>0 DEF Begun
<1>2. st'[f] = p /\ \A v \in Frames : v # f => st'[v] = st[v]
  OBVIOUS
<1>3. Grows
  BY DEF Grows
<1>4. Telling(f)'
  <2>1. Stepping(f) /\ step[f].at = "get"
    BY <1>0 DEF Counting, Writing, Telling, Stepping
  <2>2. Stepping(f)'
    BY <2>1 DEF Stepping
  <2> QED
    BY <1>1, <1>2, <2>2 DEF Telling, Idle
<1>5. \A v \in Writers : Telling(v)'
  <2> SUFFICES ASSUME NEW v \in Writers, v # f PROVE Telling(v)'
    BY <1>4
  <2> QED
    BY <1>1, <1>2, <1>3, OtherStands
<1>6. Idle("host") => Idle("host")'
  BY <1>0, <1>1, TelemetryAssumption DEF Idle
<1>7. Begun'
  BY <1>0, <1>1, <1>6 DEF Begun
<1> QED
  BY <1>5, <1>7 DEF Writing

LEMMA Underway ==
  ASSUME Counting, Alive, NEW f \in Frames, st[f] # "new" \/ MayStart(f)
  PROVE  host # "killed" /\ host # "starts" /\ built > 0 /\ Begun
<1>1. host # "killed" /\ Begun
  BY DEF Alive, Counting
<1>2. host # "starts"
  BY <1>1, TelemetryAssumption DEF Begun, MayStart
<1> QED
  BY <1>1, <1>2 DEF Begun, Alive

LEMMA TrackedWork ==
  ASSUME Counting, host # "killed", NEW s \in Seq(Ops)
  PROVE  /\ Tracked(s) \in Seq(Ops) /\ ToSet(Tracked(s)) = {o \in ToSet(s) : Counted(o)}
         /\ \A i : Single(s, i) => Single(Tracked(s), i)
         /\ \A n \in DOMAIN Tracked(s) : Tracked(s)[n] \in ToSet(s) /\ Tracked(s)[n].name \in Instruments
<1>1. IsTracked(Ops, s)
  BY OpsAreTracked
<1>2. /\ Tracked(s) \in Seq(Ops) /\ ToSet(Tracked(s)) = {o \in ToSet(s) : Counted(o)}
      /\ \A i : Single(s, i) => Single(Tracked(s), i)
  BY <1>1 DEF IsTracked
<1>3. \A n \in DOMAIN Tracked(s) : Tracked(s)[n] \in ToSet(Tracked(s))
  BY DEF ToSet
<1>4. \A o \in ToSet(s) : Counted(o) => o.name \in Instruments
  BY RegistryAssumption DEF Counted, Counting, Begun
<1> QED
  BY <1>2, <1>3, <1>4

LEMMA StartsCount ==
  ASSUME Counting, TraceTypeOK, NEW f \in Frames, Starts(f)
  PROVE  Counting'
<1>1. host # "killed" /\ host # "starts" /\ built > 0 /\ Begun
  BY Underway DEF Starts
<1>2. PICK q : q = IF Role[f] = "run" THEN Tracked(RunStarted) ELSE <<>>
  OBVIOUS
<1>3. /\ st[f] = "new" /\ st' = [st EXCEPT ![f] = "open"] /\ todo' = [todo EXCEPT ![f] = q]
      /\ UNCHANGED <<vecs, step, host, built, view>>
  BY <1>2 DEF Starts, MayStart, reading
<1>4. Frames \subseteq Writers
  BY TelemetryAssumption
<1>5. Idle(f)
  BY <1>1, <1>3, <1>4 DEF Counting, Writing, Telling
<1>6. PICK o : /\ RunStarted = <<o>> /\ ToSet(RunStarted) = {o} /\ o.name = "runsActive"
               /\ o.labels = Canon(<<>>) /\ o.op = "add" /\ o.v = 1
  BY RunBegins
<1>7. /\ Tracked(RunStarted) \in Seq(Ops) /\ ToSet(Tracked(RunStarted)) = {x \in {o} : Counted(x)}
      /\ \A i : Single(Tracked(RunStarted), i)
      /\ \A n \in DOMAIN Tracked(RunStarted) :
           Tracked(RunStarted)[n] = o /\ Tracked(RunStarted)[n].name \in Instruments
  BY <1>1, <1>6, RunBegins, TrackedWork
<1>8. /\ q \in Seq(Ops) /\ \A i : Single(q, i)
      /\ \A n \in DOMAIN q : Role[f] = "run" /\ q[n] = o /\ o.name \in Instruments
  <2>1. CASE Role[f] = "run"
    BY <1>2, <1>7, <2>1
  <2>2. CASE Role[f] # "run"
    <3>1. q = <<>> /\ DOMAIN q = {}
      BY <1>2, <2>2
    <3>2. q \in Seq(Ops)
      BY <3>1
    <3> QED
      BY <3>1, <3>2 DEF Single
  <2> QED
    BY <2>1, <2>2
<1>9. DOMAIN st = Frames /\ st'[f] = "open" /\ \A v \in Frames : v # f => st'[v] = st[v]
  <2>1. DOMAIN st = Frames
    BY DEF TraceTypeOK
  <2> QED
    BY <1>3, <2>1
<1>10. todo'[f] = q /\ \A v \in Frames : v # f => todo'[v] = todo[v]
  BY <1>1, <1>3, <1>4 DEF Begun
<1>11. (\A n \in DOMAIN todo[f] : Fits(f, todo[f][n]))'
  <2> SUFFICES ASSUME NEW n \in DOMAIN q PROVE Fits(f, o)'
    BY <1>8, <1>10
  <2> QED
    BY <1>6, <1>8, <1>9 DEF Fits, Tallies
<1>12. Begun' /\ Writing'
  BY <1>1, <1>3, <1>5, <1>8, <1>9, <1>11, NewWorkWrites
<1>13. \A i : Recorded(i)' = Recorded(i)
  BY <1>3, <1>9, <1>10 DEF Recorded, Clear
<1>14. ASSUME Known("runsActive") PROVE Entered' = Entered
  <2>1. Role[f] = "run" => q # <<>>
    <3> SUFFICES ASSUME Role[f] = "run", q = <<>> PROVE FALSE
      OBVIOUS
    <3>1. Counted(o)
      BY <1>6, <1>1, <1>14, HandlesAssumption, RegistryAssumption DEF Counted, Dropped, Known, Begun
    <3>2. o \in ToSet(q)
      BY <1>2, <1>7, <3>1
    <3> QED
      BY <3>2 DEF ToSet
  <2> QED
    BY <1>3, <1>9, <1>10, <2>1 DEF Entered, Idle
<1>15. host' # "killed"
  BY <1>1, <1>3
<1> QED
  BY <1>1, <1>3, <1>12, <1>13, <1>14, <1>15, SeriesStand

LEMMA ReturnsCount ==
  ASSUME Counting, TraceTypeOK, NEW f \in Frames, NEW r \in Ways, NEW d \in Durations, Returns(f, r, d)
  PROVE  Counting'
<1>1. host # "killed" /\ host # "starts" /\ built > 0 /\ Begun
  BY Underway DEF Returns
<1>2. st[f] = "open" /\ Idle(f) /\ UNCHANGED <<vecs, step, host, built, view>>
  BY DEF Returns, reading
<1>3. Frames \subseteq Writers /\ DOMAIN st = Frames /\ DOMAIN todo = Writers
  BY <1>1, TelemetryAssumption DEF TraceTypeOK, Begun
<1>4. CASE r = "panic" /\ Role[f] \in {"llm", "tool"}
  <2>1. st' = [st EXCEPT ![f] = "blown"] /\ todo' = todo
    BY <1>4 DEF Returns
  <2>2. st'[f] = "blown" /\ \A v \in Frames : v # f => st'[v] = st[v]
    BY <1>3, <2>1
  <2> DEFINE q == <<>>
  <2>3. todo' = [todo EXCEPT ![f] = q] /\ q \in Seq(Ops) /\ todo'[f] = q
    BY <1>1, <1>2, <1>3, <2>1 DEF Idle, Begun
  <2>4. DOMAIN q = {}
    OBVIOUS
  <2>5. \A i : Single(q, i)
    BY <2>4 DEF Single
  <2>6. (\A n \in DOMAIN todo[f] : Fits(f, todo[f][n]))'
    BY <2>3, <2>4
  <2>7. q = <<>>
    OBVIOUS
  <2> HIDE DEF q
  <2>8. Begun' /\ Writing'
    BY <1>1, <1>2, <1>3, <2>1, <2>3, <2>5, <2>6, <2>7, NewWorkWrites
  <2>9. \A i : Recorded(i)' = Recorded(i)
    BY <1>2, <2>1, <2>2 DEF Recorded, Clear
  <2>10. Entered' = Entered
    BY <1>2, <1>4, <2>1, <2>2 DEF Entered, Idle
  <2> QED
    BY <1>1, <1>2, <2>8, <2>9, <2>10, SeriesStand
<1>5. CASE ~(r = "panic" /\ Role[f] \in {"llm", "tool"})
  <2>1. PICK s, q : s = ClosingOps(f, r, d) /\ q = Tracked(s)
    OBVIOUS
  <2>2. st' = [st EXCEPT ![f] = "closing"] /\ todo' = [todo EXCEPT ![f] = q]
    BY <1>5, <2>1 DEF Returns
  <2>3. /\ st'[f] = "closing" /\ \A v \in Frames : v # f => st'[v] = st[v]
        /\ todo'[f] = q /\ \A v \in Frames : v # f => todo'[v] = todo[v]
    BY <1>3, <2>2
  <2>4. Role[f] = "tool" => r \in {"ok", "error"}
    BY <1>5 DEF Returns, Results
  <2>5. s \in Seq(Ops) /\ Tells(f, s)
    BY <2>1, <2>4, CallTells
  <2>6. /\ q \in Seq(Ops) /\ ToSet(q) = {o \in ToSet(s) : Counted(o)}
        /\ \A i : Single(s, i) => Single(q, i)
        /\ \A n \in DOMAIN q : q[n] \in ToSet(s) /\ q[n].name \in Instruments
    BY <1>1, <2>1, <2>5, TrackedWork
  <2>7. (\A n \in DOMAIN todo[f] : Fits(f, todo[f][n]))'
    <3> SUFFICES ASSUME NEW n \in DOMAIN q PROVE Fits(f, q[n])'
      BY <2>3
    <3>1. PICK o : o = q[n] /\ Speaks(f, o) /\ o.name \in Instruments
      BY <2>5, <2>6 DEF Tells
    <3>2. Fits(f, o)'
      BY <2>3, <3>1 DEF Fits, Speaks
    <3> QED
      BY <3>1, <3>2
  <2>8. \A i \in Tallies \cup {"runsActive"} : Single(q, i)
    BY <2>5, <2>6 DEF Tells
  <2>9. Begun' /\ Writing'
    BY <1>1, <1>2, <1>3, <2>2, <2>6, <2>7, <2>8, NewWorkWrites
  <2>10. ASSUME NEW i \in Tallies \cup {"runsActive"}, Known(i) PROVE Recorded(i)' = Recorded(i)
    <3>1. Role[f] = By(i) => ~Clear(f, i)'
      <4> SUFFICES ASSUME Role[f] = By(i) PROVE ~Clear(f, i)'
        OBVIOUS
      <4>1. PICK o \in ToSet(s) : o.name = i /\ Speaks(f, o)
        BY <2>5 DEF Tells
      <4>2. i \in Instruments
        BY <1>1, <2>10, RegistryAssumption DEF Known, Begun
      <4>3. Counted(o)
        <5>1. CASE i = "runsActive"
          BY <2>10, <4>1, <4>2, <5>1, HandlesAssumption DEF Counted, Dropped, Known
        <5>2. CASE i = "toolDur"
          BY <2>10, <4>1, <4>2, <5>2, HandlesAssumption DEF Counted, Dropped, Known
        <5>3. CASE i \in Tallies /\ i # "toolDur"
          BY <2>10, <4>1, <5>3 DEF Counted, Dropped, Known, Speaks
        <5> QED
          BY <5>1, <5>2, <5>3
      <4>4. o \in ToSet(q)
        BY <2>6, <4>3
      <4> QED
        BY <2>3, <4>1, <4>4 DEF Clear, ToSet
    <3> QED
      BY <1>2, <2>3, <3>1 DEF Recorded, Clear
  <2>11. Entered' = Entered
    BY <1>2, <2>3 DEF Entered, Idle
  <2>12. host' # "killed"
    BY <1>1, <1>2
  <2> QED
    BY <1>1, <1>2, <2>9, <2>10, <2>11, <2>12, SeriesStand
<1> QED
  BY <1>4, <1>5

LEMMA EndsCount ==
  ASSUME Counting, TraceTypeOK, NEW f \in Frames, Ends(f)
  PROVE  Counting'
<1>1. /\ host # "killed" /\ st[f] = "closing" /\ Idle(f) /\ st' = [st EXCEPT ![f] = "out"]
      /\ UNCHANGED <<vecs, todo, step, host, built, view>>
  BY DEF Ends, registry, reading
<1>2. Begun /\ Writing /\ Frames \subseteq Writers /\ DOMAIN st = Frames
  BY <1>1, TelemetryAssumption DEF Counting, TraceTypeOK
<1>3. host # "starts" /\ built > 0
  BY <1>1, <1>2 DEF Begun, TraceTypeOK
<1>4. st'[f] = "out" /\ \A v \in Frames : v # f => st'[v] = st[v]
  BY <1>1, <1>2
<1> DEFINE q == <<>>
<1>5. q \in Seq(Ops) /\ DOMAIN q = {} /\ todo[f] = q
  BY <1>1 DEF Idle
<1>6. \A i : Single(q, i)
  BY <1>5 DEF Single
<1>7. q = <<>>
  OBVIOUS
<1> HIDE DEF q
<1>8. todo' = [todo EXCEPT ![f] = q] /\ todo'[f] = q
  BY <1>1, <1>2, <1>5 DEF Begun
<1>9. (\A n \in DOMAIN todo[f] : Fits(f, todo[f][n]))'
  BY <1>5, <1>8
<1>10. Begun' /\ Writing'
  BY <1>1, <1>2, <1>3, <1>5, <1>6, <1>7, <1>8, <1>9, NewWorkWrites
<1>11. \A i : Recorded(i)' = Recorded(i)
  BY <1>1, <1>4 DEF Recorded, Clear
<1>12. Entered' = Entered
  BY <1>1, <1>4 DEF Entered, Idle
<1> QED
  BY <1>1, <1>3, <1>10, <1>11, <1>12, SeriesStand

(* The host's own operation, on the gauge. *)
LEMMA GaugeIsSet ==
  LET s == <<SetTo("runsActive", <<>>, 0)>> IN
  /\ s \in Seq(Ops) /\ \A i : Single(s, i)
  /\ \A o \in ToSet(s) : o.name = "runsActive" /\ o.labels = Canon(<<>>) /\ o.op = "set" /\ o.v = 0
<1>1. PICK o : /\ o = SetTo("runsActive", <<>>, 0) /\ o.name = "runsActive"
               /\ o.labels = Canon(<<>>) /\ o.op = "set" /\ o.v = 0
  BY AnOp
<1> DEFINE s == <<o>>
<1>2. s \in Seq({o}) /\ DOMAIN s = {1} /\ s[1] = o
  OBVIOUS
<1> HIDE DEF s
<1>3. ToSet(s) = {o}
  BY <1>2 DEF ToSet
<1>4. \A i : Single(s, i)
  BY <1>2 DEF Single
<1>5. o \in Ops
  BY <1>1 DEF Ops
<1>6. s \in Seq(Ops)
  BY <1>2, <1>5
<1>7. s = <<SetTo("runsActive", <<>>, 0)>>
  BY <1>1 DEF s
<1> QED
  BY <1>1, <1>3, <1>4, <1>6, <1>7

LEMMA NewMetricsCounts ==
  ASSUME Counting, NewMetrics
  PROVE  Counting'
<1>1. /\ host # "killed" /\ built < Agents /\ Idle("host") /\ built' = built + 1 /\ vecs' = Registered
      /\ UNCHANGED <<step, st, host, view>> /\ Alive
  BY DEF NewMetrics, Alive, reading, frames
<1>2. /\ Begun /\ Writing /\ built \in Nat /\ Agents \in Nat /\ "host" \in Writers /\ "host" \notin Frames
      /\ Frames \subseteq Writers
  BY <1>1, TelemetryAssumption, TreeAssumption DEF Counting, Begun
<1>3. PICK s, q : s = <<SetTo("runsActive", <<>>, 0)>> /\ q = Tracked(s)
  OBVIOUS
<1>4. /\ s \in Seq(Ops) /\ \A i : Single(s, i)
      /\ \A o \in ToSet(s) : o.name = "runsActive" /\ o.labels = Canon(<<>>) /\ o.op = "set" /\ o.v = 0
  BY <1>3, GaugeIsSet
<1>5. /\ q \in Seq(Ops) /\ \A i : Single(q, i)
      /\ \A n \in DOMAIN q : q[n] \in ToSet(s) /\ q[n].name \in Instruments
  BY <1>1, <1>3, <1>4, TrackedWork
<1>6. todo' = [todo EXCEPT !["host"] = q]
  BY <1>3 DEF NewMetrics
<1>7. /\ todo'["host"] = q /\ todo' \in [Writers -> Seq(Ops)]
      /\ \A v \in Writers : v # "host" => todo'[v] = todo[v]
  BY <1>2, <1>5, <1>6 DEF Begun
<1>8. /\ DOMAIN vecs' = Instruments
      /\ \A i \in Instruments : vecs'[i] = IF built = 0 THEN <<>> ELSE vecs[i]
  BY <1>1, <1>2 DEF Registered, Begun
<1>9. built > 0 => DOMAIN vecs = Instruments
  BY <1>2 DEF Begun
<1>10. Grows
  BY <1>2, <1>8 DEF Grows, Begun
<1>11. Telling("host")'
  <2>1. Stepping("host")'
    <3>1. Stepping("host")
      BY <1>2 DEF Writing, Telling
    <3>2. step'["host"].at = "get"
      BY <1>1, <3>1 DEF Stepping
    <3> QED
      BY <3>2 DEF Stepping
  <2>2. (\A n \in DOMAIN todo["host"] : Fits("host", todo["host"][n]))'
    <3> SUFFICES ASSUME NEW n \in DOMAIN q PROVE Fits("host", q[n])'
      BY <1>7
    <3>1. PICK o : /\ o = q[n] /\ o.name = "runsActive" /\ o.labels = Canon(<<>>) /\ o.op = "set"
                   /\ o.v = 0 /\ o.name \in Instruments
      BY <1>4, <1>5
    <3>2. Fits("host", o)'
      BY <1>2, <3>1 DEF Fits, Tallies
    <3> QED
      BY <3>1, <3>2
  <2> QED
    BY <1>2, <1>5, <1>7, <2>1, <2>2 DEF Telling
<1>12. Writing'
  <2> SUFFICES ASSUME NEW v \in Writers, v # "host" PROVE Telling(v)'
    BY <1>11 DEF Writing
  <2> QED
    BY <1>1, <1>7, <1>10, OtherStands
<1>13. Agents = 1 => host = "starts"
  BY <1>1, <1>2 DEF Begun, Alive
<1>14. Begun'
  BY <1>1, <1>2, <1>7, <1>8, <1>13 DEF Begun
<1>15. \A i : Recorded(i)' = Recorded(i)
  <2> SUFFICES ASSUME NEW i, NEW f \in Frames PROVE Clear(f, i)' <=> Clear(f, i)
    BY <1>1 DEF Recorded
  <2> QED
    BY <1>2, <1>7 DEF Clear
<1>16. Entered' = Entered
  BY <1>1, <1>2, <1>7 DEF Entered, Idle
<1>17. built' > 0
  BY <1>1, <1>2
<1>18. CASE built = 0
  <2>1. \A f \in Frames : st[f] = "new"
    BY <1>1, <1>2, <1>18 DEF Begun, Alive
  <2>2. Entered' = {} /\ \A i : Recorded(i)' = {}
    BY <1>15, <1>16, <2>1 DEF Entered, Recorded
  <2> DEFINE e == <<>>
  <2>3. DOMAIN e = {}
    OBVIOUS
  <2>4. \A i \in Instruments : vecs'[i] = e
    BY <1>8, <1>18
  <2> HIDE DEF e
  <2>5. \A i \in Instruments : DOMAIN vecs'[i] = {}
    BY <2>3, <2>4
  <2>6. IsFiniteSet({}) /\ Cardinality({}) = 0
    BY FS_EmptySet
  <2>7. \A i \in Instruments : Roomy(i)'
    <3> SUFFICES ASSUME NEW i \in Instruments PROVE Roomy(i)'
      OBVIOUS
    <3>1. PICK D, c : D = DOMAIN vecs'[i] /\ c = Cardinality(D)
      OBVIOUS
    <3>2. D = {}
      BY <2>5, <3>1
    <3>3. IsFiniteSet(D) /\ c = 0
      BY <2>6, <3>1, <3>2
    <3>4. c <= MaxSeries
      BY <3>3, RegistryAssumption
    <3> QED
      BY <3>1, <3>3, <3>4 DEF Roomy
  <2>8. ASSUME NEW i \in Tallies, Known(i) PROVE Tallied(i)'
    <3>1. i \in Instruments
      BY <1>2, <2>8, RegistryAssumption DEF Known, Begun
    <3>2. Units(i)' = {}
      BY <2>5, <3>1 DEF Units
    <3> QED
      BY <2>2, <2>5, <2>6, <3>1, <3>2 DEF Tallied
  <2>9. ASSUME Known("runsActive") PROVE Gauged'
    <3>1. "runsActive" \in Instruments
      BY <1>2, <2>9, RegistryAssumption DEF Known, Begun
    <3> QED
      BY <2>2, <2>5, <2>6, <3>1 DEF Gauged
  <2> QED
    BY <1>1, <1>8, <1>12, <1>14, <2>7, <2>8, <2>9 DEF Counting, Known
<1>19. CASE built # 0
  <2>1. built > 0 /\ \A i \in Instruments : vecs'[i] = vecs[i]
    BY <1>2, <1>8, <1>19
  <2>2. \A i \in Instruments : Roomy(i)'
    BY <1>1, <1>9, <2>1, RoomyStands DEF Counting
  <2>3. ASSUME NEW i \in Tallies, Known(i) PROVE Tallied(i)'
    <3>1. i \in Instruments /\ Tallied(i)
      BY <1>1, <1>2, <2>1, <2>3, RegistryAssumption DEF Known, Begun, Counting
    <3>2. Units(i)' = Units(i) /\ Valued(i)'
      <4>1. vecs'[i] = vecs[i] /\ Valued(i)
        BY <2>1, <3>1 DEF Tallied, Valued
      <4> QED
        BY <4>1, SameSeries
    <3> QED
      BY <1>15, <3>1, <3>2, TallyStands
  <2>4. Agents # 1
    BY <1>1, <1>2, <1>19
  <2> QED
    BY <1>1, <1>8, <1>12, <1>14, <2>2, <2>3, <2>4 DEF Counting, Known
<1> QED
  BY <1>18, <1>19

LEMMA CountingBegins == TelemetryInit => Counting
<1> SUFFICES ASSUME TelemetryInit PROVE Counting
  OBVIOUS
<1> DEFINE e == <<>>
<1>1. e \in Seq(Ops) /\ DOMAIN e = {}
  OBVIOUS
<1>2. /\ vecs = e /\ todo = [w \in Writers |-> e] /\ step = [w \in Writers |-> Fresh] /\ view \in Views
      /\ host = "starts" /\ built = 0 /\ \A f \in Frames : st[f] = "new"
  BY DEF TelemetryInit, RegistryInit, NothingToDo, NothingBegun, Unstarted
<1>3. \A w \in Writers : Idle(w)
  BY <1>2 DEF Idle
<1> HIDE DEF e
<1>4. \A w \in Writers : DOMAIN todo[w] = {} /\ step[w].at = "get"
  BY <1>1, <1>2 DEF Fresh
<1>5. Writing
  BY <1>3, <1>4 DEF Writing, Telling, Single, Stepping
<1>6. todo \in [Writers -> Seq(Ops)] /\ DOMAIN step = Writers
  BY <1>1, <1>2
<1>7. DOMAIN vecs = {}
  BY <1>1, <1>2
<1>8. Begun
  BY <1>2, <1>3, <1>6, <1>7, TelemetryAssumption DEF Begun
<1> QED
  BY <1>2, <1>5, <1>7, <1>8 DEF Counting

LEMMA CountingStands ==
  ASSUME Counting, UNCHANGED <<vecs, todo, step, view, st, built>>,
         host' = host \/ (host' \in {"waits", "closed"} /\ built > 0 /\ Idle("host")
                          /\ host \in {"starts", "waits"})
  PROVE  Counting'
<1>1. host = "killed" => host' = host
  OBVIOUS
<1>2. CASE host = "killed"
  BY <1>2 DEF Counting
<1>3. CASE host # "killed"
  <2>1. host' # "killed" /\ Begun /\ Writing
    BY <1>3 DEF Counting
  <2>2. \A v \in Writers : Telling(v)' <=> Telling(v)
    BY DEF Telling, Fits, Single, Stepping, Idle
  <2>3. Writing'
    BY <2>1, <2>2 DEF Writing
  <2>4. \A w : Idle(w)' <=> Idle(w)
    BY DEF Idle
  <2>5. Begun'
    BY <2>1, <2>4 DEF Begun
  <2>6. \A i : (Roomy(i)' <=> Roomy(i)) /\ (Tallied(i)' <=> Tallied(i))
    BY DEF Roomy, Tallied, Units, Value, Recorded, Clear
  <2>7. Gauged' <=> Gauged
    BY DEF Gauged, Entered, Recorded, Clear, Idle
  <2> QED
    BY <1>3, <2>1, <2>3, <2>5, <2>6, <2>7 DEF Counting, Known
<1> QED
  BY <1>2, <1>3

LEMMA CountingKept ==
  ASSUME Counting, TraceInv, [TelemetryNext]_telemetryVars
  PROVE  Counting'
<1>1. TraceTypeOK
  BY DEF TraceInv
<1>2. ASSUME NEW f \in Frames, Starts(f) PROVE Counting'
  BY <1>1, <1>2, StartsCount
<1>3. ASSUME NEW f \in Frames, Ends(f) PROVE Counting'
  BY <1>1, <1>3, EndsCount
<1>4. ASSUME NEW f \in Frames, Records(f) PROVE Counting'
  <2>1. f \in Writers /\ host # "killed" /\ Writes(f) /\ UNCHANGED <<st, host, built, view>>
    BY <1>4, TelemetryAssumption DEF Records, Alive, frames, reading
  <2> QED
    BY <2>1, WritesCount
<1>5. ASSUME NEW f \in Frames, NEW r \in Ways, NEW d \in Durations, Returns(f, r, d) PROVE Counting'
  BY <1>1, <1>5, ReturnsCount
<1>6. CASE NewMetrics
  BY <1>6, NewMetricsCounts
<1>7. CASE HostStarts
  BY <1>7, CountingStands DEF HostStarts, registry, reading, frames
<1>8. CASE HostRecords
  <2>1. "host" \in Writers /\ host # "killed" /\ Writes("host") /\ UNCHANGED <<st, host, built, view>>
    BY <1>8, TelemetryAssumption DEF HostRecords, Alive, frames, reading
  <2> QED
    BY <2>1, WritesCount
<1>9. CASE HostCloses
  <2>1. built > 0
    BY <1>9 DEF HostCloses, Counting, Begun
  <2> QED
    BY <1>9, <2>1, CountingStands DEF HostCloses, registry, reading, frames
<1>10. CASE Killed
  BY <1>10 DEF Killed, RegistryLost, Counting
<1>11. CASE Scraped
  BY <1>11, CountingStands
     DEF Scraped, Scrapes, ScrapeStarts, ScrapeReads, ScrapeReturns, registry, frames
<1>12. CASE UNCHANGED telemetryVars
  BY <1>12, CountingStands DEF telemetryVars, registry, reading, frames
<1> QED
  BY <1>2, <1>3, <1>4, <1>5, <1>6, <1>7, <1>8, <1>9, <1>10, <1>11, <1>12 DEF TelemetryNext, Ways

(* When the host has closed, no call is going on: what is recorded is what *)
(* came back.                                                              *)
LEMMA AllRecorded ==
  ASSUME Counting, TraceInv, host = "closed"
  PROVE  /\ built > 0 /\ Begun
         /\ \A i : Recorded(i) = {f \in Frames : Role[f] = By(i) /\ st[f] = "out"}
         /\ Entered = {f \in Frames : Role[f] = "run" /\ st[f] = "out"}
<1>1. built > 0 /\ Begun /\ Writing
  BY DEF Counting, Begun
<1>2. \A f \in Frames : st[f] \notin {"open", "closing"}
  BY DEF TraceInv, Written, Going
<1>3. \A f \in Frames : st[f] = "out" => Idle(f)
  BY <1>1, TelemetryAssumption DEF Writing, Telling
<1>4. DOMAIN <<>> = {}
  OBVIOUS
<1>5. \A f \in Frames : st[f] = "out" => \A i : Clear(f, i)
  BY <1>3, <1>4 DEF Clear, Idle
<1> QED
  BY <1>1, <1>2, <1>5 DEF Recorded, Entered

LEMMA CountingIsTrue ==
  ASSUME Counting, TraceInv
  PROVE  CountsAreTrue
<1>1. ASSUME host = "closed", NEW i \in Tallies, Known(i) PROVE Cardinality(Units(i)) = Finished(By(i))
  <2>1. Recorded(i) = {f \in Frames : Role[f] = By(i) /\ st[f] = "out"}
    BY <1>1, AllRecorded
  <2>2. Tallied(i)
    BY <1>1, AllRecorded DEF Counting
  <2> QED
    BY <2>1, <2>2 DEF Tallied, Finished
<1>2. \A i : i # "toolDur" => Total(i) = Cardinality(Units(i))
  BY DEF Total, Units, Value
<1>3. Observed("toolDur") = Cardinality(Units("toolDur"))
  BY DEF Observed, Units, Value
<1>4. /\ By("llmCalls") = "llm" /\ By("toolCalls") = "tool" /\ By("toolDur") = "tool" /\ By("runs") = "run"
      /\ {"llmCalls", "toolCalls", "toolDur", "runs"} = Tallies
  BY DEF By, Tallies
<1>5. ASSUME Agents = 1 PROVE ActiveReturnsToZero
  <2> SUFFICES ASSUME host = "closed", Known("runsActive"), NEW k \in DOMAIN vecs["runsActive"]
               PROVE  vecs["runsActive"][k] = 0
    BY DEF ActiveReturnsToZero
  <2>1. Gauged
    BY <1>5, AllRecorded DEF Counting
  <2>2. Entered = Recorded("runsActive")
    BY AllRecorded DEF By
  <2>3. PICK n \in Nat : n = Cardinality(Entered)
    BY <2>1, FS_CardinalityType DEF Gauged
  <2>4. vecs["runsActive"][k] = n - n
    BY <2>1, <2>2, <2>3 DEF Gauged
  <2> QED
    BY <2>3, <2>4
<1>6. ASSUME NEW i \in DOMAIN vecs PROVE Cardinality(DOMAIN vecs[i]) <= MaxSeries + 1
  <2>1. DOMAIN <<>> = {}
    OBVIOUS
  <2>2. Roomy(i)
    BY <1>6, <2>1 DEF Counting
  <2>3. PICK n \in Nat : n = Cardinality(DOMAIN vecs[i])
    BY <2>2, FS_CardinalityType DEF Roomy
  <2>4. n <= MaxSeries \/ n = MaxSeries + 1
    BY <2>2, <2>3 DEF Roomy
  <2> QED
    BY <2>3, <2>4, RegistryAssumption
<1> QED
  BY <1>1, <1>2, <1>3, <1>4, <1>5, <1>6 DEF CountsAreTrue

(* The counts of a run are true: when the host has closed the trace, every *)
(* call that came back through its middleware and every run has been       *)
(* counted once, however the writers' steps fell among each other, whether *)
(* its label set had a series of its own or was past the cap; with one     *)
(* agent to the registry the gauge is back at zero; and no instrument has  *)
(* more series than the cap and the shared one.                            *)
THEOREM CountsAreAlwaysTrue == TelemetrySpec => []CountsAreTrue
<1> DEFINE Inv == TraceInv /\ Counting
<1>1. TelemetryInit => Inv
  BY TraceBegins, CountingBegins
<1>2. Inv /\ [TelemetryNext]_telemetryVars => Inv'
  BY TraceStep, CountingKept
<1>3. Inv => CountsAreTrue
  BY CountingIsTrue
<1> QED
  BY <1>1, <1>2, <1>3, PTL DEF TelemetrySpec
=============================================================================
