--------------------------- MODULE SessionsProofs ---------------------------
(***************************************************************************)
(* Theorems about Sessions for any sessions, clients and followers, any    *)
(* capacity of the registry and of a session's buffer.                     *)
(***************************************************************************)
EXTENDS Sessions, SequenceTheorems, FiniteSetTheorems, TLAPS

-----------------------------------------------------------------------------
(* The inductive invariant: what holds of one session's record, what the   *)
(* registry and Manager.Close know of it, and where the streams are.       *)

SessionType ==
  [state : States, turns : 0..MaxTurns, closed : BOOLEAN, cancel : 0..MaxTurns,
   frames : Seq(Frame), base : Nat,
   pump : [Turn -> {"none", "run", "recorded", "gone"}], ctxDone : SUBSET Turn,
   question : {"none", "parked", "settled"}, queue : {"open", "closed"},
   by : Client \cup {"nobody", "sweeper", "manager"},
   close : {"no", "owed", "shut", "marked", "waiting", "done"},
   captured : 0..MaxTurns]

RequestType ==
  [at : {"idle"}]
  \cup [at : {"creating", "has", "dropping", "denied", "deleting"}, s : Session]
  \cup [at : {"cancelling"}, s : Session, turn : Turn]

StreamType ==
  [at : {"idle"}]
  \cup [at : {"look", "parked", "over", "left"}, s : Session, seq : Nat]
  \cup [at : {"told"}, s : Session, seq : Nat, state : States]

Types ==
  /\ party \in Parties
  /\ sessions \subseteq made /\ made \subseteq Session /\ unvisited \subseteq sessions
  /\ sweeper \in {"on", "off"} /\ mgr \in {"open", "stopping", "closing", "returned"}
  /\ ses \in [Session -> SessionType]
  /\ req \in [Client -> RequestType]
  /\ fol \in [Follower -> StreamType]

(* A turn that was not started has no pump. *)
TurnBook(x) ==
  /\ x.cancel \in {NoTurn, x.turns}
  /\ (x.state = "running") = (x.cancel # NoTurn)
  /\ \A t \in Turn : (x.pump[t] = "run") = (x.cancel = t)
  /\ \A t \in Turn : t > x.turns => x.pump[t] = "none"

(* How two frames may follow each other. *)
Follows(g, h) ==
  IF g.kind = "ended" THEN h = [turn |-> g.turn + 1, kind |-> "started"]
  ELSE h.turn = g.turn /\ h.kind # "started"

Chained(fr) == \A i \in 1..(Len(fr) - 1) : Follows(fr[i], fr[i + 1])

LogBook(x) ==
  /\ Len(x.frames) <= BufCap
  /\ Chained(x.frames)
  /\ x.turns = 0 => x.frames = <<>>
  /\ ~x.closed /\ x.turns > 0 =>
       /\ Len(x.frames) > 0 /\ x.frames[Len(x.frames)].turn = x.turns
       /\ (x.frames[Len(x.frames)].kind = "ended") = (x.cancel = NoTurn)

(* The mark that refuses later turns is up before the wait for the runs. *)
CloseBook(x) ==
  /\ x.closed = (x.close \in {"marked", "waiting", "done"})
  /\ (x.by = "nobody") = (x.close = "no")
  /\ x.close = "done" => \A t \in Turn : x.pump[t] \in {"none", "gone"}

(* Once the queue is shut no call of the turn is parked on a human; once   *)
(* the door is shut, the turn that was caught inside is the one close has  *)
(* in hand, and then the one whose context it has ended.                   *)
CancelBook(x) ==
  /\ (x.queue = "closed") = (x.close \in {"shut", "marked", "waiting", "done"})
  /\ x.queue = "closed" => x.question # "parked"
  /\ x.close = "marked" => x.cancel \in {NoTurn, x.captured}
  /\ x.close \in {"waiting", "done"} => x.cancel = NoTurn \/ x.cancel \in x.ctxDone

Book(x) == TurnBook(x) /\ LogBook(x) /\ CloseBook(x) /\ CancelBook(x)

Books == \A s \in Session : Book(ses[s])

(* A session nobody made has no turn; one that was made is in the registry *)
(* or owed a close by whoever took it.                                     *)
Registered ==
  /\ \A s \in Session :
       /\ s \in sessions => ses[s].by = "nobody"
       /\ s \in made \ sessions => ses[s].by # "nobody"
       /\ s \notin made => ses[s].by = "nobody" /\ ses[s].turns = 0
  /\ \A c \in Client : req[c].at # "idle" => req[c].s \in made

(* Manager.Close empties the registry first, then waits for the reaper,    *)
(* then closes what it took.                                               *)
Shutdown ==
  /\ mgr # "open" => sessions = {}
  /\ sweeper = "off" => mgr # "open" /\ ~Closes("sweeper")
  /\ mgr \in {"closing", "returned"} => sweeper = "off"
  /\ mgr = "returned" => ~Closes("manager")

StreamsInRange ==
  \A f \in Follower : fol[f].at # "idle" => fol[f].seq <= Total(ses[fol[f].s])

IInv == Types /\ Books /\ Registered /\ Shutdown /\ StreamsInRange /\ StreamsMissNothing

-----------------------------------------------------------------------------
(* What the operations on one session's record do to it. *)

(* emitLocked on a session that is open: the frame is the last of the log, *)
(* the frames that made room were the oldest, and every number a follower  *)
(* counts by moves on by exactly one.                                      *)
LEMMA EmitAppends ==
  ASSUME NEW x \in SessionType, ~x.closed,
         Len(x.frames) <= BufCap, Chained(x.frames),
         NEW t \in Turn, NEW kind \in {"started", "event", "ended"}
  PROVE  \E fr \in Seq(Frame), b \in Nat :
           /\ Emit(x, t, kind) = [x EXCEPT !.frames = fr, !.base = b]
           /\ Len(fr) \in 1..BufCap
           /\ fr[Len(fr)] = [turn |-> t, kind |-> kind]
           /\ b + Len(fr) = Total(x) + 1
           /\ (Len(x.frames) > 0 =>
                 Follows(x.frames[Len(x.frames)], [turn |-> t, kind |-> kind]))
                => Chained(fr)
<1> DEFINE g == [turn |-> t, kind |-> kind]
           old == x.frames
           n == Len(old)
           grown == Append(old, g)
           excess == Len(grown) - BufCap
<1>1. g \in Frame /\ old \in Seq(Frame) /\ n \in Nat /\ n <= BufCap /\ x.base \in Nat
  BY LenProperties DEF Frame, SessionType
<1>2. /\ grown \in Seq(Frame) /\ Len(grown) = n + 1
      /\ \A i \in 1..n : grown[i] = old[i]
      /\ grown[n + 1] = g
  BY <1>1, AppendProperties
<1>3. (n > 0 => Follows(old[n], g)) => Chained(grown)
  BY <1>1, <1>2 DEF Chained
<1>4. CASE Len(grown) > BufCap
  <2> HIDE DEF grown, old
  <2> DEFINE fr == SubSeq(grown, excess + 1, Len(grown))
  <2>1. n = BufCap /\ excess = 1 /\ BufCap \in Nat \ {0}
    BY <1>1, <1>2, <1>4, BufCapAssumption
  <2>2. \A i \in 2..(n + 1) : grown[i] \in Frame
    BY <1>2, ElementOfSeq
  <2>3. n + 1 \in Int /\ 2 <= n + 1
    BY <2>1
  <2>4. fr = SubSeq(grown, 2, n + 1)
    <3>1. excess + 1 = 2 /\ Len(grown) = n + 1
      BY <1>2, <2>1
    <3> QED
      BY <3>1
  <2>5. /\ fr \in Seq(Frame) /\ Len(fr) = n
        /\ \A i \in 1..n : fr[i] = grown[i + 1]
    <3>1. /\ SubSeq(grown, 2, n + 1) \in Seq(Frame)
          /\ Len(SubSeq(grown, 2, n + 1)) = (n + 1) - 2 + 1
          /\ \A i \in 1..((n + 1) - 2 + 1) :
               SubSeq(grown, 2, n + 1)[i] = grown[2 + i - 1]
      BY <2>2, <2>3, SubSeqProperties
    <3>2. (n + 1) - 2 + 1 = n /\ \A i \in 1..n : 2 + i - 1 = i + 1
      BY <1>1
    <3> QED
      BY <2>4, <3>1, <3>2
  <2> HIDE DEF fr
  <2>6. Emit(x, t, kind) = [x EXCEPT !.frames = fr, !.base = x.base + 1]
    BY <1>4, <2>1 DEF Emit, SessionType, fr, grown, old
  <2>7. Chained(grown) => Chained(fr)
    <3> SUFFICES ASSUME Chained(grown), NEW i \in 1..(Len(fr) - 1)
                 PROVE  Follows(fr[i], fr[i + 1])
      BY DEF Chained
    <3>1. i \in 1..n /\ i + 1 \in 1..n /\ i + 1 \in 1..(Len(grown) - 1)
      BY <1>1, <1>2, <2>5
    <3>2. fr[i] = grown[i + 1] /\ fr[i + 1] = grown[(i + 1) + 1]
      BY <2>5, <3>1
    <3> QED
      BY <3>1, <3>2 DEF Chained
  <2>8. fr[Len(fr)] = g /\ Len(fr) \in 1..BufCap
    BY <1>2, <2>1, <2>5
  <2>9. x.base + 1 \in Nat /\ x.base + 1 + Len(fr) = Total(x) + 1
    BY <1>1, <2>5 DEF Total, old
  <2> QED
    BY <1>3, <2>5, <2>6, <2>7, <2>8, <2>9 DEF old
<1>5. CASE ~(Len(grown) > BufCap)
  <2>1. Emit(x, t, kind) = [x EXCEPT !.frames = grown, !.base = x.base]
    BY <1>5 DEF Emit, SessionType
  <2>2. Len(grown) \in 1..BufCap /\ x.base + Len(grown) = Total(x) + 1
    <3>1. Total(x) = x.base + n
      BY DEF Total
    <3> DEFINE l == Len(grown)
    <3>2. l = n + 1 /\ ~(l > BufCap) /\ n \in Nat /\ x.base \in Nat
      BY <1>1, <1>2, <1>5
    <3> HIDE DEF l, n
    <3>3. l \in 1..BufCap /\ x.base + l = Total(x) + 1
      BY <3>1, <3>2, BufCapAssumption
    <3> QED
      BY <3>3 DEF l
  <2> QED
    BY <1>1, <1>2, <1>3, <2>1, <2>2
<1> QED
  BY <1>4, <1>5
(* What a step may make of a session: its book stays right, and whoever    *)
(* saw the end of the conversation saw the last frame.                     *)
Continues(x, y) ==
  /\ y \in SessionType /\ Book(y)
  /\ Total(x) <= Total(y)
  /\ Over(x) => Over(y) /\ Total(y) = Total(x)

LEMMA TotalType == ASSUME NEW x \in SessionType PROVE Total(x) \in Nat
  BY LenProperties DEF Total, SessionType

(* Send starts a turn only where none is in flight: the log's last frame   *)
(* is the end of the turn before, and the cancel it stores is its own.     *)
LEMMA StartTurnContinues ==
  ASSUME NEW x \in SessionType, Book(x), ~Refuses(x), x.turns < MaxTurns
  PROVE  /\ Continues(x, StartTurn(x)) /\ Total(StartTurn(x)) # Total(x)
         /\ StartTurn(x).by = x.by /\ StartTurn(x).close = x.close
<1> DEFINE t == x.turns + 1
           z == [x EXCEPT !.turns = t, !.state = "running", !.cancel = t,
                          !.pump[t] = "run"]
<1>1. t \in Turn /\ x.turns \in Nat /\ t # NoTurn /\ MaxTurns \in Nat
  BY BoundsAssumption DEF SessionType, Turn, NoTurn
<1>2. /\ ~x.closed /\ x.cancel = NoTurn /\ x.state # "done"
      /\ x.frames \in Seq(Frame) /\ x.base \in Nat /\ Len(x.frames) \in Nat
  BY LenProperties DEF Refuses, SessionType
<1>3. [x.pump EXCEPT ![t] = "run"] \in [Turn -> {"none", "run", "recorded", "gone"}]
  BY DEF SessionType
<1>4. t \in 0..MaxTurns
  BY <1>1 DEF Turn
<1> HIDE DEF t
<1>5. z \in SessionType
  BY <1>3, <1>4 DEF SessionType, States
<1>6. /\ z.state = "running" /\ z.turns = t /\ z.cancel = t /\ z.closed = x.closed
      /\ z.frames = x.frames /\ z.base = x.base /\ z.by = x.by /\ z.close = x.close
      /\ z.queue = x.queue /\ z.question = x.question /\ z.captured = x.captured
      /\ z.ctxDone = x.ctxDone
      /\ \A u \in Turn : z.pump[u] = IF u = t THEN "run" ELSE x.pump[u]
  BY <1>1 DEF SessionType
<1> HIDE DEF z
<1>7. PICK fr \in Seq(Frame), b \in Nat :
        /\ Emit(z, t, "started") = [z EXCEPT !.frames = fr, !.base = b]
        /\ Len(fr) \in 1..BufCap
        /\ fr[Len(fr)] = [turn |-> t, kind |-> "started"]
        /\ b + Len(fr) = Total(z) + 1
        /\ (Len(z.frames) > 0 =>
              Follows(z.frames[Len(z.frames)], [turn |-> t, kind |-> "started"]))
             => Chained(fr)
  BY <1>1, <1>2, <1>5, <1>6, EmitAppends DEF Book, LogBook
<1> DEFINE y == [z EXCEPT !.frames = fr, !.base = b]
<1>8. y = StartTurn(x)
  BY <1>7 DEF StartTurn, t, z
<1>9. y \in SessionType
  BY <1>5, <1>7 DEF SessionType
<1>10. /\ y.state = "running" /\ y.turns = t /\ y.cancel = t /\ ~y.closed
       /\ y.frames = fr /\ y.base = b /\ y.by = x.by /\ y.close = x.close
       /\ y.pump = z.pump /\ y.queue = x.queue /\ y.question = x.question
  BY <1>2, <1>5, <1>6 DEF SessionType
<1> HIDE DEF y
<1>11. TurnBook(y)
  <2>1. t = x.turns + 1 /\ t \in Turn /\ t # NoTurn
    BY <1>1 DEF t
  <2>2. \A u \in Turn : u \in Nat /\ x.pump[u] # "run" /\ (u > x.turns => x.pump[u] = "none")
    BY <1>2 DEF Book, TurnBook, Turn, NoTurn
  <2> QED
    BY <1>1, <1>6, <1>10, <2>1, <2>2 DEF TurnBook
<1>12. LogBook(y)
  <2>1. Len(x.frames) > 0 => Follows(x.frames[Len(x.frames)], [turn |-> t, kind |-> "started"])
    BY <1>1, <1>2 DEF Book, LogBook, Follows, t
  <2>2. Chained(fr)
    BY <2>1, <1>6, <1>7
  <2>3. t > 0 /\ BufCap \in Nat
    BY <1>1, BufCapAssumption DEF t
  <2> QED
    BY <1>1, <1>7, <1>10, <2>2, <2>3 DEF LogBook
<1>13. CloseBook(y)
  <2>1. x.closed = FALSE /\ y.closed = FALSE
    BY <1>2, <1>9, <1>10 DEF SessionType
  <2> QED
    BY <1>10, <2>1 DEF Book, CloseBook
<1>16. CancelBook(y)
  <2>1. x.close \notin {"marked", "waiting", "done"}
    BY <1>2 DEF Book, CloseBook
  <2> QED
    BY <1>10, <2>1 DEF Book, CancelBook
<1>14. Total(y) = Total(x) + 1
  BY <1>6, <1>7, <1>10 DEF Total
<1>15. ~Over(x)
  BY <1>2 DEF Over
<1> QED
  BY <1>8, <1>9, <1>10, <1>11, <1>12, <1>13, <1>14, <1>15, <1>16, TotalType DEF Continues, Book
(* What the run of a turn emits goes behind the frame that started it.     *)
LEMMA PumpAppendContinues ==
  ASSUME NEW x \in SessionType, Book(x), NEW t \in Turn, x.pump[t] = "run"
  PROVE  LET y == Emit(x, t, "event")
         IN  /\ Continues(x, y) /\ y.by = x.by /\ y.close = x.close /\ y.turns = x.turns
             /\ Total(y) = Total(x) => y = x
<1>1. x.cancel = t /\ x.turns = t /\ t # NoTurn /\ x.state = "running" /\ t > 0
  BY DEF Book, TurnBook, Turn, NoTurn
<1>2. CASE x.closed
  <2>1. Emit(x, t, "event") = x
    BY <1>2 DEF Emit
  <2> QED
    BY <2>1, TotalType DEF Continues
<1>3. CASE ~x.closed
  <2>1. PICK fr \in Seq(Frame), b \in Nat :
          /\ Emit(x, t, "event") = [x EXCEPT !.frames = fr, !.base = b]
          /\ Len(fr) \in 1..BufCap
          /\ fr[Len(fr)] = [turn |-> t, kind |-> "event"]
          /\ b + Len(fr) = Total(x) + 1
          /\ (Len(x.frames) > 0 =>
                Follows(x.frames[Len(x.frames)], [turn |-> t, kind |-> "event"]))
               => Chained(fr)
    BY <1>3, EmitAppends DEF Book, LogBook
  <2> DEFINE y == [x EXCEPT !.frames = fr, !.base = b]
  <2>2. y \in SessionType
    BY <2>1 DEF SessionType
  <2>3. /\ y.state = x.state /\ y.turns = x.turns /\ y.cancel = x.cancel
        /\ y.closed = x.closed /\ y.frames = fr /\ y.base = b /\ y.pump = x.pump
        /\ y.by = x.by /\ y.close = x.close /\ y.queue = x.queue
        /\ y.question = x.question /\ y.captured = x.captured /\ y.ctxDone = x.ctxDone
    BY DEF SessionType
  <2> HIDE DEF y
  <2>4. LogBook(y)
    <3>1. Follows(x.frames[Len(x.frames)], [turn |-> t, kind |-> "event"])
      BY <1>1, <1>3 DEF Book, LogBook, Follows
    <3> QED
      BY <1>1, <2>1, <2>3, <3>1, BufCapAssumption DEF LogBook
  <2>5. TurnBook(y) /\ CloseBook(y) /\ CancelBook(y)
    BY <2>3 DEF Book, TurnBook, CloseBook, CancelBook
  <2>6. Total(y) = Total(x) + 1 /\ ~Over(x)
    BY <1>1, <1>3, <2>1, <2>3 DEF Total, Over
  <2>7. y = Emit(x, t, "event")
    BY <2>1 DEF y
  <2> QED
    BY <2>2, <2>3, <2>4, <2>5, <2>6, <2>7, TotalType DEF Continues, Book
<1> QED
  BY <1>2, <1>3

(* How a turn ended is the last frame of the log, and the session is free  *)
(* for the next one, in the same critical section.  After the session was  *)
(* closed the end is not told any more, and no stream waits for it.        *)
LEMMA PumpEndContinues ==
  ASSUME NEW x \in SessionType, Book(x), NEW t \in Turn, x.pump[t] = "run",
         NEW e \in TurnEnds
  PROVE  LET y == Emit([x EXCEPT !.state = e, !.cancel = NoTurn,
                                 !.pump[t] = "recorded", !.question = "none"],
                       t, "ended")
         IN  /\ Continues(x, y) /\ y.by = x.by /\ y.close = x.close /\ y.turns = x.turns
             /\ Total(y) = Total(x) => Over(x)
<1> DEFINE z == [x EXCEPT !.state = e, !.cancel = NoTurn,
                          !.pump[t] = "recorded", !.question = "none"]
           y == Emit(z, t, "ended")
<1> SUFFICES /\ Continues(x, y) /\ y.by = x.by /\ y.close = x.close /\ y.turns = x.turns
             /\ Total(y) = Total(x) => Over(x)
  OBVIOUS
<1>1. x.cancel = t /\ x.turns = t /\ t # NoTurn /\ x.state = "running" /\ t > 0
  BY DEF Book, TurnBook, Turn, NoTurn
<1>2. [x.pump EXCEPT ![t] = "recorded"] \in [Turn -> {"none", "run", "recorded", "gone"}]
  BY DEF SessionType
<1>3. z \in SessionType
  <2>1. e \in States /\ NoTurn \in 0..MaxTurns
    BY BoundsAssumption DEF States, TurnEnds, NoTurn
  <2> QED
    BY <1>2, <2>1 DEF SessionType
<1>4. /\ z.state = e /\ z.turns = x.turns /\ z.cancel = NoTurn /\ z.closed = x.closed
      /\ z.frames = x.frames /\ z.base = x.base /\ z.by = x.by /\ z.close = x.close
      /\ z.queue = x.queue /\ z.question = "none" /\ z.captured = x.captured
      /\ z.ctxDone = x.ctxDone
      /\ \A u \in Turn : z.pump[u] = IF u = t THEN "recorded" ELSE x.pump[u]
  BY DEF SessionType
<1> HIDE DEF z
<1>5. TurnBook(z)
  BY <1>1, <1>4 DEF Book, TurnBook, TurnEnds, NoTurn, Turn
<1>6. CloseBook(z) /\ CancelBook(z)
  BY <1>4 DEF Book, CloseBook, CancelBook
<1>7. CASE x.closed
  <2>1. Emit(z, t, "ended") = z
    BY <1>4, <1>7 DEF Emit
  <2>2. LogBook(z)
    BY <1>4, <1>7 DEF Book, LogBook
  <2>3. Total(z) = Total(x) /\ Over(z) /\ Over(x)
    BY <1>4, <1>7 DEF Total, Over
  <2> QED
    BY <1>3, <1>4, <1>5, <1>6, <2>1, <2>2, <2>3, TotalType DEF Continues, Book
<1>8. CASE ~x.closed
  <2>1. PICK fr \in Seq(Frame), b \in Nat :
          /\ Emit(z, t, "ended") = [z EXCEPT !.frames = fr, !.base = b]
          /\ Len(fr) \in 1..BufCap
          /\ fr[Len(fr)] = [turn |-> t, kind |-> "ended"]
          /\ b + Len(fr) = Total(z) + 1
          /\ (Len(z.frames) > 0 =>
                Follows(z.frames[Len(z.frames)], [turn |-> t, kind |-> "ended"]))
               => Chained(fr)
    BY <1>3, <1>4, <1>8, EmitAppends DEF Book, LogBook
  <2> DEFINE w == [z EXCEPT !.frames = fr, !.base = b]
  <2>2. w \in SessionType
    BY <1>3, <2>1 DEF SessionType
  <2>3. /\ w.state = z.state /\ w.turns = z.turns /\ w.cancel = z.cancel
        /\ w.closed = z.closed /\ w.frames = fr /\ w.base = b /\ w.pump = z.pump
        /\ w.by = z.by /\ w.close = z.close /\ w.queue = z.queue
        /\ w.question = z.question /\ w.captured = z.captured /\ w.ctxDone = z.ctxDone
    BY <1>3 DEF SessionType
  <2> HIDE DEF w
  <2>4. LogBook(w)
    <3>1. Follows(x.frames[Len(x.frames)], [turn |-> t, kind |-> "ended"])
      BY <1>1, <1>8 DEF Book, LogBook, Follows
    <3> QED
      BY <1>1, <1>4, <2>1, <2>3, <3>1, BufCapAssumption DEF LogBook
  <2>5. TurnBook(w) /\ CloseBook(w) /\ CancelBook(w)
    BY <1>5, <1>6, <2>3 DEF TurnBook, CloseBook, CancelBook
  <2>6. Total(w) = Total(x) + 1 /\ ~Over(x)
    BY <1>1, <1>4, <1>8, <2>1, <2>3 DEF Total, Over
  <2>7. w = y
    BY <2>1 DEF w
  <2> QED
    BY <1>4, <2>2, <2>3, <2>4, <2>5, <2>6, <2>7, TotalType DEF Continues, Book
<1> QED
  BY <1>7, <1>8
-----------------------------------------------------------------------------
(* What one session's step does to the rest. *)

(* A stream is where its session allows: every emission and every close    *)
(* wakes the streams that are parked, and nothing is emitted after the end *)
(* that a stream has told its client.                                      *)
LEMMA StreamsKeepUp ==
  ASSUME IInv, NEW s \in Session, NEW y, Continues(ses[s], y),
         ses' = [ses EXCEPT ![s] = y],
         \/ fol' = Woken(s)
         \/ fol' = fol /\ Total(y) = Total(ses[s]) /\ Over(y) = Over(ses[s])
  PROVE  /\ ses' \in [Session -> SessionType] /\ fol' \in [Follower -> StreamType]
         /\ Books' /\ StreamsInRange' /\ StreamsMissNothing'
<1>1. ses \in [Session -> SessionType] /\ fol \in [Follower -> StreamType]
  BY DEF IInv, Types
<1>2. ses' \in [Session -> SessionType]
  BY <1>1 DEF Continues
<1>3. \A r \in Session : ses'[r] = IF r = s THEN y ELSE ses[r]
  BY <1>1
<1>4. \A f \in Follower :
        /\ fol'[f] \in StreamType
        /\ fol[f].at = "idle" => fol'[f].at = "idle"
        /\ fol[f].at # "idle" =>
             /\ fol[f].s \in Session /\ fol'[f].s = fol[f].s
             /\ fol[f].seq \in Nat /\ fol'[f].seq = fol[f].seq
             /\ fol'[f].at = IF fol' = Woken(s) /\ fol[f].at = "parked" /\ fol[f].s = s
                             THEN "look" ELSE fol[f].at
  <2> SUFFICES ASSUME NEW f \in Follower
               PROVE  /\ fol'[f] \in StreamType
                      /\ fol[f].at = "idle" => fol'[f].at = "idle"
                      /\ fol[f].at # "idle" =>
                           /\ fol[f].s \in Session /\ fol'[f].s = fol[f].s
                           /\ fol[f].seq \in Nat /\ fol'[f].seq = fol[f].seq
                           /\ fol'[f].at = IF fol' = Woken(s) /\ fol[f].at = "parked"
                                                /\ fol[f].s = s
                                           THEN "look" ELSE fol[f].at
    OBVIOUS
  <2>1. fol[f] \in StreamType
    BY <1>1
  <2>2. CASE fol' = Woken(s) /\ fol[f].at = "parked" /\ fol[f].s = s
    <3>1. fol'[f] = [fol[f] EXCEPT !.at = "look"]
      BY <2>2 DEF Woken
    <3>2. fol[f] \in [at : {"look", "parked", "over", "left"}, s : Session, seq : Nat]
      BY <2>1, <2>2 DEF StreamType
    <3> QED
      BY <2>2, <3>1, <3>2 DEF StreamType
  <2>3. CASE ~(fol' = Woken(s) /\ fol[f].at = "parked" /\ fol[f].s = s)
    <3>1. fol'[f] = fol[f]
      BY <2>3 DEF Woken
    <3> QED
      BY <2>1, <2>3, <3>1 DEF StreamType
  <2> QED
    BY <2>2, <2>3
<1>5. fol' \in [Follower -> StreamType]
  <2>1. CASE fol' = fol
    BY <1>1, <2>1
  <2>2. CASE fol' = Woken(s)
    BY <1>4, <2>2 DEF Woken
  <2> QED
    BY <2>1, <2>2
<1>6. ASSUME NEW f \in Follower, fol[f].at # "idle"
      PROVE  fol[f].seq <= Total(ses'[fol[f].s])
  <2>1. /\ fol[f].s \in Session /\ fol[f].seq \in Nat
        /\ fol[f].seq <= Total(ses[fol[f].s])
    BY <1>4, <1>6 DEF IInv, StreamsInRange
  <2>2. Total(ses[s]) \in Nat /\ Total(y) \in Nat /\ Total(ses[s]) <= Total(y)
    BY <1>1, TotalType DEF Continues
  <2> QED
    BY <1>3, <2>1, <2>2
<1>7. StreamsInRange'
  BY <1>4, <1>6 DEF StreamsInRange, Total
<1>8. ASSUME NEW f \in Follower
      PROVE  /\ fol'[f].at \in {"over", "told"} =>
                  Over(ses'[fol'[f].s]) /\ fol'[f].seq = Total(ses'[fol'[f].s])
             /\ fol'[f].at = "parked" =>
                  ~Over(ses'[fol'[f].s]) /\ fol'[f].seq = Total(ses'[fol'[f].s])
  <2>1. CASE fol[f].at \in {"over", "told"}
    BY <1>3, <1>4, <2>1 DEF IInv, StreamsMissNothing, Continues
  <2>2. CASE fol[f].at = "parked"
    BY <1>3, <1>4, <2>2 DEF IInv, StreamsMissNothing
  <2>3. CASE fol[f].at \notin {"over", "told", "parked"}
    BY <1>4, <2>3
  <2> QED
    BY <2>1, <2>2, <2>3
<1>9. StreamsMissNothing'
  BY <1>8 DEF StreamsMissNothing, Over, Total
<1>10. Books'
  <2>1. \A r \in Session : Book(ses'[r])
    BY <1>3 DEF IInv, Books, Continues
  <2> QED
    BY <2>1 DEF Books, Book, TurnBook, LogBook, CloseBook, CancelBook
<1> QED
  BY <1>2, <1>5, <1>7, <1>9, <1>10
(* A step of one session that leaves the registry alone: who took it stays *)
(* who took it, and a close that is done stays done.                       *)
LEMMA SessionStep ==
  ASSUME IInv, NEW s \in Session, NEW y, Continues(ses[s], y),
         ses' = [ses EXCEPT ![s] = y],
         \/ fol' = Woken(s)
         \/ fol' = fol /\ Total(y) = Total(ses[s]) /\ Over(y) = Over(ses[s]),
         y.by = ses[s].by, ses[s].close = "done" => y.close = "done",
         s \in made \/ y.turns = ses[s].turns,
         UNCHANGED <<party, sessions, made, unvisited, sweeper, mgr>>,
         req' \in [Client -> RequestType],
         \A c \in Client : req'[c].at # "idle" => req'[c].s \in made
  PROVE  IInv'
<1>1. Types' /\ Books' /\ StreamsInRange' /\ StreamsMissNothing'
  BY StreamsKeepUp DEF IInv, Types
<1>2. \A r \in Session : /\ ses'[r].by = ses[r].by
                         /\ ses[r].close = "done" => ses'[r].close = "done"
                         /\ r \in made \/ ses'[r].turns = ses[r].turns
  BY DEF IInv, Types
<1>3. Registered'
  BY <1>2 DEF IInv, Registered
<1>4. Shutdown'
  BY <1>2 DEF IInv, Shutdown, Closes
<1> QED
  BY <1>1, <1>3, <1>4 DEF IInv

(* A step of one request and nothing else. *)
LEMMA RequestStep ==
  ASSUME IInv, UNCHANGED <<party, sessions, made, unvisited, sweeper, mgr, ses, fol>>,
         req' \in [Client -> RequestType],
         \A c \in Client : req'[c].at # "idle" => req'[c].s \in made
  PROVE  IInv'
<1>1. Types' /\ Registered'
  BY DEF IInv, Types, Registered
<1>2. Books' /\ Shutdown' /\ StreamsInRange' /\ StreamsMissNothing'
  BY DEF IInv, Books, Book, TurnBook, LogBook, CloseBook, CancelBook, Shutdown, Closes,
         StreamsInRange, StreamsMissNothing, Over, Total
<1> QED
  BY <1>1, <1>2 DEF IInv

(* Setting one request, to nothing or to something about a session that    *)
(* was made.                                                               *)
LEMMA RequestSet ==
  ASSUME IInv, NEW c \in Client, NEW r \in RequestType, r.at # "idle" => r.s \in made,
         req' = [req EXCEPT ![c] = r], made' = made
  PROVE  /\ req' \in [Client -> RequestType]
         /\ \A d \in Client : req'[d].at # "idle" => req'[d].s \in made
  BY DEF IInv, Types, Registered

LEMMA RequestShape ==
  ASSUME IInv, NEW c \in Client
  PROVE  /\ req[c] \in RequestType
         /\ req[c].at # "idle" => req[c].s \in Session /\ req[c].s \in made
  BY DEF IInv, Types, Registered, RequestType

(* A quiet change: nothing that the book or a stream depends on. *)
LEMMA QuietContinues ==
  ASSUME NEW x \in SessionType, Book(x), NEW y \in SessionType,
         y.state = x.state, y.turns = x.turns, y.closed = x.closed,
         y.cancel = x.cancel, y.frames = x.frames, y.base = x.base, y.pump = x.pump,
         y.by = x.by, y.close = x.close, y.queue = x.queue, y.captured = x.captured,
         x.ctxDone \subseteq y.ctxDone,
         y.question = "parked" => x.question = "parked" \/ x.queue = "open"
  PROVE  Continues(x, y) /\ Total(y) = Total(x) /\ Over(y) = Over(x)
<1>1. Book(y)
  <2>1. TurnBook(y) /\ LogBook(y) /\ CloseBook(y)
    BY DEF Book, TurnBook, LogBook, CloseBook
  <2>2. CancelBook(y)
    BY DEF Book, CancelBook, SessionType
  <2> QED
    BY <2>1, <2>2 DEF Book
<1>2. Total(y) = Total(x) /\ Over(y) = Over(x)
  BY DEF Total, Over
<1> QED
  BY <1>1, <1>2, TotalType DEF Continues
-----------------------------------------------------------------------------
(* One lemma per operation. *)

LEMMA RequestTypes ==
  /\ Idle \in RequestType
  /\ \A s \in Session, a \in {"creating", "has", "dropping", "denied", "deleting"} :
       [at |-> a, s |-> s] \in RequestType
  /\ \A s \in Session, t \in Turn : [at |-> "cancelling", s |-> s, turn |-> t] \in RequestType
  BY DEF Idle, RequestType

(* Manager.Create hands out a session that nobody used. *)
LEMMA CreateStep ==
  ASSUME IInv, NEW c \in Client, NEW s \in Session, Create(c, s)
  PROVE  IInv'
<1>1. Types'
  BY RequestTypes DEF IInv, Types, Create, RegistryFree
<1>2. Registered'
  BY RequestTypes DEF IInv, Types, Registered, Create
<1>3. Shutdown'
  BY DEF IInv, Shutdown, Closes, Create
<1>4. Books' /\ StreamsInRange' /\ StreamsMissNothing'
  BY DEF IInv, Books, Book, TurnBook, LogBook, CloseBook, CancelBook, Create,
         StreamsInRange, StreamsMissNothing, Over, Total
<1> QED
  BY <1>1, <1>2, <1>3, <1>4 DEF IInv

LEMMA GetStep ==
  ASSUME IInv, NEW c \in Client, NEW s \in Session, Get(c, s)
  PROVE  IInv'
<1>1. s \in made
  BY DEF IInv, Types, Get
<1>2. [at |-> "has", s |-> s] \in RequestType
  BY RequestTypes
<1> QED
  BY <1>1, <1>2, RequestSet, RequestStep DEF Get

(* Session.Send, of a session the client looked up some time ago. *)
LEMMA SendOrStep ==
  ASSUME IInv, NEW c \in Client, NEW s \in Session, s \in made,
         NEW r \in RequestType, r.at # "idle" => r.s \in made, SendOr(c, s, r)
  PROVE  IInv'
<1>1. CASE Refuses(ses[s])
  BY <1>1, RequestSet, RequestStep DEF SendOr
<1>2. CASE ~Refuses(ses[s])
  <2> DEFINE x == ses[s]
             y == StartTurn(x)
  <2>1. x \in SessionType /\ Book(x) /\ x.turns < MaxTurns /\ ~Refuses(x)
    BY <1>2 DEF SendOr, IInv, Types, Books
  <2>2. /\ Continues(x, y) /\ Total(y) # Total(x)
        /\ y.by = x.by /\ y.close = x.close
    BY <2>1, StartTurnContinues
  <2> HIDE DEF x, y
  <2>3. ses' = [ses EXCEPT ![s] = y]
    BY <1>2 DEF SendOr, Becomes, x, y
  <2>4. fol' = Woken(s)
    <3>1. Total(y) > Total(x)
      <4>1. y \in SessionType /\ Total(x) <= Total(y)
        BY <2>2 DEF Continues
      <4> QED
        BY <2>1, <2>2, <4>1, TotalType
    <3> QED
      BY <1>2, <3>1 DEF SendOr, Becomes, x, y
  <2>5. Idle \in RequestType /\ Idle.at = "idle"
    BY RequestTypes DEF Idle
  <2>6. req' = [req EXCEPT ![c] = Idle] /\ UNCHANGED <<party, sessions, made, unvisited, sweeper, mgr>>
    BY <1>2 DEF SendOr
  <2>7. /\ req' \in [Client -> RequestType]
        /\ \A d \in Client : req'[d].at # "idle" => req'[d].s \in made
    BY <2>5, <2>6, RequestSet
  <2> QED
    BY <2>2, <2>3, <2>4, <2>6, <2>7, SessionStep DEF x
<1> QED
  BY <1>1, <1>2

LEMMA SendStep ==
  ASSUME IInv, NEW c \in Client, FirstSend(c) \/ Send(c)
  PROVE  IInv'
<1>1. CASE FirstSend(c)
  <2> DEFINE r == [req[c] EXCEPT !.at = "dropping"]
  <2>1. req[c] \in RequestType /\ req[c].at = "creating" /\ req[c].s \in Session /\ req[c].s \in made
    BY <1>1, RequestShape DEF FirstSend
  <2>2. r = [at |-> "dropping", s |-> req[c].s]
    BY <2>1 DEF RequestType
  <2>3. r \in RequestType /\ r.s \in made
    BY <2>1, <2>2, RequestTypes
  <2> QED
    BY <1>1, <2>1, <2>3, SendOrStep DEF FirstSend
<1>2. CASE Send(c)
  <2>1. req[c].s \in Session /\ req[c].s \in made
    BY <1>2, RequestShape DEF Send
  <2>2. Idle \in RequestType /\ Idle.at = "idle"
    BY RequestTypes DEF Idle
  <2> QED
    BY <1>2, <2>1, <2>2, SendOrStep DEF Send
<1> QED
  BY <1>1, <1>2

(* Cancel and Resolve settle a question or end a context: the book of the  *)
(* turn is the pump's to write.                                            *)
LEMMA CancelOrResolveStep ==
  ASSUME IInv, NEW c \in Client,
         CancelDeny(c) \/ CancelRead(c) \/ CancelCall(c) \/ Resolve(c)
  PROVE  IInv'
<1> DEFINE s == req[c].s
           x == ses[s]
<1>1. /\ req[c] \in RequestType /\ s \in Session /\ s \in made
      /\ req[c].at \in {"has", "denied", "cancelling"}
      /\ Idle \in RequestType /\ Idle.at = "idle"
  BY RequestShape, RequestTypes DEF CancelDeny, CancelRead, CancelCall, Resolve, Idle
<1>2. x \in SessionType /\ Book(x)
  BY <1>1 DEF IInv, Types, Books
<1>3. CASE CancelDeny(c) \/ Resolve(c)
  <2> DEFINE y == Released(x)
  <2>1. y \in SessionType
    BY <1>2 DEF Released, SessionType
  <2>2. /\ Continues(x, y) /\ Total(y) = Total(x) /\ Over(y) = Over(x)
        /\ y.by = x.by /\ y.close = x.close /\ y.turns = x.turns
    <3>1. /\ y.state = x.state /\ y.turns = x.turns /\ y.closed = x.closed
          /\ y.cancel = x.cancel /\ y.frames = x.frames /\ y.base = x.base /\ y.pump = x.pump
          /\ y.by = x.by /\ y.close = x.close /\ y.queue = x.queue
          /\ y.captured = x.captured /\ y.ctxDone = x.ctxDone /\ y.question # "parked"
      BY <1>2 DEF Released, SessionType
    <3> HIDE DEF x, y
    <3> QED
      BY <1>2, <2>1, <3>1, QuietContinues
  <2>3. PICK r \in RequestType : req' = [req EXCEPT ![c] = r] /\ (r.at # "idle" => r.s \in made)
    <3>1. CASE CancelDeny(c)
      <4>1. [req[c] EXCEPT !.at = "denied"] = [at |-> "denied", s |-> s]
        BY <1>1, <3>1 DEF CancelDeny, RequestType
      <4>2. req' = [req EXCEPT ![c] = [at |-> "denied", s |-> s]]
        BY <3>1, <4>1 DEF CancelDeny
      <4> QED
        BY <1>1, <4>2, RequestTypes
    <3>2. CASE Resolve(c)
      BY <1>1, <3>2 DEF Resolve
    <3> QED
      BY <1>3, <3>1, <3>2
  <2>4. ses' = [ses EXCEPT ![s] = y] /\ UNCHANGED <<party, sessions, made, unvisited, sweeper, mgr, fol>>
    BY <1>3 DEF CancelDeny, Resolve
  <2>5. /\ req' \in [Client -> RequestType]
        /\ \A d \in Client : req'[d].at # "idle" => req'[d].s \in made
    BY <2>3, <2>4, RequestSet
  <2> HIDE DEF y
  <2> QED
    BY <1>1, <2>2, <2>4, <2>5, SessionStep
<1>4. CASE CancelRead(c)
  <2> DEFINE t == x.cancel
             r == IF t = NoTurn THEN Idle ELSE [at |-> "cancelling", s |-> s, turn |-> t]
  <2>1. t # NoTurn => t \in Turn
    BY <1>2 DEF SessionType, Turn, NoTurn
  <2>2. r \in RequestType /\ (r.at # "idle" => r.s \in made)
    BY <1>1, <2>1, RequestTypes
  <2>3. req' = [req EXCEPT ![c] = r] /\ UNCHANGED <<party, sessions, made, unvisited, sweeper, mgr, ses, fol>>
    BY <1>4 DEF CancelRead, IInv, Types
  <2> QED
    BY <2>2, <2>3, RequestSet, RequestStep
<1>5. CASE CancelCall(c)
  <2> DEFINE y == [x EXCEPT !.ctxDone = @ \cup {req[c].turn}]
  <2>1. req[c].turn \in Turn
    BY <1>1, <1>5 DEF CancelCall, RequestType
  <2>2. y \in SessionType
    BY <1>2, <2>1 DEF SessionType
  <2>3. /\ Continues(x, y) /\ Total(y) = Total(x) /\ Over(y) = Over(x)
        /\ y.by = x.by /\ y.close = x.close /\ y.turns = x.turns
    <3>1. /\ y.state = x.state /\ y.turns = x.turns /\ y.closed = x.closed
          /\ y.cancel = x.cancel /\ y.frames = x.frames /\ y.base = x.base /\ y.pump = x.pump
          /\ y.by = x.by /\ y.close = x.close /\ y.queue = x.queue
          /\ y.captured = x.captured /\ x.ctxDone \subseteq y.ctxDone
          /\ y.question = x.question
      BY <1>2 DEF SessionType
    <3> HIDE DEF x, y
    <3> QED
      BY <1>2, <2>2, <3>1, QuietContinues
  <2>4. /\ ses' = [ses EXCEPT ![s] = y] /\ req' = [req EXCEPT ![c] = Idle]
        /\ UNCHANGED <<party, sessions, made, unvisited, sweeper, mgr, fol>>
    BY <1>5 DEF CancelCall
  <2>5. /\ req' \in [Client -> RequestType]
        /\ \A d \in Client : req'[d].at # "idle" => req'[d].s \in made
    BY <1>1, <2>4, RequestSet
  <2> HIDE DEF y
  <2> QED
    BY <1>1, <2>3, <2>4, <2>5, SessionStep
<1> QED
  BY <1>3, <1>4, <1>5
(* A session is taken from the registry by whoever will close it: the      *)
(* change of owner is all that happens to it in that critical section.     *)
Taken(x, o) == [x EXCEPT !.by = o, !.close = "owed"]

LEMMA TakenContinues ==
  ASSUME NEW x \in SessionType, Book(x), x.by = "nobody",
         NEW o \in Client \cup {"sweeper", "manager"}
  PROVE  LET y == Taken(x, o)
         IN  /\ Continues(x, y) /\ Total(y) = Total(x) /\ Over(y) = Over(x)
             /\ y.by = o /\ y.by # "nobody" /\ y.close = "owed" /\ y.turns = x.turns
<1> DEFINE y == Taken(x, o)
<1>1. o # "nobody"
  BY OwnersAssumption
<1>2. y \in SessionType
  BY DEF Taken, SessionType
<1>3. /\ y.state = x.state /\ y.turns = x.turns /\ y.closed = x.closed
      /\ y.cancel = x.cancel /\ y.frames = x.frames /\ y.base = x.base
      /\ y.pump = x.pump /\ y.by = o /\ y.close = "owed"
      /\ y.queue = x.queue /\ y.question = x.question
  BY DEF Taken, SessionType
<1> HIDE DEF y
<1>4. Total(y) = Total(x) /\ Over(y) = Over(x)
  BY <1>3 DEF Total, Over
<1>5. TurnBook(y) /\ LogBook(y)
  BY <1>3 DEF Book, TurnBook, LogBook
<1>6. CloseBook(y) /\ CancelBook(y)
  <2>1. x.close = "no" /\ x.closed = FALSE
    BY DEF Book, CloseBook, SessionType
  <2> QED
    BY <1>1, <1>3, <2>1 DEF Book, CloseBook, CancelBook
<1> QED
  BY <1>1, <1>2, <1>3, <1>4, <1>5, <1>6, TotalType DEF Continues, Book, y

LEMMA TakeStep ==
  ASSUME IInv, NEW s \in sessions, NEW o \in Client \cup {"sweeper", "manager"},
         sessions' = sessions \ {s}, unvisited' \subseteq sessions',
         ses' = [ses EXCEPT ![s] = Taken(ses[s], o)],
         UNCHANGED <<party, made, sweeper, mgr, fol>>,
         req' \in [Client -> RequestType],
         \A c \in Client : req'[c].at # "idle" => req'[c].s \in made
  PROVE  IInv'
<1> DEFINE x == ses[s]
           y == Taken(x, o)
<1>1. s \in Session /\ x \in SessionType /\ Book(x) /\ x.by = "nobody" /\ s \in made
  BY DEF IInv, Types, Books, Registered
<1>2. /\ Continues(x, y) /\ Total(y) = Total(x) /\ Over(y) = Over(x)
      /\ y.by = o /\ y.by # "nobody" /\ y.close = "owed" /\ y.turns = x.turns
  BY <1>1, TakenContinues
<1> HIDE DEF y
<1>3. ses' = [ses EXCEPT ![s] = y]
  BY DEF y
<1>4. Types' /\ Books' /\ StreamsInRange' /\ StreamsMissNothing'
  <2>1. /\ ses' \in [Session -> SessionType] /\ fol' \in [Follower -> StreamType]
        /\ Books' /\ StreamsInRange' /\ StreamsMissNothing'
    BY <1>1, <1>2, <1>3, StreamsKeepUp
  <2> QED
    BY <2>1 DEF IInv, Types
<1>5. \A r \in Session : ses'[r] = IF r = s THEN y ELSE ses[r]
  BY <1>3 DEF IInv, Types
<1>6. Registered'
  BY <1>1, <1>2, <1>5 DEF IInv, Registered
<1>7. mgr = "open"
  BY DEF IInv, Shutdown
<1>8. Shutdown'
  BY <1>7 DEF IInv, Shutdown, Types
<1> QED
  BY <1>4, <1>6, <1>8 DEF IInv

(* Manager.Delete, and the wait for the close it owes. *)
LEMMA DeleteStep ==
  ASSUME IInv, NEW c \in Client,
         (\E s \in Session : Delete(c, s)) \/ DeleteMisses(c) \/ DeleteReturns(c)
  PROVE  IInv'
<1>1. CASE \E s \in Session : Delete(c, s)
  <2>1. PICK s \in Session : Delete(c, s)
    BY <1>1
  <2>2. s \in made /\ [at |-> "deleting", s |-> s] \in RequestType
    BY <2>1, RequestTypes DEF IInv, Types, Delete
  <2>3. /\ req' \in [Client -> RequestType]
        /\ \A d \in Client : req'[d].at # "idle" => req'[d].s \in made
    BY <2>1, <2>2, RequestSet DEF Delete
  <2>4. ses' = [ses EXCEPT ![s] = Taken(ses[s], c)]
    BY <2>1 DEF Delete, Taken
  <2>5. unvisited' \subseteq sessions'
    BY <2>1 DEF Delete, RegistryFree
  <2> QED
    BY <2>1, <2>3, <2>4, <2>5, TakeStep DEF Delete
<1>2. CASE DeleteMisses(c) \/ DeleteReturns(c)
  <2>1. Idle \in RequestType /\ Idle.at = "idle"
    BY RequestTypes DEF Idle
  <2> QED
    BY <1>2, <2>1, RequestSet, RequestStep DEF DeleteMisses, DeleteReturns
<1> QED
  BY <1>1, <1>2

(* The reaper's walk holds the registry, so what it has not visited cannot *)
(* leave under it.                                                         *)
LEMMA ReaperStep ==
  ASSUME IInv, ReapBegin \/ (\E s \in Session : ReapVisit(s)) \/ SweepStops
  PROVE  IInv'
<1>1. CASE ReapBegin
  <2>1. Types' /\ Registered' /\ Shutdown'
    BY <1>1 DEF IInv, Types, Registered, Shutdown, Closes, ReapBegin
  <2>2. Books' /\ StreamsInRange' /\ StreamsMissNothing'
    BY <1>1 DEF IInv, Books, Book, TurnBook, LogBook, CloseBook, CancelBook, ReapBegin,
                StreamsInRange, StreamsMissNothing, Over, Total
  <2> QED
    BY <2>1, <2>2 DEF IInv
<1>2. CASE \E s \in Session : ReapVisit(s)
  <2>1. PICK s \in Session : ReapVisit(s)
    BY <1>2
  <2>2. s \in sessions /\ unvisited \subseteq sessions
    BY <2>1 DEF IInv, Types, ReapVisit
  <2>3. CASE UNCHANGED <<sessions, ses>>
    <3>1. Types' /\ Registered' /\ Shutdown'
      BY <2>1, <2>3 DEF IInv, Types, Registered, Shutdown, Closes, ReapVisit
    <3>2. Books' /\ StreamsInRange' /\ StreamsMissNothing'
      BY <2>1, <2>3 DEF IInv, Books, Book, TurnBook, LogBook, CloseBook, CancelBook, ReapVisit,
                        StreamsInRange, StreamsMissNothing, Over, Total
    <3> QED
      BY <3>1, <3>2 DEF IInv
  <2>4. CASE sessions' = sessions \ {s} /\ ses' = [ses EXCEPT ![s].by = "sweeper", ![s].close = "owed"]
    <3>1. ses' = [ses EXCEPT ![s] = Taken(ses[s], "sweeper")]
      BY <2>4 DEF Taken
    <3>2. /\ req' \in [Client -> RequestType]
          /\ \A c \in Client : req'[c].at # "idle" => req'[c].s \in made
      BY <2>1 DEF ReapVisit, IInv, Types, Registered
    <3>3. unvisited' \subseteq sessions'
      BY <2>1, <2>2, <2>4 DEF ReapVisit
    <3> QED
      BY <2>1, <2>2, <2>4, <3>1, <3>2, <3>3, TakeStep DEF ReapVisit
  <2> QED
    BY <2>1, <2>3, <2>4 DEF ReapVisit
<1>3. CASE SweepStops
  <2>1. Types' /\ Registered' /\ Shutdown'
    BY <1>3 DEF IInv, Types, Registered, Shutdown, Closes, SweepStops
  <2>2. Books' /\ StreamsInRange' /\ StreamsMissNothing'
    BY <1>3 DEF IInv, Books, Book, TurnBook, LogBook, CloseBook, CancelBook, SweepStops,
                StreamsInRange, StreamsMissNothing, Over, Total
  <2> QED
    BY <2>1, <2>2 DEF IInv
<1> QED
  BY <1>1, <1>2, <1>3
(* Manager.Close takes every session at once, and from then on only waits. *)
LEMMA CloseBeginsStep ==
  ASSUME IInv, CloseBegins
  PROVE  IInv'
<1>1. ASSUME NEW s \in Session
      PROVE  /\ ses'[s] \in SessionType /\ Book(ses'[s])
             /\ Total(ses'[s]) = Total(ses[s]) /\ Over(ses'[s]) = Over(ses[s])
             /\ ses'[s].turns = ses[s].turns
             /\ s \notin sessions => ses'[s] = ses[s]
             /\ s \in sessions => ses'[s].by = "manager"
  <2>1. ses[s] \in SessionType /\ Book(ses[s]) /\ (s \in sessions => ses[s].by = "nobody")
    BY DEF IInv, Types, Books, Registered
  <2>2. CASE s \in sessions
    <3>1. ses'[s] = Taken(ses[s], "manager")
      BY <2>2 DEF CloseBegins, Taken
    <3> QED
      BY <2>1, <2>2, <3>1, TakenContinues DEF Continues
  <2>3. CASE s \notin sessions
    BY <2>1, <2>3 DEF CloseBegins
  <2> QED
    BY <2>2, <2>3
<1>2. Types'
  <2>1. ses' \in [Session -> SessionType]
    BY <1>1 DEF CloseBegins
  <2> QED
    BY <2>1 DEF IInv, Types, CloseBegins, RegistryFree
<1>3. Books'
  <2>1. \A s \in Session : Book(ses'[s])
    BY <1>1
  <2> QED
    BY <2>1 DEF Books, Book, TurnBook, LogBook, CloseBook, CancelBook
<1>4. Registered'
  <2>1. sessions \subseteq made /\ sessions' = {} /\ made' = made /\ req' = req
    BY DEF IInv, Types, CloseBegins
  <2> QED
    BY <1>1, <2>1 DEF IInv, Registered
<1>5. Shutdown'
  BY DEF IInv, Shutdown, CloseBegins
<1>6. StreamsInRange' /\ StreamsMissNothing'
  <2>1. fol' = fol
    BY DEF CloseBegins
  <2>2. \A f \in Follower : fol[f].at # "idle" =>
          /\ fol[f].s \in Session
          /\ Total(ses'[fol[f].s]) = Total(ses[fol[f].s])
          /\ Over(ses'[fol[f].s]) = Over(ses[fol[f].s])
    BY <1>1 DEF IInv, Types, StreamType
  <2>3. \A f \in Follower : fol[f].at # "idle" => fol[f].seq <= Total(ses'[fol[f].s])
    BY <2>2 DEF IInv, StreamsInRange
  <2>4. \A f \in Follower :
          /\ fol[f].at \in {"over", "told"} =>
               Over(ses'[fol[f].s]) /\ fol[f].seq = Total(ses'[fol[f].s])
          /\ fol[f].at = "parked" =>
               ~Over(ses'[fol[f].s]) /\ fol[f].seq = Total(ses'[fol[f].s])
    BY <2>2 DEF IInv, StreamsMissNothing
  <2> QED
    BY <2>1, <2>3, <2>4 DEF StreamsInRange, StreamsMissNothing, Total, Over
<1> QED
  BY <1>2, <1>3, <1>4, <1>5, <1>6 DEF IInv

LEMMA ManagerStep ==
  ASSUME IInv, CloseBegins \/ CloseSwept \/ CloseReturns
  PROVE  IInv'
<1>1. CASE CloseSwept \/ CloseReturns
  <2>1. Types' /\ Registered' /\ Shutdown'
    BY <1>1 DEF IInv, Types, Registered, Shutdown, Closes, CloseSwept, CloseReturns
  <2>2. Books' /\ StreamsInRange' /\ StreamsMissNothing'
    BY <1>1 DEF IInv, Books, Book, TurnBook, LogBook, CloseBook, CancelBook, CloseSwept, CloseReturns,
                StreamsInRange, StreamsMissNothing, Over, Total
  <2> QED
    BY <2>1, <2>2 DEF IInv
<1> QED
  BY <1>1, CloseBeginsStep

(* Session.close: the mark goes up with the turn to cancel in hand, and    *)
(* the wait ends when no run and no pump is left.                          *)
LEMMA CloseStep ==
  ASSUME IInv, NEW s \in Session, CloseSteps(s)
  PROVE  IInv'
<1> DEFINE x == ses[s]
<1>1. x \in SessionType /\ Book(x) /\ Total(x) \in Nat
  BY TotalType DEF IInv, Types, Books
<1>2. UNCHANGED <<party, sessions, made, unvisited, sweeper, mgr, req>>
  BY DEF CloseSteps, CloseQueue, CloseMark, CloseCancel, CloseWaited, Step
<1>3. /\ req' \in [Client -> RequestType]
      /\ \A c \in Client : req'[c].at # "idle" => req'[c].s \in made
  BY <1>2 DEF IInv, Types, Registered
<1>4. ASSUME NEW y \in SessionType,
             /\ y.state = x.state /\ y.turns = x.turns /\ y.cancel = x.cancel
             /\ y.frames = x.frames /\ y.base = x.base /\ y.pump = x.pump /\ y.by = x.by,
             x.closed => y.closed, CloseBook(y) /\ CancelBook(y), x.close = "done" => y.close = "done",
             ses' = [ses EXCEPT ![s] = y],
             fol' = Woken(s) \/ (fol' = fol /\ y.closed = x.closed)
      PROVE  IInv'
  <2>1. Total(y) = Total(x) /\ (Over(x) => Over(y)) /\ (y.closed = x.closed => Over(y) = Over(x))
    BY <1>4 DEF Total, Over
  <2>2. TurnBook(y) /\ LogBook(y)
    BY <1>1, <1>4 DEF Book, TurnBook, LogBook
  <2>3. Continues(x, y)
    BY <1>1, <1>4, <2>1, <2>2 DEF Continues, Book
  <2> QED
    BY <1>2, <1>3, <1>4, <2>1, <2>3, SessionStep
<1>5. CASE CloseQueue(s)
  <2> DEFINE y == [Released(x) EXCEPT !.queue = "closed", !.close = "shut"]
  <2>1. y \in SessionType
    BY <1>1 DEF SessionType, Released
  <2>2. /\ y.state = x.state /\ y.turns = x.turns /\ y.cancel = x.cancel /\ y.frames = x.frames
        /\ y.base = x.base /\ y.pump = x.pump /\ y.by = x.by /\ y.closed = x.closed
        /\ y.close = "shut" /\ x.close = "owed" /\ y.queue = "closed" /\ y.question # "parked"
    BY <1>1, <1>5 DEF SessionType, Released, CloseQueue, Step
  <2>3. ses' = [ses EXCEPT ![s] = y] /\ fol' = fol
    BY <1>5 DEF CloseQueue, Step
  <2> HIDE DEF y
  <2>4. CloseBook(y) /\ CancelBook(y)
    BY <1>1, <2>2 DEF Book, TurnBook, CloseBook, CancelBook
  <2> QED
    BY <1>4, <2>1, <2>2, <2>3, <2>4
<1>6. CASE CloseMark(s)
  <2> DEFINE y == [x EXCEPT !.captured = x.cancel, !.closed = TRUE, !.close = "marked"]
  <2>1. y \in SessionType
    BY <1>1 DEF SessionType
  <2>2. /\ y.state = x.state /\ y.turns = x.turns /\ y.cancel = x.cancel /\ y.frames = x.frames
        /\ y.base = x.base /\ y.pump = x.pump /\ y.by = x.by /\ y.closed = TRUE
        /\ y.close = "marked" /\ x.close = "shut" /\ y.queue = x.queue
        /\ y.question = x.question /\ y.captured = x.cancel
    BY <1>1, <1>6 DEF SessionType, CloseMark, Step
  <2>3. ses' = [ses EXCEPT ![s] = y] /\ fol' = Woken(s)
    BY <1>6 DEF CloseMark, Step
  <2> HIDE DEF y
  <2>4. CloseBook(y) /\ CancelBook(y)
    BY <1>1, <2>2 DEF Book, TurnBook, CloseBook, CancelBook
  <2> QED
    BY <1>4, <2>1, <2>2, <2>3, <2>4
<1>7. CASE CloseCancel(s)
  <2> DEFINE y == [x EXCEPT !.ctxDone = @ \cup ({x.captured} \ {NoTurn}), !.close = "waiting"]
  <2>1. y \in SessionType
    <3>1. {x.captured} \ {NoTurn} \subseteq Turn
      BY <1>1 DEF SessionType, Turn, NoTurn
    <3> QED
      BY <1>1, <3>1 DEF SessionType
  <2>2. /\ y.state = x.state /\ y.turns = x.turns /\ y.cancel = x.cancel /\ y.frames = x.frames
        /\ y.base = x.base /\ y.pump = x.pump /\ y.by = x.by /\ y.closed = x.closed
        /\ y.close = "waiting" /\ x.close = "marked" /\ y.queue = x.queue
        /\ y.question = x.question /\ y.ctxDone = x.ctxDone \cup ({x.captured} \ {NoTurn})
    BY <1>1, <1>7 DEF SessionType, CloseCancel, Step
  <2>3. ses' = [ses EXCEPT ![s] = y] /\ fol' = fol
    BY <1>7 DEF CloseCancel, Step
  <2> HIDE DEF y
  <2>4. CloseBook(y) /\ CancelBook(y)
    BY <1>1, <2>2 DEF Book, TurnBook, CloseBook, CancelBook
  <2> QED
    BY <1>4, <2>1, <2>2, <2>3, <2>4
<1>8. CASE CloseWaited(s)
  <2> DEFINE y == [x EXCEPT !.close = "done"]
  <2>1. y \in SessionType
    BY <1>1 DEF SessionType
  <2>2. /\ y.state = x.state /\ y.turns = x.turns /\ y.cancel = x.cancel /\ y.frames = x.frames
        /\ y.base = x.base /\ y.pump = x.pump /\ y.by = x.by /\ y.closed = x.closed
        /\ y.close = "done" /\ x.close = "waiting" /\ y.queue = x.queue
        /\ y.question = x.question /\ y.ctxDone = x.ctxDone
        /\ \A t \in Turn : x.pump[t] \in {"none", "gone"}
    BY <1>1, <1>8 DEF SessionType, CloseWaited, Step
  <2>3. ses' = [ses EXCEPT ![s] = y] /\ fol' = fol
    BY <1>8 DEF CloseWaited, Step
  <2> HIDE DEF y
  <2>4. CloseBook(y) /\ CancelBook(y)
    BY <1>1, <2>2 DEF Book, TurnBook, CloseBook, CancelBook
  <2> QED
    BY <1>4, <2>1, <2>2, <2>3, <2>4
<1> QED
  BY <1>5, <1>6, <1>7, <1>8 DEF CloseSteps
(* The run of a turn and its pump, whose turn is the one the session holds *)
(* the cancel of.                                                          *)
LEMMA PumpStep ==
  ASSUME IInv, NEW s \in Session, NEW t \in Turn,
         \/ PumpAppend(s, t) \/ Park(s, t) \/ Unpark(s, t) \/ Abort(s, t)
         \/ PumpExit(s, t) \/ \E e \in TurnEnds : PumpEnd(s, t, e)
  PROVE  IInv'
<1> DEFINE x == ses[s]
<1>1. x \in SessionType /\ Book(x) /\ Total(x) \in Nat
  BY TotalType DEF IInv, Types, Books
<1>2. UNCHANGED <<party, sessions, made, unvisited, sweeper, mgr, req>>
  BY DEF PumpAppend, Park, Unpark, Abort, PumpExit, PumpEnd
<1>3. /\ req' \in [Client -> RequestType]
      /\ \A c \in Client : req'[c].at # "idle" => req'[c].s \in made
  BY <1>2 DEF IInv, Types, Registered
<1>4. ASSUME NEW y, Continues(x, y), y.by = x.by, y.close = x.close, y.turns = x.turns,
             Total(y) = Total(x) => Over(y) = Over(x), Becomes(s, y)
      PROVE  IInv'
  <2>1. Total(y) \in Nat /\ Total(x) <= Total(y)
    BY <1>4, TotalType DEF Continues
  <2>2. ses' = [ses EXCEPT ![s] = y]
    BY <1>4 DEF Becomes
  <2>3. fol' = Woken(s) \/ (fol' = fol /\ Total(y) = Total(x) /\ Over(y) = Over(x))
    BY <1>1, <1>4, <2>1 DEF Becomes
  <2> QED
    BY <1>2, <1>3, <1>4, <2>2, <2>3, SessionStep
<1>5. ASSUME NEW y \in SessionType,
             y.state = x.state, y.turns = x.turns, y.closed = x.closed,
             y.cancel = x.cancel, y.frames = x.frames, y.base = x.base, y.pump = x.pump,
             y.by = x.by, y.close = x.close, y.queue = x.queue, y.captured = x.captured,
             x.ctxDone \subseteq y.ctxDone,
             y.question = "parked" => x.question = "parked" \/ x.queue = "open",
             ses' = [ses EXCEPT ![s] = y], fol' = fol
      PROVE  IInv'
  <2>1. Continues(x, y) /\ Total(y) = Total(x) /\ Over(y) = Over(x)
    BY <1>1, <1>5, QuietContinues
  <2> QED
    BY <1>2, <1>3, <1>5, <2>1, SessionStep
<1>6. CASE PumpAppend(s, t)
  <2> DEFINE y == Emit(x, t, "event")
  <2>1. /\ Continues(x, y) /\ y.by = x.by /\ y.close = x.close /\ y.turns = x.turns
        /\ (Total(y) = Total(x) => y = x)
    BY <1>1, <1>6, PumpAppendContinues DEF PumpAppend
  <2>2. Becomes(s, y)
    BY <1>6 DEF PumpAppend
  <2> HIDE DEF y
  <2> QED
    BY <1>4, <2>1, <2>2
<1>7. CASE \E e \in TurnEnds : PumpEnd(s, t, e)
  <2>1. PICK e \in TurnEnds : PumpEnd(s, t, e)
    BY <1>7
  <2> DEFINE y == Emit([x EXCEPT !.state = e, !.cancel = NoTurn,
                                 !.pump[t] = "recorded", !.question = "none"],
                       t, "ended")
  <2>2. /\ Continues(x, y) /\ y.by = x.by /\ y.close = x.close /\ y.turns = x.turns
        /\ (Total(y) = Total(x) => Over(x))
    BY <1>1, <2>1, PumpEndContinues DEF PumpEnd
  <2>3. Becomes(s, y)
    BY <2>1 DEF PumpEnd
  <2> HIDE DEF y
  <2>4. Total(y) = Total(x) => Over(y) = Over(x)
    BY <2>2 DEF Continues, Over
  <2> QED
    BY <1>4, <2>2, <2>3, <2>4
<1>8. CASE Park(s, t)
  <2> DEFINE y == [x EXCEPT !.question = "parked"]
  <2>1. /\ y \in SessionType
        /\ y.state = x.state /\ y.turns = x.turns /\ y.closed = x.closed
        /\ y.cancel = x.cancel /\ y.frames = x.frames /\ y.base = x.base /\ y.pump = x.pump
        /\ y.by = x.by /\ y.close = x.close /\ y.queue = x.queue
        /\ y.captured = x.captured /\ y.ctxDone = x.ctxDone
    BY <1>1 DEF SessionType
  <2>2. ses' = [ses EXCEPT ![s] = y] /\ fol' = fol /\ x.queue = "open"
    BY <1>8 DEF Park
  <2> HIDE DEF x, y
  <2> QED
    BY <1>5, <2>1, <2>2
<1>9. CASE Unpark(s, t)
  <2> DEFINE y == Released(x)
  <2>1. /\ y \in SessionType
        /\ y.state = x.state /\ y.turns = x.turns /\ y.closed = x.closed
        /\ y.cancel = x.cancel /\ y.frames = x.frames /\ y.base = x.base /\ y.pump = x.pump
        /\ y.by = x.by /\ y.close = x.close /\ y.queue = x.queue
        /\ y.captured = x.captured /\ y.ctxDone = x.ctxDone /\ y.question # "parked"
    BY <1>1 DEF SessionType, Released
  <2>2. ses' = [ses EXCEPT ![s] = y] /\ fol' = fol
    BY <1>9 DEF Unpark
  <2> HIDE DEF x, y
  <2> QED
    BY <1>5, <2>1, <2>2
<1>10. CASE Abort(s, t)
  <2> DEFINE y == [x EXCEPT !.ctxDone = @ \cup {t}]
  <2>1. /\ y \in SessionType
        /\ y.state = x.state /\ y.turns = x.turns /\ y.closed = x.closed
        /\ y.cancel = x.cancel /\ y.frames = x.frames /\ y.base = x.base /\ y.pump = x.pump
        /\ y.by = x.by /\ y.close = x.close /\ y.queue = x.queue
        /\ y.captured = x.captured /\ x.ctxDone \subseteq y.ctxDone /\ y.question = x.question
    BY <1>1 DEF SessionType
  <2>2. ses' = [ses EXCEPT ![s] = y] /\ fol' = fol
    BY <1>10 DEF Abort
  <2> HIDE DEF x, y
  <2> QED
    BY <1>5, <2>1, <2>2
<1>11. CASE PumpExit(s, t)
  <2> DEFINE y == [x EXCEPT !.pump[t] = "gone", !.ctxDone = @ \cup {t}]
  <2>1. [x.pump EXCEPT ![t] = "gone"] \in [Turn -> {"none", "run", "recorded", "gone"}]
    BY <1>1 DEF SessionType
  <2>2. y \in SessionType
    BY <1>1, <2>1 DEF SessionType
  <2>3. /\ y.state = x.state /\ y.turns = x.turns /\ y.closed = x.closed
        /\ y.cancel = x.cancel /\ y.frames = x.frames /\ y.base = x.base
        /\ y.by = x.by /\ y.close = x.close /\ y.queue = x.queue
        /\ y.captured = x.captured /\ x.ctxDone \subseteq y.ctxDone /\ y.question = x.question
        /\ \A u \in Turn : y.pump[u] = IF u = t THEN "gone" ELSE x.pump[u]
    BY <1>1 DEF SessionType
  <2>4. ses' = [ses EXCEPT ![s] = y] /\ fol' = fol /\ x.pump[t] = "recorded"
    BY <1>11 DEF PumpExit
  <2> HIDE DEF y
  <2>5. Total(y) = Total(x) /\ Over(y) = Over(x)
    BY <2>3 DEF Total, Over
  <2>6. TurnBook(y)
    BY <1>1, <2>3, <2>4 DEF Book, TurnBook
  <2>7. LogBook(y) /\ CloseBook(y) /\ CancelBook(y)
    BY <1>1, <2>3 DEF Book, LogBook, CloseBook, CancelBook
  <2>8. Continues(x, y)
    BY <1>1, <2>2, <2>5, <2>6, <2>7 DEF Continues, Book
  <2> QED
    BY <1>2, <1>3, <2>3, <2>4, <2>5, <2>8, SessionStep
<1> QED
  BY <1>6, <1>7, <1>8, <1>9, <1>10, <1>11

(* A stream's own steps: it is over only when it has read to the end, and  *)
(* parks only when there is nothing to read and no end to tell.            *)
LEMMA StreamStep ==
  ASSUME IInv, NEW f \in Follower,
         (\E s \in Session : Open(f, s)) \/ Reconnect(f) \/ Look(f) \/ Disconnect(f) \/ SendEnd(f)
  PROVE  IInv'
<1>1. UNCHANGED <<party, sessions, made, unvisited, sweeper, mgr, ses, req>>
  BY DEF Open, Reconnect, Look, Disconnect, SendEnd
<1>2. Books' /\ Registered' /\ Shutdown'
  BY <1>1 DEF IInv, Books, Book, TurnBook, LogBook, CloseBook, CancelBook,
              Registered, Shutdown, Closes
<1>3. fol \in [Follower -> StreamType] /\ ses \in [Session -> SessionType]
  BY DEF IInv, Types
<1>4. ASSUME NEW r \in StreamType, fol' = [fol EXCEPT ![f] = r], r.at # "idle",
             r.seq <= Total(ses[r.s]),
             r.at \in {"over", "told"} => Over(ses[r.s]) /\ r.seq = Total(ses[r.s]),
             r.at = "parked" => ~Over(ses[r.s]) /\ r.seq = Total(ses[r.s])
      PROVE  IInv'
  <2>1. Types'
    BY <1>1, <1>4 DEF IInv, Types
  <2>2. \A g \in Follower : fol'[g] = IF g = f THEN r ELSE fol[g]
    BY <1>3, <1>4
  <2>3. StreamsInRange'
    BY <1>1, <1>4, <2>2 DEF IInv, StreamsInRange, Total
  <2>4. \A g \in Follower :
          /\ fol'[g].at \in {"over", "told"} =>
               Over(ses[fol'[g].s]) /\ fol'[g].seq = Total(ses[fol'[g].s])
          /\ fol'[g].at = "parked" =>
               ~Over(ses[fol'[g].s]) /\ fol'[g].seq = Total(ses[fol'[g].s])
    BY <1>4, <2>2 DEF IInv, StreamsMissNothing
  <2>5. StreamsMissNothing'
    BY <1>1, <2>4 DEF StreamsMissNothing, Over, Total
  <2> QED
    BY <1>2, <2>1, <2>3, <2>5 DEF IInv
<1>5. CASE \E s \in Session : Open(f, s)
  <2>1. PICK s \in Session : Open(f, s)
    BY <1>5
  <2> DEFINE r == [at |-> "look", s |-> s, seq |-> 0]
  <2>2. r \in StreamType /\ r.at = "look" /\ r.s = s /\ r.seq = 0
    BY DEF StreamType
  <2>3. fol' = [fol EXCEPT ![f] = r]
    BY <2>1 DEF Open
  <2>4. r.seq <= Total(ses[r.s])
    BY <1>3, <2>2, TotalType
  <2> HIDE DEF r
  <2> QED
    BY <1>4, <2>2, <2>3, <2>4
<1> DEFINE o == fol[f]
           x == ses[o.s]
<1>6. ASSUME o.at \in {"look", "parked", "over", "left"}
      PROVE  /\ o \in [at : {"look", "parked", "over", "left"}, s : Session, seq : Nat]
             /\ x \in SessionType /\ Total(x) \in Nat /\ o.seq <= Total(x)
  <2>1. o \in [at : {"look", "parked", "over", "left"}, s : Session, seq : Nat]
    BY <1>3, <1>6 DEF StreamType
  <2> QED
    BY <1>3, <1>6, <2>1, TotalType DEF IInv, StreamsInRange
<1>7. CASE Reconnect(f) \/ Disconnect(f)
  <2>1. PICK a \in {"look", "left"} :
          fol' = [fol EXCEPT ![f].at = a] /\ o.at \in {"look", "parked", "over", "left"}
    BY <1>7 DEF Reconnect, Disconnect
  <2> DEFINE r == [o EXCEPT !.at = a]
  <2>2. r \in StreamType /\ r.at = a /\ r.s = o.s /\ r.seq = o.seq
    BY <1>6, <2>1 DEF StreamType
  <2>3. fol' = [fol EXCEPT ![f] = r]
    BY <2>1
  <2> HIDE DEF r
  <2> QED
    BY <1>4, <1>6, <2>1, <2>2, <2>3
<1>8. CASE Look(f)
  <2>1. o.at = "look"
    BY <1>8 DEF Look
  <2>2. CASE o.seq < Total(x)
    <3> DEFINE r == [o EXCEPT !.seq = Total(x)]
    <3>1. r \in StreamType /\ r.at = "look" /\ r.s = o.s /\ r.seq = Total(x)
      BY <1>6, <2>1 DEF StreamType
    <3>2. fol' = [fol EXCEPT ![f] = r]
      BY <1>8, <2>2 DEF Look
    <3>3. r.seq <= Total(ses[r.s])
      BY <1>6, <2>1, <3>1
    <3> HIDE DEF r, x, o
    <3> QED
      BY <1>4, <3>1, <3>2, <3>3
  <2>3. CASE ~(o.seq < Total(x))
    <3>1. o.seq = Total(x)
      BY <1>6, <2>1, <2>3
    <3> DEFINE a == IF Over(x) THEN "over" ELSE "parked"
               r == [o EXCEPT !.at = a]
    <3>2. r \in StreamType /\ r.at = a /\ r.s = o.s /\ r.seq = o.seq
      BY <1>6, <2>1 DEF StreamType
    <3>3. fol' = [fol EXCEPT ![f] = r]
      BY <1>8, <2>3 DEF Look
    <3>4. (a = "over" /\ Over(x)) \/ (a = "parked" /\ ~Over(x))
      OBVIOUS
    <3>5. r.seq = Total(ses[r.s]) /\ r.seq <= Total(ses[r.s]) /\ ses[r.s] = x
      BY <1>6, <2>1, <3>1, <3>2
    <3> HIDE DEF r, a, x, o
    <3> QED
      BY <1>4, <3>2, <3>3, <3>4, <3>5
  <2> QED
    BY <2>2, <2>3
<1>9. CASE SendEnd(f)
  <2>1. o.at = "over" /\ Over(x) /\ o.seq = Total(x)
    BY <1>9 DEF SendEnd, IInv, StreamsMissNothing
  <2> DEFINE r == [at |-> "told", s |-> o.s, seq |-> o.seq, state |-> x.state]
  <2>2. r \in StreamType /\ r.at = "told" /\ r.s = o.s /\ r.seq = o.seq
    BY <1>6, <2>1 DEF StreamType, SessionType
  <2>3. fol' = [fol EXCEPT ![f] = r]
    BY <1>9 DEF SendEnd
  <2> HIDE DEF r
  <2> QED
    BY <1>4, <1>6, <2>1, <2>2, <2>3
<1> QED
  BY <1>5, <1>7, <1>8, <1>9
-----------------------------------------------------------------------------
LEMMA InitIInv == Init => IInv
<1> SUFFICES ASSUME Init PROVE IInv
  OBVIOUS
<1>1. NewSession \in SessionType
  <2>1. <<>> \in Seq(Frame) /\ 0 \in 0..MaxTurns
    BY BoundsAssumption
  <2> QED
    BY <2>1 DEF NewSession, SessionType, States, NoTurn
<1>2. Book(NewSession)
  <2>1. 0 <= BufCap
    BY BufCapAssumption
  <2>2. TurnBook(NewSession)
    BY DEF NewSession, TurnBook, NoTurn, Turn
  <2>3. LogBook(NewSession)
    BY <2>1 DEF NewSession, LogBook, Chained
  <2>4. CloseBook(NewSession) /\ CancelBook(NewSession)
    <3>1. /\ NewSession.closed = FALSE /\ NewSession.close = "no" /\ NewSession.by = "nobody"
          /\ NewSession.queue = "open"
      BY DEF NewSession
    <3>2. /\ (NewSession.close \in {"marked", "waiting", "done"}) = FALSE
          /\ (NewSession.close \in {"shut", "marked", "waiting", "done"}) = FALSE
          /\ (NewSession.by = "nobody") = TRUE /\ (NewSession.close = "no") = TRUE
          /\ (NewSession.queue = "closed") = FALSE
      BY <3>1
    <3> QED
      BY <3>1, <3>2, Zenon DEF CloseBook, CancelBook
  <2> QED
    BY <2>2, <2>3, <2>4 DEF Book
<1>3. Types
  BY <1>1 DEF Init, Types, RequestType, StreamType, Idle, NotFollowing
<1>4. Books
  BY <1>2 DEF Init, Books
<1>5. Registered
  BY DEF Init, Registered, NewSession, Idle
<1>6. Shutdown
  BY DEF Init, Shutdown
<1>7. StreamsInRange /\ StreamsMissNothing
  BY DEF Init, StreamsInRange, StreamsMissNothing, NotFollowing
<1> QED
  BY <1>3, <1>4, <1>5, <1>6, <1>7 DEF IInv

LEMMA NextIInv == IInv /\ [Next]_vars => IInv'
<1> SUFFICES ASSUME IInv, [Next]_vars PROVE IInv'
  OBVIOUS
<1>1. ASSUME NEW c \in Client, NEW s \in Session, Create(c, s) \/ Get(c, s) \/ Delete(c, s)
      PROVE  IInv'
  BY <1>1, CreateStep, GetStep, DeleteStep
<1>2. ASSUME NEW c \in Client,
             \/ FirstSend(c) \/ Send(c) \/ CancelDeny(c) \/ CancelRead(c) \/ CancelCall(c)
             \/ Resolve(c) \/ DeleteMisses(c) \/ DeleteReturns(c)
      PROVE  IInv'
  BY <1>2, SendStep, CancelOrResolveStep, DeleteStep
<1>3. ASSUME NEW s \in Session, CloseSteps(s) \/ ReapVisit(s)
      PROVE  IInv'
  BY <1>3, CloseStep, ReaperStep
<1>4. ASSUME NEW s \in Session, NEW t \in Turn,
             \/ PumpAppend(s, t) \/ Park(s, t) \/ Unpark(s, t) \/ Abort(s, t)
             \/ PumpExit(s, t) \/ \E e \in TurnEnds : PumpEnd(s, t, e)
      PROVE  IInv'
  BY <1>4, PumpStep
<1>5. CASE ReapBegin \/ SweepStops \/ CloseBegins \/ CloseSwept \/ CloseReturns
  BY <1>5, ReaperStep, ManagerStep
<1>6. ASSUME NEW f \in Follower,
             \/ \E s \in Session : Open(f, s)
             \/ Reconnect(f) \/ Look(f) \/ Disconnect(f) \/ SendEnd(f)
      PROVE  IInv'
  BY <1>6, StreamStep
<1>7. CASE UNCHANGED vars
  <2>1. Types' /\ Registered' /\ Shutdown'
    BY <1>7 DEF IInv, Types, Registered, Shutdown, Closes, vars
  <2>2. Books' /\ StreamsInRange' /\ StreamsMissNothing'
    BY <1>7 DEF IInv, Books, Book, TurnBook, LogBook, CloseBook, CancelBook,
                StreamsInRange, StreamsMissNothing, Over, Total, vars
  <2> QED
    BY <2>1, <2>2 DEF IInv
<1> QED
  BY <1>1, <1>2, <1>3, <1>4, <1>5, <1>6, <1>7 DEF Next

LEMMA Invariant == Spec => []IInv
  BY InitIInv, NextIInv, PTL DEF Spec

-----------------------------------------------------------------------------
(* Every reachable state is well typed: the records of the sessions, the   *)
(* requests and the streams keep their shapes, and no session's buffer     *)
(* holds more frames than its capacity.                                    *)
THEOREM TypeCorrect == Spec => [](TypeOK /\ Types)
<1>1. IInv => TypeOK /\ Types
  <2> SUFFICES ASSUME IInv PROVE TypeOK
    BY DEF IInv
  <2>1. ASSUME NEW s \in Session, NEW i \in DOMAIN ses[s].frames
        PROVE  ses[s].frames[i] \in Frame
    <3>1. ses[s].frames \in Seq(Frame)
      BY DEF IInv, Types, SessionType
    <3> QED
      BY <2>1, <3>1, LenProperties, ElementOfSeq
  <2>2. \A s \in Session : ses[s] \in SessionType /\ Len(ses[s].frames) <= BufCap
    BY DEF IInv, Types, Books, Book, LogBook
  <2>3. /\ party \in Parties
        /\ sessions \subseteq made /\ made \subseteq Session /\ unvisited \subseteq Session
        /\ sweeper \in {"on", "off"} /\ mgr \in {"open", "stopping", "closing", "returned"}
    BY DEF IInv, Types
  <2> QED
    BY <2>1, <2>2, <2>3 DEF TypeOK, SessionType
<1> QED
  BY <1>1, Invariant, PTL

(* However requests, pumps, cancels and closes interleave, a session runs  *)
(* one turn at a time and the cancel it stores is the running turn's.      *)
THEOREM TurnsDoNotOverlap == Spec => []OneTurnAtATime
<1>1. IInv => OneTurnAtATime
  BY DEF IInv, Books, Book, TurnBook, OneTurnAtATime
<1> QED
  BY <1>1, Invariant, PTL

(* The frames a session still holds are a stretch of one conversation:     *)
(* turns in their order, none started before the end of the one before it, *)
(* and the last frame of a live session tells whether a turn runs.         *)
THEOREM LogIsOneConversation == Spec => []LogTellsTurns
<1>1. IInv => LogTellsTurns
  BY DEF IInv, Books, Book, LogBook, Chained, Follows, LogTellsTurns
<1> QED
  BY <1>1, Invariant, PTL

(* What Delete, the reaper and Manager.Close stopped stays stopped, also   *)
(* against requests that looked the session up before it was dropped.      *)
THEOREM StoppedForGood == Spec => []StoppedStaysStopped
<1>1. IInv => DroppedIsStopped
  BY DEF IInv, Books, Book, CloseBook, DroppedIsStopped
<1>2. IInv => CloseLeavesOnlyDeletes
  <2> SUFFICES ASSUME IInv, mgr = "returned"
               PROVE  /\ sweeper = "off" /\ sessions = {}
                      /\ \A s \in Session, t \in Turn :
                           ses[s].pump[t] \in {"run", "recorded"} =>
                             ses[s].by \in Client /\ ses[s].close # "done"
    BY DEF CloseLeavesOnlyDeletes
  <2>1. sweeper = "off" /\ sessions = {} /\ ~Closes("sweeper") /\ ~Closes("manager")
    BY DEF IInv, Shutdown
  <2>2. ASSUME NEW s \in Session, NEW t \in Turn, ses[s].pump[t] \in {"run", "recorded"}
        PROVE  ses[s].by \in Client /\ ses[s].close # "done"
    <3>1. ses[s] \in SessionType /\ Book(ses[s])
      BY DEF IInv, Types, Books
    <3>2. s \in made
      BY <2>2, <3>1 DEF IInv, Registered, Book, TurnBook, Turn
    <3>3. ses[s].close # "done"
      BY <2>2, <3>1 DEF Book, CloseBook
    <3>4. ses[s].by \notin {"nobody", "sweeper", "manager"}
      BY <2>1, <3>2, <3>3 DEF IInv, Registered, Closes
    <3> QED
      BY <3>1, <3>3, <3>4 DEF SessionType
  <2> QED
    BY <2>1, <2>2
<1> QED
  BY <1>1, <1>2, Invariant, PTL DEF StoppedStaysStopped

(* A stream that ended has handed out the last frame of a conversation     *)
(* that is over; one that is parked has missed neither a frame nor an end. *)
THEOREM StreamsSeeEverything == Spec => []StreamsMissNothing
<1>1. IInv => StreamsMissNothing
  BY DEF IInv
<1> QED
  BY <1>1, Invariant, PTL

(* Whoever waits in wg.Wait waits for a run whose context is done and that *)
(* is not parked on a human: the turn it captured when it shut the door is *)
(* the only one there can be.                                              *)
ClosersWaitForTheCancelled ==
  \A s \in Session, t \in Turn :
    ses[s].close = "waiting" /\ ses[s].pump[t] = "run" =>
      t \in ses[s].ctxDone /\ ses[s].question # "parked"

(* The safety half of why every close returns: no run that Session.close   *)
(* waits for is one it has not cancelled, and none is blocked in approve.  *)
THEOREM ClosersCancelFirst == Spec => []ClosersWaitForTheCancelled
<1>1. IInv => ClosersWaitForTheCancelled
  <2> SUFFICES ASSUME IInv, NEW s \in Session, NEW t \in Turn,
                      ses[s].close = "waiting", ses[s].pump[t] = "run"
               PROVE  t \in ses[s].ctxDone /\ ses[s].question # "parked"
    BY DEF ClosersWaitForTheCancelled
  <2>1. Book(ses[s])
    BY DEF IInv, Books
  <2>2. ses[s].cancel = t /\ t # NoTurn
    BY <2>1 DEF Book, TurnBook, Turn, NoTurn
  <2>3. ses[s].queue = "closed"
    BY <2>1 DEF Book, CancelBook
  <2> QED
    BY <2>1, <2>2, <2>3 DEF Book, CancelBook
<1> QED
  BY <1>1, Invariant, PTL
(* Manager.Create refuses beyond ManagerConfig.Max, and nothing else adds  *)
(* to the registry: however creates and drops interleave it stays bounded. *)
RegistryBounded == IsFiniteSet(sessions) /\ Cardinality(sessions) <= MaxSessions

(* The number of live sessions never exceeds the configured cap. *)
THEOREM RegistryIsBounded == Spec => []RegistryBounded
<1>1. Init => RegistryBounded
  BY FS_EmptySet, MaxSessionsAssumption DEF Init, RegistryBounded
<1>2. IInv /\ RegistryBounded /\ [Next]_vars => RegistryBounded'
  <2> SUFFICES ASSUME IInv, RegistryBounded, [Next]_vars PROVE RegistryBounded'
    OBVIOUS
  <2>1. CASE \E c \in Client, s \in Session : Create(c, s)
    <3>1. PICK s \in Session : sessions' = sessions \cup {s} /\ Cardinality(sessions) < MaxSessions
      BY <2>1 DEF Create
    <3>2. IsFiniteSet(sessions') /\ Cardinality(sessions') <= Cardinality(sessions) + 1
      <4>1. IsFiniteSet(sessions) /\ Cardinality(sessions) \in Nat
        BY FS_CardinalityType DEF RegistryBounded
      <4>2. /\ IsFiniteSet(sessions \cup {s})
            /\ Cardinality(sessions \cup {s}) =
                 IF s \in sessions THEN Cardinality(sessions) ELSE Cardinality(sessions) + 1
        BY <4>1, FS_AddElement
      <4> QED
        BY <3>1, <4>1, <4>2
    <3> QED
      BY <3>1, <3>2, FS_CardinalityType, MaxSessionsAssumption DEF RegistryBounded
  <2>2. CASE sessions' \subseteq sessions
    <3>1. IsFiniteSet(sessions') /\ Cardinality(sessions') <= Cardinality(sessions)
      BY <2>2, FS_Subset DEF RegistryBounded
    <3> QED
      BY <2>2, <3>1, FS_CardinalityType, MaxSessionsAssumption DEF RegistryBounded
  <2>3. (\E c \in Client, s \in Session : Create(c, s)) \/ sessions' \subseteq sessions
    <3>1. ASSUME NEW c \in Client,
                 \/ \E s \in Session : Get(c, s) \/ Delete(c, s)
                 \/ FirstSend(c) \/ Send(c) \/ CancelDeny(c) \/ CancelRead(c) \/ CancelCall(c)
                 \/ Resolve(c) \/ DeleteMisses(c) \/ DeleteReturns(c)
          PROVE  sessions' \subseteq sessions
      BY <3>1 DEF Get, Delete, FirstSend, Send, SendOr, CancelDeny, CancelRead, CancelCall,
                  Resolve, DeleteMisses, DeleteReturns
    <3>2. ASSUME NEW s \in Session, CloseSteps(s) \/ ReapVisit(s)
          PROVE  sessions' \subseteq sessions
      BY <3>2 DEF CloseSteps, CloseQueue, CloseMark, CloseCancel, CloseWaited, Step, ReapVisit
    <3>3. ASSUME NEW s \in Session, NEW t \in Turn,
                 \/ PumpAppend(s, t) \/ Park(s, t) \/ Unpark(s, t) \/ Abort(s, t)
                 \/ PumpExit(s, t)
                 \/ \E e \in TurnEnds : PumpEnd(s, t, e)
          PROVE  sessions' \subseteq sessions
      BY <3>3 DEF PumpAppend, Park, Unpark, Abort, PumpExit, PumpEnd
    <3>4. ASSUME ReapBegin \/ SweepStops \/ CloseBegins \/ CloseSwept \/ CloseReturns
          PROVE  sessions' \subseteq sessions
      BY <3>4 DEF ReapBegin, SweepStops, CloseBegins, CloseSwept, CloseReturns
    <3>5. ASSUME NEW f \in Follower,
                 \/ \E s \in Session : Open(f, s)
                 \/ Reconnect(f) \/ Look(f) \/ Disconnect(f) \/ SendEnd(f)
          PROVE  sessions' \subseteq sessions
      BY <3>5 DEF Open, Reconnect, Look, Disconnect, SendEnd
    <3>6. CASE UNCHANGED vars
      BY <3>6 DEF vars
    <3>7. CASE Next
      BY <3>1, <3>2, <3>3, <3>4, <3>5, <3>7 DEF Next
    <3> QED
      BY <3>6, <3>7
  <2> QED
    BY <2>1, <2>2, <2>3
<1> QED
  BY <1>1, <1>2, Invariant, PTL DEF Spec
(* A session once closed is silent: it stays closed, starts no turn, emits *)
(* nothing, and keeps the frames that streams may still be reading.        *)
SilentOnceClosed(s) ==
  ses[s].closed =>
    /\ ses'[s].closed /\ ses'[s].turns = ses[s].turns
    /\ ses'[s].frames = ses[s].frames /\ ses'[s].base = ses[s].base

LEMMA StepKeepsSilence ==
  ASSUME IInv, [Next]_vars, NEW s \in Session
  PROVE  SilentOnceClosed(s)
<1> SUFFICES ASSUME ses[s].closed
             PROVE  /\ ses'[s].closed /\ ses'[s].turns = ses[s].turns
                    /\ ses'[s].frames = ses[s].frames /\ ses'[s].base = ses[s].base
  BY DEF SilentOnceClosed
<1>1. ses \in [Session -> SessionType] /\ ses[s] \in SessionType
  BY DEF IInv, Types
<1>2. CASE UNCHANGED ses
  BY <1>2
<1>3. ASSUME NEW c \in Client, NEW r \in Session, Delete(c, r)
      PROVE  SilentOnceClosed(s)
  BY <1>1, <1>3 DEF Delete, SessionType, SilentOnceClosed
<1>4. ASSUME NEW c \in Client, FirstSend(c) \/ Send(c)
      PROVE  SilentOnceClosed(s)
  <2>1. CASE Refuses(ses[req[c].s])
    BY <1>4, <2>1 DEF FirstSend, Send, SendOr, SilentOnceClosed
  <2>2. CASE ~Refuses(ses[req[c].s])
    <3>1. PICK y : ses' = [ses EXCEPT ![req[c].s] = y]
      BY <1>4, <2>2 DEF FirstSend, Send, SendOr, Becomes
    <3>2. req[c].s # s
      BY <2>2 DEF Refuses
    <3> QED
      BY <1>1, <3>1, <3>2 DEF SilentOnceClosed
  <2> QED
    BY <2>1, <2>2
<1>13. ASSUME NEW r, NEW y, ses' = [ses EXCEPT ![r] = y],
              r = s => /\ y.closed = ses[s].closed \/ y.closed
                       /\ y.turns = ses[s].turns /\ y.frames = ses[s].frames
                       /\ y.base = ses[s].base
       PROVE  SilentOnceClosed(s)
  BY <1>1, <1>13 DEF SilentOnceClosed
<1>14. \A x \in SessionType : /\ Released(x).closed = x.closed /\ Released(x).turns = x.turns
                              /\ Released(x).frames = x.frames /\ Released(x).base = x.base
                              /\ Released(x) \in SessionType
  BY DEF Released, SessionType
<1>5. ASSUME NEW c \in Client, CancelDeny(c) \/ CancelCall(c) \/ Resolve(c)
      PROVE  SilentOnceClosed(s)
  <2> DEFINE r == req[c].s
  <2>1. CASE CancelDeny(c) \/ Resolve(c)
    <3>1. ses' = [ses EXCEPT ![r] = Released(ses[r])]
      BY <2>1 DEF CancelDeny, Resolve
    <3> QED
      BY <1>1, <1>13, <1>14, <3>1
  <2>2. CASE CancelCall(c)
    <3> DEFINE y == [ses[r] EXCEPT !.ctxDone = @ \cup {req[c].turn}]
    <3>1. ses' = [ses EXCEPT ![r] = y]
      BY <2>2 DEF CancelCall
    <3>2. r = s => /\ y.closed = ses[s].closed /\ y.turns = ses[s].turns
                   /\ y.frames = ses[s].frames /\ y.base = ses[s].base
      BY <1>1 DEF SessionType
    <3> HIDE DEF y
    <3> QED
      BY <1>13, <3>1, <3>2
  <2> QED
    BY <1>5, <2>1, <2>2
<1>6. ASSUME NEW r \in Session, CloseSteps(r)
      PROVE  SilentOnceClosed(s)
  <2>1. PICK y : /\ ses' = [ses EXCEPT ![r] = y]
                 /\ y \in {[Released(ses[r]) EXCEPT !.queue = "closed", !.close = "shut"],
                          [ses[r] EXCEPT !.captured = ses[r].cancel,
                                         !.closed = TRUE, !.close = "marked"],
                          [ses[r] EXCEPT !.ctxDone = @ \cup ({ses[r].captured} \ {NoTurn}),
                                         !.close = "waiting"],
                          [ses[r] EXCEPT !.close = "done"]}
    BY <1>6 DEF CloseSteps, CloseQueue, CloseMark, CloseCancel, CloseWaited, Step
  <2>2. ses[r] \in SessionType
    BY <1>1
  <2>3. /\ y.closed = ses[r].closed \/ y.closed
        /\ y.turns = ses[r].turns /\ y.frames = ses[r].frames /\ y.base = ses[r].base
    <3>1. CASE y = [Released(ses[r]) EXCEPT !.queue = "closed", !.close = "shut"]
      <4> DEFINE z == Released(ses[r])
      <4>1. z \in SessionType /\ z.closed = ses[r].closed /\ z.turns = ses[r].turns
            /\ z.frames = ses[r].frames /\ z.base = ses[r].base
        BY <1>14, <2>2
      <4> HIDE DEF z
      <4> QED
        BY <3>1, <4>1 DEF SessionType, z
    <3>2. CASE y = [ses[r] EXCEPT !.captured = ses[r].cancel, !.closed = TRUE, !.close = "marked"]
      BY <2>2, <3>2 DEF SessionType
    <3>3. CASE y = [ses[r] EXCEPT !.ctxDone = @ \cup ({ses[r].captured} \ {NoTurn}),
                                  !.close = "waiting"]
      BY <2>2, <3>3 DEF SessionType
    <3>4. CASE y = [ses[r] EXCEPT !.close = "done"]
      BY <2>2, <3>4 DEF SessionType
    <3> QED
      BY <2>1, <3>1, <3>2, <3>3, <3>4
  <2> QED
    BY <1>1, <2>1, <2>3 DEF SilentOnceClosed
<1>7. ASSUME NEW r \in Session, ReapVisit(r)
      PROVE  SilentOnceClosed(s)
  <2> DEFINE y == [ses[r] EXCEPT !.by = "sweeper", !.close = "owed"]
  <2>1. ses' = ses \/ ses' = [ses EXCEPT ![r] = y]
    BY <1>7 DEF ReapVisit
  <2>2. y.closed = ses[r].closed /\ y.turns = ses[r].turns
        /\ y.frames = ses[r].frames /\ y.base = ses[r].base
    BY <1>1 DEF SessionType
  <2> HIDE DEF y
  <2> QED
    BY <1>1, <2>1, <2>2 DEF SilentOnceClosed
<1>8. ASSUME CloseBegins
      PROVE  SilentOnceClosed(s)
  BY <1>1, <1>8 DEF CloseBegins, SessionType, SilentOnceClosed
<1>9. ASSUME NEW r \in Session, NEW t \in Turn,
             Park(r, t) \/ Unpark(r, t) \/ Abort(r, t) \/ PumpExit(r, t)
      PROVE  SilentOnceClosed(s)
  <2>1. PICK y : /\ ses' = [ses EXCEPT ![r] = y]
                 /\ y \in {[ses[r] EXCEPT !.question = "parked"], Released(ses[r]),
                          [ses[r] EXCEPT !.ctxDone = @ \cup {t}],
                          [ses[r] EXCEPT !.pump[t] = "gone", !.ctxDone = @ \cup {t}]}
    BY <1>9 DEF Park, Unpark, Abort, PumpExit
  <2>2. /\ y.closed = ses[r].closed /\ y.turns = ses[r].turns
        /\ y.frames = ses[r].frames /\ y.base = ses[r].base
    <3>1. ses[r] \in SessionType
      BY <1>1
    <3>2. CASE y = Released(ses[r])
      BY <1>14, <3>1, <3>2
    <3>3. CASE y = [ses[r] EXCEPT !.question = "parked"]
      BY <3>1, <3>3 DEF SessionType
    <3>4. CASE y = [ses[r] EXCEPT !.ctxDone = @ \cup {t}]
      BY <3>1, <3>4 DEF SessionType
    <3>5. CASE y = [ses[r] EXCEPT !.pump[t] = "gone", !.ctxDone = @ \cup {t}]
      BY <3>1, <3>5 DEF SessionType
    <3> QED
      BY <2>1, <3>2, <3>3, <3>4, <3>5
  <2> QED
    BY <1>1, <2>1, <2>2 DEF SilentOnceClosed
<1>10. ASSUME NEW r \in Session, NEW t \in Turn, PumpAppend(r, t)
       PROVE  SilentOnceClosed(s)
  BY <1>1, <1>10 DEF PumpAppend, Becomes, Emit, SilentOnceClosed
<1>11. ASSUME NEW r \in Session, NEW t \in Turn, NEW e \in TurnEnds, PumpEnd(r, t, e)
       PROVE  SilentOnceClosed(s)
  <2> DEFINE z == [ses[r] EXCEPT !.state = e, !.cancel = NoTurn,
                                 !.pump[t] = "recorded", !.question = "none"]
  <2>1. ses' = [ses EXCEPT ![r] = Emit(z, t, "ended")]
    BY <1>11 DEF PumpEnd, Becomes
  <2>2. CASE r # s
    BY <1>1, <2>1, <2>2 DEF SilentOnceClosed
  <2>3. CASE r = s
    <3>1. /\ z.closed = ses[s].closed /\ z.turns = ses[s].turns
          /\ z.frames = ses[s].frames /\ z.base = ses[s].base
      BY <1>1, <2>3 DEF SessionType
    <3> HIDE DEF z
    <3>2. ses'[s] = z
      BY <1>1, <2>1, <2>3, <3>1 DEF Emit
    <3> QED
      BY <3>1, <3>2 DEF SilentOnceClosed
  <2> QED
    BY <2>2, <2>3
<1>12. \/ UNCHANGED ses \/ CloseBegins
       \/ \E c \in Client : \/ \E r \in Session : Delete(c, r)
                            \/ FirstSend(c) \/ Send(c)
                            \/ CancelDeny(c) \/ CancelCall(c) \/ Resolve(c)
       \/ \E r \in Session :
            \/ CloseSteps(r) \/ ReapVisit(r)
            \/ \E t \in Turn : \/ Park(r, t) \/ Unpark(r, t) \/ Abort(r, t) \/ PumpExit(r, t)
                               \/ PumpAppend(r, t) \/ \E e \in TurnEnds : PumpEnd(r, t, e)
  BY DEF Next, vars, Create, Get, CancelRead, DeleteMisses, DeleteReturns, ReapBegin,
         SweepStops, CloseSwept, CloseReturns, Open, Reconnect, Look, Disconnect, SendEnd
<1> QED
  BY <1>2, <1>3, <1>4, <1>5, <1>6, <1>7, <1>8, <1>9, <1>10, <1>11, <1>12 DEF SilentOnceClosed

(* Nothing revives a session: not a Send that looked it up before it was   *)
(* dropped, nor the end of the run it was closed on.                       *)
THEOREM ClosedIsSilent == Spec => [][\A s \in Session : SilentOnceClosed(s)]_vars
<1>1. IInv /\ [Next]_vars => [\A s \in Session : SilentOnceClosed(s)]_vars
  BY StepKeepsSilence
<1> QED
  BY <1>1, Invariant, PTL DEF Spec
=============================================================================
