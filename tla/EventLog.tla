------------------------------ MODULE EventLog ------------------------------
(***************************************************************************)
(* buffered.go: the bounded event buffer a run is drained into, and the    *)
(* followers that read it while it grows.  Each action is one critical     *)
(* section of Buffered.mu, or one step a follower takes outside it.        *)
(*                                                                         *)
(* The snapshot a follower takes, the wait channel it holds and the        *)
(* "finished" it saw all outlive the lock they were read under; the        *)
(* properties are about what may have happened in between.                 *)
(***************************************************************************)
EXTENDS Integers, Sequences

CONSTANTS
  Event,      \* what the run emits
  Follower,   \* concurrent Follow loops
  Cap,        \* bufferCap: how many events are retained
  From,       \* sequence numbers a follower may ask to start at
  MaxEvents   \* bound: events the run emits

ASSUME CapAssumption  == Cap \in Nat \ {0}
ASSUME FromAssumption == From \subseteq Int
ASSUME MaxEventsAssumption == MaxEvents \in Nat

VARIABLES
  produced,   \* history: every event the run emitted, in order
  events,     \* Buffered.events; events[i] carries sequence base + i - 1
  base,       \* Buffered.base
  changed,    \* the generation of Buffered.changed: wake closes it, opens the next
  finished,   \* Buffered.finished
  pc,         \* per follower: "new", "snap", "yield", "wait", "exhausted", "left"
  seq,        \* per follower: seq of the Follow loop
  batch,      \* per follower: the events cloned under the lock, not yet yielded
  wait,       \* per follower: the generation of changed it holds
  gone,       \* followers whose ctx is done
  handed      \* history: per follower, the last pair yielded, or <<>>

log == <<produced, events, base, changed, finished>>
vars == <<produced, events, base, changed, finished,
          pc, seq, batch, wait, gone, handed>>

Larger(a, b) == IF a >= b THEN a ELSE b

Init ==
  /\ produced = <<>> /\ events = <<>> /\ base = 0
  /\ changed = 0 /\ finished = FALSE
  /\ pc     = [f \in Follower |-> "new"]
  /\ seq    = [f \in Follower |-> 0]
  /\ batch  = [f \in Follower |-> <<>>]
  /\ wait   = [f \in Follower |-> 0]
  /\ gone   = {}
  /\ handed = [f \in Follower |-> <<>>]

-----------------------------------------------------------------------------
(* The draining goroutine. *)

(* Faulty variants, as a slip in the code would make them; no specification *)
(* uses them, each shows that a property below would notice.               *)

FaultyAppendSilent(e) ==
  /\ ~finished /\ Len(produced) < MaxEvents
  /\ produced' = Append(produced, e)
  /\ LET grown == Append(events, e)
     IN  IF Len(grown) > Cap THEN events' = Tail(grown) /\ base' = base + 1
                             ELSE events' = grown /\ UNCHANGED base
  /\ UNCHANGED <<changed, finished, pc, seq, batch, wait, gone, handed>>

FaultyFinishSilent ==
  /\ ~finished /\ finished' = TRUE
  /\ UNCHANGED <<produced, events, base, changed, pc, seq, batch, wait, gone, handed>>

(* append: the newest event is kept, the oldest beyond Cap are evicted. *)
AppendEvent(e) ==
  /\ ~finished /\ Len(produced) < MaxEvents
  /\ produced' = Append(produced, e)
  /\ LET grown == Append(events, e)
         excess == Len(grown) - Cap
     IN  IF excess > 0
         THEN /\ events' = SubSeq(grown, excess + 1, Len(grown))
              /\ base' = base + excess
         ELSE /\ events' = grown
              /\ UNCHANGED base
  /\ changed' = changed + 1
  /\ UNCHANGED <<finished, pc, seq, batch, wait, gone, handed>>

(* drain's deferred function, once Next has reported the end of the run. *)
Finish ==
  /\ ~finished /\ finished' = TRUE
  /\ changed' = changed + 1
  /\ UNCHANGED <<produced, events, base, pc, seq, batch, wait, gone, handed>>

-----------------------------------------------------------------------------
(* One Follow loop. *)

FaultySnapshotUnclamped(f) ==
  /\ pc[f] = "snap"
  /\ LET b == SubSeq(events, Larger(seq[f] - base, 0) + 1, Len(events))
     IN  /\ batch' = [batch EXCEPT ![f] = b]
         /\ pc' = [pc EXCEPT ![f] = IF b # <<>> THEN "yield"
                                    ELSE IF finished THEN "exhausted" ELSE "wait"]
  /\ wait' = [wait EXCEPT ![f] = changed]
  /\ UNCHANGED <<log, seq, gone, handed>>

Open(f, from) ==
  /\ pc[f] = "new"
  /\ seq' = [seq EXCEPT ![f] = Larger(from, 0)]
  /\ pc' = [pc EXCEPT ![f] = "snap"]
  /\ UNCHANGED <<log, batch, wait, gone, handed>>

(* The locked section: clamp, clone, and read changed and finished. *)
Snapshot(f) ==
  /\ pc[f] = "snap"
  /\ LET s == Larger(seq[f], base)
         b == SubSeq(events, s - base + 1, Len(events))
     IN  /\ seq' = [seq EXCEPT ![f] = s]
         /\ batch' = [batch EXCEPT ![f] = b]
         /\ wait' = [wait EXCEPT ![f] = changed]
         /\ pc' = [pc EXCEPT ![f] = IF b # <<>> THEN "yield"
                                    ELSE IF finished THEN "exhausted"
                                    ELSE "wait"]
  /\ UNCHANGED <<log, gone, handed>>

(* One event handed to the consumer, which may break out of the loop. *)
Yield(f, more) ==
  /\ pc[f] = "yield"
  /\ handed' = [handed EXCEPT ![f] = <<seq[f], Head(batch[f])>>]
  /\ seq' = [seq EXCEPT ![f] = @ + 1]
  /\ batch' = [batch EXCEPT ![f] = Tail(@)]
  /\ pc' = [pc EXCEPT ![f] = IF ~more THEN "left"
                             ELSE IF Len(batch[f]) = 1 THEN "snap"
                             ELSE "yield"]
  /\ UNCHANGED <<log, wait, gone>>

(* <-wait: the channel held was closed by a later wake. *)
Wake(f) ==
  /\ pc[f] = "wait" /\ wait[f] < changed
  /\ pc' = [pc EXCEPT ![f] = "snap"]
  /\ UNCHANGED <<log, seq, batch, wait, gone, handed>>

(* <-ctx.Done(): looked at only while parked. *)
LeaveOnCtx(f) ==
  /\ pc[f] = "wait" /\ f \in gone
  /\ pc' = [pc EXCEPT ![f] = "left"]
  /\ UNCHANGED <<log, seq, batch, wait, gone, handed>>

(* The consumer's context ends, at any moment. *)
CtxDone(f) ==
  /\ f \notin gone /\ gone' = gone \cup {f}
  /\ UNCHANGED <<log, pc, seq, batch, wait, handed>>

-----------------------------------------------------------------------------
Drain == Finish \/ \E e \in Event : AppendEvent(e)

Follow(f) == Snapshot(f) \/ Yield(f, TRUE) \/ Wake(f) \/ LeaveOnCtx(f)

Next ==
  \/ Drain
  \/ \E f \in Follower :
       \/ \E from \in From : Open(f, from)
       \/ Follow(f)
       \/ Yield(f, FALSE)
       \/ CtxDone(f)

Spec == Init /\ [][Next]_vars

(* The run always ends (its own liveness), so the drain goroutine reaches  *)
(* its deferred function; a goroutine that can run is eventually run.      *)
Fairness ==
  /\ WF_vars(Finish)
  /\ \A f \in Follower : WF_vars(Follow(f))

FairSpec == Spec /\ Fairness

-----------------------------------------------------------------------------
TypeOK ==
  /\ produced \in Seq(Event) /\ events \in Seq(Event)
  /\ base \in Nat /\ changed \in Nat /\ finished \in BOOLEAN
  /\ pc \in [Follower -> {"new", "snap", "yield", "wait", "exhausted", "left"}]
  /\ seq \in [Follower -> Nat] /\ batch \in [Follower -> Seq(Event)]
  /\ wait \in [Follower -> Nat] /\ gone \subseteq Follower
  /\ handed \in [Follower -> {<<>>} \cup (Nat \X Event)]

(* Sequence numbers are dense and never change: whatever was evicted, slot *)
(* i of the buffer is the event numbered base + i - 1, the last one        *)
(* produced is retained, and never more than Cap are.                      *)
(* (buffered.go: "Sequence numbers start at 0, are dense, and never        *)
(* change")                                                                *)
NumbersNeverChange ==
  /\ base + Len(events) = Len(produced)
  /\ \A i \in 1..Len(events) : events[i] = produced[base + i]
  /\ Len(events) <= Cap
  /\ base > 0 => Len(events) = Cap

(* A clone taken before an eviction stays right after it: what a follower  *)
(* has yet to yield is what the run emitted under the numbers it will be   *)
(* yielded with.                                                           *)
BatchIsNumbered ==
  \A f \in Follower :
    /\ batch[f] # <<>> => seq[f] + Len(batch[f]) <= Len(produced)
    /\ \A i \in 1..Len(batch[f]) : batch[f][i] = produced[seq[f] + i]

(* No lost wakeup: a follower parked on the channel of the current         *)
(* generation has nothing to read and no end to see.  Append, Finish and   *)
(* the parking follower interleave freely between the unlock and the       *)
(* select.                                                                 *)
NoLostWakeup ==
  \A f \in Follower :
    (pc[f] = "wait" /\ wait[f] = changed)
      => ~finished /\ seq[f] >= Len(produced)

(* A follower that returns because the run is over has passed every event  *)
(* the run emitted: the last ones are not dropped by an end that comes     *)
(* between its snapshot and its wait.                                      *)
ExhaustedMeansAll ==
  \A f \in Follower :
    pc[f] = "exhausted" => finished /\ seq[f] >= Len(produced)

(* A gap in what a follower is handed is the clamp, and only that: it      *)
(* resumes at the oldest event retained when it looked.                    *)
GapsAreEvictions ==
  [][\A f \in Follower :
       seq'[f] > seq[f] + 1 /\ pc[f] # "new"
         => seq'[f] = base /\ pc[f] = "snap"]_vars

(* Nobody is left parked on a run that has ended. *)
FollowersReleased ==
  \A f \in Follower : (pc[f] # "new") ~> (pc[f] \in {"exhausted", "left"})

(* A reader of the abstract log sees a reliable log: the buffer, its       *)
(* generations and the clones are invisible.                               *)
Status(p) ==
  CASE p = "new" -> "new"
    [] p \in {"exhausted", "left"} -> p
    [] OTHER -> "following"

Reliable == INSTANCE ReliableLog WITH
  log <- produced, low <- base, over <- finished, next <- seq,
  status <- [f \in Follower |-> Status(pc[f])]

ImplementsReliableLog == Reliable!Spec
=============================================================================
