---------------------------- MODULE ReliableLog ----------------------------
(***************************************************************************)
(* What an event log promises the consumers that follow it, independent of *)
(* how events are buffered, copied out or waited for: the abstract         *)
(* specification EventLog (the buffer of a run) implements.                *)
(*                                                                         *)
(* Events get the numbers 0, 1, 2, ... in the order they are produced and  *)
(* keep them.  A follower is handed consecutive events; it passes over one *)
(* only when that event is no longer retained.  It is released by the end  *)
(* of the log only after the last event, or whenever it gives up itself.   *)
(***************************************************************************)
EXTENDS Naturals, Sequences

CONSTANTS Event, Follower

VARIABLES
  log,      \* every event produced so far; number n is log[n + 1]
  low,      \* the lowest number still retained
  over,     \* nothing more will be produced
  next,     \* per follower, the number it is to be handed next
  handed,   \* per follower, the last <<number, event>> it was handed, or <<>>
  status    \* per follower: "new", "following", "exhausted" or "left"

avars == <<log, low, over, next, handed, status>>

Init ==
  /\ log = <<>> /\ low = 0 /\ over = FALSE
  /\ next   = [f \in Follower |-> 0]
  /\ handed = [f \in Follower |-> <<>>]
  /\ status = [f \in Follower |-> "new"]

(* An event is added; older ones may stop being retained. *)
Produce ==
  /\ ~over
  /\ \E e \in Event : log' = Append(log, e)
  /\ low' \in low..Len(log')
  /\ UNCHANGED <<over, next, handed, status>>

End ==
  /\ ~over /\ over' = TRUE
  /\ UNCHANGED <<log, low, next, handed, status>>

Join(f) ==
  /\ status[f] = "new"
  /\ status' = [status EXCEPT ![f] = "following"]
  /\ next' \in [Follower -> Nat]
  /\ \A g \in Follower \ {f} : next'[g] = next[g]
  /\ UNCHANGED <<log, low, over, handed>>

(* Only what is no longer retained is passed over. *)
Skip(f) ==
  /\ status[f] = "following" /\ next[f] < low
  /\ next' = [next EXCEPT ![f] = low]
  /\ UNCHANGED <<log, low, over, handed, status>>

Hand(f) ==
  /\ status[f] = "following" /\ next[f] < Len(log)
  /\ handed' = [handed EXCEPT ![f] = <<next[f], log[next[f] + 1]>>]
  /\ next' = [next EXCEPT ![f] = @ + 1]
  /\ UNCHANGED <<log, low, over>>
  /\ \/ UNCHANGED status
     \/ status' = [status EXCEPT ![f] = "left"]

Leave(f) ==
  /\ status[f] = "following"
  /\ status' = [status EXCEPT ![f] = "left"]
  /\ UNCHANGED <<log, low, over, next, handed>>

Exhaust(f) ==
  /\ status[f] = "following" /\ over /\ next[f] >= Len(log)
  /\ status' = [status EXCEPT ![f] = "exhausted"]
  /\ UNCHANGED <<log, low, over, next, handed>>

Next ==
  \/ Produce \/ End
  \/ \E f \in Follower : Join(f) \/ Skip(f) \/ Hand(f) \/ Leave(f) \/ Exhaust(f)

Spec == Init /\ [][Next]_avars
=============================================================================
