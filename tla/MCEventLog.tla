----------------------------- MODULE MCEventLog -----------------------------
(* A small instance of EventLog: room for two events, four emitted, two   *)
(* followers that ask for the start, a number past it, or a negative one. *)
EXTENDS EventLog

FromValues == {-1, 1}
=============================================================================
