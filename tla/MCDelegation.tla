---------------------------- MODULE MCDelegation ----------------------------
(* Batches small enough to check: two siblings that may both delegate, a   *)
(* fan-out, and a plain call.                                              *)
EXTENDS Delegation

SmallBatches == {<<"delegate", "delegate">>, <<"parallel_delegate">>, <<"plain">>, <<"delegate">>}
=============================================================================
