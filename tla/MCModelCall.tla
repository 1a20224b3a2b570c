---------------------------- MODULE MCModelCall ----------------------------
(* A routing table with a prefix of a prefix, and names that match neither, *)
(* one, both, and one exactly.                                              *)
EXTENDS ModelCall

MCModels == {<<>>, <<"c">>, <<"c", "h">>, <<"c", "h", "4">>, <<"g">>}
MCRoutes == (<<"c">> :> "openai") @@ (<<"c", "h">> :> "anthropic")
=============================================================================
