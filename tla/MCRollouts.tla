----------------------------- MODULE MCRollouts -----------------------------
(* With a model that has a price and one that has none, one sample takes a *)
(* turn and one has an agent that may take none.  Under the first set of   *)
(* options its tool call has sub-agents; under the last there is more to   *)
(* score.                                                                  *)
EXTENDS Rollouts

Check(name, kind, worth) == [name |-> <<name>>, kind |-> kind, worth |-> worth]

MCConfigs ==
  LET wide == [keepAll |-> FALSE, pricing |-> TRUE, tracked |-> TRUE, model |-> "known",
               tools |-> TRUE, limits |-> {"budget", "toolLoop"},
               iters |-> [s \in Samples |-> IF s = 0 THEN 1 ELSE 0],
               threshold |-> 1, verifiers |-> <<Check("test", "file", 1)>>]
  IN {wide,
      [wide EXCEPT !.keepAll = TRUE, !.pricing = FALSE, !.model = "", !.tools = FALSE,
                   !.limits = {"budget"}],
      [wide EXCEPT !.tracked = FALSE, !.model = "gateway", !.tools = FALSE,
                   !.limits = {"steps", "wall"}],
      [wide EXCEPT !.pricing = FALSE, !.tools = FALSE, !.limits = {},
                   !.threshold = 3,
                   !.verifiers = <<Check("build", "custom", 2), Check("build", "shell", 3),
                                   Check("", "turns", 1), Check("", "cost", 1)>>]}

(* The product form of pass@k, on more samples than are run here. *)
ASSUME PassAtIsUnbiased ==
  \A n \in 0..6 : \A c \in 0..n : \A k \in 1..n : IsShareOfDraws(PassAt(n, c, k), 1..n, 1..c, k)
=============================================================================
