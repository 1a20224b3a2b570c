------------------------------- MODULE Grades -------------------------------
(***************************************************************************)
(* What an episode is worth, and what a group of episodes says: the        *)
(* verifiers and their sum, and the statistics of a group's report.  The   *)
(* operators are functions of what Rollouts keeps.                         *)
(*                                                                         *)
(* Rewards are whole numbers, shares of subsets are fractions [num, den].  *)
(* A name is a sequence, to which a number may be appended: "build#2" is   *)
(* <<"build", 2>>.  Standard deviation, medians, the layout of the table   *)
(* and the JSON of an episode are left out.                                *)
(***************************************************************************)
EXTENDS Integers, FiniteSets, SequencesExt

(* within: a path that leaves the workspace, or a task that has none, is a *)
(* check that does not hold.  A shell command dies with the context it is  *)
(* run under, a look at a file does not.  A host's own verifier may panic, *)
(* or be nil.                                                              *)
Shell(v, ep)  == {0} \cup (IF ep.alive THEN {v.worth} ELSE {})
FileExists(v) == {0, v.worth}

TurnPenalty(v, ep) == {-(v.worth * ep.turns)}
CostPenalty(v, ep) == {-(v.worth * ep.usd)}

Term(name, score) == [name |-> name, score |-> score]

Verifiers == {"shell", "file", "turns", "cost", "custom"}

Verdicts(v, ep) ==
  CASE v.kind = "shell"  -> {Term(v.name, r) : r \in Shell(v, ep)}
    [] v.kind = "turns"  -> {Term(<<"turn_penalty">>, r) : r \in TurnPenalty(v, ep)}
    [] v.kind = "cost"   -> {Term(<<"cost_penalty">>, r) : r \in CostPenalty(v, ep)}
    [] v.kind = "file"   -> {Term(v.name, r) : r \in FileExists(v)}
    [] v.kind = "custom" -> {Term(v.name, r) : r \in {0, v.worth}} \cup {Term(<<>>, 0)}

(* safeVerify: a panic leaves the score at zero and no name. *)
SafeVerify(v, i, ep) ==
  {IF t.name = <<>> THEN Term(<<"verifier", i>>, 0) ELSE t : t \in Verdicts(v, ep)}

Ungraded == [total |-> 0, breakdown |-> <<>>]

\* Mutant: two verifiers of one name share a row.
FaultyKeyed(breakdown, name, i) == name

(* The later of two verifiers of one name is numbered. *)
Keyed(breakdown, name, i) == IF name \in DOMAIN breakdown THEN Append(name, i) ELSE name

Graded(grade, name, score, i) ==
  [total |-> grade.total + score,
   breakdown |-> (Keyed(grade.breakdown, name, i) :> score) @@ grade.breakdown]

(* Score: every grade its verifiers may give an episode. *)
Score(vs, ep) ==
  LET terms == [i \in DOMAIN vs |-> SafeVerify(vs[i], i - 1, ep)]
      picks == {p \in [DOMAIN vs -> UNION Range(terms)] : \A i \in DOMAIN vs : p[i] \in terms[i]}
  IN  {FoldLeftDomain(LAMBDA g, i : Graded(g, p[i].name, p[i].score, i - 1), Ungraded, p) : p \in picks}

-----------------------------------------------------------------------------
(***************************************************************************)
(* A group: rewards and failures by sample.                                *)
(***************************************************************************)
Successes(failure) == {s \in DOMAIN failure : failure[s] = "success"}

(* Solved: full reward, and the run still failed.  No threshold, no row.   *)
Solved(failure, reward, threshold) ==
  {s \in DOMAIN failure : threshold > 0 /\ failure[s] # "success" /\ reward[s] >= threshold}

(* PassAt: a running product over the samples drawn, and 0 when there are  *)
(* not enough.                                                             *)
PassAt(n, c, k) ==
  IF k <= 0 \/ k > n THEN [num |-> 0, den |-> 1]
  ELSE IF n - c < k THEN [num |-> 1, den |-> 1]
  ELSE LET Times(f(_)) == FoldLeft(LAMBDA p, i : p * f(i), 1, [i \in 1..k |-> i - 1])
           fails == Times(LAMBDA i : n - c - i)
           draws == Times(LAMBDA i : n - i)
       IN [num |-> draws - fails, den |-> draws]

(* Best, Worst: in the order of the samples, and only a better one counts. *)
Best(reward, order) ==
  FoldLeft(LAMBDA b, s : IF reward[s] > reward[b] THEN s ELSE b, Head(order), order)
Worst(reward, order) ==
  FoldLeft(LAMBDA b, s : IF reward[s] < reward[b] THEN s ELSE b, Head(order), order)

(* Kinds: the rows of the histogram, whatever the groups hold.             *)
ReportKinds ==
  {"success", "verifier", "max_iterations", "tool_loop", "denied", "refused", "max_tokens",
   "context_window", "budget", "wall_clock", "cancelled", "provider", "panic", "other"}

Failures(failure, k) == Cardinality({s \in DOMAIN failure : failure[s] = k})

(* writeHistogram: a kind without episodes has no bar.                     *)
Histogram(failure) ==
  [k \in {kind \in ReportKinds : Failures(failure, kind) > 0} |-> Failures(failure, k)]

AllPriced(priced) == \A s \in DOMAIN priced : priced[s]

UnpricedModels(unpriced) == UNION Range(unpriced)

(* writeUnpriced: silent over a group whose every cost is a price.         *)
UnpricedLine(priced, unpriced) ==
  IF AllPriced(priced) THEN {}
  ELSE IF UnpricedModels(unpriced) = {} THEN {"unnamed model"} ELSE UnpricedModels(unpriced)

-----------------------------------------------------------------------------
(* What PassAt estimates, for reference: the share of all draws of k from  *)
(* the samples in which one succeeds.                                      *)
IsShareOfDraws(p, samples, good, k) ==
  LET draws == {d \in SUBSET samples : Cardinality(d) = k}
  IN  p.num * Cardinality(draws) = Cardinality({d \in draws : d \cap good # {}}) * p.den
=============================================================================
