------------------------------- MODULE MCTape -------------------------------
(* A model request asked for two purposes, which share their answers, and a *)
(* tool call.                                                               *)
EXTENDS Tape

SymmetricCallers == Permutations(Callers)

MCRequests ==
  {[kind |-> "llm", asks |-> "a", purpose |-> "plan"],
   [kind |-> "llm", asks |-> "a", purpose |-> "act"],
   [kind |-> "tool", asks |-> "a", purpose |-> "act"]}
=============================================================================
