-------------------------------- MODULE Policy --------------------------------
(***************************************************************************)
(* Permission policies (permission/policy.go, rules.go, safe.go): what a   *)
(* policy says of one tool call before anybody is asked.  Rules are pure,  *)
(* so a policy is the sequence of its rules' opinions and a default.       *)
(*                                                                         *)
(* A request carries what the rules look at and nothing else:              *)
(*   caps, needs   the tool's capabilities and what it needs of the host;  *)
(*   paths         its path arguments, each "inside" or "outside" root;    *)
(*   command       the words of a shell command, <<>> when there is none;  *)
(*   dir           exec_dir: "none", "inside" or "outside".                *)
(* A word is a program or subcommand by name, or one of the kinds below.   *)
(***************************************************************************)
EXTENDS Naturals, Sequences, SequencesExt

CONSTANT SafePrefixes  \* the allow list, as sequences of words

ASSUME SafePrefixesAssumption == SafePrefixes \subseteq Seq(STRING)

\* "|" and "2>&1" are whole words; "||" any word holding it; "meta" holds
\* another shell metacharacter, "tilde" a tilde; "climbs" has a ".." element,
\* "outside" names an absolute path out of root, "runs" is find's -exec or kin.
Bar == "|"
Dup == "2>&1"
Rejected == {"||", "meta", "tilde"}
Unvouched == {"climbs", "outside", "runs"}

(***************************************************************************)
(* One operator per rule.                                                  *)
(***************************************************************************)
AllowCaps(caps, q) == IF q.caps \cap caps # {} THEN "allow" ELSE "undecided"

AskFor(caps, q) == IF q.caps \cap caps # {} THEN "ask" ELSE "undecided"

OnlyReads(q) == IF q.caps = {"readOnly"} THEN "allow" ELSE "undecided"

SelfContained(q) ==
  IF q.caps = {"readOnly"} /\ q.needs = {} THEN "allow" ELSE "undecided"

\* The words that are left to look at: a "2>&1" duplicates a descriptor and can
\* name no file.
Stripped(command) ==
  LET kept[i \in 0..Len(command)] ==
        IF i = 0 THEN <<>>
        ELSE IF command[i] = Dup THEN kept[i - 1] ELSE Append(kept[i - 1], command[i])
  IN kept[Len(command)]

\* Mutant: the command is matched as a whole.
FaultyStagesWhole(words) == {words}

\* The stages of a pipeline: what lies between its bars.
Stages(words) ==
  LET bars == {0, Len(words) + 1} \cup {i \in DOMAIN words : words[i] = Bar}
      next == {p \in bars \X bars : p[1] < p[2] /\ ~\E k \in bars : p[1] < k /\ k < p[2]}
  IN {SubSeq(words, p[1] + 1, p[2] - 1) : p \in next}

StageIsKnown(stage) ==
  /\ \E prefix \in SafePrefixes : IsPrefix(prefix, stage)
  /\ \A i \in DOMAIN stage : stage[i] \notin Unvouched

SafeCommands(q) ==
  LET words == Stripped(q.command)
  IN IF /\ "exec" \in q.caps
        /\ q.command # <<>>
        /\ \A i \in DOMAIN words : words[i] \notin Rejected
        /\ \A stage \in Stages(words) : stage # <<>> /\ StageIsKnown(stage)
        /\ q.dir # "outside"
     THEN "allow"
     ELSE "undecided"

FSRoot(q) ==
  CASE "exec" \in q.caps -> "ask"
    [] "exec" \notin q.caps /\ (q.needs \cap {"fsRead", "fsWrite"} = {} \/ q.paths = {}) -> "undecided"
    [] OTHER -> IF "outside" \in q.paths THEN "deny" ELSE "allow"

InsideRoot(q) == IF FSRoot(q) = "deny" THEN "ask" ELSE FSRoot(q)

(***************************************************************************)
(* Policies.                                                               *)
(***************************************************************************)
\* The first rule with an opinion decides; no default means refusal.
Decide(opinions, default) ==
  LET decided == {i \in DOMAIN opinions : opinions[i] # "undecided"}
  IN CASE decided # {} -> opinions[CHOOSE i \in decided : \A j \in decided : i <= j]
       [] decided = {} /\ default # "undecided" -> default
       [] decided = {} /\ default = "undecided" -> "deny"

ReadOnly(q) == Decide(<<OnlyReads(q)>>, "deny")

Workspace(q) ==
  Decide(<<AllowCaps({"meta"}, q), SelfContained(q), SafeCommands(q),
           AskFor({"exec"}, q), InsideRoot(q)>>, "ask")

AskEverything(q) == Decide(<<>>, "ask")

\* The -permission flag of the commands chooses among them; "off" installs no
\* gate.
Verdict(policy, q) ==
  CASE policy = "off" -> "allow"
    [] policy = "readonly" -> ReadOnly(q)
    [] policy = "workspace" -> Workspace(q)
    [] policy = "ask" -> AskEverything(q)

-------------------------------------------------------------------------------
(***************************************************************************)
(* What the documentation promises of a call that runs unasked, without    *)
(* the order of the rules.                                                 *)
(***************************************************************************)
BenignCommand(q) ==
  /\ q.dir # "outside"
  /\ \A i \in DOMAIN q.command : q.command[i] \notin Rejected \cup Unvouched
  /\ \A i \in DOMAIN q.command :
       i = 1 \/ q.command[i - 1] = Bar =>
         \E prefix \in SafePrefixes :
           IsPrefix(prefix, Stripped(SubSeq(q.command, i, Len(q.command))))
  /\ q.command # <<>>

Harmless(policy, q) ==
  CASE policy = "off" -> TRUE
    [] policy = "readonly" -> q.caps = {"readOnly"}
    [] policy = "ask" -> FALSE
    [] policy = "workspace" ->
         \/ "meta" \in q.caps
         \/ q.caps = {"readOnly"} /\ q.needs = {}
         \/ "exec" \in q.caps /\ BenignCommand(q)
         \/ /\ "exec" \notin q.caps
            /\ q.needs \cap {"fsRead", "fsWrite"} # {} /\ q.paths = {"inside"}
===============================================================================
