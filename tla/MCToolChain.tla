------------------------------ MODULE MCToolChain ------------------------------
EXTENDS ToolChain

\* Workers and runs are interchangeable.
Interchangeable == Permutations(Workers) \cup Permutations(Runs)

MCPrefixes == {<<"go", "test">>, <<"head">>}

MCToolOf == [c \in Calls |-> IF c \in {"run", "push"} THEN "bash" ELSE "view"]
MCRetryable == [t \in Tools |-> {"refused"}]

\* The requests the policy is asked about in the state machine.
MCRequestOf ==
  [c \in Calls |->
    IF MCToolOf[c] = "bash"
    THEN [caps |-> {"exec"}, needs |-> {"exec"}, paths |-> {}, dir |-> "none",
          command |-> IF c = "run" THEN <<"go", "test", "2>&1", "|", "head">>
                                   ELSE <<"go", "test", "|", "sh">>]
    ELSE [caps |-> {"readOnly"}, needs |-> {"fsRead"}, dir |-> "none", command |-> <<>>,
          paths |-> IF c = "peek" THEN {"outside"} ELSE {"inside"}]]

\* Every kind of request, with commands of up to four words.
Words == {"go", "test", "head", "|", "2>&1", "meta", "climbs", "plain"}
Commands == UNION {[1..n -> Words] : n \in 0..4}
MCRequests ==
  [caps : SUBSET {"readOnly", "exec", "meta"}, needs : SUBSET {"fsRead", "network"},
   paths : SUBSET {"inside", "outside"}, dir : {"none", "inside", "outside"},
   command : {<<>>, <<"go", "test">>, <<"head", "|">>, <<"sh">>}]
  \cup
  [caps : {{"exec"}}, needs : {{}}, paths : {{}}, dir : {"none"}, command : Commands]
  \cup
  {MCRequestOf[c] : c \in Calls}
===============================================================================
