----------------------------- MODULE MCContext -----------------------------
(***************************************************************************)
(* Configurations and replies for model checking Context: each strategy    *)
(* alone and in sequence, ladders that drop skills before history.         *)
(***************************************************************************)
EXTENDS Context

pdf == "pdf"

MCSkills == {pdf}

Agent(strategy, ladder, notice) ==
  [strategy |-> strategy, ladder |-> ladder, notice |-> notice]

MCSetups ==
  { Agent(<<>>, << <<DropTagged(0, 0)>>, <<Window(2)>>, <<Window(1)>> >>, FALSE),
    Agent(<<WindowAt(5, 1)>>, <<>>, FALSE),
    Agent(<<Window(2)>>, <<>>, TRUE),
    Agent(<<DropTagged(3, 2)>>, << <<CompactedMute(1, 2)>> >>, TRUE),
    Agent(<<DropTagged(0, 0), Compacted(4, 2)>>, <<>>, FALSE) }

Calls(text, tools) == [text |-> text, tools |-> tools]

MCBatches ==
  { Calls(FALSE, <<Load(pdf)>>), Calls(TRUE, <<Load(pdf), Plain>>),
    Calls(FALSE, <<Load(pdf), Load(pdf)>>), Calls(TRUE, <<Load(pdf), Unload(pdf)>>),
    Calls(FALSE, <<Gated(pdf), Load(pdf)>>), Calls(TRUE, <<LoadUnknown, Gated(pdf)>>) }
=============================================================================
