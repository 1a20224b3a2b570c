---------------------------- MODULE MCTelemetry ----------------------------
(* A run of up to two turns, in the first of which the model may ask for  *)
(* two calls of one tool side by side; one of them may delegate to a      *)
(* sub-agent that takes a turn of its own.                                *)
EXTENDS Telemetry

MCFrames == {"run", "turn", "model", "twin", "task", "sub", "subrun", "subturn", "submodel",
             "turn2", "model2"}
MCWriters == MCFrames \cup {"host"}

MCCaller ==
  [f \in MCFrames |->
     CASE f = "run" -> "host" [] f \in {"turn", "turn2"} -> "run"
       [] f \in {"model", "twin", "task"} -> "turn"
       [] f = "sub" -> "task" [] f = "subrun" -> "sub"
       [] f = "subturn" -> "subrun" [] f = "submodel" -> "subturn"
       [] f = "model2" -> "turn2"]

MCRole ==
  [f \in MCFrames |->
     CASE f \in {"run", "subrun"} -> "run" [] f \in {"turn", "turn2", "subturn"} -> "iteration"
       [] f \in {"model", "model2", "submodel"} -> "llm" [] f \in {"twin", "task"} -> "tool"
       [] f = "sub" -> "delegate"]

MCTurn == [f \in {"turn", "turn2", "subturn"} |-> IF f = "turn2" THEN 2 ELSE 1]
MCTool == [f \in {"twin", "task"} |-> "task"]

MCKind ==
  [i \in {"toolDur", "llmDur", "runDur"} |-> "histogram"] @@
  [i \in {"toolCalls", "llmCalls", "llmTokens", "llmCost", "llmUnpriced", "runs"} |-> "counter"] @@
  [i \in {"runsActive"} |-> "gauge"]
MCInstruments == DOMAIN MCKind

MCViews ==
  {[tracked |-> {"toolCalls"}, watched |-> "toolCalls", scrapes |-> 2],
   [tracked |-> {"toolCalls", "toolDur"}, watched |-> "toolDur", scrapes |-> 1],
   [tracked |-> MCInstruments \ {"toolCalls", "toolDur"}, watched |-> "nothing", scrapes |-> 0]}

MCBounds == <<1>>

MCClass == [e \in {"ok", "error"} |-> IF e = "ok" THEN "" ELSE "denied"]
=============================================================================
