------------------------------ MODULE ReActRun ------------------------------
(***************************************************************************)
(* run.go: the ReAct loop of one Run, and the runs that follow one another *)
(* on the same transcript: a session's turns, or the processes of a command *)
(* line, each of which reads the -session file the last one left and may    *)
(* die, or fail to write it, at any point.  The loop is a goroutine that hands events to a consumer over an *)
(* unbuffered channel; its context can be cancelled, by the caller or by a *)
(* governed limit, between any two of its steps.                           *)
(*                                                                         *)
(* Left out here: which messages a strategy drops and which tools a set    *)
(* shows; what a tool's result says.                                       *)
(***************************************************************************)
EXTENDS Wire, FiniteSets

CONSTANTS
  MaxIters,       \* WithMaxIters
  Terminal,       \* WithTerminalTool was given
  ForceLastN,     \* WithForceTerminalLastN
  MaxEmptyTurns,  \* maxEmptyTurns
  Abandons,       \* the consumer may stop reading before the end
  MaxRuns         \* bound: runs on one transcript

ASSUME BoundsAssumption ==
  /\ MaxIters \in Nat \ {0} /\ ForceLastN \in Nat /\ MaxEmptyTurns \in Nat
  /\ Terminal \in BOOLEAN /\ Abandons \in BOOLEAN
  /\ MaxRuns \in Nat \ {0}

VARIABLES
  convo,     \* Run.convo
  phase,     \* where the loop is
  iter,      \* iter of the loop
  empties,   \* Run.emptyTurns
  cause,     \* the first cause the context was cancelled with, or "none"
  seen,      \* the call in flight has streamed text
  reply,     \* the reply being acted on, or NoReply
  outcome,   \* Run.outcome
  err,       \* Run.err
  pauseID,   \* what the session remembers of a Paused outcome
  front,     \* who runs it: "cli" (wombat-jsonl) or "host" (a program, as wombat-serve)
  file,      \* the -session file of a "cli", empty before the first save
  reader,    \* the consumer: "reading", "away" or "closed"
  runs,      \* runs started
  unforced   \* history: calls of this run made with a free tool choice

vars == <<convo, phase, iter, empties, cause, seen, reply, outcome, err,
          pauseID, front, file, reader, runs, unforced>>

NoReply == [stop |-> "none", content |-> <<>>, thought |-> FALSE]
None    == [kind |-> "none"]

Answered       == [kind |-> "answer"]
Submitted      == [kind |-> "submitted"]
Paused(id)     == [kind |-> "paused", id |-> id]

-----------------------------------------------------------------------------
(* What the provider may answer. *)

UsedIds == UseIds(Blocks(convo))

(* The provider is trusted with one thing, never to use an id twice: the   *)
(* loop validates a transcript only once per run.                          *)
NextId(n) == Cardinality(UsedIds) + n

ToolKinds == {"plain", "pause", "terminal"}

Contents ==
  {<<>>, <<Text>>}
    \cup {<<Text, Use(NextId(1), t)>> : t \in ToolKinds}
    \cup {<<Use(NextId(1), t), Use(NextId(2), u)>> : t \in ToolKinds, u \in ToolKinds}

(* "end_turn" stands for stop_sequence too, "other" for anything unknown.  *)
Stops == {"end_turn", "max_tokens", "refusal", "tool_use", "other"}

(* "thought": a turn that said nothing had streamed twice its output       *)
(* budget of reasoning.                                                    *)
Replies ==
  [stop : Stops, content : Contents, thought : {FALSE}]
    \cup [stop : Stops, content : {<<>>}, thought : {TRUE}]

-----------------------------------------------------------------------------
Init ==
  /\ convo = Ask /\ phase = "validate" /\ iter = 1 /\ empties = 0
  /\ cause = "none" /\ seen = FALSE /\ reply = NoReply
  /\ outcome = None /\ err = "none" /\ pauseID = NoId
  /\ front \in {"cli", "host"} /\ file = <<>>
  /\ reader = "reading" /\ runs = 1 /\ unforced = 0

CtxDone == cause # "none"
Running == phase \notin {"deferred", "closed"}

(* causeOr: a governed cause is reported over what the call said. *)
CauseOr(e) == IF cause = "limit" THEN "limit" ELSE e

Ends(o, e) == outcome' = o /\ err' = e /\ phase' = "deferred"

Goes(p) == phase' = p /\ UNCHANGED <<outcome, err>>

Keep    == UNCHANGED <<pauseID, front, file, runs, reader>>
Rest(p) == Goes(p) /\ Keep /\ UNCHANGED cause

-----------------------------------------------------------------------------
(* The loop. *)

Begin ==
  /\ phase = "validate"
  /\ IF Validate(convo) THEN Goes("top") ELSE Ends(None, "invalid")
  /\ Keep /\ UNCHANGED <<convo, iter, empties, cause, seen, reply, unforced>>

(* The head of the loop, with the budget's step between the two looks at   *)
(* the context: charging it may itself cancel.                             *)
Top ==
  /\ phase = "top"
  /\ \/ /\ CtxDone /\ Ends(None, CauseOr("canceled")) /\ UNCHANGED cause
     \/ /\ ~CtxDone /\ iter > MaxIters /\ Ends(None, "cap") /\ UNCHANGED cause
     \/ /\ ~CtxDone /\ iter <= MaxIters
        /\ \/ Ends(None, "limit") /\ cause' = "limit"
           \/ Goes("iterStart") /\ UNCHANGED cause
  /\ Keep /\ UNCHANGED <<convo, iter, empties, seen, reply, unforced>>

(* Faulty variants, as a slip in the code would make them; no specification *)
(* uses them, each shows that a property would notice.                     *)
FaultyEmittedNoCtx == reader = "reading"

(* emit: the consumer takes the event, or the context is done. *)
Emitted == reader = "reading" \/ CtxDone

EmitIterStart ==
  /\ phase = "iterStart" /\ Emitted /\ Rest("llmStart")
  /\ UNCHANGED <<convo, iter, empties, seen, reply, unforced>>

Threshold == LET n == MaxIters - ForceLastN IN IF n >= 1 THEN n ELSE 1

(* toolChoice *)
Forced == Terminal /\ ForceLastN > 0 /\ iter >= Threshold

(* Materialize the request, and emit LLMStart. *)
EmitLLMStart ==
  /\ phase = "llmStart" /\ Emitted /\ Rest("call")
  /\ unforced' = IF Forced THEN unforced ELSE unforced + 1
  /\ seen' = FALSE
  /\ UNCHANGED <<convo, iter, empties, reply>>

Delta ==
  /\ phase = "call" /\ Emitted /\ seen' = TRUE /\ Rest("call")
  /\ UNCHANGED <<convo, iter, empties, reply, unforced>>

(* The call failed: what was streamed of the answer is kept. *)
CallFails ==
  /\ phase = "call"
  /\ convo' = IF seen THEN Push(convo, Assistant(<<Text>>)) ELSE convo
  /\ \/ Ends(None, CauseOr("call"))
     \/ CtxDone /\ Ends(None, CauseOr("canceled"))
  /\ Keep /\ UNCHANGED <<iter, empties, cause, seen, reply, unforced>>

CallReturns ==
  /\ phase = "call" /\ reply' \in Replies /\ seen' = FALSE /\ Rest("llmDone")
  /\ UNCHANGED <<convo, iter, empties, unforced>>

EmitLLMDone ==
  /\ phase = "llmDone" /\ Emitted /\ Rest("act")
  /\ UNCHANGED <<convo, iter, empties, seen, reply, unforced>>

EmptyTurn(r) == r.stop = "end_turn" /\ r.content = <<>>

(* Nothing said, nothing called: retried from the unchanged transcript. *)
ActEmpty ==
  /\ phase = "act" /\ EmptyTurn(reply)
  /\ empties' = empties + 1
  /\ IF reply.thought \/ empties' > MaxEmptyTurns
     THEN Ends(None, "empty") /\ UNCHANGED iter
     ELSE Goes("top") /\ iter' = iter + 1
  /\ reply' = NoReply
  /\ Keep /\ UNCHANGED <<convo, cause, seen, unforced>>

(* Everything else is pushed before it is looked at. *)
Act ==
  /\ phase = "act" /\ ~EmptyTurn(reply)
  /\ empties' = 0
  /\ convo' = Push(convo, Assistant(reply.content))
  /\ LET said == reply.content
     IN  CASE reply.stop = "end_turn"   -> Ends(Answered, "none")
           [] reply.stop = "max_tokens" -> Ends(None, "max_tokens")
           [] reply.stop = "refusal"    -> Ends(None, "refusal")
           [] reply.stop = "other"      -> Ends(None, "unexpected")
           [] reply.stop = "tool_use"   ->
                CASE UseIds(said) = {}           -> Ends(None, "no_tool_use")
                  [] FindTerminal(said) # NoId   -> Ends(Submitted, "none")
                  [] FindTerminal(said) = NoId /\ FindPause(said) # NoId ->
                       Ends(Paused(FindPause(said)), "none")
                  [] OTHER                       -> Goes("dispatch")
  /\ reply' = IF phase' = "dispatch" THEN reply ELSE NoReply
  /\ Keep /\ UNCHANGED <<iter, cause, seen, unforced>>

(* Dispatch returns one result per use, in order, whatever became of the   *)
(* calls and of the context.                                               *)
Dispatch ==
  /\ phase = "dispatch"
  /\ convo' = Push(convo, User(Answers(Ids(Uses(reply.content)), LAMBDA id : "ran")))
  /\ iter' = iter + 1 /\ reply' = NoReply /\ Rest("top")
  /\ UNCHANGED <<empties, seen, unforced>>

(* A panic in the strategy, the client or the dispatcher. *)
Panic ==
  /\ phase \in {"llmStart", "call", "act", "dispatch"}
  /\ Ends(None, "panic") /\ reply' = NoReply
  /\ Keep /\ UNCHANGED <<convo, iter, empties, cause, seen, unforced>>

(* The deferred steps; the last closes the event channel. *)
CloseEvents ==
  /\ phase = "deferred" /\ phase' = "closed"
  /\ pauseID' = IF outcome.kind = "paused" THEN outcome.id ELSE NoId
  /\ UNCHANGED <<convo, iter, empties, cause, seen, reply, outcome, err,
                 front, file, reader, runs, unforced>>

-----------------------------------------------------------------------------
(* The context and the consumer. *)

Cancel(c) ==
  /\ Running /\ cause = "none" /\ cause' = c
  /\ UNCHANGED <<convo, phase, iter, empties, seen, reply, outcome, err,
                 pauseID, front, file, reader, runs, unforced>>

(* The command line reads to the end. *)
Abandon ==
  /\ Abandons /\ front = "host" /\ reader = "reading" /\ phase # "closed" /\ reader' = "away"
  /\ UNCHANGED <<convo, phase, iter, empties, cause, seen, reply, outcome, err,
                 pauseID, front, file, runs, unforced>>

(* Run.Close: cancel, then drain. *)
Close ==
  /\ reader = "away" /\ reader' = "closed"
  /\ cause' = IF cause = "none" THEN "canceled" ELSE cause
  /\ UNCHANGED <<convo, phase, iter, empties, seen, reply, outcome, err,
                 pauseID, front, file, runs, unforced>>

(* A run from transcript c. *)
StartWith(c) ==
  /\ convo' = c /\ phase' = "validate" /\ iter' = 1 /\ empties' = 0
  /\ cause' = "none" /\ seen' = FALSE /\ reply' = NoReply
  /\ outcome' = None /\ err' = "none" /\ pauseID' = NoId
  /\ reader' = "reading" /\ unforced' = 0
  /\ UNCHANGED front

NextRun == phase = "closed" /\ runs < MaxRuns /\ runs' = runs + 1

(* What Session.Send seeds a turn with; it refuses once submitted. *)
SessionSeed == IF pauseID # NoId THEN AnswerPause(convo, pauseID) ELSE Then(convo)

SessionSend ==
  /\ front = "host" /\ outcome # Submitted
  /\ NextRun /\ StartWith(SessionSeed) /\ UNCHANGED file

(* What an invocation of the command line may start from, with a query and  *)
(* without one: fresh refuses to start from nothing at all.                 *)
CliInputs(f) == IF f = <<>> THEN {Ask} ELSE {Resume(f), f}

(* A crash in a save that writes the file itself leaves part of it. *)
FaultySaveInPlace == {convo, file, Front(convo)}

(* What saveSession may leave: the transcript, or, when a step before the   *)
(* rename fails, the file as it was.                                        *)
SaveSession == {convo, file}

Invoke(f) ==
  /\ front = "cli" /\ file' = f
  /\ \E c \in CliInputs(f) : StartWith(c)

CliNext == NextRun /\ \E f \in SaveSession : Invoke(f)

(* The process dies in mid-run; it is not the run counted, but the next one *)
(* on the same file.                                                        *)
CliKilled == phase # "closed" /\ Invoke(file) /\ UNCHANGED runs

-----------------------------------------------------------------------------
Loop ==
  \/ Begin \/ Top \/ EmitIterStart \/ EmitLLMStart
  \/ CallFails \/ CallReturns \/ EmitLLMDone
  \/ ActEmpty \/ Act \/ Dispatch \/ CloseEvents

Next ==
  \/ Loop \/ Delta \/ Panic
  \/ Cancel("canceled") \/ Cancel("limit") \/ Abandon \/ Close
  \/ SessionSend \/ CliNext \/ CliKilled

Spec == Init /\ [][Next]_vars

(* The goroutine is scheduled; a call to the model or to a tool returns;   *)
(* a caller that stops iterating calls Close, as Run's comment requires.   *)
FairSpec == Spec /\ WF_vars(Loop) /\ WF_vars(Close)

-----------------------------------------------------------------------------
Errs == {"none", "invalid", "canceled", "limit", "cap", "call", "empty",
         "max_tokens", "refusal", "no_tool_use", "unexpected", "panic"}

TypeOK ==
  /\ phase \in {"validate", "top", "iterStart", "llmStart", "call", "llmDone",
                "act", "dispatch", "deferred", "closed"}
  /\ iter \in 1..(MaxIters + 1) /\ empties \in 0..(MaxEmptyTurns + 1)
  /\ cause \in {"none", "canceled", "limit"} /\ err \in Errs
  /\ seen \in BOOLEAN /\ reader \in {"reading", "away", "closed"}
  /\ runs \in 1..MaxRuns /\ unforced \in 0..MaxIters /\ pauseID \in Nat
  /\ front \in {"cli", "host"} /\ (front = "host" => file = <<>>)

(* Every transcript sent to the provider is one it accepts: six            *)
(* invariants, kept by the loop through retries, merged turns, answers to  *)
(* pauses and abandoned calls, though they are checked only once per run;  *)
(* and so does a chat-completions server, where one turn becomes several   *)
(* messages and nothing may come between calls and their answers.          *)
RequestsValid == phase = "call" => Validate(convo) /\ WireAccepts(convo)

(* A paused run left exactly that question open: the two places that       *)
(* decide how to seed the next run, the session from the outcome and       *)
(* Resume from the messages, answer the same call.                         *)
PauseIsPending ==
  phase = "closed" /\ outcome.kind = "paused" =>
    /\ PendingPause(convo) = outcome.id
    /\ Contains(Dangling(convo), outcome.id)
    /\ Resume(convo) = SessionSeed

(* However a run ended (answered, paused, submitted, cut off mid-answer,   *)
(* cancelled mid-call, panicked), the transcript it leaves can be carried  *)
(* on, from a session and from the command line, and a paused one by an    *)
(* answer to its question: one dropped call would brick every later turn.  *)
(* So can the file a killed process leaves behind.                         *)
AlwaysResumable ==
  /\ phase = "closed" => Validate(SessionSeed) /\ Validate(Resume(convo))
  /\ file # <<>> => Validate(Resume(file))
  /\ PauseIsPending

(* No call of a run that used up its iterations, with a terminal tool      *)
(* configured, had a free choice within ForceLastN of the cap.             *)
CapWasForced ==
  err = "cap" /\ Terminal /\ ForceLastN > 0 => unforced < Threshold

(* Nothing the model was told or said is edited or dropped, within a run or *)
(* from one to the next.  A process that dies, or cannot save, loses what it *)
(* added and no more: the next one carries on exactly what the last save     *)
(* holds.                                                                    *)
TranscriptOnlyGrows ==
  [][/\ IsPrefix(Blocks(file), Blocks(file')) /\ IsPrefix(Blocks(file'), Blocks(convo'))
     /\ \/ IsPrefix(Blocks(convo), Blocks(convo'))
        \/ front = "cli" /\ phase' = "validate" /\ file' = file]_vars

(* Every run comes to an end, and closes its event channel, though the     *)
(* consumer may stop reading at any point, unless its process is killed over *)
(* and over; one that the iteration cap ends was pushed to submit before.    *)
EveryRunEnds ==
  /\ <>[][~CliKilled]_vars => (phase = "validate" ~> phase = "closed")
  /\ []CapWasForced
=============================================================================
