------------------------------ MODULE Sessions ------------------------------
(***************************************************************************)
(* httpapi/session.go, manager.go and the handlers of api.go: sessions     *)
(* that outlive the requests made of them.  Requests, the pump of each     *)
(* turn, the reaper, Manager.Close and the event streams are goroutines    *)
(* that meet under two mutexes; each action is one critical section, or    *)
(* one step taken between two of them with a pointer to a session that was *)
(* looked up before.                                                       *)
(*                                                                         *)
(* A run is what a session sees of it: it emits events, may park one of    *)
(* its calls on a human, and ends (ReActRun).  The queue of parked calls   *)
(* is in Approvals, the reading loop of a follower in EventLog, the        *)
(* transcript a turn starts from in ReActRun.                              *)
(***************************************************************************)
EXTENDS Naturals, Sequences, FiniteSets

CONSTANTS
  Session,     \* sessions that can be created
  Client,      \* goroutines serving requests
  Follower,    \* goroutines serving event streams
  MaxSessions, \* ManagerConfig.Max
  BufCap,      \* ManagerConfig.BufferSize
  Sweeps,      \* whether a session's TTL may pass
  Parties,     \* the sets of clients and followers that may take part
  MaxTurns,    \* bound: turns of one session
  MaxFrames    \* bound: frames of a session after which a run emits no more

ASSUME MaxSessionsAssumption == MaxSessions \in Nat \ {0}
ASSUME BufCapAssumption == BufCap \in Nat \ {0}
ASSUME SweepsAssumption == Sweeps \in BOOLEAN
ASSUME BoundsAssumption == MaxTurns \in Nat /\ MaxFrames \in Nat
ASSUME OwnersAssumption == {"nobody", "sweeper", "manager"} \cap Client = {}
ASSUME PartiesAssumption == Parties \subseteq SUBSET (Client \cup Follower)

VARIABLES
  party,      \* who takes part in this behaviour; it never changes
  sessions,   \* Manager.sessions
  made,       \* sessions created so far
  unvisited,  \* what reap has still to look at; it holds Manager.mu meanwhile
  sweeper,    \* the reaper goroutine: "on" or "off"
  mgr,        \* Manager.Close: "open", "stopping", "closing", "returned"
  ses,        \* the sessions
  req,        \* per client: where its request is
  fol         \* per follower: where its stream is

vars == <<party, sessions, made, unvisited, sweeper, mgr, ses, req, fol>>

Turn == 1..MaxTurns
NoTurn == 0       \* a nil cancel

NewSession ==
  [state    |-> "idle",
   turns    |-> 0,
   closed   |-> FALSE,
   cancel   |-> NoTurn,  \* whose context Session.cancel ends
   frames   |-> <<>>,
   base     |-> 0,
   pump     |-> [t \in Turn |-> "none"],   \* "run", "recorded", "gone"
   ctxDone  |-> {},      \* turns whose context is done
   question |-> "none",  \* of the turn in flight: "parked", "settled"
   queue    |-> "open",
   by       |-> "nobody",   \* who took it from the registry
   close    |-> "no",    \* where Session.close is
   captured |-> NoTurn]  \* the cancel it read

Idle == [at |-> "idle"]
NotFollowing == [at |-> "idle"]

Init ==
  /\ party \in Parties
  /\ sessions = {} /\ made = {} /\ unvisited = {}
  /\ sweeper = "on" /\ mgr = "open"
  /\ ses = [s \in Session |-> NewSession]
  /\ req = [c \in Client |-> Idle]
  /\ fol = [f \in Follower |-> NotFollowing]

RegistryFree == unvisited = {}

Total(x) == x.base + Len(x.frames)

(* What Follow and Send look at to tell that the conversation is over. *)
Over(x) == x.closed \/ x.state = "done"

(* wake: every stream parked on the session looks again. *)
Woken(s) ==
  [f \in Follower |-> IF fol[f].at = "parked" /\ fol[f].s = s
                      THEN [fol[f] EXCEPT !.at = "look"] ELSE fol[f]]

(* emitLocked: nothing once closed; the oldest frames make room. *)
Emit(x, t, kind) ==
  LET grown == Append(x.frames, [turn |-> t, kind |-> kind])
      excess == Len(grown) - BufCap
  IN  IF x.closed THEN x
      ELSE IF Len(grown) > BufCap
      THEN [x EXCEPT !.frames = SubSeq(grown, excess + 1, Len(grown)),
                     !.base = @ + excess]
      ELSE [x EXCEPT !.frames = grown]

(* The session s becomes x, with the wake its emission makes. *)
Becomes(s, x) ==
  /\ ses' = [ses EXCEPT ![s] = x]
  /\ fol' = IF Total(x) > Total(ses[s]) THEN Woken(s) ELSE fol

(* approvals.release: a parked call is denied. *)
Released(x) == [x EXCEPT !.question = IF @ = "parked" THEN "settled" ELSE @]

-----------------------------------------------------------------------------
(* Requests.  A client that "has" a session keeps its pointer, whatever    *)
(* becomes of the session meanwhile.                                       *)

Create(c, s) ==
  /\ RegistryFree /\ req[c] = Idle /\ s \notin made
  /\ mgr = "open" /\ Cardinality(sessions) < MaxSessions
  /\ sessions' = sessions \cup {s} /\ made' = made \cup {s}
  /\ req' = [req EXCEPT ![c] = [at |-> "creating", s |-> s]]
  /\ UNCHANGED <<party, unvisited, sweeper, mgr, ses, fol>>

Get(c, s) ==
  /\ RegistryFree /\ req[c] = Idle /\ s \in sessions
  /\ req' = [req EXCEPT ![c] = [at |-> "has", s |-> s]]
  /\ UNCHANGED <<party, sessions, made, unvisited, sweeper, mgr, ses, fol>>

(* ErrNoSuchSession, ErrBusy, ErrDone. *)
Refuses(x) == x.closed \/ x.cancel # NoTurn \/ x.state = "done"

StartTurn(x) ==
  LET t == x.turns + 1
  IN  Emit([x EXCEPT !.turns = t, !.state = "running", !.cancel = t,
                     !.pump[t] = "run"], t, "started")

(* Session.Send by a request for s that, refused, goes on as r. *)
SendOr(c, s, r) ==
  /\ IF Refuses(ses[s])
     THEN req' = [req EXCEPT ![c] = r] /\ UNCHANGED <<ses, fol>>
     ELSE /\ ses[s].turns < MaxTurns
          /\ Becomes(s, StartTurn(ses[s]))
          /\ req' = [req EXCEPT ![c] = Idle]
  /\ UNCHANGED <<party, sessions, made, unvisited, sweeper, mgr>>

(* createSession: a session whose first turn is refused is dropped again. *)
FirstSend(c) ==
  /\ req[c].at = "creating"
  /\ SendOr(c, req[c].s, [req[c] EXCEPT !.at = "dropping"])

(* postMessage *)
Send(c) == req[c].at = "has" /\ SendOr(c, req[c].s, Idle)

(* Session.Cancel: deny what is parked; read cancel; call it. *)
CancelDeny(c) ==
  /\ req[c].at = "has"
  /\ ses' = [ses EXCEPT ![req[c].s] = Released(@)]
  /\ req' = [req EXCEPT ![c].at = "denied"]
  /\ UNCHANGED <<party, sessions, made, unvisited, sweeper, mgr, fol>>

CancelRead(c) ==
  /\ req[c].at = "denied"
  /\ req' = [req EXCEPT ![c] =
               LET t == ses[@.s].cancel
               IN  IF t = NoTurn THEN Idle
                   ELSE [at |-> "cancelling", s |-> @.s, turn |-> t]]
  /\ UNCHANGED <<party, sessions, made, unvisited, sweeper, mgr, ses, fol>>

CancelCall(c) ==
  /\ req[c].at = "cancelling"
  /\ ses' = [ses EXCEPT ![req[c].s].ctxDone = @ \cup {req[c].turn}]
  /\ req' = [req EXCEPT ![c] = Idle]
  /\ UNCHANGED <<party, sessions, made, unvisited, sweeper, mgr, fol>>

(* Session.Resolve of a parked call; any other is an error. *)
Resolve(c) ==
  /\ req[c].at = "has"
  /\ ses' = [ses EXCEPT ![req[c].s] = Released(@)]
  /\ req' = [req EXCEPT ![c] = Idle]
  /\ UNCHANGED <<party, sessions, made, unvisited, sweeper, mgr, fol>>

(* Manager.Delete, up to the close it owes; also what createSession does   *)
(* when its first Send is refused.                                         *)
Delete(c, s) ==
  /\ RegistryFree /\ s \in sessions
  /\ req[c] \in {Idle, [at |-> "dropping", s |-> s]}
  /\ sessions' = sessions \ {s}
  /\ ses' = [ses EXCEPT ![s].by = c, ![s].close = "owed"]
  /\ req' = [req EXCEPT ![c] = [at |-> "deleting", s |-> s]]
  /\ UNCHANGED <<party, made, unvisited, sweeper, mgr, fol>>

DeleteMisses(c) ==
  /\ RegistryFree /\ req[c].at = "dropping" /\ req[c].s \notin sessions
  /\ req' = [req EXCEPT ![c] = Idle]
  /\ UNCHANGED <<party, sessions, made, unvisited, sweeper, mgr, ses, fol>>

DeleteReturns(c) ==
  /\ req[c].at = "deleting" /\ ses[req[c].s].close = "done"
  /\ req' = [req EXCEPT ![c] = Idle]
  /\ UNCHANGED <<party, sessions, made, unvisited, sweeper, mgr, ses, fol>>

-----------------------------------------------------------------------------
(* Session.close, by whoever took the session from the registry.  The      *)
(* reaper and Manager.Close close what they took one after the other.      *)

InTurn(s) ==
  /\ ses[s].by = "manager" => mgr = "closing"
  /\ \A r \in Session \ {s} :
       ses[r].by = ses[s].by => ses[r].close \in {"no", "owed", "done"}

Step(s, from, x) ==
  /\ ses[s].close = from /\ InTurn(s)
  /\ ses' = [ses EXCEPT ![s] = x]
  /\ UNCHANGED <<party, sessions, made, unvisited, sweeper, mgr, req>>

CloseQueue(s) ==
  /\ Step(s, "owed", [Released(ses[s]) EXCEPT !.queue = "closed", !.close = "shut"])
  /\ UNCHANGED fol

(* Faulty variants, as a slip in the code would make them; no specification *)
(* uses them, each shows that a property below would notice.               *)

FaultyCloseMarkOpen(s) ==
  /\ Step(s, "shut", [ses[s] EXCEPT !.captured = ses[s].cancel, !.close = "marked"])
  /\ fol' = Woken(s)

(* One section: the turn to cancel is read as the door is shut on others. *)
CloseMark(s) ==
  /\ Step(s, "shut", [ses[s] EXCEPT !.captured = ses[s].cancel,
                                    !.closed = TRUE, !.close = "marked"])
  /\ fol' = Woken(s)

FaultyCloseForgetsCancel(s) ==
  /\ Step(s, "marked", [ses[s] EXCEPT !.close = "waiting"])
  /\ UNCHANGED fol

CloseCancel(s) ==
  /\ Step(s, "marked", [ses[s] EXCEPT !.ctxDone = @ \cup ({ses[s].captured} \ {NoTurn}),
                                      !.close = "waiting"])
  /\ UNCHANGED fol

(* wg.Wait *)
CloseWaited(s) ==
  /\ \A t \in Turn : ses[s].pump[t] \in {"none", "gone"}
  /\ Step(s, "waiting", [ses[s] EXCEPT !.close = "done"])
  /\ UNCHANGED fol

CloseSteps(s) == CloseQueue(s) \/ CloseMark(s) \/ CloseCancel(s) \/ CloseWaited(s)

-----------------------------------------------------------------------------
(* The reaper. *)

Closes(owner) == \E s \in Session : ses[s].by = owner /\ ses[s].close # "done"

ReapBegin ==
  /\ Sweeps /\ sweeper = "on" /\ RegistryFree /\ ~Closes("sweeper")
  /\ unvisited' = sessions
  /\ UNCHANGED <<party, sessions, made, sweeper, mgr, ses, req, fol>>

(* The TTL passes at any time but while createSession, which took the      *)
(* session from nobody, goes straight on to its Send.                      *)
MayExpire(s) == \A c \in Client : req[c] # [at |-> "creating", s |-> s]

(* One session of the loop: only one between turns and past its TTL goes. *)
ReapVisit(s) ==
  /\ s \in unvisited /\ unvisited' = unvisited \ {s}
  /\ \/ UNCHANGED <<sessions, ses>>
     \/ /\ ses[s].cancel = NoTurn /\ MayExpire(s)
        /\ sessions' = sessions \ {s}
        /\ ses' = [ses EXCEPT ![s].by = "sweeper", ![s].close = "owed"]
  /\ UNCHANGED <<party, made, sweeper, mgr, req, fol>>

SweepStops ==
  /\ sweeper = "on" /\ mgr # "open" /\ RegistryFree /\ ~Closes("sweeper")
  /\ sweeper' = "off"
  /\ UNCHANGED <<party, sessions, made, unvisited, mgr, ses, req, fol>>

-----------------------------------------------------------------------------
(* Manager.Close: take every session, stop the reaper, close each. *)

CloseBegins ==
  /\ mgr = "open" /\ RegistryFree
  /\ mgr' = "stopping" /\ sessions' = {}
  /\ ses' = [s \in Session |-> IF s \in sessions
                               THEN [ses[s] EXCEPT !.by = "manager", !.close = "owed"]
                               ELSE ses[s]]
  /\ UNCHANGED <<party, made, unvisited, sweeper, req, fol>>

CloseSwept ==
  /\ mgr = "stopping" /\ sweeper = "off" /\ mgr' = "closing"
  /\ UNCHANGED <<party, sessions, made, unvisited, sweeper, ses, req, fol>>

CloseReturns ==
  /\ mgr = "closing" /\ ~Closes("manager") /\ mgr' = "returned"
  /\ UNCHANGED <<party, sessions, made, unvisited, sweeper, ses, req, fol>>

-----------------------------------------------------------------------------
(* The run of a turn, and its pump. *)

PumpAppend(s, t) ==
  /\ ses[s].pump[t] = "run" /\ Total(ses[s]) < MaxFrames
  /\ Becomes(s, Emit(ses[s], t, "event"))
  /\ UNCHANGED <<party, sessions, made, unvisited, sweeper, mgr, req>>

(* approve: one gated call of the turn parks, until it is settled or the   *)
(* turn's context is done (one per turn: a bound).                         *)
Park(s, t) ==
  /\ ses[s].pump[t] = "run" /\ ses[s].question = "none" /\ ses[s].queue = "open"
  /\ ses' = [ses EXCEPT ![s].question = "parked"]
  /\ UNCHANGED <<party, sessions, made, unvisited, sweeper, mgr, req, fol>>

Unpark(s, t) ==
  /\ ses[s].pump[t] = "run" /\ ses[s].question = "parked" /\ t \in ses[s].ctxDone
  /\ ses' = [ses EXCEPT ![s] = Released(@)]
  /\ UNCHANGED <<party, sessions, made, unvisited, sweeper, mgr, req, fol>>

(* A limit of the turn's budget. *)
Abort(s, t) ==
  /\ ses[s].pump[t] = "run" /\ t \notin ses[s].ctxDone
  /\ ses' = [ses EXCEPT ![s].ctxDone = @ \cup {t}]
  /\ UNCHANGED <<party, sessions, made, unvisited, sweeper, mgr, req, fol>>

(* The state a turn leaves, by its outcome: an answer, a pause, a terminal *)
(* tool, an error.                                                         *)
TurnEnds == {"idle", "waiting", "done", "failed"}

FaultyPumpEndUntold(s, t, e) ==
  /\ ses[s].pump[t] = "run" /\ ses[s].question # "parked"
  /\ ses' = [ses EXCEPT ![s].state = e, ![s].cancel = NoTurn,
                        ![s].pump[t] = "recorded", ![s].question = "none"]
  /\ UNCHANGED <<party, sessions, made, unvisited, sweeper, mgr, req, fol>>

(* The run is over and drained: one section records how it ended. *)
PumpEnd(s, t, e) ==
  /\ ses[s].pump[t] = "run" /\ ses[s].question # "parked"
  /\ Becomes(s, Emit([ses[s] EXCEPT !.state = e, !.cancel = NoTurn,
                                    !.pump[t] = "recorded", !.question = "none"],
                       t, "ended"))
  /\ UNCHANGED <<party, sessions, made, unvisited, sweeper, mgr, req>>

(* The deferred cancel and wg.Done. *)
PumpExit(s, t) ==
  /\ ses[s].pump[t] = "recorded"
  /\ ses' = [ses EXCEPT ![s].pump[t] = "gone", ![s].ctxDone = @ \cup {t}]
  /\ UNCHANGED <<party, sessions, made, unvisited, sweeper, mgr, req, fol>>

-----------------------------------------------------------------------------
(* An event stream: Session.Follow, and the end frame of the handler. *)

Open(f, s) ==
  /\ RegistryFree /\ fol[f] = NotFollowing /\ s \in sessions
  /\ fol' = [fol EXCEPT ![f] = [at |-> "look", s |-> s, seq |-> 0]]
  /\ UNCHANGED <<party, sessions, made, unvisited, sweeper, mgr, ses, req>>

(* EventSource comes back with the last id it saw, and resumes past it; it *)
(* gets a 404 once the session is dropped.                                 *)
Reconnect(f) ==
  /\ RegistryFree /\ fol[f].at = "left" /\ fol[f].s \in sessions
  /\ fol' = [fol EXCEPT ![f].at = "look"]
  /\ UNCHANGED <<party, sessions, made, unvisited, sweeper, mgr, ses, req>>

FaultyLookOverFirst(f) ==
  /\ fol[f].at = "look"
  /\ LET x == ses[fol[f].s]
     IN  fol' = [fol EXCEPT ![f] =
                   IF Over(x) THEN [@ EXCEPT !.at = "over"]
                   ELSE IF @.seq < Total(x) THEN [@ EXCEPT !.seq = Total(x)]
                   ELSE [@ EXCEPT !.at = "parked"]]
  /\ UNCHANGED <<party, sessions, made, unvisited, sweeper, mgr, ses, req>>

(* The locked section of Follow, and the batch it hands out. *)
Look(f) ==
  /\ fol[f].at = "look"
  /\ LET x == ses[fol[f].s]
     IN  fol' = [fol EXCEPT ![f] =
                   IF @.seq < Total(x) THEN [@ EXCEPT !.seq = Total(x)]
                   ELSE IF Over(x) THEN [@ EXCEPT !.at = "over"]
                   ELSE [@ EXCEPT !.at = "parked"]]
  /\ UNCHANGED <<party, sessions, made, unvisited, sweeper, mgr, ses, req>>

(* The client goes away, or a write to it fails; the session runs on. *)
Disconnect(f) ==
  /\ fol[f].at \in {"look", "parked", "over"} /\ fol' = [fol EXCEPT ![f].at = "left"]
  /\ UNCHANGED <<party, sessions, made, unvisited, sweeper, mgr, ses, req>>

(* sendEnd: the state the client is told the conversation ended in. *)
SendEnd(f) ==
  /\ fol[f].at = "over"
  /\ fol' = [fol EXCEPT ![f] = [at |-> "told", s |-> @.s, seq |-> @.seq,
                                state |-> ses[@.s].state]]
  /\ UNCHANGED <<party, sessions, made, unvisited, sweeper, mgr, ses, req>>

-----------------------------------------------------------------------------
Next ==
  \/ \E c \in Client \cap party :
       \/ \E s \in Session : Create(c, s) \/ Get(c, s) \/ Delete(c, s)
       \/ FirstSend(c) \/ Send(c) \/ CancelDeny(c) \/ CancelRead(c) \/ CancelCall(c) \/ Resolve(c)
       \/ DeleteMisses(c) \/ DeleteReturns(c)
  \/ \E s \in Session :
       \/ CloseSteps(s) \/ ReapVisit(s)
       \/ \E t \in Turn :
            \/ PumpAppend(s, t) \/ Park(s, t) \/ Unpark(s, t) \/ Abort(s, t)
            \/ PumpExit(s, t)
            \/ \E e \in TurnEnds : PumpEnd(s, t, e)
  \/ ReapBegin \/ SweepStops \/ CloseBegins \/ CloseSwept \/ CloseReturns
  \/ \E f \in Follower \cap party :
       \/ \E s \in Session : Open(f, s)
       \/ Reconnect(f) \/ Look(f) \/ Disconnect(f) \/ SendEnd(f)

Spec == Init /\ [][Next]_vars

(* A goroutine that can take a step takes it.  A run is certain to end     *)
(* only once its context is done: before that it may wait for a human, or  *)
(* for a tool, for ever.                                                   *)
CancelledEnds(s, t) ==
  t \in ses[s].ctxDone /\ \E e \in TurnEnds : PumpEnd(s, t, e)

Fairness ==
  /\ \A s \in Session :
       /\ WF_vars(CloseSteps(s)) /\ WF_vars(ReapVisit(s))
       /\ \A t \in Turn :
            WF_vars(CancelledEnds(s, t)) /\ WF_vars(Unpark(s, t)) /\ WF_vars(PumpExit(s, t))
  /\ \A c \in Client : WF_vars(CancelRead(c)) /\ WF_vars(CancelCall(c))
  /\ WF_vars(SweepStops) /\ WF_vars(CloseSwept) /\ WF_vars(CloseReturns)
  /\ \A f \in Follower : WF_vars(Look(f)) /\ WF_vars(SendEnd(f))

FairSpec == Spec /\ Fairness

-----------------------------------------------------------------------------
States == {"idle", "running", "waiting", "done", "failed"}

Frame == [turn : Turn, kind : {"started", "event", "ended"}]

TypeOK ==
  /\ party \in Parties
  /\ sessions \subseteq made /\ made \subseteq Session /\ unvisited \subseteq Session
  /\ sweeper \in {"on", "off"} /\ mgr \in {"open", "stopping", "closing", "returned"}
  /\ \A s \in Session :
       LET x == ses[s]
       IN  /\ x.state \in States /\ x.turns \in 0..MaxTurns /\ x.closed \in BOOLEAN
           /\ x.cancel \in 0..MaxTurns /\ x.captured \in 0..MaxTurns
           /\ x.base \in Nat /\ Len(x.frames) <= BufCap
           /\ \A i \in DOMAIN x.frames : x.frames[i] \in Frame
           /\ x.pump \in [Turn -> {"none", "run", "recorded", "gone"}]
           /\ x.ctxDone \subseteq Turn
           /\ x.question \in {"none", "parked", "settled"} /\ x.queue \in {"open", "closed"}
           /\ x.by \in Client \cup {"nobody", "sweeper", "manager"}
           /\ x.close \in {"no", "owed", "shut", "marked", "waiting", "done"}

(* A session runs one turn at a time, and cancel is always the running     *)
(* turn's: a Send that overlapped another, or a pump that cleared a cancel *)
(* that was not its own, would leave a run nobody can stop.                *)
OneTurnAtATime ==
  \A s \in Session :
    LET x == ses[s]
    IN  /\ x.cancel \in {NoTurn, x.turns}
        /\ (x.state = "running") = (x.cancel # NoTurn)
        /\ \A t \in Turn : (x.pump[t] = "run") = (x.cancel = t)

(* One log for the conversation, whatever was evicted of it: turns follow  *)
(* each other, none starts before the TurnEnded of the one before, and     *)
(* while the session lives the last frame tells whether a turn runs.       *)
LogTellsTurns ==
  \A s \in Session :
    LET x == ses[s]  fr == x.frames  n == Len(x.frames)
    IN  /\ \A i \in 1..(n - 1) :
             IF fr[i].kind = "ended"
             THEN fr[i + 1] = [turn |-> fr[i].turn + 1, kind |-> "started"]
             ELSE fr[i + 1].turn = fr[i].turn /\ fr[i + 1].kind # "started"
        /\ ~x.closed /\ x.turns > 0 =>
             /\ n > 0 /\ fr[n].turn = x.turns
             /\ (fr[n].kind = "ended") = (x.cancel = NoTurn)

(* Once close has returned nothing of the session runs, then or later:     *)
(* requests that looked it up before it was dropped cannot revive it.      *)
DroppedIsStopped ==
  \A s \in Session : ses[s].close = "done" =>
    \A t \in Turn : ses[s].pump[t] \in {"none", "gone"}

(* When Manager.Close returns the reaper is gone, no session is left, none *)
(* can be made, and a run still going is one a Delete is waiting for.      *)
CloseLeavesOnlyDeletes ==
  mgr = "returned" =>
    /\ sweeper = "off" /\ sessions = {}
    /\ \A s \in Session, t \in Turn :
         ses[s].pump[t] \in {"run", "recorded"} =>
           ses[s].by \in Client /\ ses[s].close # "done"

(* What has been shut down stays so, whoever shut it down. *)
StoppedStaysStopped == DroppedIsStopped /\ CloseLeavesOnlyDeletes

(* A stream ends only with the conversation or the session, and only after *)
(* the last frame: the TurnEnded that finished it was handed out.  One     *)
(* that is parked has missed neither a frame nor the end.                  *)
StreamsMissNothing ==
  \A f \in Follower :
    LET x == ses[fol[f].s]
    IN  /\ fol[f].at \in {"over", "told"} =>
             Over(x) /\ fol[f].seq = Total(x)
        /\ fol[f].at = "parked" => ~Over(x) /\ fol[f].seq = Total(x)

(* Delete, the reaper and Manager.Close return: each waits for runs that   *)
(* only they can end, and Manager.Close for the reaper first.              *)
ClosersReturn ==
  /\ \A s \in Session : (ses[s].close = "owed") ~> (ses[s].close = "done")
  /\ (mgr = "stopping") ~> (mgr = "returned")

(* No stream is left open on a conversation that is over. *)
StreamsEnd ==
  \A f \in Follower :
    (fol[f].at \in {"look", "parked"} /\ Over(ses[fol[f].s]))
      ~> (fol[f].at \in {"told", "left"})

(* Neither those who close nor those who watch wait for ever. *)
NobodyWaitsForever == ClosersReturn /\ StreamsEnd

-----------------------------------------------------------------------------
(* What comments of the source say, and the code does not keep. *)

(* manager.go: "A session with a turn in flight is never swept". *)
SweepsNoTurn ==
  \A s \in Session : ses[s].by = "sweeper" => ses[s].captured = NoTurn

(* session.go: "[Manager.Close] can promise that no run is still executing *)
(* when it returns".                                                       *)
CloseStopsEveryRun ==
  mgr = "returned" => \A s \in Session, t \in Turn : ses[s].pump[t] # "run"
=============================================================================
