-------------------------------- MODULE Tape --------------------------------
(***************************************************************************)
(* The tape: a JSONL file of model and tool calls, each keyed by what the  *)
(* model could see of its request, that sessions replay, extend or record  *)
(* one after the other, and the agents of a session share.                 *)
(*                                                                         *)
(* An append may fail, half a line on the disk or all of it but its end;   *)
(* the process may die at any point, in the middle of an append too; the   *)
(* operator deletes a line that Open will not read.  An answer is the      *)
(* number of the live call that gave it, so that no two are alike; a tool  *)
(* failure is an answer, a failed model call is not.  Not modelled: the    *)
(* deltas a replayed answer is streamed as, Stats, a machine that loses    *)
(* its page cache, tapes that were edited beyond the deletion of a line.   *)
(***************************************************************************)
EXTENDS Naturals, FiniteSets, SequencesExt

CONSTANTS
  Requests,     \* [kind, asks, purpose]: asks is all the model sees
  Callers,      \* goroutines that make calls on the shared tape
  MaxSessions,  \* bound: sessions, one process after the other
  MaxLive,      \* bound: live calls, over all sessions
  MaxFailures   \* bound: appends that fail while the process lives

Modes == {"auto", "record", "replay"}

VARIABLES
  file,       \* lines on the disk: [key, seq, val, ok], ok if Open can read it
  ended,      \* the file is empty or ends in a newline
  session, mode, up,
  loaded, cursor, next,   \* by key
  f,          \* the tape is open for append
  writeErr,
  pc, key, val,   \* by caller: "idle", "live", "record"
  lives, failures, crashes,
  \* History, which the code does not keep:
  past,       \* by key: the answers in the file when the session opened
  cut,        \* whether the file then ended in the middle of a line
  taken,      \* by key: the answers replayed in this session
  tried,      \* the appends tried in all sessions, <<key, val>>
  mine,       \* the answers recorded in this session, or so the caller thinks
  vouched     \* those recorded before a Close returned nil, the sessions that
              \* began behind a line without its newline left out

disk    == <<file, ended>>
handle  == <<loaded, cursor, next, f, writeErr>>
calls   == <<pc, key, val>>
bounds  == <<session, lives, failures, crashes>>
history == <<past, cut, taken, tried, mine, vouched>>
vars == <<disk, mode, up, handle, calls, bounds, history>>

-----------------------------------------------------------------------------
(* canonLLM, canonTool: kind and content; the purpose is the harness's.    *)
KeyOf(r) == <<r.kind, r.asks>>
Keys == {KeyOf(r) : r \in Requests}

None == [k \in Keys |-> <<>>]

(* The file after an append got as far as how says: the whole line, all    *)
(* but the newline, a part of it, nothing.  What follows a line that was   *)
(* not ended is glued to it, and neither can be read.                      *)
Appended(e, how) ==
  CASE how = "nothing" -> file
    [] how # "nothing" /\ ended ->
         Append(file, [key |-> e.key, seq |-> e.seq, val |-> e.val, ok |-> how # "part"])
    [] OTHER -> [file EXCEPT ![Len(file)].ok = FALSE]

Writes(e, how) ==
  /\ file' = Appended(e, how)
  /\ ended' = IF how = "nothing" THEN ended ELSE how = "line"
  /\ tried' = tried \cup {<<e.key, e.val>>}

(* A key's lines, in the order of the file, and what they answered.        *)
LinesOf(k) ==
  LET read[i \in 0..Len(file)] ==
        IF i = 0 THEN <<>>
        ELSE IF file[i].ok /\ file[i].key = k THEN Append(read[i - 1], file[i]) ELSE read[i - 1]
  IN  read[Len(file)]

Answers(entries) == [i \in DOMAIN entries |-> entries[i].val]

(* slices.SortStableFunc by seq: of equal numbers the earlier line first.  *)
Sorted(entries) ==
  LET before(i, j) == \/ entries[i].seq < entries[j].seq
                      \/ entries[i].seq = entries[j].seq /\ i < j
      rank(i) == Cardinality({j \in DOMAIN entries : before(j, i)})
  IN  [n \in DOMAIN entries |-> entries[CHOOSE i \in DOMAIN entries : rank(i) = n - 1]]

\* Mutant: numbers start over in every session.
FaultySeedZero == [k \in Keys |-> 0]

Seed == [k \in Keys |-> Len(LinesOf(k))]

Init ==
  /\ file = <<>> /\ ended = TRUE /\ session = 0 /\ mode = "auto" /\ up = FALSE
  /\ loaded = None /\ cursor = [k \in Keys |-> 0] /\ next = [k \in Keys |-> 0]
  /\ f = FALSE /\ writeErr = "none"
  /\ pc = [c \in Callers |-> "idle"]
  /\ key = [c \in Callers |-> CHOOSE k \in Keys : TRUE] /\ val = [c \in Callers |-> 0]
  /\ lives = 0 /\ failures = 0 /\ crashes = 0
  /\ past = None /\ cut = FALSE /\ taken = None
  /\ tried = {} /\ mine = {} /\ vouched = {}

(* Open reads the whole file or refuses; Replay wants one that exists, and *)
(* keeps no handle to it.                                                  *)
Open(m) ==
  /\ ~up /\ session < MaxSessions
  /\ m = "replay" => session > 0
  /\ \A i \in DOMAIN file : file[i].ok
  /\ up' = TRUE /\ mode' = m /\ session' = session + 1
  /\ loaded' = [k \in Keys |-> Answers(Sorted(LinesOf(k)))]
  /\ cursor' = [k \in Keys |-> 0] /\ next' = Seed
  /\ f' = (m # "replay") /\ writeErr' = "none"
  /\ past' = [k \in Keys |-> Answers(LinesOf(k))] /\ cut' = ~ended /\ taken' = None
  /\ UNCHANGED <<disk, calls, lives, failures, crashes, tried, mine, vouched>>

(* "delete the line to recover the rest"                                   *)
DeleteLine(i) ==
  /\ ~up /\ i \in DOMAIN file /\ ~file[i].ok
  /\ file' = RemoveAt(file, i) /\ ended' = (i < Len(file) => ended)
  /\ UNCHANGED <<mode, up, handle, calls, bounds, history>>

-----------------------------------------------------------------------------
Idle(c) == up /\ pc[c] = "idle"

(* take: the next answer under the key, the last one again when there is   *)
(* none.  A call that is cancelled has taken its answer all the same.      *)
Takes(k) == loaded[k] # <<>>

Replayed(c, r) ==
  LET k == KeyOf(r)
      i == IF cursor[k] < Len(loaded[k]) THEN cursor[k] + 1 ELSE Len(loaded[k])
  IN  /\ Idle(c) /\ mode # "record" /\ Takes(k)
      /\ Len(taken[k]) <= Len(loaded[k])  \* bound: the last answer is repeated once
      /\ cursor' = [cursor EXCEPT ![k] = i]
      /\ taken' = [taken EXCEPT ![k] = Append(@, loaded[k][i])]
      /\ UNCHANGED <<disk, mode, up, loaded, next, f, writeErr, calls, bounds,
                     past, cut, tried, mine, vouched>>

(* A miss, or Record: the call goes on to the client or the tool.          *)
GoesLive(c, r) ==
  /\ Idle(c) /\ lives < MaxLive
  /\ mode # "replay" /\ (Takes(KeyOf(r)) => mode = "record")
  /\ pc' = [pc EXCEPT ![c] = "live"] /\ key' = [key EXCEPT ![c] = KeyOf(r)]
  /\ val' = [val EXCEPT ![c] = lives + 1] /\ lives' = lives + 1
  /\ UNCHANGED <<disk, mode, up, handle, session, failures, crashes, history>>

(* A model's failure comes back unrecorded. *)
LiveFails(c) ==
  /\ pc[c] = "live" /\ key[c][1] = "llm"
  /\ pc' = [pc EXCEPT ![c] = "idle"]
  /\ UNCHANGED <<disk, mode, up, handle, key, val, bounds, history>>

LiveAnswers(c) ==
  /\ pc[c] = "live" /\ pc' = [pc EXCEPT ![c] = "record"]
  /\ UNCHANGED <<disk, mode, up, handle, key, val, bounds, history>>

\* Mutant: the latch holds what became of the last append.
FaultyLatchesLast(e) == writeErr' = e

(* setWriteErr: the first failure stays. *)
Latches(e) == writeErr' = IF writeErr = "none" THEN e ELSE writeErr

Entry(c) == [key |-> key[c], seq |-> next[key[c]], val |-> val[c]]

(* record, under the tape's mutex: the number is taken before the line is  *)
(* written, and stays taken when it is not.  The call succeeds either way. *)
Record(c) ==
  /\ pc[c] = "record" /\ pc' = [pc EXCEPT ![c] = "idle"]
  /\ mine' = mine \cup {val[c]}
  /\ IF ~f THEN Latches("closed") /\ UNCHANGED <<next, disk, tried, failures>>
     ELSE /\ next' = [next EXCEPT ![key[c]] = @ + 1]
          /\ \/ Writes(Entry(c), "line") /\ Latches("none") /\ UNCHANGED failures
             \/ /\ failures < MaxFailures /\ failures' = failures + 1
                /\ \E how \in {"nothing", "part", "unended"} : Writes(Entry(c), how)
                /\ Latches("append")
  /\ UNCHANGED <<mode, up, loaded, cursor, f, key, val, session, lives, crashes,
                 past, cut, taken, vouched>>

(* Close, at any time and again; what it vouches for is what was recorded. *)
Close ==
  /\ up /\ f' = FALSE
  /\ vouched' = IF writeErr = "none" /\ ~cut THEN vouched \cup mine ELSE vouched
  /\ UNCHANGED <<disk, mode, up, loaded, cursor, next, writeErr, calls, bounds,
                 past, cut, taken, tried, mine>>

Down ==
  /\ up /\ up' = FALSE /\ f' = FALSE /\ writeErr' = "none"
  /\ pc' = [c \in Callers |-> "idle"] /\ val' = [c \in Callers |-> 0]
  /\ loaded' = None /\ cursor' = [k \in Keys |-> 0] /\ next' = [k \in Keys |-> 0]
  /\ taken' = None /\ past' = None /\ mine' = {} /\ cut' = FALSE
  /\ UNCHANGED <<mode, key, session, lives, failures, vouched>>

(* The process ends, whatever was going on. *)
Exits == Down /\ UNCHANGED <<disk, crashes, tried>>

(* It dies inside an append. *)
DiesWriting(c) ==
  /\ pc[c] = "record" /\ f /\ Down
  /\ \E how \in {"line", "part", "unended"} : Writes(Entry(c), how)
  /\ crashes' = crashes + 1

Next ==
  \/ \E m \in Modes : Open(m)
  \/ \E i \in 1..MaxLive : DeleteLine(i)
  \/ \E c \in Callers :
       \/ \E r \in Requests : Replayed(c, r) \/ GoesLive(c, r)
       \/ LiveFails(c) \/ LiveAnswers(c) \/ Record(c) \/ DiesWriting(c)
  \/ Close \/ Exits

Spec == Init /\ [][Next]_vars

-----------------------------------------------------------------------------
TypeOK ==
  /\ file \in Seq([key : Keys, seq : 0..MaxLive, val : 1..MaxLive, ok : BOOLEAN])
  /\ ended \in BOOLEAN /\ up \in BOOLEAN /\ f \in BOOLEAN /\ cut \in BOOLEAN
  /\ mode \in Modes /\ writeErr \in {"none", "append", "closed"}
  /\ pc \in [Callers -> {"idle", "live", "record"}]
  /\ next \in [Keys -> 0..MaxLive] /\ mine \cup vouched \subseteq 1..lives

Readable(v) == \E i \in DOMAIN file : file[i].ok /\ file[i].val = v
Lost == {t \in tried : ~Readable(t[2])}

(* A session that replays gets a key's answers in the order they were      *)
(* recorded in, over all earlier sessions, then the last of them again; in *)
(* Auto no call is made, and paid for, that the file can answer.  For keys *)
(* that have lost at most one answer: next counts lost ones too while a    *)
(* session lasts, and after two the numbers of the next session overlap.   *)
ReplayFollowsTheRecording ==
  \A k \in Keys : Cardinality({t \in Lost : t[1] = k}) < 2 =>
    /\ \A j \in DOMAIN taken[k] :
         taken[k][j] = past[k][IF j < Len(past[k]) THEN j ELSE Len(past[k])]
    /\ \A c \in Callers :
         mode = "auto" /\ pc[c] # "idle" /\ key[c] = k => past[k] = <<>>

(* A tape does not quietly stop recording: when Close returns nil, every   *)
(* answer recorded before it can be read back, in every later session.     *)
(* And a failed append, or a death in one, costs its own line and at most  *)
(* the one that is glued to it; what the operator deletes is never more.   *)
LossIsReported ==
  /\ \A v \in vouched : Readable(v)
  /\ Cardinality(Lost) <= 2 * (failures + crashes)
=============================================================================
