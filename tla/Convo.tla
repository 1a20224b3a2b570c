------------------------------- MODULE Convo -------------------------------
(***************************************************************************)
(* convo.go and the transcript constructors of run.go: a conversation is a *)
(* sequence of turns, a turn a role and a sequence of blocks.  A text      *)
(* block carries nothing, a tool_use its id and what kind of tool it names *)
(* (the capability that FindPause and FindTerminal look up), a tool_result *)
(* the id it answers and how it came about.                                *)
(***************************************************************************)
EXTENDS Naturals, SequencesExt

Text         == [kind |-> "text"]
Use(id, t)   == [kind |-> "use", id |-> id, tool |-> t]
Res(id, how) == [kind |-> "result", id |-> id, how |-> how]

User(blocks)      == [role |-> "user", content |-> blocks]
Assistant(blocks) == [role |-> "assistant", content |-> blocks]

NoId == 0   \* the empty ToolUseID

(* Faulty variants, as a slip in the code would make them; no specification *)
(* uses them, each shows that a property would notice.                     *)

FaultyPushUnmerged(c, m) == IF m.content = <<>> THEN c ELSE Append(c, m)

(* Convo.Append: an empty message is dropped, one of the trailing role is  *)
(* merged into the trailing turn.                                          *)
Push(c, m) ==
  CASE m.content = <<>> -> c
    [] m.content # <<>> /\ c # <<>> /\ Last(c).role = m.role ->
         [c EXCEPT ![Len(c)].content = @ \o m.content]
    [] OTHER -> Append(c, m)

Blocks(c) == FlattenSeq([i \in DOMAIN c |-> c[i].content])

(* The elements of s that are in T, in their order.  (SelectSeq, which the *)
(* provers cannot look into.)                                              *)
Only(s, T) ==
  LET kept[i \in 0..Len(s)] ==
        IF i = 0 THEN <<>>
        ELSE IF s[i] \in T THEN Append(kept[i - 1], s[i]) ELSE kept[i - 1]
  IN  kept[Len(s)]

OfKind(blocks, kind) == {b \in ToSet(blocks) : b.kind = kind}

Uses(blocks) == Only(blocks, OfKind(blocks, "use"))
Ids(blocks)  == [i \in DOMAIN blocks |-> blocks[i].id]

UseIds(blocks)    == {b.id : b \in OfKind(blocks, "use")}
ResultIds(blocks) == {b.id : b \in OfKind(blocks, "result")}

(* Convo.Dangling: the ids asked for and not answered, in asking order.    *)
Scanned(st, b) ==
  CASE b.kind = "use" /\ b.id \notin st.open ->
         [open |-> st.open \cup {b.id}, order |-> Append(st.order, b.id)]
    [] b.kind = "result" -> [st EXCEPT !.open = @ \ {b.id}]
    [] OTHER -> st

Scan(blocks) ==
  LET st[i \in 0..Len(blocks)] ==
        IF i = 0 THEN [open |-> {}, order |-> <<>>] ELSE Scanned(st[i - 1], blocks[i])
  IN  st[Len(blocks)]

Dangling(c) == LET end == Scan(Blocks(c)) IN Only(end.order, end.open)

Answers(ids, How(_)) == [i \in DOMAIN ids |-> Res(ids[i], How(ids[i]))]

(* Convo.CloseDangling, with the extra blocks it puts in the same turn.    *)
CloseDangling(c, extra) ==
  Push(c, User(Answers(Dangling(c), LAMBDA id : "cancelled") \o extra))

-----------------------------------------------------------------------------
(* The four ways a run is seeded. *)

Ask == <<User(<<Text>>)>>

Then(c) == IF Dangling(c) # <<>> THEN CloseDangling(c, <<Text>>)
                                 ELSE Push(c, User(<<Text>>))

FaultyAnswerPauseAlone(c, id) == Push(c, User(<<Res(id, "answer")>>))

(* The answer goes to the pause; every other open call is closed as an     *)
(* error.  An id that is not open is answered all the same.                *)
AnswerPause(c, id) ==
  LET open == Dangling(c)
      How(i) == IF i = id THEN "answer" ELSE "notrun"
      stray == IF Contains(open, id) THEN <<>> ELSE <<Res(id, "answer")>>
  IN  Push(c, User(Answers(open, How) \o stray))

FirstUse(blocks, t) ==
  LET named == {i \in DOMAIN blocks : blocks[i].kind = "use" /\ blocks[i].tool = t}
  IN  IF named = {} THEN NoId ELSE blocks[CHOOSE i \in named : \A j \in named : i <= j].id

FindPause(blocks)    == FirstUse(blocks, "pause")
FindTerminal(blocks) == FirstUse(blocks, "terminal")

(* NoId unless the transcript ends on an open call to a pause tool. *)
PendingPause(c) ==
  IF c = <<>> \/ Dangling(c) = <<>> \/ Last(c).role # "assistant"
  THEN NoId ELSE FindPause(Last(c).content)

(* Resume with an instruction. *)
Resume(c) == IF PendingPause(c) # NoId THEN AnswerPause(c, PendingPause(c))
                                       ELSE Then(c)

-----------------------------------------------------------------------------
(* Convo.Validate, as the six invariants it enforces.  Within one turn the *)
(* blocks that matter are of one kind, so their order decides only which   *)
(* error is reported, never whether there is one.                          *)
Alternates(c) ==
  /\ c # <<>> /\ c[1].role = "user"
  /\ \A i \in 2..Len(c) : c[i].role # c[i - 1].role

RightRoles(c) ==
  \A i \in DOMAIN c :
    /\ UseIds(c[i].content) # {} => c[i].role = "assistant"
    /\ ResultIds(c[i].content) # {} => c[i].role = "user"

(* No two blocks of a kind have the same id. *)
Once(blocks, kind) ==
  \A i, j \in DOMAIN blocks :
    blocks[i].kind = kind /\ blocks[j].kind = kind /\ blocks[i].id = blocks[j].id => i = j

(* The calls of one turn are answered, each once, by the very next. *)
AnsweredNext(c) ==
  \A i \in DOMAIN c :
    /\ Once(c[i].content, "result")
    /\ ResultIds(c[i].content) = IF i = 1 THEN {} ELSE UseIds(c[i - 1].content)

Validate(c) ==
  /\ Alternates(c) /\ RightRoles(c)
  /\ Once(Blocks(c), "use")
  /\ AnsweredNext(c)
  /\ UseIds(Last(c).content) = {}
=============================================================================
