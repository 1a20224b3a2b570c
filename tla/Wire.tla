-------------------------------- MODULE Wire --------------------------------
(***************************************************************************)
(* How a conversation becomes a chat-completions body (openai/request.go), *)
(* whose rules are not those of Convo.Validate: a turn with several        *)
(* results is several messages there, and nothing may come between an      *)
(* assistant's calls and their answers.  The Messages API takes turns and  *)
(* blocks one for one (anthropic/request.go) and needs no model here.      *)
(***************************************************************************)
EXTENDS Convo

Said(role, text)      == [role |-> role, text |-> text, calls |-> <<>>, answers |-> NoId]
Calls(text, ids)      == [role |-> "assistant", text |-> text, calls |-> ids, answers |-> NoId]
ToolMessage(id, text) == [role |-> "tool", text |-> text, calls |-> <<>>, answers |-> id]

Texts(blocks) == Len(Only(blocks, OfKind(blocks, "text")))

(* One message; its text is how many blocks were joined into it, none      *)
(* being null.                                                             *)
EncodeAssistant(blocks) == Calls(Texts(blocks), Ids(Uses(blocks)))

(* Text before any result leads, each result is a message of its own, text *)
(* after a result is folded into it.                                       *)
Folded(st, b) ==
  CASE b.kind = "text" /\ st.tools # <<>> -> [st EXCEPT !.tools[Len(st.tools)].text = @ + 1]
    [] b.kind = "text" /\ st.tools = <<>> -> [st EXCEPT !.leading = @ + 1]
    [] b.kind = "result" -> [st EXCEPT !.tools = Append(@, ToolMessage(b.id, 1))]
    [] OTHER -> st

Fold(blocks) ==
  LET st[i \in 0..Len(blocks)] ==
        IF i = 0 THEN [leading |-> 0, tools |-> <<>>] ELSE Folded(st[i - 1], blocks[i])
  IN  st[Len(blocks)]

EncodeUser(blocks) ==
  LET end == Fold(blocks)
  IN  IF end.leading > 0 THEN <<Said("user", end.leading)>> \o end.tools ELSE end.tools

Encode(m) == IF m.role = "assistant" THEN <<EncodeAssistant(m.content)>> ELSE EncodeUser(m.content)

EncodeMessages(c) == FlattenSeq([i \in DOMAIN c |-> Encode(c[i])])

(* What such a server takes (request.go:274-279): the calls of a message   *)
(* are answered by the messages right behind it, and by nothing else.      *)
AnsweredAt(w, i) ==
  LET n == Len(w[i].calls)
  IN  i + n <= Len(w) /\ ToSet(w[i].calls) = {w[j].answers : j \in i + 1 .. i + n}

AskedBefore(w, j) ==
  \E i \in 1 .. j - 1 : j <= i + Len(w[i].calls) /\ w[j].answers \in ToSet(w[i].calls)

WireAccepts(c) ==
  LET w == EncodeMessages(c)
  IN  \A i \in DOMAIN w : AnsweredAt(w, i) /\ (w[i].role = "tool" => AskedBefore(w, i))
=============================================================================
