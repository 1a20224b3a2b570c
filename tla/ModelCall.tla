----------------------------- MODULE ModelCall -----------------------------
(***************************************************************************)
(* One model call of a run, from step's Complete to the wire and back: the *)
(* retry loop, validation, routing by model name and the two providers'    *)
(* clients with their event streams.  The documented chain is              *)
(*                                                                         *)
(*   run.step | WithRetry | WithValidation | WithModelRouting | client     *)
(*                                                                         *)
(* The server answers as its protocol lets it: typed events per content    *)
(* block (Messages API), or chunks of one completion.  It may also refuse, *)
(* go silent, break off, stop early without a word, or send an error in    *)
(* the stream.  Text is a sequence of fragments, a fragment its place in   *)
(* the stream of its attempt.  Not modelled: what fragments spell (UTF-8   *)
(* scrubbing, JSON that does not parse), token counts.                     *)
(***************************************************************************)
EXTENDS Integers, FiniteSets, SequencesExt

CONSTANTS
  Models,        \* the model names of requests, sequences of letters
  Routes,        \* the routing table: name prefix -> client
  Leaf,          \* the client without a route
  MaxAttempts,   \* RetryPolicy.MaxAttempts
  MaxEvents,     \* bound: events of one attempt that carry content
  ToolIndices,   \* the tool_calls[] indices a completion may use
  Width          \* the width of a time.Duration, for Backoff

Clients == {"anthropic", "openai"}

ASSUME ModelCallAssumption ==
  /\ Leaf \in Clients /\ Routes \in [DOMAIN Routes -> Clients]
  /\ IsFiniteSet(DOMAIN Routes) /\ \A p \in DOMAIN Routes : Len(p) \in Nat
  /\ MaxAttempts \in Nat \ {0} /\ MaxEvents \in Nat
  /\ ToolIndices \subseteq Nat /\ Width \in Nat \ {0}

VARIABLES
  client,     \* the client the request is routed to
  streams,    \* StreamMode.Enabled: a sink is listening and may be served
  sound,      \* the request passes validateRequest
  ctx,        \* "alive", or why the run's context ended
  pc, attempt,
  acc,        \* what the stream has brought, by block: key -> fragments
  named,      \* the tool blocks whose id and name are known
  announced,  \* callBuilder.announced
  stop,       \* the stop reason, "" until one comes
  saw,        \* anything arrived at all
  events,     \* content events of this attempt
  sink,       \* what OnDelta was given in this attempt
  seen,       \* run.step's copy of the text given, by attempt
  answer, err,
  kept,       \* the half-answer put into the transcript
  opened      \* history: the fragments that came with a block's start, by kind

fixed == <<client, streams, sound>>
stream == <<acc, named, announced, stop, saw, events, sink, opened>>
modelCallVars == <<fixed, ctx, pc, attempt, stream, seen, answer, err, kept>>

-----------------------------------------------------------------------------
(***************************************************************************)
(* Routing: longestPrefixMatch; an exact name is its own longest prefix.   *)
(***************************************************************************)
Route(name) ==
  LET fits == {p \in DOMAIN Routes : p # <<>> /\ IsPrefix(p, name)}
  IN  IF name = <<>> \/ fits = {} THEN Leaf
      ELSE Routes[CHOOSE p \in fits : \A q \in fits : Len(q) <= Len(p)]

(***************************************************************************)
(* How long a retry waits, in durations of Width bits: the base doubled,   *)
(* capped, or the provider's hint if that is longer, and some jitter.      *)
(***************************************************************************)
Largest == 2^(Width - 1) - 1
Wrapped(d) == ((d + 2^(Width - 1)) % 2^Width) - 2^(Width - 1)

DefaultRetryPolicy == [base |-> 1, cap |-> Largest \div 2]

Normalized(p) ==
  LET base == IF p.base <= 0 THEN DefaultRetryPolicy.base ELSE p.base
      cap  == IF p.cap <= 0 THEN DefaultRetryPolicy.cap ELSE p.cap
  IN  [base |-> base, cap |-> IF cap < base THEN base ELSE cap]

\* Mutant: shifts first, compares afterwards.
FaultyBackoffShifts(p, n) ==
  LET d == Wrapped(p.base * 2^n) IN IF d > p.cap THEN p.cap ELSE d

(* The comparison comes before the shift, which would overflow. *)
Backoff(p, n) ==
  IF n >= Width - 1 \/ p.base > p.cap \div 2^n THEN p.cap ELSE Wrapped(p.base * 2^n)

(* One second, of which a hint is a number.  One client multiplies integers, *)
(* which may wrap; the other converts a float, and out of range gets what   *)
(* the machine makes of it.                                                 *)
Second == 2

IntegerHint(secs) == {Wrapped(secs * Second)}
FloatHint(secs)   == IF secs * Second <= Largest THEN {secs * Second}
                                                 ELSE {Largest, -Largest - 1}

RetryAfter(c, secs) == IF c = "openai" THEN IntegerHint(secs) ELSE FloatHint(secs)

(* With a Jitter of one; a smaller one adds less. *)
Delay(p, n, hint) ==
  LET d == IF hint > Backoff(p, n) THEN hint ELSE Backoff(p, n)
  IN  {Wrapped(d + more) : more \in 0..d}

(***************************************************************************)
(* Failures: llm.APIError by class.  "cause" is an error that carries the  *)
(* context's cause, "ctxErr" one that only says the context ended.         *)
(***************************************************************************)
Transient == {"rateLimit", "overloaded", "server", "transport"}

ClassOfStatus ==
  [s \in {"400", "400 window", "401", "403", "404", "422", "429", "529", "5xx", "other"} |->
     CASE s = "400 window"      -> "contextWindow"
       [] s \in {"401", "403"}  -> "auth"
       [] s = "404"             -> "notFound"
       [] s = "429"             -> "rateLimit"
       [] s = "529"             -> "overloaded"
       [] s = "5xx"             -> "server"
       [] OTHER                 -> "badRequest"]

StreamErrors == {"overloaded", "rateLimit", "badRequest", "auth", "notFound", "server"}

(* abortError: a deadline is a stall, a cancelled run is a decision.       *)
AbortError == IF ctx \in {"alive", "deadline"} THEN "transport" ELSE "cause"

(* How each client reports a connection that failed: before the headers,   *)
(* and while the body is read.                                             *)
PostError == CASE client = "anthropic"                  -> AbortError
               [] client = "openai" /\ ctx = "alive"    -> "transport"
               [] client = "openai" /\ ctx # "alive"    -> "ctxErr"

ReadError == IF client = "anthropic" THEN AbortError ELSE "transport"

-----------------------------------------------------------------------------
(***************************************************************************)
(* Assembly.  A block is keyed by its kind and index.  The completion has  *)
(* one scratchpad and one text, then its calls by index; the other client  *)
(* keeps the order of the indices, and drops empty texts and kinds it does *)
(* not know.                                                               *)
(***************************************************************************)
Rank(kind) == CASE kind = "thinking" -> 0 [] kind = "text" -> 1 [] OTHER -> 2

Before(k, l) ==
  IF client = "anthropic" \/ k[1] = l[1] THEN k[2] < l[2] ELSE Rank(k[1]) < Rank(l[1])

Block(k) == [kind |-> k[1], index |-> k[2], id |-> k \in named, parts |-> acc[k]]

InOrder(keys) ==
  CHOOSE q \in [1..Cardinality(keys) -> keys] :
    Range(q) = keys /\ \A i, j \in DOMAIN q : i < j => Before(q[i], q[j])

Stays(k) == k[1] # "other" /\ ~(k[1] = "text" /\ acc[k] = <<>>)

Content ==
  LET keys == InOrder({k \in DOMAIN acc : Stays(k)})
  IN  [i \in DOMAIN keys |-> Block(keys[i])]

Uses(content) == SelectSeq(content, LAMBDA b : b.kind = "tool")

(* validateResponse *)
Valid(content) ==
  stop = "tool_use" => /\ Uses(content) # <<>>
                       /\ \A i \in DOMAIN Uses(content) : Uses(content)[i].id

-----------------------------------------------------------------------------
Unopened == [kind \in {"text", "thinking"} |-> {}]

\* Mutant: the builders outlive the attempt they were made for.
FaultyFreshKeepsAcc ==
  /\ UNCHANGED <<acc, named, announced>>
  /\ stop' = "" /\ saw' = FALSE /\ events' = 0 /\ sink' = <<>> /\ opened' = Unopened

Fresh ==
  /\ acc' = <<>> /\ named' = {} /\ announced' = {}
  /\ stop' = "" /\ saw' = FALSE /\ events' = 0 /\ sink' = <<>> /\ opened' = Unopened

ModelCallInit ==
  /\ \E name \in Models : client = Route(name)
  /\ streams \in BOOLEAN /\ sound \in BOOLEAN
  /\ ctx = "alive" /\ pc = "post" /\ attempt = 1
  /\ acc = <<>> /\ named = {} /\ announced = {}
  /\ stop = "" /\ saw = FALSE /\ events = 0 /\ sink = <<>> /\ opened = Unopened
  /\ seen = <<>> /\ answer = <<>> /\ err = "none" /\ kept = <<>>

Goes(to) == pc' = to /\ UNCHANGED <<fixed, ctx, attempt, seen, answer, err, kept>>

(* The call comes back to step with an error: what the caller has seen of  *)
(* an answer goes into the transcript.                                     *)
Returns(e) ==
  /\ pc' = "done" /\ err' = e /\ kept' = seen
  /\ UNCHANGED <<fixed, ctx, attempt, seen, answer, stream>>

(* WithRetry, behind one attempt that failed. *)
Fails(e) ==
  IF attempt < MaxAttempts /\ e \in Transient
  THEN IF ctx = "alive" THEN Goes("sleep") /\ UNCHANGED stream ELSE Returns("cause")
  ELSE Returns(e)

(* The attempt succeeded, unless the reply cannot be acted on. *)
Answers(content) ==
  IF Valid(content)
  THEN /\ pc' = "done" /\ answer' = content
       /\ UNCHANGED <<fixed, ctx, attempt, seen, err, kept, stream>>
  ELSE Fails("server")

(* Either may win when the context ends as the timer fires. *)
SleepOver ==
  /\ pc = "sleep"
  /\ \/ ctx # "alive" /\ Returns("cause")
     \/ /\ pc' = "post" /\ attempt' = attempt + 1 /\ Fresh
        /\ UNCHANGED <<fixed, ctx, seen, answer, err, kept>>

(* validateRequest, then the POST; a dead context sends nothing.           *)
Post ==
  /\ pc = "post"
  /\ CASE ~sound                  -> Returns("badRequest")
       [] sound /\ ctx # "alive"  -> Fails(PostError)
       [] OTHER                   -> Goes("headers") /\ UNCHANGED stream

Refused == pc = "headers" /\ \E s \in DOMAIN ClassOfStatus : Fails(ClassOfStatus[s])

(* The connection breaks, or the headers do not come in time. *)
Unreachable == pc = "headers" /\ Fails(PostError)

Accepted ==
  pc = "headers" /\ Goes(IF streams THEN "stream" ELSE "body") /\ UNCHANGED stream

-----------------------------------------------------------------------------
(***************************************************************************)
(* A reply in one piece, which may be garbled, or an error with status 200.*)
(***************************************************************************)
WholeReplies ==
  {<<>>, <<[kind |-> "text", index |-> 0, id |-> FALSE, parts |-> <<1>>]>>}
    \cup {<<[kind |-> "tool", index |-> 0, id |-> id, parts |-> <<1>>]>> : id \in BOOLEAN}

Buffered ==
  /\ pc = "body"
  /\ \/ \E content \in WholeReplies, s \in {"end_turn", "tool_use"} :
          LET uses == Uses(content)
          IN  IF s = "tool_use" => uses # <<>> /\ \A i \in DOMAIN uses : uses[i].id
              THEN /\ pc' = "done" /\ answer' = content /\ stop' = s
                   /\ UNCHANGED <<fixed, ctx, attempt, seen, err, kept, acc, named,
                                  announced, saw, events, sink, opened>>
              ELSE Fails("server")
     \/ Fails("transport")
     \/ client = "openai" /\ Fails("badRequest")

(***************************************************************************)
(* Events of a stream that carry content.                                  *)
(***************************************************************************)
Streaming(c) == pc = "stream" /\ client = c
More == stop = "" /\ events < MaxEvents
Frag == events + 1

(* Into the block, and to the sink unless nobody may know of the block.    *)
With(k, parts) == [l \in DOMAIN acc \cup {k} |-> IF l = k THEN parts ELSE acc[l]]

Adds(k) == acc' = With(k, Append(IF k \in DOMAIN acc THEN acc[k] ELSE <<>>, Frag))

Shows(k, ids, frag) ==
  /\ sink' = Append(sink, [kind |-> k[1], index |-> k[2], ids |-> ids, frag |-> frag])
  /\ seen' = IF k[1] = "text" THEN Append(seen, attempt) ELSE seen

Folds == /\ saw' = TRUE /\ events' = Frag
         /\ UNCHANGED <<fixed, ctx, pc, attempt, stop, answer, err, kept>>

(* content_block_start, one index after the other; a call is announced     *)
(* here, a block of another kind is not, and the text or the scratchpad    *)
(* that a start may bring goes into the block without the sink's knowing.  *)
BlockStart(kind, ids, brings) ==
  /\ Streaming("anthropic") /\ More
  /\ LET k == <<kind, Cardinality(DOMAIN acc)>>
     IN  /\ IF brings THEN Adds(k) ELSE acc' = With(k, <<>>)
         /\ named' = IF ids THEN named \cup {k} ELSE named
         /\ IF ids THEN Shows(k, TRUE, 0) ELSE UNCHANGED <<sink, seen>>
  /\ opened' = IF brings THEN [opened EXCEPT ![kind] = @ \cup {Frag}] ELSE opened
  /\ Folds /\ UNCHANGED announced

(* content_block_delta, for the block last started. *)
BlockDelta ==
  /\ Streaming("anthropic") /\ More /\ DOMAIN acc # {}
  /\ \E k \in DOMAIN acc :
       /\ k[2] = Cardinality(DOMAIN acc) - 1
       /\ Adds(k)
       /\ IF k[1] = "other" THEN UNCHANGED <<sink, seen>> ELSE Shows(k, FALSE, Frag)
  /\ Folds /\ UNCHANGED <<named, announced, opened>>

(* A chunk of scratchpad or text. *)
ChunkText(kind) ==
  /\ Streaming("openai") /\ More
  /\ Adds(<<kind, 0>>) /\ Shows(<<kind, 0>>, FALSE, Frag)
  /\ Folds /\ UNCHANGED <<named, announced, opened>>

(* A slice of the arguments of call i.  Id and name come with the first;   *)
(* some gateways repeat them on every one.                                 *)
ChunkCall(i, ids) ==
  /\ Streaming("openai") /\ More
  /\ LET k == <<"tool", i>>
     IN  /\ k \in DOMAIN acc \/ ids
         /\ Adds(k)
         /\ named' = IF ids THEN named \cup {k} ELSE named
         /\ Shows(k, k \in named' \ announced, Frag)
         /\ announced' = announced \cup named'
  /\ Folds /\ UNCHANGED opened

(* message_delta, finish_reason: "" is a stop the server never sent.       *)
StopReason(s) ==
  /\ pc = "stream" /\ stop = "" /\ stop' = s /\ saw' = TRUE
  /\ UNCHANGED <<fixed, ctx, pc, attempt, acc, named, announced, events, sink,
                 opened, seen, answer, err, kept>>

(* message_start, pings, usage: something came, with nothing in it.        *)
Noise ==
  /\ pc = "stream" /\ ~saw /\ saw' = TRUE
  /\ UNCHANGED <<fixed, ctx, pc, attempt, acc, named, announced, stop, events,
                 sink, opened, seen, answer, err, kept>>

(***************************************************************************)
(* How a stream ends: as it should, or cut off where nobody can tell; an   *)
(* error event; a connection that breaks; silence, which only one of the   *)
(* clients watches for.                                                    *)
(***************************************************************************)
EndOfStream == pc = "stream" /\ IF saw THEN Answers(Content) ELSE Fails("transport")

ErrorEvent ==
  /\ pc = "stream"
  /\ IF client = "anthropic" THEN \E e \in StreamErrors : Fails(e) ELSE Fails("server")

ReadBreaks == pc = "stream" /\ Fails(ReadError)

\* Mutant: the watchdog stands down once the stream has begun.
FaultySilenceAtFirst ==
  /\ Streaming("anthropic") /\ ~saw /\ Fails(IF ctx = "alive" THEN "transport" ELSE ReadError)

(* streamIdleTimeout and requestTimeout. *)
Silence == Streaming("anthropic") /\ Fails(ReadError)

BodySilence == pc = "body" /\ client = "anthropic" /\ Fails("transport")

-----------------------------------------------------------------------------
(* The run is cancelled, meets a governed limit, or its deadline. *)
CtxEnds(why) ==
  /\ ctx = "alive" /\ pc # "done" /\ ctx' = why
  /\ UNCHANGED <<fixed, pc, attempt, stream, seen, answer, err, kept>>

Kinds == {"text", "thinking", "tool", "other"}
Reasons == {"end_turn", "tool_use", "max_tokens"}

Events ==
  \/ \E kind \in Kinds, ids, brings \in BOOLEAN :
       /\ (ids => kind = "tool") /\ (brings => kind \in {"text", "thinking"})
       /\ BlockStart(kind, ids, brings)
  \/ BlockDelta
  \/ \E kind \in {"text", "thinking"} : ChunkText(kind)
  \/ \E i \in ToolIndices, ids \in BOOLEAN : ChunkCall(i, ids)
  \/ \E s \in Reasons : StopReason(s)
  \/ Noise

ModelCallNext ==
  \/ SleepOver \/ Post \/ Refused \/ Unreachable \/ Accepted \/ Buffered
  \/ Events \/ EndOfStream \/ ErrorEvent \/ ReadBreaks \/ Silence \/ BodySilence
  \/ \E why \in {"canceled", "limit", "deadline"} : CtxEnds(why)

(* Timers fire and the client acts; the server owes nothing.               *)
ModelCallFairSpec ==
  /\ ModelCallInit /\ [][ModelCallNext]_modelCallVars
  /\ WF_modelCallVars(SleepOver) /\ WF_modelCallVars(Post) /\ WF_modelCallVars(Unreachable)
  /\ WF_modelCallVars(Silence) /\ WF_modelCallVars(BodySilence)

-----------------------------------------------------------------------------
ModelCallTypeOK ==
  /\ client \in Clients /\ streams \in BOOLEAN /\ sound \in BOOLEAN
  /\ ctx \in {"alive", "canceled", "limit", "deadline"}
  /\ pc \in {"post", "headers", "stream", "body", "sleep", "done"}
  /\ attempt \in 1..MaxAttempts /\ events \in 0..MaxEvents
  /\ named \cup announced \subseteq DOMAIN acc
  /\ stop \in Reasons \cup {""} /\ saw \in BOOLEAN
  /\ seen \in Seq(1..MaxAttempts) /\ kept \in Seq(1..MaxAttempts)

About(d, index) == d.kind = "tool" /\ d.index = index

Parts(blocks, kind) ==
  FlattenSeq([i \in DOMAIN blocks |-> IF blocks[i].kind = kind THEN blocks[i].parts ELSE <<>>])
Frags(deltas, kind) ==
  FlattenSeq([j \in DOMAIN deltas |-> IF deltas[j].kind = kind THEN <<deltas[j].frag>> ELSE <<>>])
Arguments(deltas, index) ==
  FlattenSeq([j \in DOMAIN deltas |->
                IF About(deltas[j], index) /\ deltas[j].frag # 0 THEN <<deltas[j].frag>> ELSE <<>>])

Rising(s) == \A i, j \in 1..Len(s) : i < j => s[i] < s[j]

(* However often a call was retried and whichever client answered it, the  *)
(* reply is what the last attempt streamed, no more and no less.  Text and *)
(* scratchpad: what the sink was given and what came with the start of a   *)
(* block, which it was not, each fragment once and in its place.  A call's *)
(* arguments: what the sink was given, under an index that was announced   *)
(* once, with id and name, before any of them.                             *)
AnswerIsWhatStreamed ==
  pc = "done" /\ err = "none" /\ streams =>
    /\ \A kind \in {"text", "thinking"} :
         LET given == Frags(sink, kind)
             reply == Parts(answer, kind)
         IN  /\ Rising(given) /\ Rising(reply)
             /\ ToSet(given) = ToSet(reply) \ opened[kind] /\ opened[kind] \subseteq ToSet(reply)
    /\ \A i \in DOMAIN answer :
         LET told == {j \in DOMAIN sink : About(sink[j], answer[i].index)}
         IN  answer[i].kind = "tool" /\ answer[i].id =>
               /\ told # {} /\ \A j \in told : sink[j].ids <=> \A l \in told : j <= l
               /\ Arguments(sink, answer[i].index) = answer[i].parts

(* The wait between attempts is the base doubled that often, up to the     *)
(* cap, at any width and for any policy a caller left half empty: no shift *)
(* overflows into a busy retry.  And a provider's hint is a floor of it,   *)
(* whatever the cap, as long as twice the wait can be told.                *)
WaitsAsTold ==
  pc = "post" /\ attempt = 1 /\ ctx = "alive" =>
    \A base \in -1..Largest, cap \in -1..Largest, n \in 0..(2 * Width) :
      LET p == Normalized([base |-> base, cap |-> cap])
          doubled == p.base * 2^n
          wait == IF doubled > p.cap THEN p.cap ELSE doubled
      IN  /\ p.base > 0 /\ Backoff(p, n) = wait
          /\ \A secs \in 0..(Largest \div (2 * Second)) :
               \A hint \in RetryAfter(client, secs) :
                 2 * wait <= Largest => \A d \in Delay(p, n, hint) : d >= wait /\ d >= secs * Second

(* A call to the client with a watchdog comes back, though the server may  *)
(* fall silent in the middle of its answer and nobody cancels the run.     *)
SilentStreamsEnd == client = "anthropic" ~> pc = "done"

(* What a failed call leaves in the transcript is the beginning of one     *)
(* answer.  WithRetry says of the deltas of a retried call: "OnDelta is an *)
(* observability sink, not a transcript".                                  *)
PartialIsOneAnswer == \A i, j \in DOMAIN kept : kept[i] = kept[j]

(* llm/middleware.go:30-32: jitter is "never subtractive, so a Retry-After  *)
(* hint is honoured as a floor".  At the end of the range it wraps, and a  *)
(* negative delay is not slept at all.                                     *)
HintIsFloor ==
  \A secs \in 0..(Largest \div Second) :
    \A hint \in RetryAfter(client, secs) :
      \A d \in Delay(DefaultRetryPolicy, 0, hint) : d >= secs * Second
=============================================================================
