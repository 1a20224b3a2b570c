# wombat-go in TLA+

wombat-go is a harness for language-model agents. An agent runs a ReAct loop:
send the transcript to a model, execute the tool calls it asks for, append
their results, repeat. Around the loop there are budgets, sub-agents, human
approvals, and an HTTP server whose sessions outlive the requests made of them.
This directory holds a specification of that program's behaviour, the TLC
models that check it on small instances, and TLAPS proofs for all instances.

Everything here is translated from the Go source; comments of the source are
quoted only where a property states what they promise.

## 1. The system

| component (source) | state it keeps | operations | correct when |
|---|---|---|---|
| conversation (`convo.go`, constructors of `run.go`) | a list of messages | Append (merges turns of one role), CloseDangling, Validate, Ask, Then, AnswerPause, Resume | every request is one a provider accepts; nothing said is lost; whatever ended a run, its transcript can be carried on |
| ReAct loop (`run.go`, `agent.go`) | transcript, iteration, outcome, error, an unbuffered event channel | Start, loop, iterate, emit, Close, toolChoice | each run ends with one outcome; a failed call keeps what was streamed; the terminal tool is forced in time |
| event buffer (`buffered.go`) | the last `bufferCap` events, `base`, a wait channel replaced at each change | append, drain, Follow | sequence numbers are dense and stable; only eviction skips; nobody sleeps through the end |
| sub-agents (`subagent.go`) | one goroutine per branch, a semaphore per call | DelegateTool, ParallelDelegateTool, runChild | no child outlives its call; the tree unwinds; events pass through a chain of unbuffered channels |
| budget (`governor`, `budget.go`) | spend, steps, tool calls, depth, repeat counter, the context they cancel | AddCall, Step, AddToolCall, EnterSubagent, ExitSubagent | limits hold under races; the first breach is the cause reported |
| dispatch (`tool/dispatch.go`, `tool/recover.go`) | one result slot per call | Dispatch | one result per call, in order, whatever panics |
| tool chain (`tool/middleware.go`, the order in `agent.go`) | breaker per tool of an agent, repeat counts per run | validation, timeout, retry, breaker, repeat counting, truncation | a breaker opens and a note is given only on evidence; what a layer refused reaches none below |
| approvals (`httpapi/approvals.go`) | calls parked under their id, ids answered | register, forget, resolve, deny, close, pending | a call runs only if somebody allowed that call; nothing waits on a dead turn |
| permission (`permission`) | grants per run | Decide, Gate, ask, Remember; rules are pure | first rule that decides wins; a grant is kept only of a yes, and spares the next question; what a policy lets through unasked is what its words cover |
| sessions (`httpapi/session.go`, `manager.go`, `api.go`) | registry; per session a log of frames, a state, the cancel of the turn in flight | Create, Send, Cancel, Resolve, Delete, Follow, the reaper, Close | one turn at a time, one log, a dropped session is stopped, streams end exactly when the conversation does |
| strategies and overflow (`strategy.go`, `overflow.go`) | a sticky level | Apply, nextRung | what remains still passes Validate; the level only rises |
| skills (`skill`) | active skills, by the id of the call that loaded them | load, Reconcile, Visible | tools are visible only while their text is in context |
| tape (`tape`) | a JSONL file, a cursor per key, the first write error | Open, take, record, Close | a replay gives what was recorded, in its order; what Close vouched for can be read back |
| model access (`llm`, `llm/anthropic`, `llm/openai`) | attempt, stream assembly, the watchdog | Complete, retry, validation, routing, both decoders | the answer is the last attempt's stream; delays stay within the cap; silence is cut off |
| rollouts (`rl`) | a pool of samples, each with a directory, an agent, a budget, a fold of its events | Rollout, one, runEpisode, Score, classify, cleanup, NewGroup | a failed sample keeps its evidence and names its limit; an unknown price is not zero; the group's numbers add up |
| metrics (`metric`) | instruments, series under a cap | registration, Add, Set, Observe, Snapshot, the harness's instruments | nothing that happened is lost or counted twice, no scrape shows an impossible histogram |
| tracing (`trace`) | open spans, the sink's lines | Start, End, FileSink, ReadFile | the file of a run that is over holds every span, each once and after the spans under it |
| command line (`cmd/wombat-jsonl`) | the `-session` file | input, fresh, saveSession | a kill or a failed save loses no more than what came after the last save |
| benchmarks, built-in tools, the other commands | | | wiring and I/O |

### How they interact

* A `Run` is a goroutine that hands events to its consumer. The consumer is a
  caller, the drain goroutine of `Buffer`, the pump of a session's turn, or
  `runChild` of a parent run, which re-emits each event on the parent's stream.
* One context per run tree carries the budget, the approvals, the skills, the
  emitter. A limit is enforced by cancelling it: `abort` may be called by any
  run of the tree, and every blocking operation must notice.
* A session's `Send` starts a run and a pump; the pump appends frames to the
  session's log under `Session.mu` and wakes the streams. `Cancel`, `Delete`,
  the reaper and `Manager.Close` reach the run only through its cancel function
  and the approvals queue, and each of them releases one lock before it takes
  the next.
* A tool call that needs a human parks in `approve` on a channel of capacity
  one. `resolve`, `deny` and `close` answer under the queue's mutex; the
  context may end the wait without an answer.

### What is hard

Lost wakeups between an unlock and a select; a state read under one lock and
used under another (`reap`, `Session.Cancel`, `createSession`); a verdict racing
a cancel; runs of a tree racing for the last unit of a budget; semaphores held
while nested ones are waited for; a breaker, a grant or a repeat count looked at before a call
and updated after it, with another call between; streams retried after part of an
answer was shown; files cut off in the middle of a line; counters without a lock;
transcripts left by a run that was cut off at
an arbitrary point, then carried on by a different constructor. `PROJECT.json`
lists each hazard at its line, with the properties that watch it.

## 2. Modules

```
ReliableLog  <--refined by--  EventLog  <--EXTENDS--  MCEventLog
                                 ^-- LogProofs (TLAPS)
Convo  <--  Wire  <--  ReActRun  <--  TranscriptProofs (TLAPS)
  ^--  Context  <-----------------------'
          ^--  MCContext
Approvals  <--  ApprovalsProofs (TLAPS)
Sessions  <--  SessionsProofs (TLAPS)
Delegation  <--  MCDelegation
     ^-- CallProofs (TLAPS)
Policy  <--  ToolChain  <--  MCToolChain
                 ^-- ToolChainProofs (TLAPS)
ModelCall  <--  MCModelCall
     ^-- CallProofs
Tape  <--  MCTape
  ^-- TapeProofs (TLAPS)
Grades  <--  Rollouts  <--  MCRollouts
                ^-- RolloutsProofs (TLAPS)
Registry  <--  Telemetry  <--  MCTelemetry
                 ^-- LogProofs
```

| module | models | state and actions against the code |
|---|---|---|
| `ReliableLog` | what a follower of an event log may rely on | abstract: numbered events, followers that are handed consecutive ones, skips only below the oldest retained |
| `EventLog` | `Buffered` | one action per critical section of `Buffered.mu` (`AppendEvent`, `Finish`, `Snapshot`) and one per step outside it (`Yield`, `Wake`, `LeaveOnCtx`). A wait channel is the number of changes before it was made; `changed` is the current one |
| `Convo` | messages and their rules, as operators | a message is a role and blocks; a block is text, a tool use with an id, or a result. `Validate` has the six rules of the code |
| `Wire` | how a transcript becomes a chat-completions body | operators: one turn may become several messages; `WireAccepts` is what that protocol demands of calls and their answers |
| `ReActRun` | `Run.loop` and `iterate`, and the runs that follow on the same transcript | `phase` is the program point; `reader` is the consumer; `Replies` are all replies the loop distinguishes. A `front` of "host" seeds its next run with `SessionSend`; one of "cli" is a sequence of processes over a `file`: `CliNext` is the exit of one, with a save that worked or did not, and the start of the next, `CliKilled` a death in mid-run |
| `Context` | what of the transcript is sent: the strategy of a run, the overflow ladder, the skills | one action per step of the loop that touches them. A skill's `load` is two critical sections with the body read between; the calls of a batch are dispatched in any order; the strategy rewrites the transcript once per iteration, the ladder only the request it retries |
| `Delegation` | a tree of runs with one budget | a run is a path; each call of a batch goes through `budgetToolCalls` (`Acquire`, `ChargeCall`, `HandOn`), then through a plain tool or a delegate tool; `held` is an event `runChild` has taken from a child and not yet handed on |
| `Sessions` | registry, turns, logs, streams with their reconnects, reaper, shutdown | one action per critical section of `Manager.mu` or `Session.mu`; where code drops a lock and goes on with what it read, the step is split there (`ReapVisit` / `CloseQueue`, `CancelDeny` / `CancelRead` / `CancelCall`, `Create` / `FirstSend` with its rollback). `party` is who takes part: two clients, or a client and a stream |
| `Approvals` | the queue of parked calls | critical sections of `approvals.mu`; the select of `approve` is two actions enabled together |
| `Policy` | the three policies and the rules they are made of, safe commands | operators on a request: capabilities, paths inside or outside the root, the words of a command. `Harmless` is the reference: what each policy's documentation says goes through unasked |
| `ToolChain` | one agent's dispatch chain | a worker is a goroutine that dispatches; `pc` is the layer its call is in. The breaker's check (`Look`) and update (`Tally`) are separate steps, as are a grant's lookup, the question and the `Remember`. `ran`, `approved`, `finished`, `evidence`, `failed` are histories the properties compare with |
| `ModelCall` | `Complete` through retry, validation, routing and both clients | `pc` is where the attempt is; one action per kind of stream event and per way a stream ends; `sink` is what `OnDelta` was given, `answer` what is returned, `opened` what came with a block's start: it goes into the block and not to `OnDelta` (`anthropic/stream.go:167,170`) |
| `Tape` | `tape.Open` to `Close`, over one file and several sessions | `file` holds lines, whole or torn; `Record` takes its number before it writes, as the code does; `DiesWriting` is a crash in mid-line, `DeleteLine` the operator's repair |
| `Grades` | verifiers, their sum, the statistics of a group | operators; `IsShareOfDraws` counts draws, the reference for pass@k |
| `Rollouts` | the pool and one episode per sample | one action per step of `one` and `runEpisode` and their defers; the run is seen from outside, as the events that `folder` folds. An answer is charged where it is priced (`Charges`) and told where it is folded (`Tells`); `emit` may lose the event between the two once a context on its way has ended. What the host's environment, factory and verifiers report wraps anything of `Foreign` |
| `Registry` | instruments, series, scrapes | one action per atomic operation or critical section: the load and the compare-and-swap of an `Add` are two |
| `Telemetry` | who records what, when | a frame is a call that opens a span; `Ends` runs its caller's defers in their order, then the frame writes its counters one operation at a time |

Components of one program are composed through their interfaces. `Sessions`
takes from a run that it emits frames, may park a call, ends; `ReActRun` shows
the first and last of these of its own detail (`EveryRunEnds`), and `Approvals`
details the parked call. `Delegation` takes one iteration of `ReActRun` as
charge, check, one event, call. `ReActRun` takes from the dispatcher one result
per call, which `Delegation`'s `Dispatched` has as its guard, and from the model
one reply or one error, which `ModelCall` details. `ToolChain` asks a human
through what `Approvals` details. `Rollouts` takes limits from `Delegation` as
trips that may happen wherever the code looks at the budget.

## 3. Runs

Deadlock checking is off in every run: a run ends, a session is closed, a budget is
spent, and then nothing more happens. That nothing stops too early is what the
liveness properties say.

| run | instance | what it shows |
|---|---|---|
| `event_log` | 2 followers, capacity 2, 4 events of 2 kinds, starts at -1 and 1 | two evictions can pass a follower in each place it can be. No wakeup is lost, followers are released, and the buffer implements `ReliableLog` |
| `react_run` | 2 runs, 2 iterations each, terminal tool forced 1 before the cap, 1 tolerated empty turn; host or command line | every stop reason with every content shape of up to two blocks, a failed call before and after text, panic, cancel and limit at every point, a consumer that leaves, a process killed at every point of the first run and, with a saved file behind it, of the second. All requests are valid for both protocols, any end is resumable, nothing is lost but what was not saved, runs end |
| `sessions` | 1 session, 2 turns, buffer of 2 frames of up to 4, two clients or a client and a stream | Create, Send, Cancel, Delete and Resolve against the reaper and `Manager.Close`; a stream that breaks off and reconnects where it was. The log tells the turns, what was shut down stays down, a stream misses neither frame nor end, closers and streams end |
| `approvals` | 2 calls with ids that may coincide, 1 human, 1 canceller, 2 turns | all interleavings of a verdict, a cancel, a close, a limit and the end of the context |
| `context` | 5 set-ups of strategy and ladder, 1 skill, 6 batches of calls, 4 runs, at most 4 calls; a window that triggers at 5 messages and keeps 1 | every rung is reached and refused, the window moves once by its quantum and once holds still, a skill is loaded, dropped by the strategy, retired, loaded again |
| `delegation` | up to 3 sub-tasks in the tree, 2 parallel calls, fan-out of 2 over one slot, depth limit 2, cost 4, steps 5, tool calls 4, repeats 2 | every limit is the cause of some end; both the depth limit reached by nesting and by siblings occur |
| `tool_chain` | 2 workers, 2 runs, 3 calls of 3 kinds over 2 tools (a gated shell command, an idempotent read, a malformed one), 2 attempts, breaker and note after 2, room for 2 counted calls | workers of one run and of two; the breaker opens under a call already past it, counts are evicted. `PoliciesAreConservative` is a fact of the policy alone, over every kind of request with commands of up to four words |
| `model_call` | routing table with a prefix of a prefix, 5 model names, 2 attempts, streams of up to 4 events, 2 tool indices | both clients, streamed and whole; every status class, an error in the stream, a broken one, a silent one, one that stops early; a block that starts empty or with text. Waits are checked for every base, cap, attempt and hint at a width of 5 bits: the arithmetic is the code's, only the width is small |
| `tape` | 3 sessions, 2 callers, 4 live calls, 2 failed appends, 3 requests of which two share a key | record, then extend, then replay, with a tear in the middle; a line deleted by hand. A key's numbers overlap only after two losses, which is why the property excludes keys with two |
| `rollouts` | 2 samples, 1 slot, 2 models of which one has a price, 4 sets of options | a sample with a tool call, which may run out of time, and sub-agents next to one that has no turn; a panic, a limit, a cancel at every point, a call charged under a context it ended itself; a reset, a build, a score, a removal that fail. Tools and the limits they trip are in the first set of options only, a wall clock in the third only: a sample's harness does not depend on which of them ended its run |
| `telemetry` | a run of up to two turns, two calls side by side, one of which delegates; 1 series before the overflow, 1 death | a scrape between any two operations of the writers; the first use of two label sets at the cap |
| `telemetry_renewed` | the same with a second agent on the registry | see Divergences |

Bounds are named in each module (`MaxEvents`, `MaxRuns`, `MaxCalls`,
`MaxTurns`, `MaxFrames`, `MaxTree`, `MaxSessions`, `MaxLive`, `MaxFailures`, `Views`)
and sit in guards of the environment, never in what the code decides. Two of everything
that races is the smallest instance with a race. Two iterations reach the first, a
repeated and the capped iteration; two runs reach every constructor of a next
transcript.

Each property of a run says several things that belong together: `OneBudget` is
the caps, the depth counter and the one cause; `StoppedStaysStopped` what holds
after a session's close and after the manager's. Their parts are definitions of
their own. The type invariants `TypeOK` are in no configuration but hold with the
constants of every run; the proofs use them.

### Divergences

One run expects a violation. `telemetry_renewed`: `metric/middleware.go:110-112` says
that a second `New` on the same registry "is fine and returns an equivalent set pointing at
the same instruments", but `New` sets the gauge of active runs to zero (line 154). Done
while a run is in flight, that run's own decrement leaves the gauge at -1 for good.

These sentences of the source are definitions of the modules, too. They are
violated with the constants of the passing run of the module (for
`CannotSpendPast` with `CostUSD = 3`: with 4 the step limit comes first):

| definition | sentence | what happens |
|---|---|---|
| `Sessions!SweepsNoTurn` | `manager.go:273` "A session with a turn in flight is never swept" | a Send between the reaper's look and its close is cancelled |
| `Sessions!CloseStopsEveryRun` | `session.go:38-39` "no run is still executing when it returns" | a run whose session a concurrent Delete took is not waited for |
| `Approvals!DenyDecides` | `approvals.go:132-135` denied "instead of a race" | the select may still prefer the context, and the call counts as abandoned |
| `Delegation!TooDeepIsDeep` | `subagent.go:319-322` "RECURSION depth, not sibling count" | two branches that delegate at once are added up; the second is refused too early |
| `Delegation!CannotSpendPast` | `governor.go:61-63` a fan-out "cannot spend past the cap by racing" | calls that passed their check before the cap was reached are charged after it |
| `Context!GivesUpEmptyHanded` | `overflow.go:71-72` "Out of ladder, or nothing left on it removes anything" | `nextRung` counts messages: a rung that drops a skill's call and text from a turn with other calls removes content but no message, so it is passed over and the run ends on the provider's error |
| `ModelCall!HintIsFloor` | `llm/middleware.go:30-32` jitter is "never subtractive, so a Retry-After hint is honoured as a floor" | the sum with the jitter wraps for a hint beyond half the range of a duration, and a negative delay is not slept; `WaitsAsTold` is stated short of that |
| `ModelCall!PartialIsOneAnswer` | `llm/middleware.go:123-126` deltas are "an observability sink, not a transcript" | what `run.go:504-512` keeps of a failed call is made of deltas, and may glue the beginnings of several attempts |

Seen while modelling, and stated by no definition:

* Between `Create` and the first `Send` of `api.createSession` another client may
  use the session; the refused first Send then deletes it with that client's
  turn in flight (`api.go:387-389`).
* `sendEnd` promises the final state (`api.go:627`); after a Delete in mid-turn the
  state it sends may still be "running".
* `Validate` runs once per run, not before every model call as `convo.go:16-18`
  says. A provider that reuses a call id gets an invalid request on the next
  iteration. `ReActRun` and `Context` therefore assume fresh ids of the provider.
* The overflow ladder works after `Reconcile`. A rung may drop the body of an active
  skill from the request; the skill stays active, and loading it again answers that
  its body is "still in your conversation history above". `KnowsWhatItRuns` is stated of
  the transcript as the strategy left it, before a rung is applied.
* A sub-agent that shares its parent's skill state retires the parent's skills at
  its first `Reconcile`, as its own transcript has none of their bodies
  (`state.go:20-22`).
* `budget.go:43-44` charges "once per attempt... whether or not they succeed"; a
  failed attempt is not charged.
* Repeats are "in a row" (`tool/middleware.go:374-375`, 459) only per message: a failure
  with e1, e2, e1, e1 is noted.
* The budget's own repeat counter is one for the whole tree (`governor.go:158-165`): a sibling's
  call in between ends a run's streak, and two runs that make the same call once each have made a
  streak of two. `Delegation` has the counter, and `OneBudget` says nothing of it but its cause.
* A verdict is matched by id alone (`approvals.go:96-110`). One given for a question that was
  cancelled meanwhile answers a later call that uses the id again, so `OnlyAllowedRun` is stated of
  calls that share theirs with no other.
* `Agent.With` (`agent.go:449-469`) copies a chain that already has the metrics and the
  trace in it, and adds them again (against `agent.go:260`, 277-279).
* `wombat_iterations_total` is registered and never incremented; a run that panics is
  counted with the outcome "none" (`run.go:361` comes before the recover); the model and
  tool middlewares of `trace` and `metric` do not end their spans in a defer
  (`trace.go:366-371`), so a panic passes them by.
* `FileSink` appends without looking at how the file ends. After a death in mid-line the
  next span is glued to the torn line, and `ReadFile` refuses the whole file.
* A tape session whose first line is glued to a torn last one closes without an error
  though that record is lost; `LossIsReported` therefore asks nothing of a session that found
  the file without its last line end (`cut`).
* Streams: one that breaks off cleanly before its end is taken as an answer with no stop
  reason; a read error of the chat-completions client is "transport" even when the run was
  cancelled (`openai/client.go:484-486` against `middleware.go:139-141`), and that client has no
  watchdog (499); a tool name that comes in a later fragment is never announced; a turn of
  thinking alone becomes a message with `content: null` (`request.go:260`).
* `emit` (`run.go:282-287`) takes either branch once the context is done, so the `LLMDone` of
  the very call that spent the budget may be dropped (520), and with it what the folder knows of
  its model: the episode may then be reported as priced though a model without a price charged
  it, or at zero cost though something did. A tool call's timeout does the same to a sub-agent's
  answers and leaves the run alive (`tool/middleware.go:164-203`; 120 s by default, for a
  delegate tool too, which sets none of its own: `subagent.go:213`, 305). `HonestCost` is
  therefore stated of the models the folder heard of, and says that these are all of them if no
  context ended.
* A client that is given no deadline makes one itself (`anthropic/client.go:627-634`), and network
  timeouts are `context.DeadlineExceeded` to `errors.Is` as well. `classify` asks for that first
  (`rollout.go:568`), so an episode whose provider was slow counts as `wall_clock` though it had no
  wall limit. `FailureTellsTheLimit` allows that one cause besides a deadline's.
* A removal that fails is only logged (`rollout.go:347-356`): a succeeded episode's world stays.
* `rl`: a `Cleanup` that panics after a success makes the episode a panic; a cancelled rollout still
  resets, builds and scores every sample that is left; a caller's cancel during `Score`
  is a verifier's failure; two sub-agents in flight may have an answer without a model name put
  down to the wrong one; a verifier called "a#2" may take the row of the second "a" (against
  `verify.go:166-168`); the report's line of unpriced models names ones that have a price when
  cost is not tracked.

### Fairness

Weak fairness, and only of goroutines that the Go scheduler runs: the steps of
a run's loop, of a follower that is not waiting for its consumer, of a pump, of
a closer between its critical sections, of a sample of a rollout. It is assumed that a model
or tool call returns once its context is done (clients and tools take the context) and that a
caller that stops iterating calls `Close`, which `Run`'s comment requires. In `Rollouts`
calls return, as there a wall clock may be set or not. In `ModelCall` the timers fire (the
back-off, the connection's timeout, the watchdog): that is what the property is about;
a server that sends for ever is cut at `MaxEvents`. It is
not assumed that a human answers, that a client disconnects or reconnects, that a wall clock
fires, that a save succeeds or that a turn which nobody stops ends. The consumer of a run reads
until it leaves: one that does neither holds the run by design (`WithEventBuffer`).
`EveryRunEnds` is stated of command lines that are not killed for ever.

### Mutants

Each property of a passing run has a mutant in `PROJECT.json`: a definition
replaced by a `Faulty...` variant next to it, a slip one could make in that
code (a dropped wake, a check before the charge instead of after it, one
semaphore for all calls, a save that writes the file in place). Every mutant violates its property.

## 4. Proofs

`LogProofs` proves, for any capacity, any events and followers and any
starting points:

* `TypeCorrect`, `NumberingIsStable`, `ClonesStayRight`, `WakeupsAreNotLost`,
  `LastEventsReachFollowers`: the invariants of `EventLog`;
* `OnlyEvictionSkips`: the one step property, a follower passes over an event
  only by the clamp to the oldest retained one;
* `ImplementsReliable`: `Spec => Reliable!Spec`, the refinement.

Assumed: `CapAssumption` (the capacity is positive, as `Buffer` makes it) and
`FromAssumption` (starting points are integers, negative ones included, which
`Follow` clamps).

The invariants are not inductive one by one. `NoLostWakeup` needs to know that
a follower never holds a generation from the future, and that one whose batch is
handed out has reached what it saw; `ExhaustedMeansAll` needs both. `FollowerBook`
says this per program counter, and `IInv` is `TypeOK`, `FollowerBook` and the
four invariants. `Inductive` proves it, with a lemma per action:
`AppendIInv` is the only one in which numbering is at stake (an append
evicts at most one event, so `base` and the first slot move together), the
others only move one follower. The step property and the refinement then follow
from `IInv` and the actions: every step that copies events is a stutter of
`ReliableLog`, the clamp is its `Skip`, a yield its `Hand`.

The same module proves of `Telemetry`, for any tree of calls, any registry and any number of
agents and crashes, `TraceIsAlwaysWhole`: the trace left reads as a tree, and a closed one is
complete. Assumed: `TelemetryAssumption` and `TreeAssumption` (the host
makes one call, and no calls are made in each other in a circle). The order is that of the
calls: a call is made in one that is open, and none is closing before its calls are over
(`Nested`), so its span is not yet written when theirs are. `RootGoesOn` says that as long as
any call goes on the root's does (otherwise the calls that go on would be a circle), which is
why the root's span is the last and why nothing is in flight when the host closes the file.
`Written` is the other half: while the process lives, the file holds exactly the calls that
have ended. A panic's call is never closing, so nothing is said of it.

And `CountsAreAlwaysTrue`, for any cap on series (0 included), any classifier of errors and any
number of agents: when the host has closed, the model calls, tool calls, their durations and the
runs in the registry are as many as those that came back; with one agent the gauge of runs is
back at zero; and no instrument has more series than the cap and the shared one. A total is the
number of its units, the pairs of a series and a number up to its value, which is what makes it
a cardinality and no sum. The invariant, `Counting`, says that an instrument has as many units
as there are calls that have closed and no longer have it on their list (`Tallied`): a step
that adds a unit takes the operation off the list (`TallyOneMore`), one that makes a
series or fails to swap does neither, and a call that closes has the instrument on its list just
once (`CallTells`, `OpsAreTracked`), so it moves into the count only by writing. `Gauged` is
the same for the gauge: its value is the runs counted in less the runs counted out, under the one
label set it has; it needs `Agents = 1`, for a second `metric.New` sets it to zero while runs
are on, which is what the run `telemetry_renewed` shows. `Roomy` is the cap: past it only the
shared series is new. Assumed besides: `RegistryAssumption` and `HandlesAssumption`
(what kinds of instruments `New` registers).

`ApprovalsProofs` proves, for any number of calls, humans, cancellers and turns and any
assignment of ids to calls, shared ids included:

* `TypeCorrect`, `SendsDoNotBlock`, `NoWaiterIsLost`, `NoStaleQuestions`,
  `RunsOnlyIfAllowed`: the five invariants of `Approvals`.

Assumed: `CallAssumption` (the nil channel is no call) and `MaxTurnsAssumption`.
The argument is one about who owns a channel. An entry in `waiting` is the right
to send once: `resolve` and `release` take it out in the critical section in which
they send (`DeliverToParked`), and `forget` in the one after which the call has
ended. So a call with an entry has an empty channel, and a call without one
that has not left its select has a verdict. `IInv` adds to these what makes them
inductive: calls not made yet have empty channels, a call that has not
ended belongs to the turn in flight (the dispatcher waits for its calls), and a yes,
wherever it is between `resolve` and the tool, was told to whoever gave it.

`SessionsProofs` proves, for any clients, streams, sessions, buffer capacity and
bounds:

* `TypeCorrect`, `TurnsDoNotOverlap`, `LogIsOneConversation`, `StoppedForGood`,
  `StreamsSeeEverything`, `ClosersCancelFirst`, `RegistryIsBounded`: the invariants;
* `ClosedIsSilent`: the step property, about every step of any actor.

Assumed: `MaxSessionsAssumption`, `BufCapAssumption`, `BoundsAssumption`,
`OwnersAssumption`, `PartiesAssumption`. All that the code guards with
`Session.mu` is one record, and `Book` is what holds of it between two critical
sections: `TurnBook` ties the pump to the turn whose cancel is stored, `LogBook`
the frames kept to the turns that were run, `CloseBook` says what `close` has
already done, `CancelBook` that a closing session's turn was cancelled
and denied. Every action of any party changes at most one record, by one of the
critical sections of `Session`, so there is one lemma per critical section about
a record and one per action that applies it. A frame's number
is its place in the conversation and moves by exactly one; that is
why a stream at `next` has missed nothing (`StreamsInRange`, `StreamsMissNothing`).

`ToolChainProofs` proves, for any workers, runs, tools, calls, requests, thresholds and
allow list:

* `AllowedIsAlwaysHarmless`: what a policy lets through unasked is harmless by its
  documentation, for commands of any length;
* `NothingRunsUnsettled`, `GateHoldsAlways`: nothing runs past the gate that was neither
  allowed nor approved in its run;
* `AskedOnce`, `NotesAreDeserved`: the step properties about questions and notes;
* `TypeCorrect`, `TripsAreEarned`: the breaker's and the counters' half.

Assumed: `ToolChainAssumption`, `FaultsAssumption`, `RequestsAssumption` (a
request's command is a finite sequence of words), `SafePrefixesAssumption`. `WorkerBook`
says per program counter what has been decided about the call, `GateBook` that a call past
the gate is `Settled`, and `CountBook` what the histories say of the counters.
The policy's part is about sequences: dropping the harmless duplications of a concatenation
is the concatenation of what is left of its parts, so every
stage of a stripped pipeline is what is left of one between two bars of the
original, and begins with the words of an entry of the list. `Stripped` is a
recursive function for this proof's sake.

`CallProofs` proves, for trees of any shape, batches of any size and any limits:

* `OneBudgetAlways`: steps and calls let through stay below their caps,
  the depth counter is the number of open delegations, one cause for all;
* `NoOrphansEver`: no sub-agent outlives the call that started it.

Assumed: `LimitsAssumption`. `Tree` says that each run descends from a delegated call of
each of its ancestors; `StepsCharged` and `CallsCharged` count those that have been
charged and not yet been let through besides those that were, which is what makes the
caps inductive while several branches sit between charge and check; `Depth` is a
cardinality over the tree.

The same module proves of `ModelCall`, for durations of any width, `WaitsAreAlwaysAsTold`: the
wait before a retry is the base doubled that often up to the cap, and a hint is a floor of it.
Assumed: `ModelCallAssumption`. The powers of two are counted as subsets, which gives that they
grow and double; then either the shift is one the code refuses, and the doubled base has passed
the cap, or the base is at most the cap divided by the power, and the product, being below the
cap, is not wrapped (`BackoffIsExact`, `NotWrapped`).

And `AnswerIsAlwaysWhatStreamed`, for streams of any length, any retries and any indices: what
is returned is what the last attempt streamed, and what its blocks started with. From
`ModelCallAssumption` too, which says of a routing table that it is a finite map of names.
`AnswerInv` relates the accumulators to what the sink was told and to what came with the blocks'
starts. `Placed`: no two blocks have the same place in the answer, where the clients place them
differently. `Numbered`: a block holds fragments in the order they came, and of two blocks of
text the later holds the later ones. `Told`: the sink's fragments of a kind rise, and are those
of the blocks of that kind but for the ones that opened a block. `Argued`: those about a call
are what its block holds. `Introduced`: the first delta about a call, and no other, has id and
name. The order of the blocks is found by induction on their places (`LineUp`), the joined text
rises because its blocks are stacked (`StackedJoins`), and what was given and what is returned
are compared as two rising sequences over the same elements, without saying how either was put
together.

`TranscriptProofs` proves of `ReActRun`, for transcripts of any length, any limits, any number of
runs and processes on them:

* `TypeCorrect`; `RequestsAreValid`: every request passes `Validate`, and the body it
  becomes has every call answered by the messages right behind it and by nothing else;
* `CarriesOn`: whatever ended a run, its transcript and its file can be carried on;
* `CapIsForced`: a run the cap ended had been forced (`CapWasForced`, a part of `EveryRunEnds`);
* `OnlyGrows`: the step property that nothing said is edited or dropped.

Assumed: `BoundsAssumption`. `Sound` is what `Validate` asks but for the last
calls' answers, and that calls are numbered; `Replying`, `Outcomes`, `Filed`, `Forcing` and
`Counters` say what holds at each phase. One lemma, `Pushed`, about appending a message to a
sound transcript carries every seed and every step: a user message that answers the
last calls, exactly once each, or an assistant message with new ones. `Only`, `Scan` and the like are
recursive functions, about which the lemmas argue by a least counterexample in a set of
numbers, the one form of induction open here (below).
The wire's half needs more than `Validate` says: a text behind a result is folded into
it, but one before it becomes a message between a call and its answer.
`Tidy`, a part of `Sound`, says that no turn of a run has its results anywhere but first. From
it, what `Fold` leaves of a turn is one message per result, in order (`UserEncoded`), and by
`OneTurnMore` the body stays well formed up to the last turn's calls.

The same module proves of `Context`, which carries on the same kind of transcript, for any
skills, strategies, ladders, batches and bounds (the two modules have no name in common but
`Convo`'s, so that one can extend both):

* `RequestsAlwaysStayValid`: every request passes `Validate`, on whatever rung;
* `AlwaysKnowsWhatItRuns`: what a skill gates is offered and runs only while its text is there;
* `WindowAlwaysHoldsStill`: a quantized window moves once in `delta` messages and keeps
  `keepRecent`;
* `StrategyServes`: what the three rest on, the contract of a `Strategy`; `CutStays`: a cut at
  a given number of messages never moves.

Assumed: `SetupsAssumption`, `BatchesAssumption`: a strategy is a sequence of steps, a ladder
one of strategies, a batch at least one call of a tool the agent has. `Sendable` is `Validate`
and that no turn is empty; it is kept by a cut before a fresh turn (`CutServes`), by
text added at either end (`PrependServes`, `NoticeServes`), and by dropping calls with
their results (`DropServes`): turns merged one by one never part a call from its answer (`MergedTo`),
and the first turn, having no results, keeps all its text, which is why nothing before it
is ever cut off. `Serves` adds that the blocks are the transcript's own, which makes
every strategy transitive. `Talking` is the invariant of the loop: the transcript is `Sound`, settled
where a call is made, and what was materialized and sent is `Sendable`. `Knowing` says of an
active skill that the call that loaded it is in the transcript, that whatever result it has or is about
to get there is the text, and that the text is in the request or the batch. Neither is implied by
the property: without the middle part, a call reconciled as "present" could be
present with another result. `Cutting` says that each place the window was seen to cut at is one where
it would still cut for some multiple of `delta`, so they are counted by those multiples.

`RolloutsProofs` proves, for any samples, slots, verifiers, price table and options:
`TypeCorrect`, `EvidenceIsKept`, `LimitsAreTold`, `CostIsHonest`. Assumed: `RolloutsAssumption`.
Samples do not touch each other's state, so the invariant is one `Book` per sample: what its
run, world, cause, error, verdict and cost are at each program counter. Of the cost it keeps
what was charged and what was told apart: the folder's account is right about the models it
heard of (`Heard`, `SpendBook`), whatever was lost on the way, and nothing is lost before the
run's context or a tool call's has ended. How a verdict's parts add up (`Score`) is never
unfolded.

`TapeProofs` proves, for any requests, callers and bounds: `TapeIsWhole`,
`LossesAreReported` and `ReplaysInOrder`, from no assumption. For the first two, `Account` is the argument:
recorded answers that can no longer be read, together with what a torn end may still cost, are at
most two per failed append or death in one. For the third, a second invariant, `Order`, counts: a
line's number is less than the number of appends ever tried under its key (`Lines`), and a session
that opens starts at the number of lines it read, which is that number but for the lost
(`SeenAll`). So with at most one lost the next number is never below one in the file
(`Nexts`), equal numbers are written in order, and `Sorted`, which is stable, moves nothing
(`SortedStands`): what is replayed is the file. With two lost it may be otherwise, which is why
the property says `< 2`.

Only model-checked, and why:

* all liveness (`FollowersReleased`, `EveryRunEnds`, `NobodyWaitsForever`, `StoppedTurnsEnd`,
  `TreeUnwinds`, `SilentStreamsEnd`, `RolloutReturns`): out of the prover's reach;
* what folds, sorts and sums compute, which needs induction over an operator:
  `GradesAddUp` (statistics of a group), the sums of `TypeOK` in
  `Delegation`, and `ScrapesAreTrue` (sums over a histogram's buckets).

## 5. Not modelled

* JSON shapes (`wire`), the text of events, outcomes and results, encodings of requests
  and entries, the parsing of skill files and pause schemas, UTF-8 scrubbing, the layout of
  reports and of the metrics' exposition, label sanitising, span attributes, the HTML report:
  conversions without state.
* The built-in tools, benchmarks, flags and wiring of the commands, HTTP routing, CORS and
  decoding: I/O. A panic outside `WithRecovery` ends the process; nothing here survives that but
  files.
* Permission rules that only a host's own policy uses (`AllowTools`, `DenyTools`, `DenyCaps`,
  `AllowHosts`) and truncation of outputs (`Clip`, `ClipHead`).
* Token counts: the strategies count messages, and whether a request is too long is the
  model's answer. Sampling controls. The deltas a replayed answer is streamed as.
* `DefaultToolTimeoutFallback` is taken as 0 for delegate tools, as the repository's
  README configures it. Turn notices change the text of a request only.
* Medians, deviations and the JSONL form of a rollout's report; a progress callback that panics
  (it is outside the recover).

## 6. Plan

The components with a logic of their own are modelled and the safety of eleven of them is proved,
in whole or in part; what is left is to prove more:

1. `Delegation`: the rest of `TypeOK`.
2. `Telemetry`: the half of `ScrapesAreTrue` that needs no sums, that no counter goes down and
   no series is lost from one scrape to the next.
