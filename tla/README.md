# TLA+ models of the mh orchestration service

The orchestration service is a FastAPI application with one asyncio event loop
per process. The models are of one process. `docs/dev-guide.md:390` recommends
`uvicorn --workers 4`, and each worker then has a lock registry and a collector
of its own: what is said of the lock of a session holds within one worker only.
The service serves agent turns as server-sent event streams, keeps
their sessions in an external store, evaluates agents in batches, and filters
what a user may see and run. The agent runtime (`minimal_harness`), the session
store, the permission service, the evaluation storage and the web server are
outside the repository: the models describe them by how the code uses them. The
repository also ships the built bundle of a web client, which keeps state of its
own about the streams it reads.

Paths below are relative to `src/mh_orchestration_service/`.

## Inventory

| part | state it keeps | operations | interacts with |
|---|---|---|---|
| session lock registry (`services/runtime_service.py`) | `_SESSION_LOCKS`, one `asyncio.Lock` per entry | acquire, release and prune | chat, compaction, hand-off |
| chat stream (`api/chat.py`) | one session object, two nested generators, agent task, stop event, queue | handler, stream, cleanup, save | lock registry, runtime factory, store, server |
| evaluation (`eval/`) | `_running_tasks`, semaphore, question tasks, `results`, `_cancelled` | create, run, cancel, read | runtime factory, evaluation storage |
| permissions (`adapters.py`, `services/perm_middleware.py`, list endpoints) | permission list cached per turn | match, list, filter, allow a tool call | permission service, management provider |
| sessions API and compaction (`api/sessions.py`, `services/compaction.py`, `database/`) | message list and forward offset of a session | create, read, delete, compact | lock registry, store, LLM |
| hand-off (`api/runtime_tools.py`, `builtin_agents/registry.py`) | a transient session, a sub-agent task | discover, hand off | lock registry, runtime factory |
| runtime factory (`services/runtime_service.py`) | registries of one runtime | create_runtime | management provider, permissions |
| audit and metrics (`services/audit_middleware.py`, `monitoring/`) | a process-wide collector, counters, histogram samples, a push task, the start of an LLM call | observe, snapshot, push | every request and turn, the lifespan |
| application (`app.py`, `context.py`) | adapters, exit stack, context variables | start, stop, per-request context | everything |
| web client (`static/assets/index-DoZo4ydH.js`) | displayed session, messages, the shown answer and its accumulator, a timer, an `AbortController` | send, cancel, select, create and leave a session, apply an event, flush | chat stream, sessions API |
| authentication (`api/auth.py`, `api/dependencies.py`) | none | verify user, verify caller | identity providers |
| configuration (`config_manager.py`) | none | resolve, coerce | environment, files |
| management API (`api/management.py`) | none | CRUD, filter, page | management provider |
| local tools (`builtin_agents/local_tools.py`) | a child process | run, time out, kill; files | operating system |

What is hard, and what makes each part correct:

- *Session lock.* A lock is handed from request to request across suspension
  points while its registry entry is dropped. Correct: a lock object has one
  owner, nobody is forgotten in a queue, entries do not outlive their owners,
  and requests of one session are serialised (they are not always).
- *Chat stream.* A client can vanish at any `await` or `yield`; Python then
  cancels, or drops, or closes the generators at different times. Correct: the
  agent ends, the lock is released, a turn is stored once, when its agent is
  over, on top of the history before it, and is cut short only if its client left
  or was told of an error.
- *Evaluation.* Question tasks, the batch task and cancellations interleave at
  every storage call, each of which can fail. Correct: permits balance, no task
  survives a batch that returned, storage and summary agree.
- *Permissions.* Permissions change while a turn holds a cached list, and each
  endpoint filters in its own way. Correct: a tool runs or is refused for a
  reason, and what is listed can be used.
- *Compaction and deletion.* Deletion takes no lock; a compaction writes an
  offset computed before an LLM call, and every chat writes back the offset it
  loaded. Correct: no message is kept from the LLM without a summary of it, a
  reported summary is stored, the lock is given up once the LLM has ended or the
  client has left (an LLM that hangs keeps it as long as its client stays).
- *Hand-off.* A polling loop with a timeout around a sub-agent; cleanup on all
  exits.
- *Metrics.* Two readers drain the same samples, and one of them may fail after
  it drained. Correct: what is counted is reported once, or still waits, and only
  a push that fails loses it.
- *Lifespan.* Start-up can fail half way; a background task lives outside the
  exit stack, behind a global that every application of the process sets.
  Correct: an application is observed by its own collector, and a task left
  behind has a cause.
- *Web client.* Events, ends of streams and loaded histories arrive in any order
  and are applied to whatever is on display, in two copies of which one lags
  behind. Correct: at rest the display is what the server has stored, an answer
  is whole, and what streams can be cancelled.

The full list, with the line where each hazard bites and the properties aimed at
it, is under `hazards` in `PROJECT.json`.

## Modules

| module | models | composed with |
|---|---|---|
| `FifoMutex` | what one `asyncio.Lock` promises (abstract) | instantiated by `SessionLock` |
| `SessionLock` | the registry and the life of the requests that take a lock | |
| `ChatStream` | the chat handler and its generators | instantiates `SessionLock` for one session |
| `Compaction` | compactions, chats and the deletion of one stored session | instantiates `SessionLock` for one session |
| `EvalBatch` | a batch, its question tasks and its cancellations | |
| `PermissionRules` | matching and the filters of the endpoints, as operators | |
| `ToolPermission` | permission checks of a turn while permissions change | extends `PermissionRules` |
| `Handoff` | one delegated task, remote or local: the polling loop and its clean-up | |
| `Monitoring` | the collector, its two readers, the LLM timing and the lifespans | |
| `WebClient` | the chat store of the bundled client against the server | |
| `...Proofs` | theorems about the module they are named after | extends it; those of `ChatStream` and `Compaction` instantiate `SessionLockProofs` |
| `MC...` | constants and symmetry for TLC | |

### Common modelling decisions

Code between two suspension points of the event loop is one action. An `await`
that may really suspend ends an action; an exception or a cancellation at it is
an action, or a disjunct, of its own. A cancelled external call may have taken
effect or not, so both outcomes are enabled. Texts, event payloads, locales and
logging are left out. Definitions named `Mut...` are variants with a plausible
bug that show that a property can fail; they are used by no specification.

### SessionLock

A request creates at most one lock object, so lock objects are named by their
creator. `registry` is `_SESSION_LOCKS`, `lock[r]` the local variable of request
`r`, `locked` and `waiters` the fields of each `asyncio.Lock`, `woken` the
waiters whose future is resolved and who have not run yet. The blocks under
`_SESSION_LOCKS_MUTEX` never suspend, so the mutex is never contended and is no
variable. `pc` follows a request: `new`, `waiting`, `loading` (it owns the lock
and runs its handler), `responded` (it returned a response whose generator was
not started), `streaming`, and `done` or `abandoned`. A generator that was never
started runs no `finally`, so an abandoned request keeps its lock for good.

### ChatStream

`gen[r]` is where `_stream_events` is suspended; `mode[r]` what became of the
connection. A disconnect inside an `await` raises `CancelledError` there
(`cancelled`). A disconnect while a chunk is being sent leaves both generators
suspended at their `yield` (`dropped`); the collector then closes the outer one,
which releases the lock, and the inner one runs its `finally` in a task of its
own later (`detached`). The `finally` sets the stop event and joins the agent,
which may then end by itself or be told to stop (`stopped`); the memory is saved
in either case, so what is stored of a client that left may be part of a turn.
`StoredTurnsAreOver` says when it may be, and that nothing is stored while the
agent still runs, or twice. `history` is the list of turns in the store, each with
its author, the length of the history it was produced on, and whether its author
owned the lock when it was saved. `FollowsSessionLock` states that every step is
one of `SessionLock` or leaves the lock alone: the two modules do not describe
the lock twice. `SerialUntilHandover` says what remains of the promised
serialisation: until a lock is handed over, what a turn saved under the lock has
missed was saved without the lock, by detached streams.

### EvalBatch

`qpc[q]` is where question task `q` is, `phase` where the batch task is. The
loop after a cancellation waits at the first task that is not over
(`DrainFrom`), so a further cancellation reaches that task, or, when it has just
ended, makes the loop lose its result. `collected`, `drained` and `orphaned` are
the three sources of the list `results`, which may name a question twice.
`limit` is `max_concurrency` as a request may give it: a negative one raises when
the semaphore is made, after `running` was answered and before anything was
announced; with 0 the questions wait until a cancellation comes.

### PermissionRules and ToolPermission

A permission string is the sequence of its segments. `PermissionRules` has one
operator per filter, with the catalogue (tools, agents, scenarios and what they
name, deleted agents too) as constants. `ToolPermission` runs turns: a runtime
registers the agents allowed at one moment, then tool calls, several at a time,
go through `should_allow_tool`; the answers of the permission service to
`get_permissions` and `check` are given at one moment and used at a later one,
with grants and revocations in between. `permitted` and `lacking` are history
variables. Any registered tool may be called: the list that `chat()` filtered
does not bound the registry, because `create_runtime` adds the scenario's tools
again.

### Handoff

One delegation is a system of its own: its session id is drawn for it, so the
lock it takes is free. `kind` says which of the two implementations runs; they
share the steps whose code is the same and differ in `Lookup`, the reading of
events and the save. `at` is where the generator is, `exit` what its `finally`
returns to, `mode` what became of the reader. The queue is `said` from `read`
on, with `None` behind it once the sub-agent is over; `result` is the event that
`result_text` comes from. A time-out of `wait_for` without the stop event
changes nothing and is no step. The repository sets the stop event only in the
`finally`; `RuntimeStops` stands for the runtime, which holds it too, and without
it the branch for an interrupted task could not be entered. An interrupted task
is told `interrupted` and then `handoff_complete`, and its session is saved while
the sub-agent still runs: the properties that speak of a completed task exclude
it by name.

### Compaction

The stored session is `history`, whose entries are turns and summaries with the
number of entries they cover, and `offset`, the forward offset: what is before it
is not sent to the LLM. `base` and `forward` are the session object a request
loaded. The store is external: `get_session` returns an object of its own for each
request, `save_memory` appends what was added to that object and stores its offset
(`docs/dev-guide.md:482`), and a save into a deleted session raises or does
nothing. `at` is where a request is; a compaction has a single generator, whose
`finally` comes after the save. A client that leaves at an `await`, where a save
may or may not have been done, or at a `yield` is `Disconnect`; the `finally` that
then releases the lock is `Close`, a step later. A chat is what `ChatStream` shows
of it: it loads, may give up its lock early (`ChatDetaches`), and saves once.

### Monitoring

A collector is named by the application whose lifespan made it, `collector` is the
module global. Counters keep their totals and histograms lose their samples when
read, so `counted` and `pending` are sets of observations; `logged`, `served` and
`dropped` say which reader drained an observation; `dropped` is what a push
drained before its log call raised, which is in no report. `LostOnlyByFailedPush`
says that nothing else is lost, and `FailedPushIsRetried`, that this is not lost
either, is what the log text says and the code does not do. An observation of an
LLM call carries the call whose start it was measured from, which is how a stale
`_llm_start_ts` would show. `phase` and `entered` follow a lifespan through its
exit stack; a hook may raise on entry and on exit and may swallow an exception.
`OPTIONS` requests are not counted and are left out; each application starts once.

### WebClient

`shown` is the reactive answer and `acc` the accumulator behind it; `shared` says
that both hold the same array of tool calls, which is so from a flush until the
next answer. `timer` is the scheduled flush, `controller` the stream that the
button would abort. `streams` and `loads` are the fetches under way. Text is left
out: an answer is the positions of its events in the turn, so a cut, mixed or
doubled answer differs from a whole one. An event whose name and data come in
different chunks of the response is lost (`LoseEvent`): `streamChat` forgets the
name. `CallOf` names the `ToolStart` that a `ToolEnd` ends: the client looks a call
up by its id, so calls may run side by side. Of the external agent harness the
model assumes that the end of the agent is the last event of a turn without an
error, and only the last, and that each call that starts also ends. A history
may also fail to load, or be refused (`FailHistory`): `selectSession` has emptied
the list by then, catches the error, and leaves the list as it is. The server is
what the client sees of `api/chat.py`: it is done with a turn (`EndTurn`) at any
time, before the client has received the events or never, as with an agent that
does not end or a request behind a lock that leaked, and it stores the turn or
does not. Turns of one session are not assumed to be serial, and an `Error` may
come instead of the rest of a turn (`ReceiveError`). `disturbed`, `astray` and
`missing` are history variables that name the circumstances under which the client
promises nothing: `missing` is set by a history that failed to load and reset
when a session is displayed again.

## Runs

Deadlock is checked in every run but one: a specification stops only in its
explicit `Rest` or `Idle` step, which requires that nothing is left to do.
`web_client` does not check it: a client may be closed or left alone at any time,
and once the bounds on messages and histories are used up nothing needs to
happen.

| run | instance | shows |
|---|---|---|
| `session_lock` | 4 requests, 2 sessions, fair | the inductive invariant (`LockInv`: one owner per lock, no stale registry entry, no lost wake-up), serial until a hand-over, each lock refines `FifoMutex`; a waiter is served, unless behind an abandoned request |
| `session_lock_exclusion` | 3 requests, 1 session | **violated**: requests of a session are not always serialised |
| `chat_stream` | 2 requests, 2 unread events, fair | what is stored and when a turn may be cut short, what the client is told, when the lock is given up; every step follows `SessionLock`; a connected client is told the outcome, a disconnect is cleaned up |
| `chat_stream_serial` | 2 requests | **violated**: a turn is stored on a stale history |
| `eval_batch` | 3 questions, limits -1, 0 and 2, 2 cancellations, fair | permits, stragglers, storage against summary; the batch ends, with limit 0 once it is cancelled |
| `eval_batch_kept` | 2 questions, 1 permit, 1 cancellation | **violated**: a completed result is overwritten |
| `tool_permission` | 2 tools, 2 agents, 2 scenarios, 12 permission strings, 2 held, 2 changes | reasons of running and denying, listings against checks |
| `handoff` | 1 delegation of either kind, 3 events, fair | the inductive invariant (`DelegationInv`: the lock spans the sub-agent, a finished stream is clean, `complete` comes after the save), what a completed task carries; a reader that leaves, or a sub-agent that is over, ends the stream |
| `compaction` | 1 chat, 2 compactions, a deletion, fair | nothing is forgotten, reported summaries are stored, the offset goes back only when requests overlapped; a compaction ends once its LLM has ended or its client has left |
| `monitoring` | 2 applications, 2 hooks each, 1 turn of 2 LLM calls, fair | what is counted is reported once or waits, unless a push failed; durations are of their call; collector and push task outlive their application only for a reason; a shutdown ends, what waits is drained |
| `web_client` | 2 sessions, 2 messages, 1 history, turns of 4 events, fair | the button cancels what streams, answers are whole, the display is what the server stored unless its history failed to load; an answer stops streaming once the server is done with its turn |
| `monitoring_retry` | 1 application, 1 turn | **violated**: a push that fails is not retried |

Type invariants are parts of `LockInv` and `DelegationInv`, and `TypeOK` in
`web_client`; for the other modules `TypeOK` is proved, and so are consequences of
the invariants that no run lists: one owner per lock, no lost wake-up, `done` after
the save, no completed batch without a completed question, summaries saved under
the lock only.

### Bounds and why they are enough

- *Requests.* The registry can lose the sharing of a lock only around one
  owner, one waiter and one newcomer; the fourth request gives queues of two on
  an old and on a new lock. The theorems hold for any number.
- *Chat requests.* Two: one that leaves and one that comes next. The overtaking
  through the registry needs three and is the subject of `SessionLock`.
- *Unread events* (`MaxUnread`): the stream does not tell the second event from
  later ones; two let the agent be ahead of the reader.
- *Questions, permits, cancellations.* Three questions with two permits have a
  queued one beside running ones. The second cancellation strikes the handling
  of the first, and a third meets no new state of the batch task.
- *Events of a sub-agent* (`MaxEvents`): three have an answer before, between and
  after events without one; the theorems hold for any number.
- *Permissions.* Every string is exact, open, broad, foreign or malformed; two
  held strings are enough to combine a listing shortcut with a check. Two
  changes allow a revocation and a grant within one call.
- *Limits.* -1, 0 and 2 stand for the refused limits, the one with which nothing
  can run, and those below the number of questions; a limit of at least that
  number only removes the queue. The theorems hold for any.
- *Compactions.* Two compactions and a chat have every order of load and save of
  one against the other, of the same and of the other kind. The theorems hold for
  any number of each.
- *Applications, hooks and calls.* Two lifespans can overlap, follow each other
  and stop each other's collector; two hooks allow a stack unwound half way; the
  second LLM call follows one that raised. The theorems hold for any number.
- *Messages of the client.* Two messages have an older stream beside a newer one,
  and one history can arrive before, between and after them. A turn has a tool
  call, which changes the shown copy first, and text, which changes the other.
  The theorems hold for any turn (parallel calls too), sessions and bounds.

### Fairness

The event loop runs every ready task, so each step of a task that depends on
nothing else is weakly fair. In `SessionLock`, `ChatStream` and `EvalBatch`
agents, storage calls and handlers end (with any outcome), the server starts or
drops a response, a chunk is sent or its client is found gone, and dropped
generators are closed. No client has to send a request and nobody has to cancel or
disconnect. A run that checks liveness uses no symmetry. In `Handoff` a sub-agent
ends only once it was cancelled: one left alone may run for ever. In `Compaction`
a chunk is sent or its client is found gone, a save returns or raises, and the
generator of a client that left is closed. Nothing is assumed of the LLM, which
`api/sessions.py:253` awaits without a timeout: `CompactionEnds` starts where the
LLM has ended or the client has left. In `Monitoring` hooks return or raise, a
cancelled push task runs, and intervals pass; nobody has to start, stop or read
anything. In `WebClient` the server owes nothing until it is done with a turn, and
no timeout ends a stream that is silent; from then on what was sent arrives and
the response ends, or the connection breaks. The user owes nothing, and the timer
is not needed for an answer to stop streaming.

## What the violated runs show

1. `release_session_lock` prunes the entry also when requests wait on the lock.
   With a waiter woken and a newcomer creating a second lock, two requests of a
   session are in their critical sections. `ExclusiveUntilHandover` states (and
   the theorem `SerialUntilHandover` proves) that there is no other way.
2. With a correct registry two requests would still not be serial: the outer
   generator's `finally` releases the lock while the inner generator, which
   joins the agent and saves the turn, is suspended.
3. A cancellation that strikes between the storage call of a question and its
   return replaces a stored result by an `interrupted` one.
4. The push loop takes the samples out of the histograms before the log call that
   reports them (`monitoring/collector.py:141`). When that call raises, the next
   interval finds nothing to retry, and the log text that announces the retry is
   wrong; the counters still count the samples.

Seen while modelling, and the subject of no run of its own: the docstring of
`has_broad_permission` (`adapters.py:88`) lists strings that the code does not
accept as broad, which only misses a shortcut, since the listings are the same
(`ListingsAgreeWithChecks`); a client that disconnects before its response
generator starts leaves the lock held and registered; the summary of a cancelled
batch counts the questions collected before the cancellation twice
(`SummaryAccounting` says by how much); the branch of a question that sees
`_cancelled` is never taken, because a cancellation has struck every unfinished
question task; a user with `*` or `*:*` is shown everything and can open nothing;
a sub-agent that raises ends in `handoff_complete`, because its exception is
swallowed by the `finally`; an evaluation with a negative limit is answered
`running` and then raises; what waits in a histogram at shutdown is never
reported; what `GET /metrics` showed never reaches the log (`README.md:179` and
`:192` of the service present both as views of the same metrics); the late end of
an older stream finalises, in the client, the answer of the next message after its
first events, which is why `AnswersAreWhole` excludes messages sent while an older
stream was open; the component that renders a hand-off finds events by counting
braces, those inside strings too.

## Proofs

Each `...Proofs` module proves its theorems for any values of the constants that
the named assumptions of its model admit. The assumptions only keep the constants
apart (`None` is no request, chats are no compactions), are the types of bounds,
or say of a turn in `WebClient` that it ends with its `AgentEnd` and that each of
its tool calls ends; TLC evaluates them in the runs of the model. `PROJECT.json`
lists every theorem and the property of a run that it states, if any. No safety
property below is inductive by itself; the inductive invariants are what the code
relies on without saying.

- *`SessionLockProofs`*, `LockInv`. A lock is created by a request on the same
  session and its creator never waits for it (`LocksHaveCreators`); `locked` is
  set exactly while a request owns the lock (`LockedIffOwned`); a queue holds
  waiting requests of its own lock, each once (`QueuesOfWaiters`); only the head
  of the queue of a free lock is woken (`WokenAreHeads`); and until a hand-over
  the owner is the creator of the registered lock (`OwnerIsRegistered`). One
  lemma per kind of step: a request that takes a fresh lock (`FreshInv`), one
  that queues (`QueueInv`), a woken waiter (`ResumeInv`), a release
  (`ReleaseInv`) and a mere change of phase (`PhaseInv`). From the same invariant
  `LocksImplementFifoMutex` proves the refinement: the first two kinds are `Ask`,
  the third is `Grant`, the fourth `Leave`, and the last a stutter, on the lock
  concerned; every step stutters on the other locks.
- *`ChatStreamProofs`*, `ChatInv`. `ImplementsSessionLock` shows that a chat does
  with its lock what `SessionLock` says, so the invariant of `SessionLockProofs`
  holds of it and is not proved again. `StreamShape` reads off the position of a
  stream what it has done so far, and that a turn told to stop has a cause
  (`CutHasCause`), from which `TurnsAreOver` follows; `NothingMissed` says that a
  request that is still to save under the lock has missed only what was saved
  without it, unless a lock was handed over. `SerialUntilHandover` for any number
  of requests is their consequence.
- *`CompactionProofs`*, `CompactionInv`. The same composition. `OffsetsCovered`:
  the forward offset, in the store and in the objects of requests under way,
  always has a summary behind it. `NothingMissed`: while the lock excludes,
  whoever is to save has loaded the offset that is stored.
- *`EvalBatchProofs`*, `PermitInv` for the permits, by counting, and `BatchInv` for
  the rest: the loops have dealt with every question before the one they are at
  (`LoopsFollowTheTasks`), orphans have no result, what is stored of a question is
  what came of it unless it is an orphan (`StoredIsTheOutcome`), a cancellation
  shows in some task (`CancellationShows`), and each end has its reason
  (`EndIsJustified`). `SummaryAddsUp` counts the summary from these by
  cardinalities.
- *`ToolPermissionProofs`*, `DecisionInv`. It follows a permission from the answer
  of the service, over the cache or the reply to a check, to the decision: what
  is granted was seen since the first tool call (`AllowedBySeen`), what is
  refused was missing during this call (`DeniedByMissing`). The agreement of the
  listings is proved of `PermissionRules` for every list and catalogue.
- *`HandoffProofs`*, `DelegationInv`: the lock is held exactly inside the `try`
  and the sub-agent lives only there (`LockIsTheTrys`), and the verdict is sent
  with the save behind it (`SaveIsSettled`); `FinallyDelegation` covers the seven
  ways into the `finally`. `WholeInv` adds that the result is that of the last
  event read and that the loop is left only with the queue drained.
- *`MonitoringProofs`*, `ObservationInv`: an observation is new, because its turn
  has begun a later call than any that was observed, so it never meets itself on
  its way through the histograms, and `NothingElseIsLost` follows. `LifespanInv`:
  without an overlap one application is up, the collector is its own, and it stops
  no other.
- *`WebClientProofs`*, `ClientInv`, in layers that build on one another.
  `StreamingInv`: both copies agree on whether they stream. `TypeInv`: the types,
  and that no more is to come than a turn. `AnswerInv`, of turns the client
  promises something about: what is still to come is the rest of the turn
  (`RestIsToCome`), no older stream is open (`OlderAreClosed`), and the
  accumulator holds exactly what has come (`AccumulatesTheLatest`); hence
  `AnswersAreWhole`. `SessionInv`: a history is of its session, and what is on
  display, streams or is on its way is of the session selected
  (`HistoriesOfSessions`, `OnDisplay`). `DisplayInv`: a turn the server has stored
  is in every history read later and, once received, in the messages shown unless
  a history is `missing`, and what is shown is what the server has or is due to be
  (`StoredAreInHistories`, `ReceivedAreShown`, `DisplayIsServed`). `StepOfTurn`
  says once what a step may do to the rest of a turn. What `InOrder` computes for
  a turn of any length is proved by smallest counterexample from the
  well-foundedness of `<`: a set of positions has one enumeration in order, and
  the next position is appended to it (`OneEnumeration`, `NextInOrder`). From it
  follow how one event changes an answer (`ContentGrows`, `CallsGrow`) and that
  the answer is whole before its `AgentEnd` (`WholeBeforeTheEnd`): every call has
  ended.

Only model-checked are the liveness properties: the prover has no rule for fairness
and `ENABLED` here. Every invariant and every action property of a passing run
that is not a liveness property is stated by a theorem or a conjunct of one.

## Not modelled

- *Several workers*: each process has its own lock registry and collector; two
  requests of a session that reach different workers share no lock.
- *Authentication*: a chain of calls to external identity providers, the first
  that knows the caller wins; nothing is kept between requests.
- *Configuration*: resolved once at start-up, strings and the first source that
  has a key; unit tests reach it.
- *Management API*: CRUD passed through to an external provider; a page is one
  slice of the list that provider returns.
- *Local tools*: file I/O, and one child process per call.
- *Read-only endpoints and localisation*: no state.
- *The rest of the web client*: of the bundle that `index.html` loads, the stream
  reader, the store and the views are on four long lines (35, 36, 37 and 100),
  the other lines being Vue, Pinia, vue-router and marked. The models cover the
  reader and the store; views and the `umd` bundles of tool components render
  what they are given. `index-IOitT5h3.js` is an older build of the same client
  that nothing loads. So only a small share of the JavaScript lines of the
  repository is modelled, and no more of them is this project's own.
- Of components that are modelled in part: the capture of LLM calls in an
  evaluation and its read endpoints (a file per call, no decision depends on
  it), `require_permission` (one external call), the creation of a session, the
  prompt of a compaction, the hooks of the audit middleware that only log and
  count, the adapter slots that lifespan hooks fill, and the context variables
  of a request, which each request has for itself.
