# Formal models of the eiva gateway and its services

TLA+ models of the stateful core of `eiva`, the TLC runs that check them on small
instances, and TLAPS proofs of their main properties for every value of the
constants. Line numbers are those of `src/backend/crates/eiva-gateway/src`
(`server.rs`, `dispatch.rs`, `chat.rs`, ...) and
`src/lib/rust/crates/ai/eiva-claw-core/src` (`threads/`, `projects/`, `services/`)
unless a path is given. `PROJECT.json` lists the components, the runs, the mutant that every
checked property is shown to catch, the source lines of every definition, the
hazards, the findings and the theorems.

## 1. The system

`eiva-gateway` is a daemon that serves AI-agent conversations to clients (terminal,
desktop, web, SSH) over framed byte streams. One tokio task per connection runs
`handle_connection` (`server.rs`), which

- loads `threads.json` and `projects.json` into managers of its own,
- spawns a *reader* task that receives frames and sorts them: a `Cancel` sets a
  shared flag, an answer to a request (tool approval, user prompt, DOM query,
  credential) goes to a bounded channel of its kind, everything else to the frame
  channel,
- runs the *main loop*, which takes one frame at a time and handles it to the end.
  A `Chat` frame runs the agentic loop of `dispatch_text_message`: call the model,
  run the tools it asks for, call it again, for up to 500 rounds, with requests to the
  client in between.

| Component | State it keeps | Operations | Interacts through |
|---|---|---|---|
| Reader task (`server.rs` 416-480) | the frame in its hand | receive, sort, exit | `frame_tx`, four answer channels of capacity 4, `tool_cancel`, the cancellation token |
| Main loop (`server.rs` 483-866) | frame at hand, managers, config snapshot | one handler per frame type | `frame_rx`, the writer, the files |
| Dispatch (`dispatch.rs`, `chat.rs`, `errors.rs`) | rounds, continuations, failed rounds, pending calls | model call, tool call, request and wait, flush, compact, recover | model, tools, answer channels, thread manager |
| Thread manager (`threads/`) | threads, foreground id, a mark per thread | create, switch, clear, close, add message, compact, save, load | `threads.json` |
| Project registry (`projects/`) | projects, active id, `next_id` | create, switch, rename, delete, save, load | `projects.json` |
| Shared configuration (`admin.rs`, `panel_handler.rs`) | config, model context, credentials session behind `RwLock`s; a copy per connection | reload, model switch, rename of the agent; settings of a connection's own copy | every dispatch reads it; the copies and it are saved over one `config.toml` |
| Memory tree (`eiva-claw-memory-tree`) | chunks, summaries, jobs in SQLite | ingest, reserve, extract, seal, complete, fail | workers that call `process_one` |
| Service supervisor (`services/manager.rs`, `service_handler.rs`) | definitions, an entry and a child process per service, health counts | start, stop, restart, poll, probe, shut down | a lock held over each request and each round of the poller |
| Schedules of the HTTP API (`api.rs`, `cron_dispatch.rs`) | tables of schedules and tasks, clients of running tasks | save, delete, tick, dispatch, record | SQLite (`db.rs`), a gateway connection per task, webhooks |
| Node service (`backend/node.js`) | tables of tasks, schedules and runs, controllers, running schedules | post, stop, run a task, create, change, delete and send a schedule, subscribe | SQLite, the Codex CLI as a child, sockets |
| Tasks, processes, cron jobs, sub-agents, event log, workflows, messengers | registries in memory or in JSON | see section 5 | handlers and tools |

What is hard here:

- **Concurrency inside a connection.** The reader runs on while a dispatch waits. The
  answer channels outlive the requests; the flag outlives the frame.
- **Concurrency between connections.** Two connections have two copies of the threads
  and write the same files, each write being a truncation followed by a write.
- **Several writers of one configuration.** A chat holds its read guard over the whole
  dispatch; reload and model switch write configuration, context and file in two orders;
  every connection saves its own copy, made when it was opened, over the same file.
- **Rows read and written back.** The schedule runner of the API works on what it read at
  the start of its tick, while requests change the same rows.
- **Processes.** A child may exit at any moment, also between a request and the poller,
  and outlives a process that is killed.
- **Failure.** A client may vanish at any send, and the error leaves the handler with
  `?`; the process may die between or inside two writes; a worker may outlast its lease.
- **Time.** Every wait has a timeout, and late answers meet newer waits.
- **Identity.** Ids come from the provider (tool calls), from a counter in the process
  (threads), from the file (projects), from SQLite (jobs) and from content (chunks).

The property each component needs: a dispatch asks before it acts, obeys a cancel,
answers once and ends; the managers stay consistent and lose nothing that was saved;
ids are not used twice; every job ends and no chunk is summarised twice; configuration,
context and file agree and nobody waits for ever; a schedule runs when it is due and not
more often than it says; a service has one process and is down only for a reason.

## 2. Modules

| Module | What it is |
|---|---|
| `ChatSession` | one authenticated connection: client, reader, channels, main loop, dispatch |
| `ChatService` | abstract: what a connection promises its user |
| `ChatSessionProofs` | theorems about `ChatSession`, that it implements `ChatService` among them |
| `ThreadManager`, `ProjectManager` | the two managers as values and operators on them |
| `SessionStore` | any number of connections whose handlers change managers and files |
| `SessionStoreProofs` | lemmas on the manager operators, theorems about the store |
| `JobQueue` | the durable lease queue as a value and operators on it |
| `MemoryTree` | ingest, workers, leases, buffers and seals over a `JobQueue` |
| `MemoryTreeProofs` | theorems about it |
| `SharedConfig` | the shared configuration under tokio's fair lock, context and file |
| `SharedConfigProofs` | theorems about it |
| `Services` | the supervisor of backend services and its poller |
| `ServicesProofs` | theorems about it |
| `ApiSchedules` | schedules, runner and task records of the HTTP API |
| `ApiSchedulesProofs` | theorems about it |
| `SchedulePlan` | abstract: what a schedule promises its owner |
| `ScheduleStore`, `NodeService` | the rows of schedules as values; the node service over them, which implements `SchedulePlan` |
| `NodeServiceProofs` | theorems about it, the refinement among them |
| `FixedCalendar` | the slots of daily, weekly and monthly schedules over calendar days |
| `FixedCalendarProofs` | theorems about them, for months of any lengths |
| `MC*` | instances for TLC |

`SessionStore` and `ChatSession` describe the same main loop from two sides: the first
has every handler that changes threads or projects and reduces a chat to its messages
and writes, the second has the chat and leaves out the store.

### 2.1 ChatSession

| State | Code |
|---|---|
| `wire`, `up` | the byte stream from the client and whether the client is there |
| `dialog` | the client's one dialog per kind of request (terminal UI: `keyboard.rs`) |
| `shut`, `reader` | the cancellation token; the reader task runs |
| `frames`, `chan` | `frame_rx` (32) and the four answer channels (4), `server.rs` 378-401 |
| `flag` | `tool_cancel` |
| `pc`, `loop` | where `dispatch_text_message` is, and its locals |
| `flushed` | `memory_flushed` of the foreground thread |
| `asked`, `yes`, `ran`, `cur`, `done`, `cycle`, `late` | history, for the properties |

`pc` is `idle` between frames, `top` at the head of a round, `ready` before the model
is called, `model` while it runs, `call` between the tool calls of a round, `wait` for
an answer, `exec` while a tool runs, `device` in a device flow, `stopped` at the end. An
action is what happens between two awaits: `TakeChat`, `TopStops`, `PrepareCall`,
`CallModel`, `ModelCalls`, `ModelStops`, `ModelFails`, `ModelUnauthorized`,
`ModelCancelled`, `BeginCall`, `TakeApproval`, `TakeReply`, `TakeCredential`, `GiveUp`,
`ToolReturns`, `EndRound`, `DeviceFlow` and the error exits `TokenFails` and
`WriteFails`.

Abstractions. A tool is its permission and what serves it (`ToolClasses`); its
arguments and output do not matter, it returns with success or not. The model may
reply anything in `Replies`. A timeout may fire whenever its answer has not arrived.
Requests carry the provider's tool-call id; `FreshIds` says whether the provider may
repeat one. The user says yes or no to the dialog on screen, at any later time.

`ChatService` is the promise: chats are taken one at a time and in the order they were
sent; a request is put for one call of the chat in service and a call that needs a yes
runs on a yes to its own request (with fresh ids); after a cancel at most one more reply is acted upon; the
service of a chat ends with one answer. It has neither reader nor channels, rounds nor timeouts.
`ChatSession` maps its history to it (`Service == INSTANCE ChatService WITH ...`), the
connection as its user sees it: the chat, whether it is in service, the answers, requests,
yeses and calls.

`WorkLeft` counts what a service has before it: the rounds, the stages of this round, its
calls, and the stages of the call at hand. `ServiceRunsOut` says that each step of the main
loop goes down in that order and that nobody else's step goes up.

### 2.2 ThreadManager, ProjectManager, SessionStore

A manager is a record `[threads, fg]`, a thread `[log, proj, fore, sum]`: the set of its
messages (numbers in the order of their creation), its project, its foreground mark and
whether it has a compact summary. A registry is `[ids, active, next]`. The operators have
the names of the functions they stand for.

In `SessionStore` every connection has a manager, a registry and `todo`, the sends and
writes its handler has left: a handler changes memory in one step, then does what is in
`todo` one by one. A send may end the connection (`SendFails`); a write is `Truncate`
then `Fill`, and between the two another connection may write (`FillOver`), the process
may die (`Crash`) or the write may fail (`WriteFails`). `ok` says which files can be
loaded; a file cut short cannot. `Accept` and `LoadProjects` are what a new connection
loads, `Disconnect` and `Close` what it writes at its end.

Abstractions. Sends that come after the last write of a handler are left out of `todo`
(a send that fails between handlers is `SendFails` when nothing is left); labels,
descriptions, names and paths are left out; a client names only projects it was shown;
a file that two writers fill at once counts as one that cannot be loaded.

`calm` is a history variable: no two connections were open at once, no write was cut
short or failed, and no thread id was minted twice. What the code promises about saved
data holds while `calm` does; the runs and the findings show what happens without it.

### 2.3 JobQueue and MemoryTree

A queue is the table of incomplete jobs and the last id handed out. A job has a place in
the order of `scheduled_at` (0 while a failed job waits for its 30 seconds) and a lease.
A worker goes through `process_one` with one action per call on the store, which is
what the store's mutex makes atomic: `Reserve`, `Extract`, `Check`, `EnqueueSeal`,
`ReadBuffer`, `Summarize`, `IndexSummary`, `Mark` (one chunk each), `Complete`, `Fail`.
`insert_summary` is two statements without a transaction: the row of the summary
(`Summarize`) and its full-text row (`IndexSummary`), and either may fail. `Leave` is a
worker that dies or whose `complete` or `fail` fails, so that its job stays leased;
`Expire` and `Retry` are time. `mishaps` is a history of the things the tree does not
make up for: a job *taken* from a worker that is still at it, a sealed chunk
*reextracted*, a seal *cut* once its summary was written (at the full-text row of that
summary, which fails the job with the row in place, or before its last mark), a seal *missed*
because one that had read the buffer already was still in flight, and a chunk *shared* by
two sources. Several callers may ingest at a time (`Callers`): `Ingest` is the transaction
of `insert_chunks`, `EnqueueExtract` one statement of the loop after it.

Abstractions. Content, scores and time stamps: a chunk is low or not, and `scheduled_at`
is a place in line. Job kinds without an implementation in `process_job` do not occur.
The secondary indexer and full-text search keep no state the jobs read. The crate is a
library of `eiva-claw-core`; its workers are the callers of `process_one`.

What `NoJobStranded` needs besides fairness is stated apart: due jobs keep their order
(`NoJobOvertaken`: new and retried ones go behind), a worker at a job has a step to take
(`WorkersGoOn`), and each step leaves it fewer (`PassRunsOut` of `PassLeft`).

### 2.4 SharedConfig

`line` is the queue of tokio's `RwLock`, guards held and waited for in the order they were
asked for: readers at the head share it, a writer has it alone, and a reader behind a
waiting writer waits. Each connection is at one place (`pc`): it copies the configuration
(`Connect`, `Connected`), chats with a guard it keeps (`Chat`, `ReadAgain` for each further guard,
`EndChat`), reloads (`Reload` reads the file, `AskReload`, `WriteReload`, `WriteContext`),
switches the model (`Switch` writes the context, `AskSwitch`, `WriteSwitch` writes and
saves under the guard), or renames the agent (`AskName`, `WriteName`, which also changes its
copy). `Edit` is the user's editor, `Restart` a new process.

`copy` is what a connection keeps of the configuration from `Connected` on. A change of the
working directory or of the project changes that copy only (`SetDirectory`); an engine, an
MCP server, a tool or a messenger is set in the copy and the *whole copy* is saved over
`config.toml`, without a lock (`SaveCopy`: `server.rs` 783, `panel_handler.rs` 766, 981 and
1049). No reload or switch touches the copies, so such a save puts back a model or a name
from before. `fresh` are the connections whose copy has missed no write, and `content` says
whose value the file has: the configuration's, a copy's, an *outdated* copy's, or another.

Abstractions. A configuration is its model, the agent's name, and one value (`own`) for all
that connections set in their copies. The file names the
directory it is in, as `Config::save` writes it, and no command line override is in force:
`Reload` does not apply them again and takes the default without a file (listed as a
hazard). `Config::save` is one step; one that fails may leave anything in the file
(`Written`, `Leftovers`) and is otherwise ignored, as the code does; two saves that write
the file at the same instant are left out. So is the registry of models, which a reload
refreshes under a lock of its own and nothing here reads. The lock is
external, modelled from tokio's documented fairness.

`AgreeWhenCalm`: with no administration under way, configuration and context have one model
and the file has the configuration (its model and name, after a save of a copy), unless two administrations
overlapped since one last ran alone (`calm`), or the file was edited, a save failed or an
outdated copy was saved (`content`). That the last exception is needed is the finding of
`config_persists`. `Crossed` is the one way to a deadlock: a
write waits between the guard a chat holds and the further one it asks for. `FrontCanGo` says
there is no other, `CrossedForGood` that this one has no way out, and `GoingOnEnds` that each
use has a number of steps left (`StepsLeft`) which its own steps lower and no other raises.

### 2.5 Services

One action per request (`Start`, `Stop`, `Restart`) and per round of the poller: `Poll`
looks for exits and applies the restart policy to all services under one lock, then
`Probe` checks one service after the other, still under the lock, until `EndRound`.
`ChildExits` may come anywhere. What an operation makes of one service is a value
(`Outcome`), so each handler is an operator on it. `Exit` ends the process, after
`Shutdown` or killed; the manager lives in a static that is never dropped, so living
children become `strays`. A gateway that ends through a `?` of `run_gateway` (a port in use,
an address that does not parse) or after serving SSH on stdio does not come to `stop_all`
either: such an end is that of a gateway killed. `probes`, `down` and `careless` are history.

As the code is read: `interval_secs` of a health check is never looked at, every round
probes; a failed respawn ends an `always` service; SIGKILL of the child leaves what it
started; a service that is started after `stop_all` outlives the gateway (`careless`).

### 2.6 ApiSchedules

Time is in half days. `ReadRows` takes all rows, `TakeDue` the next due one and computes
the row to write, `SaveMark` writes it back whole, `QueueTask` records the task, and the
dispatch returns (`Accepted`, `Delivered`, `Undelivered`) or does not. Requests
(`CreateSchedule`, `UpdateSchedule`, `DeleteSchedule`) come between any two of these.
`Answered` and `Closed` are the thread that reads the client of a task. Faults are writes
that fail, streams that close, and crashes. `asked`, `crossed` and `forsaken` are history:
the row as requests left it, schedules changed while a tick held their row, and tasks
whose end nobody will record.

Abstractions. A row keeps what `schedule_is_due` and `mark_schedule_ran` look at, with a
`revision` that counts requests and stands for its content. A day has two times.

### 2.7 ScheduleStore, NodeService, SchedulePlan, FixedCalendar

Node runs one handler at a time, so an action is what happens between two awaits: a
request (`PostTask`, `StopTask`, `CreateSchedule`, `PatchSchedule`, `DeleteSchedule`,
`Subscribe`), a tick that starts every due schedule (`Tick`), or a piece of `runTask` and
`runCodexCli` (`BeginTask`, `Spawn`, `EndUnstarted`, `ChildCloses`, `ChildFails`,
`Report`). `Crash` loses controllers, marks and workers and keeps the tables;
`CrashInTick` and `CrashInReport` end the process between the writes of one handler, the
first at the first due schedule of a tick; a tick that dies when it has marked one schedule
and not the next is not modelled.
`ScheduleStore` has the rows and what `normalizeScheduleInput`, `create`, `update` and
`markSent` make of them.

`SchedulePlan` is the promise: a schedule fires when its slot has come, a firing uses up
the slot, takes one of the firings left and starts one new task. Its variables are `now`,
`next`, `left` and `sent`, to which `NodeService` maps its table and the owners of its tasks
(`Plan == INSTANCE SchedulePlan WITH ...`).

A fixed slot is `FixedGap` minutes ahead in `NodeService`; which slot that is on the
calendar is `FixedCalendar`, with real month lengths. There the first day of a month is a
recursive function (`FirstDay`), which the prover can reason about.

## 3. Runs

| Run | Result | What it shows |
|---|---|---|
| `chat_safety` | pass | the session implements `ChatService`; types and channel capacities; confirmed calls when ids are fresh; a cancel stops the loop; one flush per cycle |
| `chat_loop` | pass | a chat ends, and a connection ends, under fairness |
| `store_shared` | pass | two clients, one at a time with restarts, crashes and failing writes, or over the same files at once: six properties of the store |
| `memory_jobs` | pass | two workers: all five properties of the tree, liveness included |
| `config_shared` | pass | two connections: configuration, context and file agree when administrations did not overlap and no outdated copy was saved; the lock blocks nobody unless a write came between two guards of one chat |
| `config_persists` | violation | a model switch and then a setting of the same connection: the file has the old model again |
| `config_deadlock` | violation | a write between two guards of one chat blocks the chat, the writer and every later connection for good |
| `services_supervise` | pass | two services under any of three definitions: one process each, down for a reason, health of this very process, exits noticed |
| `api_schedules` | pass | two schedules, three tasks: at most once a day, no more runs than asked for, requests stick unless they cross a tick, queued tasks have a watcher, due ones run |
| `node_plan` | pass | the node service implements `SchedulePlan`; stops are obeyed, the marks and tables tell the truth, a subscriber hears the end, due ones are sent |
| `calendar_slots` | pass | the next slot is the least one after the last sending, for every frequency, day and month |
| `calendar_sunday` | violation | a weekly schedule for Sunday becomes one for Monday |

The three violations are listed with their sources under `findings`.

### Seen while modelling, and excepted by the properties

What the code does where no document promises otherwise is in the models, and the
property says so:

- a `Cancel` that is read while its chat is queued is erased when the chat is taken;
- with a tool-call id the provider repeats, a late yes to an old call lets a new one
  through (`ConfirmedIfIdsFresh` has the ids fresh);
- a chat without a model to ask ends without `response_done`;
- text goes to the client before it is saved, and what the model says in a continuation,
  flush or length round goes to the client and back to the model without being saved; without
  a foreground thread the user's message is not saved at all. `MessagesSavedBeforeNextStep`
  is about the messages the manager has, which are saved before the handler goes on;
- a switch of the model writes the settings of the shared configuration over those that a
  connection saved since; a tool that is switched off, or a project that is switched to,
  changes the copy of one connection, and chats read the shared configuration;
- after a restart a new thread may get the id of a stored one and replace it, and a client
  that leaves after `ProjectDelete` leaves threads of a deleted project (`SavedStays` and
  the foreground properties hold across both or except them by `calm`);
- a seal that is cut once its summary is written, which a failing full-text row is enough
  for, is done again with a second summary of the same chunks;
- a chunk whose document is ingested again is summarised again, and a document ingested
  under two sources at once may leave a full buffer without a seal (`mishaps`); a worker
  that fails a job it has no longer the lease of lets a third one see it before the lease
  of the second expires, against `queue.rs:106`;
- a request that crosses a tick of the API's runner is undone (`crossed`); a stream that
  closes leaves its task queued (`forsaken`);
- an interrupted task is not replayed to a node subscriber that comes later.

### Bounds, and why they are enough

- `chat_safety`: two chats, one cancel, three requests, two rounds, one call per
  round, four distinct ids (with symmetry), channels of capacity 1. Stale answers need two
  requests of one kind; a full channel needs capacity 1 and two answers; flush and
  continuation limits need two rounds and a second chat. The tools are a refused one, one
  that asks, and two that put a question to the client. The proofs remove these bounds.
- `chat_loop`: one chat, every reply, two rounds, one of each limit, and a `Cancel`.
  Every loop of the dispatch is entered, left and exhausted.
- `store_shared`: two connections (symmetric), two thread ids, two projects, two messages,
  one fault, and a `projects.json` of an older build without `next_id`. An id collision needs
  one restart and one creation; a loss needs one saved message and one more write.
  `KeepRecent` is 1 so that a compaction drops a message. While two connections are open at
  once, or were (`Met`), there are three creations of threads and messages altogether, no
  second project and no fault (`MeetingsAreShort`, `MeetingsHaveNoFaults`): enough for one
  to write over what the other has just saved. The proofs have no such bound.
- `config_shared`: two connections, three requests, one further guard per chat, one
  fault, two values of the settings. Two administrations that overlap need a third that finds
  what they left, by whichever of the two connections; an outdated copy needs one write and
  one save. `config_deadlock` has three connections, since the third is blocked by the first
  two; `config_persists` needs one. The proofs are about any number of them.
- `services_supervise`: two services so that a round has a probe between two probes, two
  retries so that a count is neither zero nor full, one exit of the gateway. Each
  definition that the policy tells apart is there. Deadlock is checked.
- `api_schedules`: two schedules so that a tick holds a row while it is at another, three
  tasks, four half days, two requests, one fault; a plan of each kind, the repeated one with
  two runs. A lost update needs one request inside one tick, a repeated run two days or two
  intervals.
- `node_plan`: one schedule, two tasks, three minutes, two changes, one post, one crash; a
  plan of each kind. A second firing of one slot needs one crash; a plan outrun needs two
  firings and one change. Two schedules that are due in one tick are outside these
  bounds and covered by the proof.
- `calendar_slots`: five months of 31, 28, 31, 30 and 31 days, days 1, 15 and 28 to 31,
  firings up to a month late, from every half day: each length is followed by a shorter and
  a longer one.
- `memory_jobs`: two workers, two chunks and a threshold of 2, three ingests, one fault
  (an error, a death, a lease outlasted or an ingest that stops). A buffer fills twice only
  with a repeated ingest, and each mishap needs one fault or one repeated ingest. With two
  faults the safety properties hold as well (2.3 million states; without liveness). Chunks
  of low score, a second caller and a second source are outside these bounds; the proofs
  cover them for any numbers.

`CHECK_DEADLOCK FALSE`, but for `services_supervise`: a client may stop sending, and the
bounds end.

### Fairness

- `ChatSession`: weak fairness of the reader as a whole and of the main loop as a whole.
  tokio runs a task that can run, each wait of the dispatch has a timeout (120 s for an
  approval, 300 s for a prompt or credentials, 30 s for a page query, 180 s for the model,
  the provider's `expires_in` for a device flow), and tools are assumed to return. Nothing is assumed of the client. `ConnectionEnds` excepts a reader that is stuck
  on a full answer channel nobody reads while the token is not cancelled: there the code
  does not end the connection.
- `MemoryTree`: weak fairness of each worker (it goes on calling `process_one`, and its
  calls return) and of time. A job that fails every time is retried for ever by the code,
  which has no limit of attempts; `MaxFaults` bounds that.
- `SharedConfig`: weak fairness of each connection once it has a request (`Goes`). A task
  that is granted the lock goes on, and a dispatch has bounded rounds and a timeout at its
  provider. Nothing makes a client ask.
- `Services`: weak fairness of the poller, a task that sleeps two seconds in a loop.
- `ApiSchedules`: weak fairness of the runner's own steps. Not of `Reply`: neither the
  webhook nor the connection has a timeout, so `DueIsRun` excepts a dispatch that never
  returns.
- `NodeService`: weak fairness of the tick and of each task's step, the end of its child
  included: the code has no timeout for the CLI, so `DueIsSent` rests on a CLI that ends.

## 4. Proofs

`ChatSessionProofs`, from `ConstantsAssumption` alone:

- `TypeCorrect`, `Confirmed`. `ConfirmedIfIdsFresh` is not inductive. `IInv` adds where a
  yes can be: every yes in `wire` or in a channel is one the user gave to a request of that
  kind and id (`AnswersSigned`), every dialog shows a request that was asked
  (`DialogsAsked`), the main loop waits for the last request (`WaitsForLast`), and with
  fresh ids two approval requests differ (`ApprovalIdsDistinct`). Then a yes with the id
  of the call at hand is a yes to that very request.
- `CancelObeyed`, `Answered`, `FlushedOnce` each have an invariant of their own: after a
  `Cancel` the flag stays set until the dispatch ends; `done` is 0 while the dispatch
  runs; the flush counter is 1 only while the thread has its mark.
- `ServicePromised`: `Spec => Service!Spec`, step by step. Besides `IInv` and the invariant
  of the cancel it takes that chats are numbered from `cur` through `frames`, the reader's
  hand and the wire (`ChatsInOrder`), so that the one taken next is the next one sent, and
  that nothing went ahead yet on the request now waited for (`RanBefore`), so that none
  goes ahead twice.
- `RoundsBounded`, `ServiceIsFinite`: the part of `ChatEnds` that is about safety. A step of
  the main loop ends the service, begins the next round, or goes down in (stage of the round,
  calls left, stage of the call); rounds are below `MaxRounds`. What is left to TLC is that
  the main loop can always take a step and, by fairness, does.

`SessionStoreProofs`, from `ConstantsAssumption` alone, for any number of connections:

- `StoreTypes`, `ForegroundIsOne`, `ActiveIsThere`. The foreground invariant is stated of
  every manager, closed connections and an unreadable file included, since a manager may
  be written and loaded at any time; it rests on lemmas about `CreateChat`,
  `SwitchForeground`, `RemoveThread`, `Reassign`, `Compact` at its head. That
  `LoadRegistry` goes past every id needs a greatest element of a finite set, which is
  proved from the well-foundedness of the strict subset order.
- `IdsAreFresh`, `SavedIsKept`, `SavedFirst`, while `calm`. The strengthening says that at
  most one connection is there and that the file it writes is not loadable meanwhile
  (`Alone`), that both the file and the registry in memory are past every id used
  (`IdsInv`), and that what was saved is on disk unless it is being written, and in memory
  while a connection is there, that a message in memory is saved or a write of it is
  left (`SavedInv`). The proof has a lemma for each action; handlers share `HandlerStep`
  and `BecomeStep`.

`MemoryTreeProofs`, from `ConstantsAssumption` alone (which says that `Chunks` is finite and
that `None` is nothing else), with one inductive invariant of eight parts:

- `TreeTypes`. The place a job gets is one above the greatest, so it is a number because
  ids are bounded by `minted` and a finite set has a greatest element (`Greatest`).
- `SealedContentIsKept`: the worker that marks a chunk has it in its summary
  (`SummaryInv`). No fault and no second worker disturbs that.
- `SealsOnce`: while no job was taken and no seal cut, each busy worker has its job to itself and in the
  table (`HeldInv`), so by the dedupe keys two workers never seal one source
  (`OneSealer`); what a worker has read stays in the buffer until it marks it itself
  (`ReadStays`), and a chunk counts one summary exactly when it is sealed or left to be
  marked (`OnceInv`).
- `FullBuffersAreSeenTo`: a job names the source of its chunk (`OwnInv`). Counting only the
  part of a buffer that no worker has read, a full one has a job whose worker will still
  look at it (`BufferInv`, `Useful`); a chunk gets into that part by an extract job, which
  looks afterwards, or by a worker that gives up a seal, whose job comes back. What has
  been read is covered by the seal job at hand.
- `QueueKeepsOrder`, `NoWorkerIsHeldUp`, `PassIsFinite`: the part of `NoJobStranded` that is
  about safety. `Behind` is above every place, so no operation of the queue puts a row
  ahead of one that is due (`KeepsOrder`); a worker that marks has something to mark
  (`LeftInv`); the chunks left to mark are finitely many, so a pass counts down.

`SharedConfigProofs`, from the four assumptions on the constants:

- `ConfigTypes`. That a connection has one request per use needs to know where it is:
  `Placed` says that a guard or request in the line goes with `pc` of its connection, and
  is kept by the three things done to the line (a move, a request, a release).
- `ConfigAgrees`. `AgreeWhenCalm` is about moments without administration; `CalmInv` adds
  that while `calm` only one is under way, and how far it has got (`HalfWay`): a reload holds
  what the file holds, then the configuration is that, a switch has the context of what it
  will write. The line plays no part: only that nobody else administrates. `CopyInv` says
  that a fresh copy has the model and the name of the configuration, so that a save of one
  leaves file and configuration in agreement; the lemma `CopiesKept` has what each action
  does to the copies.

- `FrontGoesOn`: without a write between two guards of one chat, whoever waits has, at its
  place in the line or before it, a connection that can go on. The head of the line holds its
  guard (`HeadCanGo`); its connection goes on, or asks for a further guard, and only a write
  in between holds that up. It needs `Placed` and its converse, that who waits is in the line
  (`Queued`).
- `CrossingIsFinal`: the three requests that make a crossing stay in the line, since none of
  them is granted and only a grant is given back (`CrossedStays`). So the deadlock that
  `config_deadlock` finds on two connections is permanent for any number.
- `EveryUseEnds`: each step of a connection lowers its `StepsLeft`. With `FrontGoesOn` this
  is what `OnlyCrossingsBlock` needs beside fairness. All three rest on one lemma, which says
  what each action does to the line (`StepOfLine`).

`ServicesProofs`, from `DefinitionsAssumption` and `CountsAssumption`:

- `ServicesTypes`, `OneProcessEach`, `NeverDownForNothing`, `HealthIsTrue`. Each operation
  gives a value for one service, and each such value is shown `Right` for the definition:
  the process is there exactly when the entry runs, `Counted` relates the failures to the
  last probes, for any number of retries. `Strays` says what lives on after a shutdown.

`ApiSchedulesProofs`, from `PlansAssumption` and `BoundsAssumption`:

- `ApiTypes`, `EditsStick`, `QueuedHasWatcher`, `FixedOncePerDay`, `CountAlwaysKept`. The
  invariant speaks of every row that may still be run: the table, the copies of the tick,
  the row at hand. A task's row is an earlier state of each of them (`TasksBehind`), so the
  tasks of one revision come in order of `completedRuns`, and there are no more than
  `repeat` of them by a count of the numbers they have.

`NodeServiceProofs`, from `PlansAssumption`, `BoundsAssumption` and `NamesAssumption`:

- `NodeTypes`, `StopIsFinal`, `RunningIsExact`, `TablesAreTrue`, `SubscriberHears`. The
  invariants that are checked are inductive together with `PlacesAgree` (what the place of a
  task says of its row) and `RowsRight` (a schedule that is on has firings left).
- `ServiceKeepsPlans`: `Spec => Plan!Spec`, step by step, for any number of schedules due in
  one tick and a crash between the writes for the first of them.

`FixedCalendarProofs`, from `CalendarAssumption` (months have lengths, days are counted from 1):

- `NextSlotLeast`, `NeverPassedOver`: for months of any number and any lengths, what
  `NextSlot` computes is the least slot after the moment it is given. That `FirstDay` exists
  is proved (`FirstDays`: a least month up to which no such function is there would give one
  more), as is that each day lies in one month; the three frequencies are a lemma each.
- `OnlySundaysMove`: a schedule not set to Sunday keeps the slots its owner chose. The
  finding of `calendar_sunday` touches no other.

Only model-checked: liveness (`ChatEnds`, `ConnectionEnds`, `NoJobStranded`, `DueIsSent`,
`DueIsRun`, `ExitIsNoticed`, `OnlyCrossingsBlock`), which is out of reach of the prover. Of
`ChatEnds`, `NoJobStranded` and `OnlyCrossingsBlock` the theorems above give what they need
besides fairness and `ENABLED`: the measures that go down and what holds nobody up.

## 5. Not modelled

- An external CLI mode of the chat handler and slash commands: they answer a chat without
  the tool loop.
- Parts that nothing in the repository calls: a producer of concurrent model tasks
  (`concurrent.rs` has only the consumer), sub-agents (`threads/subtask.rs`), failover and
  back-off, cron jobs that are due (`cron.rs` stores them), the agents of the
  swarm. There is no behaviour a model could be held against.
- `TaskManager`: a table of statuses that the messenger loop and the task tools set; its
  two flaws are under the hazards. Messengers run a shorter tool loop in one task.
- Authentication: counters under one mutex whose promise is about seconds.
- Background processes, whose state is the operating system's; workflows, which a library
  walks.
- The text of messages, prompts, token counts, streaming frames, the renaming of repeated
  tool-call ids in the history; providers; rendering; pairing, vault and secrets dialogs;
  panels, skills, canvas and engines, whose handlers turn one frame into another; the rest
  of the HTTP API, which is one SQL statement per request; `vendor/genai`.

Most of the repository's lines are clients, handlers and conversions of these kinds, so
the mapped share of all lines is small; the parts that keep state over several steps or
actors are the ones of section 2.

## 6. Plan

What could follow, by weight:

1. An abstract log of saved messages, implemented by `SessionStore` while `calm`, as
   `ChatSession` implements `ChatService` and `NodeService` implements `SchedulePlan`.
2. Measures for the ticks of `ApiSchedules`, `NodeService` and `Services`, as there are for a
   chat, a job and a use of the configuration.
3. The directory that tools run in, which a switch of the project sets in the copy of one
   connection and the gateway's sandbox took from the configuration at its start.
4. A chat in an external CLI mode as a further kind of chat of `ChatSession`.
