# Daycare, modelled in TLA+

Daycare runs long-lived AI agents on behalf of users. The server is one Node
process (`src/packages/daycare/sources`) with a database. This directory holds
TLA+ modules that model the server's concurrent core, TLC configurations that
check them on small instances, and proofs for TLAPS. All source paths below are
relative to `src/packages/daycare/sources/` unless they start with `src/`.

JavaScript runs one callback at a time, so a step of a model is what the code
does between two `await`s that another task, or a crash, can see. Everything
that is hard here follows from that: state that was read before an `await` and
is used after it, locks that are handed over while a third task runs, and rows
of the database that a crash leaves between two writes.

## 1. Inventory

| Component | State it keeps | Operations | Talks to |
|---|---|---|---|
| `utils/lock.ts` AsyncLock | a permit, a queue of resolvers | `lock`, `unlock`, `inLock` | used by agent entries, delayed signals, processes, repositories |
| `utils/readWriteLock.ts` | reader count, writer flag, two queues | `inReadLock`, `inWriteLock` | the config module |
| `engine/config/configModule.ts`, `utils/sync.ts`, `engine.ts` (reload) | the config in force, its lock, the coalescing flags and the waiting callers | `reload`, `reloadApplyLatest`, `invalidate`, `stop` | provider, plugin and app-server managers, inference router; every reader of the config |
| `engine/agents/agentSystem.ts` | entries in memory (agent, inbox, lock, flags); agent records in the database | `load`, `start`, `post`, `postAndAwait`, `steer`, `taskExecuteAndAwait`, `kill`, `sleepIfIdle`, poison pill | agents, delayed signals, storage, event bus |
| `engine/agents/agent.ts`, `ops/agentInbox.ts`, `storage/inboxRepository.ts` | in-memory queue; durable inbox rows; history records | the loop, item handlers, restore after a crash | inference router, tools, agent system |
| `engine/signals/delayedSignals.ts`, `signals.ts` | timers in the database and in memory; subscriptions | `schedule`, `cancelByRepeatKey`, `deliver`, `generate` | durable runtime, agent system |
| `durable/durableLocal.ts` | job files in `pending/` and `active/` | `call`, `drain`, `jobRun`, recovery | delayed signals, connectors |
| `engine/cron/`, `storage/cronTasksRepository.ts` | the schedule and the set of running triggers in memory; versioned rows and a cache before them | start, stop, reload, tick, run, run now; add, delete, enable, disable, list | config read lock, agent system |
| `engine/memory/memoryWorker.ts`, `storage/sessionsRepository.ts`, `storage/historyRepository.ts` | history records; per session the mark `invalidated_at` and `processed_until` | agents append and mark; the worker lists, reads, posts, clears the mark | agents, agent system |
| `engine/messages/incomingMessages.ts` | pending messages, a timer, the running flush | `post`, `flush`, `dropForPath` | agent system |
| `engine/processes/` | process records, pids | start, stop, monitor, restart | operating system |
| `storage/versionAdvance.ts` | versions of an entity | close one, insert the next | most repositories |
| channels, friends, tasks, webhooks, observations, documents, mini-apps, workspaces, secrets, skills | rows | create, read, update, delete | agent system for delivery |
| connectors, providers, plugins, sandbox, api, auth, ipc, commands, prompts | little or none | calls of remote services and of the operating system | the engine |
| `src/packages/daycare-{app,dashboard,factory,runtime}` | user interfaces, build tool, image | | the API |

What makes each correct, and what is hard about it:

- **Locks.** Exclusion, order of service, no lost waiter. Hard: the release acts
  on behalf of the woken task, which resumes later.
- **Reload.** No reader sees a config change; a reload that returns has applied
  what its caller saw; it does return. Hard: readers nest their requests,
  agents wait for each other inside the lock, the settings file and the list of
  callers change while a reload runs, module reloads throw.
- **Agents and inbox.** An accepted item is handled, in order, once unless the
  process crashes, and its awaiter gets an answer; a dead agent stays dead; an
  agent sleeps only when its inbox is done; timers run only while it sleeps.
  Hard: several callers, a loop, a timer and crashes interleave, and one agent
  may have two entries.
- **Delayed signals, durable jobs, incoming messages, processes.** A scheduled
  thing happens, not twice, and not after it was cancelled. Hard: crash windows,
  retries, cancellation against delivery.
- **Cron.** The schedule in memory, the cache and the table agree when nobody is
  at work; a trigger runs once at a time, a one-shot trigger once; what was
  deleted stays deleted. Hard: the three are changed one after another by calls
  with `await`s between them, the methods of the repository take different locks
  or none, runs end long after the trigger they belong to has changed, and a
  one-shot trigger is deleted only after its run.
- **Memory worker.** Everything an agent says is in a transcript, once, and is
  not passed over. Hard: the agent appends and marks while the worker reads and
  clears the mark, both with several statements, and either may fail or crash in
  between.

`PROJECT.json` lists every component with its status, and under `hazards` the
places in the code these remarks are about.

## 2. Modules

| Module | Models | Role |
|---|---|---|
| `AsyncLock` | `utils/lock.ts` | the lock as a record and operators, for use in other modules |
| `LockedTasks` | `inLock()` | tasks that share one lock |
| `Mutex` | what a lock promises | abstract specification; `LockedTasks` implements it |
| `ReadWriteLock` | `utils/readWriteLock.ts` | the lock as a record and operators |
| `ConfigReload` | `configModule.ts`, `sync.ts`, `reload()` of `engine.ts` and the readers | composition: readers, lock, coalescing, settings |
| `AgentSystem` | `agentSystem.ts`, the loop of `agent.ts`, `agentInbox.ts`, `inboxRepository.ts` | composition: callers, entries with their `AsyncLock`s, loops, database, crash |
| `DurableLocal` | `durable/durableLocal.ts` | the job files and the drain, with a specification of its own; what a job does is left to the module that extends it |
| `DelayedSignals` | `delayedSignals.ts`, `delayedSignalsRepository.ts` | composition: delayed signals, their table and caches, `AsyncLock`, and jobs of `DurableLocal` |
| `MemoryCollection` | `memoryWorker.ts`, `sessionsRepository.ts`, `historyRepository.ts`, the marking in `agent.ts`, `agentSystem.ts` | composition: agents, the worker, the tables, crash |
| `CronTasksRepository` | `cronTasksRepository.ts`, `versionAdvance.ts` | the versioned table of one trigger, its cache and its locks; callers are left to the module that extends it |
| `CronScheduler` | `cronScheduler.ts`, `crons.ts` | composition: the schedule, the jobs of users and the runs, over the repository |
| `MCCronScheduler` | | gives `CronScheduler` its symmetry |
| `MCConfigReload` | | gives `ConfigReload` its unreloadable edits |
| `LockedTasks_proofs`, `ConfigReload_proofs`, `DurableLocal_proofs`, `DelayedSignals_proofs`, `MemoryCollection_proofs`, `CronScheduler_proofs`, `AgentSystem_proofs`, `AgentInbox_proofs` | | theorems |

### State and actions

`AsyncLock` and `ReadWriteLock` have a record with the private fields of the
class; queues hold the names of the waiting tasks instead of resolvers. In both
classes the release changes the counters for the task it wakes, so a waiting
task is inside from that step on, though its code resumes later. This is the
reason neither lock needs a "woken" state.

`ConfigReload`. A config is the number of the edit that wrote it. `pc` has one
value per reader: outside, waiting for the outer or the inner hold, holding one
or two, or waiting for an answer. `sync` walks through `doSync()` and
`reloadApplyLatest()`: start, load, compare, wait for the lock, load again,
compare again and install, apply, settle or back off. The two loads and the two
comparisons are steps of their own because the settings file may be edited in
between. A reload of the modules is one step that succeeds or leaves them
`Torn`.

`AgentSystem`. One agent. `life`, `rows`, `stamp` and `phase` are in the
database, `pillTimer` says that the poison-pill signal is scheduled, `map` is
what `AgentSystem.entries` holds, and `ent` are the `AgentEntry` objects: there
may be several for one agent, because a restore makes a new one. `phase` is
the set of unfinished executions that `agentLoopPendingPhaseResolve()` and
`agentHistoryPendingLoad()` can find in the history: of the turn of an item
("turn"), of a task that `taskExecuteAndAwait()` runs beside the loop ("task"),
or one that is "left" by something that has ended. A crash is one way to leave
it. The others are an abort (`abortInference()`, `agent.ts:249`; the loop throws
at `agentLoopRun.ts:581` or 1115 and returns at 1202) and an error of the turn
(1206-1233): the item ends, is answered and its row deleted, and the execution
stays unfinished in the history while the loop goes on to the next items. In the
model `FinishTurn` and `FailTurn` may come at any step of the turn, and
`PhaseLeft` says what they leave. `times` and `outcome` observe how often an item
was recorded and how its completion was settled, `mistaken` whose rows a replay
dropped although no execution was that of an item in flight.

| Code | Actions |
|---|---|
| `resolveEntry`, `restoreAgent` | `ResolveLoaded`, `RestoreRead`, `RestoreRegister` |
| `replayPersistedInboxItems` | `ReplayRead`, `ReplayQueue` |
| `enqueueEntry` | `EnterLock`, `WakeAndInsert`, `InsertRow`, `Enqueue` or `EnqueueMerged`, `MergeDelete`, `MergeUpsert` |
| `steer`, `taskExecuteAndAwait` | `Steer`, `WakeOnly`, `StartTask`, `EndTask` |
| `Agent.runLoop` | `LoopNext`, `HandleRestore`, `Record`, `OpenTurn`, `CloseTurn`, `FinishTurn`, `FailTurn`, `Answer` |
| `sleepIfIdle` | `SleepRequest`, `FallAsleep`, `SchedulePoisonPill` |
| `kill`, `markEntryDead`, `handlePoisonPill` | `KillLoaded`, `KillUnloaded`, `PillDue`, `PillFires`, `PillHandled`, `MarkDead`, `Drain`, `KillWrite`, `KillClear` |
| crash, `load`, `start` | `Restart` |

Abstracted: texts, files, users, tokens, tool calls, the inference loop between
the user record and the end of the turn (one execution, which ends or is left
open), and events on the bus. Left out of `AgentSystem`: the idle signal and the
wake and sleep signals (sent, and read by no code that changes the agent), the
invalidation of the session for the memory worker, creation of agents, reset
and compaction items, the new session that a reset, an overflow or a compaction
opens (it hides every execution of the old one), a handler that throws before it
records the item, and a cancellation of the poison pill that throws, which
`cancelPoisonPill()` logs and swallows.

`DurableLocal`. `pendingDir` and `activeDir` are the directories, `later` the
pending jobs whose `nextRunAt` is to come, `timer` the one timer and what it
waits for, `drain` the position of `drain()` with the file names it has seen and
its job, `call` the position of each `jobSchedule()`. Moving, writing back and
deleting a file are steps of their own, because a crash may come in between; a
file appears in one piece because `writeJsonAtomic()` renames it into place.
`DurableSpec` lets calls and the outcomes of jobs happen in any way. A module
that uses the runtime conjoins its steps to `Post`, `WriteJob`, `TriggerJob`,
`WriteFails`, `JobSucceeds`, `JobFails`, `Crash` and `Stop`, and takes
`RuntimeStep` as it is.

`DelayedSignals`. `table` is in the database, `known` is the cache of the
repository, `events` the map of `DelayedSignals`, `pendingDurable` its set.
Signals are numbers in the order of their `deliverAt`; `Keyed` have the repeat
key. `loaded` and `listed` are the flags of `DelayedSignals` and of the repository:
they differ when `findAll()` has thrown. `generated`, `withdrawn` and `unread`
observe what was generated, what was cancelled or replaced, and which rows this
process has failed to read.

| Code | Actions |
|---|---|
| `triggerDrain`, `drain`, `nextJob` | `TimerFires`, `ListPending`, `ClaimJob`, `NothingDue` |
| `jobRun` | `ClaimJob`, `JobSucceeds`, `JobFails`, `RequeueJob`, `UnlinkActive` |
| `jobSchedule`, `writeJsonAtomic` | `Post`, `WriteJob`, `TriggerJob`, `WriteFails` |
| `start`, `recoverActiveJobs`, `stop` | `RecoverJob`, `Start`, `Stop` |
| `schedule`, `cancelByRepeatKey` | `AskLock`, `ReplaceSameKey`, `CreateSignal`, `CancelOne`, `CancelReturns`, `CallerThrows` |
| `scheduleNext`, `tick`, `deliverDue` | `AlarmFor`, `AlarmRings`, `AlarmPutOff`, `CallDeliver`, `CallReturns`, `CallThrows`, `TickEnds` |
| `deliver` | `DeliverFinds`, `DeliverFindsNothing`, `Generates`, `GenerateThrows`, `DeleteDelivered`, `DeleteThrows` |
| `loadUnlocked` | `LoadSignals`, `LoadThrows` |
| boot, shutdown, crash | `StartSignals`, `Shutdown`, `Restart` |

Abstracted: users and types of signals (there is one of each), data, listings,
events on the bus, the fan-out of `Signals.generate()` to subscribers, and the
locks of the repository: the process has one database connection, which answers
in order, so a statement and the update of the cache after it are one step. The
wait of a tick for the config's read lock is like a later alarm. Two
assumptions: the answer of `readdir()` is handled before the one-millisecond
timer of a trigger set after the directory was read empty; and the reads of
`drain()` between the listing and the choice of a job are one step with the
choice, as nothing else removes a pending file.

`MemoryCollection`. `rows` are the ids of the history records of each session,
`shown` those a transcript shows, `mark` and `done` the columns
`invalidated_at` and `processed_until`. `opened`, `active` and `current` tell
which sessions exist, which one the row of the agent names and which one the
agent has in memory: they differ between the creation of a session and the write
that switches to it. `asleep` and `killed` are the states an agent has in memory
and in its row. `loop` is where an agent is and why it marks; `task` is where a
task of `taskExecuteAndAwait()` beside the loop is, with the session and the id
its `sleepIfIdle()` will mark; `worker` is where `tick()` is, with the batch it
listed. `routed`, `unmarked`, `late`, `setBack` and `cut` observe which records
were in a transcript, which of those did not get their session marked as
processed, which came in the window between the two reads, behind which
`processed_until` went back, and which sessions their agent left without a mark.

| Code | Actions |
|---|---|
| a turn, `handleMessage()` | `StartTurn`, `Say`, `RunCode`, `EndTurn`, `ItemFails` |
| `sleepIfIdle()` after an item, with its early returns | `Sleep`, `SleepReturns` |
| `taskExecuteAndAwait()` and the `sleepIfIdle()` it calls | `TaskStarts`, `TaskSleeps`, `TaskReturns`, `TaskReadsMaxId`, `TaskMarks`, `TaskFails` |
| `wakeEntryIfSleeping()` during an item, `markEntryDead()` | `Wake`, `Kill` |
| `handleReset()`, `applyCompactionSummary()` | `StartReset`, `OpenSession`, `SwitchSession` |
| `maxId()`, `invalidate()` | `ReadMaxId`, `Mark` |
| `tick()` | `Tick`, `Read`, `Post`, `ReadNewMaxId`, `MarkProcessed`, `TickFails` |
| crash and boot | `MemoryRestart` |

The lock of the entry (`LockFree`) keeps wakes, kills and the two callers of
`sleepIfIdle()` apart; appending, and the marks at the end of a turn and in a
reset, do not take it.

Abstracted: texts and kinds of records but for whether a transcript shows them;
kinds of agents but for whether the worker skips them (agents of those kinds mark
their sessions here, and the code does not: the worker dismisses the marks); the
memory agent, which is the post; `ended_at`, which nothing here reads. Left out:
`stop()` of the worker between two sessions, sessions whose agent no longer
exists, a second task of an agent while one is under way, and the resurrection
of a killed agent by a state write that comes too late, which is `AgentSystem`'s
subject (`DeadIsTerminal`).

`CronTasksRepository`. One trigger. `rows` are its versions, `cache` and
`complete` the fields `tasksById` and `allTasksLoaded`, `call` the call each
caller has under way: waiting for its lock, loading, writing, caching, or, in
`findAll()`, querying and filling. `raced` observes that calls which share no
lock have overlapped. A restart empties the cache and ends the calls.

| Code | Actions |
|---|---|
| the first lookup of the cache, `AsyncLock.inLock()` | `Asks`, `Enter` |
| `findById`, `update`, `delete`, `create` | `Load`, `InsertFirst`, `Advance` (`versionAdvance`), `CloseRow`, `StampRow`, `CacheRecord` |
| `findAll` | `Query`, `Fill` |
| a statement that throws, a crash | `CallThrows`, `RepositoryRestart` |

`CronScheduler`. `entry` is the entry of the trigger in `tasks` and whether it is
due, `running` whether `runningTasks` holds it, `job` what each user does, `run`
where each run is. `unguarded`, `spent` and `disturbed` observe that the running
mark was taken away during a run or set twice, that the one-shot trigger has
been executed, and that something happened which may set schedule and table
apart.

| Code | Actions |
|---|---|
| `start`, `reload`, `stop` | `StartCron`, `SetUpdated`, `ScheduleListed`, `StopCron` |
| `addTask`, `deleteTask`, `cronEnabledSet`, listing | `BeginJob`, `AddFound`, `AddCreated`, `DeleteFound`, `SetFound`, `JobEnds` |
| `tick` | `TimePasses`, `TickSkips`, `TickStarts` |
| `triggerTaskNow` | `RunNow`, `RunFound` |
| `executeTask`, its `finally`, the deletion of a one-shot trigger | `Execute`, `RunEnds`, `RunDeleted` |
| crash and boot | `CronRestart` |

Abstracted: cron expressions (schedules are valid; an entry is due or not yet),
`lastRunAt`, which no decision here reads (its write is `StampRow`), what the
dispatched task does, and the timer, which is armed whenever something is
scheduled. Where a job looks the trigger up twice in a row the model does so
once. Left out: the trigger that the memory compactor creates and updates by
itself, directly in the repository.

## 3. Runs

| Run | Instance | Question |
|---|---|---|
| `locked_tasks` | 5 tasks | Does the permit hand-over exclude, serve in order, lose nobody, and implement the mutex? |
| `config_reload` | 2 agents, 1 section, 2 callers, 2 edits (the first not reloadable), module failures, shutdown | Is a reload quiescent and fresh, and when does it not return? |
| `agent_kill` | 1 poster that finds the agent by its connector, 1 killer, 1 runner, poison pill; the agent is loaded, or asleep on disk | Are awaiters answered, and are timers in order, while an agent is killed? |
| `agent_restart` | 2 posters of messages that may merge, turns that are aborted or fail at any step, 1 steerer, poison pill, 1 crash at any step; the agent is loaded, or asleep on disk | What does the durable inbox guarantee? |
| `delayed_signals` | a stored and a new signal with one key, 1 canceller, 1 crash at any step, 1 failure (of the load, a statement of a caller, a durable call, a generation or a deletion), shutdown | Is a scheduled signal delivered, not lost, not repeated without a cause and not after its cancellation? |
| `memory_collection` | 1 agent with 2 sessions and 2 records, wakes and kills, 1 task beside its loop, a turn limit of 1, batches of 1, 1 mishap (a crash or a failing call) at any step | Is everything an agent says found by the memory worker, sent once and never passed over? |
| `cron` | 2 users with 2 jobs between them, 2 runs at a time, 1 crash or failing statement at any step, shutdown | Do the table, its cache, the schedule and the running mark agree? |
| `reload_returns`, `reload_applied`, `dead_is_terminal`, `items_survive`, `due_job_awaited` | the smallest that shows it | five disagreements of code and documentation, section 5 |

Properties, in the words of the code's promises:

- `MutualExclusion`, `PermitIsAccountedFor`, `NoOvertaking`,
  `EveryWaiterEnters`, `ImplementsMutex`: the lock. `NoOvertaking` is what
  taking the permit back before the waiter's timer fires is for.
- `ReadersAccountedFor`: the counters of the reader/writer lock agree with who
  is inside, agents with two holds included; waiting requests are queued once;
  an answer resumes the agent that asked and only that one; `doSync()` runs
  once at a time.
- `ConfigStableWhileReading`, `NoReaderPassesWriter`: quiescence, and the
  preference of the writer.
- `ReloadIsFresh`: coalescing loses no request.
- `ReloadReturnsUnlessStuck`: a reload returns, unless settings that cannot be
  applied online stay on disk, or an agent waits for ever inside the lock.
- `NoAcceptedItemLost`, `EveryItemHandled`, `HandledOncePerRun`,
  `HandledInOrder`: the durable inbox. An item is accepted when its poster has
  left `enqueueEntry()`. The first two except the items whose row a replay has
  dropped for an execution that something else had left open (`mistaken`); a
  replay that drops the wrong row while a turn's execution is open is not excepted.
- `SleepsOnlyWhenDone`: a boot does not load a sleeping agent, so nothing
  unhandled may wait in its inbox.
- `EveryAwaiterSettles`: `postAndAwait()` never hangs on an agent that is
  killed, not even when its item is queued on an entry that has left the map.
- `NoStalePill`: no interleaving leaves a timer behind on an agent that is awake.
  The failure that `cancelPoisonPill()` swallows would, and is not modelled.

- `NoJobLost`, `OneJobAtATime`, `NoLostWakeup`: the job files. A job that was
  written has a file until it has succeeded; a job is in both directories only
  while it is written back; and whatever ends a `drain()` or a timer leaves
  somebody who comes back for a pending job.
- `NoSignalLost`, `EveryRowIsCovered`, `EveryDueSignalGoes`: at-least-once. A row
  stays until it was generated or withdrawn; the process never forgets a row,
  though the event in memory goes before the row does; and a due row goes. The
  last two except the rows that were in the table when the one `findAll()` of this
  process threw (`unread`): what is scheduled after that is covered as ever.
- `GeneratedOnce`, `OneCallPerSignal`: what at-least-once may cost. Every
  repetition, and every job beyond the first for one signal, is paid for by a
  crash or a failure.
- `WithdrawnStaysQuiet`: cancellation against delivery. A job may be on its way
  when its signal is cancelled or replaced; it must find nothing.

- `NothingUnannounced`, `EveryRecordIsProcessed`: no record is forgotten. A
  session with a record beyond `processed_until` is marked, or its agent or a task
  is still at it, unless the agent was seen to stop without the mark (`cut`): by a
  failure, a crash, a kill, or a `sleepIfIdle()` that finds the agent put to sleep
  by a task in the middle of its item; and what is marked is processed. It rests
  on the comparison in `invalidate()` and the compare-and-swap in
  `markProcessed()`.
- `SkippedOnlyInWindow`: a record that no transcript held is passed over only if
  it came between the worker's read and its second look at the largest id.
- `AgainOnlyIfUnmarked`: a record is sent twice only when its session could not
  be marked after the first time, or when the mark of a task, read before the loop
  marked more, has set `processed_until` back (`setBack`).
- `DeletedForever`: the guard that the versioned storage is for. No late update,
  stamp or creation writes a row of a deleted trigger.
- `CacheCoherentUnlessRaced`: when nothing is under way the cache holds the open
  row, and an empty cache that claims to be complete means that there is none.
- `ScheduleMatchesTable`: when nothing is under way a trigger is scheduled
  exactly if the table has an enabled one.
- `OneRunAtATime`, `OneShotRunsOnce`: what the running mark and the early removal
  of a one-shot trigger from the schedule are for.

The last four, the memory properties, and those of the inbox and of delayed
signals that say so, name their exceptions by observing variables (`raced`,
`disturbed`, `unguarded`, `spent`, `cut`, `late`, `unmarked`, `setBack`,
`mistaken`, `unread`). Each is a run of the code that TLC reaches, and without any
one of them the property fails: they are the exact extent of what is promised.

### Bounds, and why they are enough

- Five tasks make a queue of four: the head, the tail and two between them.
- Two agents can ask each other, and one can queue behind the writer while the
  other holds the lock twice. Two callers give a request before, during and
  after a run of `doSync()`; two edits one to miss and one to catch. The proofs
  in section 4 remove the bound for everything but liveness.
- `MaxEntries = 1` in the passing runs of `AgentSystem`: one `AgentEntry` between
  two restarts, which a boot loads or a task restores. A second task that wants
  to restore the agent stays before that step. Most of the theorems about an agent
  say this as a hypothesis, `[](created <= 1)`, where `MaxEntries` and the numbers
  of callers and crashes are arbitrary (section 4). With 2 entries and an agent asleep
  on disk `restoreAgent()` shows that it is not single-flight (section 5).
- `MaxRestarts = 1` in the passing run. With 2 the inbox loses an item
  (section 5). With 1 it loses one only behind an aborted or failed turn, which
  the run has and `mistaken` observes. One `Runner` together with one restart loses
  an item too, for the same line of code and beyond what `mistaken` observes, so
  runners and crashes are in different runs. These are the
  hypotheses of the theorem `AcceptedItemsLast`; the other safety properties are
  proved for any number of crashes.
- Killers and crashes are in different runs because a killed agent comes back to
  life (section 5) and from there no property of its inbox is to be expected.
- `delayed_signals`: two signals with one key are the old and the new one of a
  replacement, and the cancellation meets both. `MaxJobs = 2` jobs at a time: a
  crash or a failure gives a signal its second job; a third call waits for an id,
  as if its write took longer. One crash may fall on any step; one failure on the
  load, a statement of `schedule()` or `cancelByRepeatKey()`, a `durableCall()`, a
  generation or the deletion after it, also while the other is recovered from. The proofs remove all of these bounds for the
  safety properties.
- `memory_collection`: two sessions are the one that a reset leaves and the one it
  opens; two records one that is processed and one that comes later, in the
  window or after it; a turn limit of 1 makes turns that mark and turns that do
  not; a batch of 1 leaves a marked session for the next tick. One task is the one
  that puts the agent to sleep in the middle of an item, or marks late. One mishap
  is a crash or a failure, on any step: each ends one pass of the agent, the task or
  the worker, and the pass after it is undisturbed. The proofs remove all of these
  bounds for the safety properties.
- `cron`: two users and two runs are four callers of the repository, so a call
  may meet another inside its lock, one under the other lock and one under none.
  Two jobs are a change and another, or a run now, that it overlaps, beside
  start, ticks, runs, stop and one restart. Users and runs are symmetric. The
  proofs remove all of these bounds.

The runs of `AgentSystem`, `ConfigReload`, `DelayedSignals`, `MemoryCollection`
and `CronScheduler` set `CHECK_DEADLOCK FALSE`: all
tasks finish, or, in `ConfigReload`, wait for each other, or, in the last two,
come to their bounds of records and jobs.

### Fairness

- `LockedTasks`: a section that was entered ends. Nothing else is assumed.
- `ConfigReload`: a section, an inference call and a step of `doSync()` end
  (weak fairness: they are timers and I/O that complete or time out). An agent
  gets to each item of its inbox and an item ends (strong fairness): the loop is
  a `for (;;)` that takes items in order, and an item that is handled makes
  finitely many calls, in between which ending is not enabled. No fairness is
  given to beginning an item from outside, to editing, to `reload()` or to
  `stop()`.
- `AgentSystem`: every task that has begun, every loop and every delivery goes
  on (weak fairness, one condition per task: the event loop runs the
  continuation of every promise that resolves). Locks are granted in order, so
  weak fairness is enough. Nothing makes a task begin, a timer come due or a
  process crash.

- `DelayedSignals`: timers fire, a `nextRunAt` comes, the drain, the boot, ticks,
  calls, deliveries and callers go on (weak fairness: timers, file and database
  operations that complete). Time passing, new callers, failures, crashes and
  shutdown are not fair. `EveryDueSignalGoes` excepts a shutdown, as nothing
  makes a new boot come.

- `MemoryCollection`: an agent, a task and the worker go on (weak fairness:
  statements that complete, a task that ends, a `tick()` that its loop calls again
  and again). `Sleep` or `SleepReturns` is strongly fair: the inbox of an agent is
  empty now and then, while an agent that always has an item waiting never sleeps
  and need not mark before its turn limit. New turns, tasks, records, wakes, kills,
  failures and crashes are not fair.
- `CronScheduler` has safety properties only and assumes no fairness.

## 4. Proofs

All theorems are for every value of the constants that satisfies the `ASSUME` of
the module: any number of tasks, agents, callers and edits.

`LockedTasks_proofs`. `IndInv` relates the permit, the queue and the positions
of the tasks: somebody is inside exactly when the permit is out, at most one is,
the queue has no repetition and contains exactly the waiting tasks, and is empty
while the permit is free. Exclusion alone is not inductive: `unlock()` lets the
head of the queue in, which is sound only because the head is waiting, is not
queued again, and the one that leaves was the only one inside. From it:
`LockExcludes`, `LockAccounts`, `FirstComeFirstServed` (`NoOvertaking`) and the
refinement `LockImplementsMutex`.

`ConfigReload_proofs`. The central fact is that `activeReaders` is the number of
holds: `HoldSet` is the set of pairs of a reader and the first or second hold,
and its cardinality equals the counter. The counter is a number that steps of
many readers change, and `releaseRead()` decides on `activeReaders = 1`, so the
proof needs cardinality and not only emptiness. The inductive invariant adds
that waiting readers are queued once each, the writer is queued while `doSync()`
waits, asks are outstanding exactly once (an answer takes its asker from
"asking" to "outer", which must not be another reader's state), and `doSync()`
runs once. From it: `LockCounts`, `ReloadTypes`, `QuiescentReload`,
`WriterPreferred`. For `FreshReload` a second invariant follows the freshness of
what `doSync()` has read: every pending caller's settings are either already in
force, or covered by what was loaded, or asked for after the load, in which case
the second round is requested.

`DurableLocal_proofs`. `DurableInv` adds to the three properties what they lean
on: a file belongs to a call that was made (`FilesWereWritten`); while `drain()`
works it has a job, what it has seen in `pending/` is still there, and the file
it deletes is of a job that has succeeded (`DrainShape`); and a listing that came
back empty is followed by a timer or a caller if a file has come since
(`EmptyListing`), which is where the assumption on `readdir()` enters.

`DelayedSignals_proofs`. First `SignalsUseRuntime`: every step is one of
`DurableNext` or leaves the runtime alone, so `DurableInv` holds here too. Then
`SignalsInv`, in parts: jobs are for signals that were scheduled and the one
`deliver()` works on does not change under it (`JobsOfSignals`); nothing knows a
signal before it was scheduled (`NotYet`); the caches hold no withdrawn signal
and, once loaded, every row, and a job that succeeded but is still on disk, after
a crash, has no row (`CachesAgree`, without which `EveryRowIsCovered` and
`WithdrawnStaysQuiet` are not inductive); and a signal that can still be found
was generated only as often as there were crashes and failures
(`RepeatsAreExcused`). A load that threw is part of it: the rows that are then in
`unread` are the only ones without an event or a job, and the cache of the
repository, which has not listed them, still finds each by asking the table. The steps that touch none of this are treated once, as
`Elsewhere`. From it: `SignalsTyped`, `SignalsPersist`, `RowsAreCovered`,
`SignalsGoOnce`, `WithdrawnIsQuiet`. `SignalsCalledOnce` counts the jobs of a
signal: `CallsInv` says that a signal has one while it is pending and none
otherwise, but for those that a crash or a failure made (`CallsAreExcused`), and
that nobody works on the signal of a job that is left over on disk
(`LeftOversAreForgotten`), since its second run, which finds nothing, would take the
call of another job out of `pendingDurable`. The bound is on a cardinality, so
the proof compares sets of jobs before and after each step.

`MemoryCollection_proofs`. `MemoryInv` adds to the properties: ids are given in
order, so whatever is appended is larger than every mark, every `processed_until`
and everything a worker has read (`IdsInOrder`); where an agent and a task beside
it are while they mark, that they do not hold the lock of the entry both, that
the agent sleeps while its task marks, and which session is the one it leaves
(`AgentPlaces`); that a mark read by
`maxId()` still covers what `NothingUnannounced` needs, although a record may come
before `invalidate()` writes it (`Announced`); that the batch holds rows that were
marked, with a `processed_until` that only the worker itself moves (`BatchHolds`);
and what the worker has read and will write (`WorkerPlaces`, `RoutedTwice`).
`NothingUnannounced` alone is not inductive: `markProcessed()` clears a mark, and
that is harmless only because an unchanged mark means that nobody has marked since,
so that whoever has appended since is still at the session. From it:
`MemoryTypeCorrect`, `NoRecordForgotten`, `WindowIsTheOnlyGap`,
`SentTwiceOnlyIfUnmarked`.

`CronScheduler_proofs`. First, what the helpers of the repository do to types and
calls; `DeletionIsFinal` follows from the types and the guard of
`versionAdvance()` alone, for any interleaving with or without locks. `RunLaws`
adds to `OneRunAtATime` that a one-shot trigger whose run is under way has left
the schedule (`OneShotLeft`) and who may call the repository from a run
(`OnlyNowLooksUp`); it gives `RunsOneByOne` and `OneShotExecutedOnce`. For
`CacheIsCoherent`: at most one row is open and it is the last (`OneOpen`); users
and runs that do nothing have no call (`IdleCalls`); and while nothing has raced,
at most one call is inside a lock, what it has found is what the table answers
until it writes, and the cache fits the table but for the one call that has
written and not yet cached (`CacheLaws`).

For `ScheduleFollowsTable`, `ScheduleLaws` carries the agreement of schedule and
table through the calls. While nothing has disturbed it, whoever changes the
trigger is alone, and everybody else leaves schedule and table as they are; so the
two agree before the change is written, and for each change it is known what
the table and the schedule are like until it ends.

`AgentSystem_proofs`. Types come first, and they hold with overlapping restores
too: `TypeInv` adds to `TypeOK` that stamps are given once and in order, that
rows, queues and noted items hold only items that were posted, and that the entry
an actor works on exists. `LocksFit` relates each entry's `AsyncLock` to the
callers and the loop: its queue holds exactly the actors that wait, without
repetition, and its permit is out exactly while one of those that asked is not
among them. From them: `AgentTypes` and `EntryLocksHeldByOne`, the promise of
`entry.lock.inLock()` in every path of `agentSystem.ts`, for any number of
entries.

From there on there is a hypothesis, `[](created <= 1)`: between two restarts one
entry is made. The code does not ensure it, as `restoreAgent()` is not single-flight
(section 5); it is what the properties rest on, and the runs are instances of it
with `MaxEntries = 1`. `Roles` says which actor is at which steps, `PillFits` that
the entry in memory says of sleep, death and the timer what the database says, but
for the actor under the lock that is between the two writes. From it:
`PillFollowsSleep`.

`AgentInbox_proofs`. `InboxLaws` is the order of the inbox in three parts. Of two
copies of items (queued, taken by the loop, or noted by a replay) one holds only
parts that were posted before all parts of the other, or they have one id; the
same for rows; the queue is in this order, and what the loop has taken is before
all of it (`QueueLaws`, `RowLaws`). An item on its way is newer than all of them
(`PostLaws`), which is where the lock of the entry is needed: stamp, row and queue
are written one after another. With `Counted`, that an item was recorded at most
once per run and not yet in this run if a copy of it is due, it gives
`ItemsHandledOnce`.

`LiveRows` says that every row of an agent that is loaded was handled, has a copy in
memory, or is being posted. So the oldest row that was not handled is what the loop
takes next, which is `ItemsHandledInOrder`, and an empty inbox means handled rows,
which is `SleepsWhenDone`. The latter assumes that there is no runner. A task of
`taskExecuteAndAwait()` wakes the agent, and when it ends the agent may fall asleep
beside an item the loop has taken: with a runner, a poster and a restart TLC finds
`SleepsOnlyWhenDone` violated.

For `AcceptedItemsLast`, `Lasting` says that a poster's item has a row from
`InsertRow` on until it was handled (`PostsLast`). What a merge is to write again
holds the item, and is what the queue holds under that id (`MergesLast`); a row
has no part that the copies of its id in memory lack (`RowsCovered`), so that no
row goes for another item's sake; what is in memory has a row (`MemoryLasts`), and
what a replay has read is still there (`ReadsLast`). The step that endangers it is
the boot that deletes the oldest row when the history shows an unfinished
execution. `FirstRun` says whose row that is: up to the first crash, an execution
of a turn belongs to the item the loop works on, and that is the oldest with a
row, because items are handled in order. When only an aborted or failed turn has
left one, the row is of another item, and `mistaken` takes note of it: this is the
exception in the property. After a second crash, or with a bare record of
`taskExecuteAndAwait()`, the oldest row may be the wrong one though a turn is open,
and TLC finds the loss; so the theorem assumes `restarts <= 1` and no runner.

Every safety property of the runs is proved. Only model-checked: liveness
(`EveryWaiterEnters`, `ReloadReturnsUnlessStuck`, `EveryAwaiterSettles`,
`EveryItemHandled`, `EveryDueSignalGoes`, `EveryRecordIsProcessed`), which needs
fairness and ENABLED and is out of the prover's reach.

## 5. Where code and documentation disagree

1. **A reload may never return** (`reload_returns`). An agent handles an item
   under the read lock and asks for it again in the inference router. Behind a
   queued writer the second request waits for the writer, and the writer for the
   item. `src/doc/internals/config-reload-locking.md:24` says the writer waits
   for in-flight inference calls. The same happens when the agent asks another
   agent.
2. **A reload may return without having reloaded** (`reload_applied`). The
   config is installed first. When a module reload throws, the retry finds the
   config unchanged and returns.
3. **A dead agent may live again** (`dead_is_terminal`). `sleepIfIdle()` writes
   "sleeping" over "dead", and the kill of an agent that is not loaded writes a
   state that was read some `await`s before. Beyond this run, the resurrected
   agent may have a stale timer, handle items twice and out of order.
4. **An accepted item may be lost in two crashes** (`items_survive`). The replay
   deletes the oldest row when the history shows an unfinished execution. The
   row is the wrong one when the synthetic restore item had not been handled
   before the second crash. One crash suffices after a turn that was aborted or
   failed (`agentLoopRun.ts:1200-1233`): its item is done, and the execution it left
   open makes the boot drop the row of the next one. `agent_restart` has this, and
   its properties except exactly these rows (`mistaken`). The same happens with one
   crash and an execution of `taskExecuteAndAwait()` that was cut short, whose bare
   record is moreover never completed.

5. **A due job may wait for the backoff of another** (`due_job_awaited`). The
   durable runtime has one timer, and the newest trigger replaces it. `drain()`
   sets it for the first of the jobs it has read, even when a job that is due has
   been written, and has set the timer, since the listing. The delivery of a
   signal then waits up to 16 seconds, or for the next call.

Also seen, not claimed as disagreements: a crash between the two writes of a
merge loses the merged message, whose poster has not been answered
(`NoAcceptedItemLost` therefore speaks of accepted items, `HandledInOrder` of
items in the table); a failed item leaves the agent active without a timer.

- **Restore.** `restoreAgent()` is not single-flight. Two tasks that find the agent
  asleep each make an entry with a loop, and both replay its rows: with
  `MaxEntries = 2` and two posters TLC finds an item handled twice, and with a
  crash one lost.
- **Memory.** `src/doc/concepts/memory-collection.md:30` says that the
  compare-and-swap prevents clearing a session that received new messages during
  processing. Messages alone do not change the mark, the next invalidation does;
  and the worker takes the largest id only after the post. What an agent says
  in between is marked as processed without having been in a transcript
  (`late` in `SkippedOnlyInWindow`). And a task that puts the agent to sleep in the
  middle of an item leaves what the item says afterwards without a mark: the
  `sleepIfIdle()` of the item finds the agent sleeping and returns (`cut`). Such
  records wait for the next mark of the session. The task's own mark may be older
  than one that the worker has processed meanwhile; `processed_until` then goes
  back, and records are sent again (`setBack`).
- **Delayed signals.** `loadUnlocked()` sets `loaded` and clears the events before it
  awaits `findAll()`. When that throws, and the caller is a boot that schedules or
  cancels a poison pill, the error is logged and swallowed, and the stored rows set
  no alarm until the next boot; they may still go with a tick that the alarm of
  another signal starts, as a tick selects from the table (`unread` in
  `EveryRowIsCovered` and `EveryDueSignalGoes`).
- **Cron.** A deletion that overlaps a change may answer true and leave the new
  row open. A run of an older definition deletes the one-shot trigger that was
  created anew under its id. A one-shot trigger whose run waits for the read lock
  when the scheduler stops is deleted without having been executed. An id that
  was deleted cannot be created again, as the primary key refuses version 1.
  `addTask()` with a disabled trigger leaves the scheduled entry of the one it
  replaces. `src/doc/20260228-versioning-migration-and-race-guards.md:6` says of
  two other kinds of triggers that no late run record resurrects a deleted one:
  for cron, which uses the same scheme, `DeletedForever` confirms it.

## 6. Plan

1. *Done.* Locks with their abstract specification and proofs; online reload;
   the agent lifecycle with the durable inbox, loaded or not; the local durable
   runtime and delayed signals on top of it; cron over the versioned storage; the
   memory worker beside its agents.
2. *Done.* Proofs of every safety property of these.
3. An abstract durable inbox (accepted, handled, rejected) that `AgentSystem`
   implements without kills, and an abstract reload (a register with requests)
   that `ConfigReload` implements.
4. `IncomingMessages` (the debounce before the post), `Processes` (supervision
   with pids that are written after the start), pending-phase recovery of
   histories with equal timestamps, and a disk that fails while a failed durable
   job is written back.

### Not modelled

Remote services and the operating system (connectors, providers, sandbox, the
Inngest runtime), stores of records whose operations are single statements or go
through the versioned storage in the same way as cron, user interfaces and texts.
Most of the repository's lines are of these kinds; the parts named under 4 are
the ones with states and interleavings of their own that are still missing.
