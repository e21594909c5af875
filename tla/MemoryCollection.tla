-------------------------- MODULE MemoryCollection --------------------------
(***************************************************************************)
(* How what agents say reaches memory: engine/memory/memoryWorker.ts with  *)
(* storage/sessionsRepository.ts, storage/historyRepository.ts and the     *)
(* places of engine/agents/ that append history and invalidate a session,  *)
(* that is, mark it for processing.                                        *)
(*                                                                         *)
(* An agent appends records to its active session and marks the session    *)
(* with the largest history id it then reads: at the end of a turn when it *)
(* has had more than TurnLimit, when it goes to sleep, and when a reset or *)
(* a compaction replaces the session.  A task that is executed beside the  *)
(* agent's loop can put the agent to sleep too, in the middle of an item;  *)
(* a kill takes it out of the map.  The worker lists marked sessions       *)
(* and, one after another, reads the new records, posts a transcript to    *)
(* the memory agent, reads the largest history id again and clears the     *)
(* mark if it is still the one it listed.                                  *)
(*                                                                         *)
(* Session <<a, n>> is the n-th session of agent a.  A record is its id    *)
(* and whether a transcript shows it: the rlm_* records appear in none.    *)
(* Ids start at 1, so 0 stands for null in a mark and in processedUntil,   *)
(* as the code's `processedUntil ?? 0` does.  ended_at, which nothing here *)
(* reads, is left out.                                                     *)
(***************************************************************************)
EXTENDS Naturals, FiniteSets, Sequences

CONSTANTS Agents,
          TurnLimit,     \* turns that do not mark; 5 in the code
          Batch,         \* sessions per tick; 10 in the code
          MaxSessions,   \* bound: sessions of one agent
          MaxRecords,    \* bound: history records
          MaxMishaps,    \* bound: calls that throw, and crashes
          MaxTasks       \* bound: tasks beside the loops

ASSUME MemoryAssumption ==
  /\ TurnLimit \in Nat /\ Batch \in Nat \ {0}
  /\ MaxSessions \in Nat \ {0} /\ MaxRecords \in Nat
  /\ MaxMishaps \in Nat /\ MaxTasks \in Nat

VARIABLES
  skipped,     \* the agents of a kind that the worker leaves out
  rows,        \* session_history: the ids of each session's records
  shown,       \* the ids of the records a transcript shows
  lastId,      \* the serial of session_history
  mark,        \* invalidated_at of each session
  done,        \* processed_until of each session
  opened,      \* how many sessions of each agent were created
  active,      \* activeSessionId in each agent's row
  current,     \* activeSessionId in each agent's memory
  asleep,      \* the agents whose state is `sleeping`
  killed,      \* the agents whose state is `dead`
  endTurns,    \* endTurnCount of each agent
  loop,        \* where each agent is, why it marks, the id it read
  task,        \* where a task beside each loop is, what it marks
  worker,      \* where tick() is, what it listed, read, and marks up to
  routed,      \* observed: shown records that a transcript held
  unmarked,    \* observed: routed records whose session kept its mark
  late,        \* observed: records appended between the read and the maxId
  setBack,     \* observed: records that processed_until passed and then left
  cut,         \* observed: sessions whose agent stopped without the mark
  mishaps, tasks

historyVars == <<skipped, rows, shown, lastId, late>>
budgetVars == <<mishaps, tasks>>
sessionVars == <<opened, active, current>>
agentVars == <<sessionVars, asleep, killed, endTurns, loop, task, cut>>
workerVars == <<worker, routed, unmarked, setBack>>
memoryVars == <<historyVars, mark, done, agentVars, workerVars, budgetVars>>

Sessions == Agents \X (1..MaxSessions)
Ids == 1..MaxRecords
None == 0

Listed == [session : Sessions, mark : Ids, done : Ids \cup {None}]

Resting == [at |-> "resting", why |-> "nothing", max |-> None]
Step(at) == [Resting EXCEPT !.at = at]
Marking(why) == [at |-> "max", why |-> why, max |-> None]

NoTask == [at |-> "none", session |-> 1, max |-> None]

Waiting == [at |-> "waiting", batch |-> << >>, seen |-> {}, upTo |-> None]

MemoryTypeOK ==
  /\ skipped \subseteq Agents
  /\ rows \in [Sessions -> SUBSET Ids]
  /\ shown \subseteq Ids
  /\ lastId \in 0..MaxRecords
  /\ mark \in [Sessions -> Ids \cup {None}]
  /\ done \in [Sessions -> Ids \cup {None}]
  /\ opened \in [Agents -> 1..MaxSessions]
  /\ active \in [Agents -> 1..MaxSessions]
  /\ current \in [Agents -> 1..MaxSessions]
  /\ asleep \subseteq Agents /\ killed \subseteq Agents
  /\ endTurns \in [Agents -> 0..TurnLimit]
  /\ loop \in [Agents -> [at : {"resting", "turn", "handled", "max", "mark", "opening",
                                "switching"},
                          why : {"nothing", "turn", "sleep", "reset"},
                          max : Ids \cup {None}]]
  /\ task \in [Agents -> [at : {"none", "woke", "beside", "max", "mark"},
                          session : 1..MaxSessions, max : Ids \cup {None}]]
  /\ worker \in [at : {"waiting", "next", "read", "dismiss", "posted", "clear"},
                 batch : Seq(Listed), seen : SUBSET Ids, upTo : Ids \cup {None}]
  /\ routed \subseteq Ids /\ unmarked \subseteq Ids
  /\ late \subseteq Ids /\ setBack \subseteq Ids
  /\ cut \subseteq Sessions
  /\ mishaps \in 0..MaxMishaps
  /\ tasks \in 0..MaxTasks

MemoryInit ==
  /\ skipped \in SUBSET Agents
  /\ rows = [s \in Sessions |-> {}]
  /\ shown = {} /\ lastId = 0
  /\ mark = [s \in Sessions |-> None]
  /\ done = [s \in Sessions |-> None]
  /\ opened = [a \in Agents |-> 1]
  /\ active = [a \in Agents |-> 1]
  /\ current = [a \in Agents |-> 1]
  /\ asleep = Agents /\ killed = {}
  /\ endTurns = [a \in Agents |-> 0]
  /\ loop = [a \in Agents |-> Resting]
  /\ task = [a \in Agents |-> NoTask]
  /\ worker = Waiting
  /\ routed = {} /\ unmarked = {} /\ late = {} /\ setBack = {} /\ cut = {}
  /\ mishaps = 0 /\ tasks = 0

-----------------------------------------------------------------------------
(* The agent's state, which tasks, posts and kills change beside the loop. *)

Goes(a, step) == loop' = [loop EXCEPT ![a] = step]

\* The session in memory, and the session that appendHistory() finds.
Mine(a) == <<a, current[a]>>
Target(a) == <<a, active[a]>>

\* The task marks the session on behalf of the agent that it put to sleep.
TaskMarking(a) == task[a].at \in {"max", "mark"}

\* The entry's lock, which sleepIfIdle() holds until it has marked.
LockFree(a) == loop[a].why # "sleep" /\ ~TaskMarking(a)

\* wakeEntryIfSleeping(): the whole state is written, with the session.
Woken(a) ==
  /\ a \notin killed /\ LockFree(a)
  /\ asleep' = asleep \ {a}
  /\ active' = IF a \in asleep THEN [active EXCEPT ![a] = current[a]] ELSE active

(* A post wakes an agent that a task put to sleep during an item.          *)
Wake(a) ==
  /\ loop[a].at # "resting" /\ a \in asleep
  /\ Woken(a)
  /\ UNCHANGED <<historyVars, mark, done, opened, current, killed, endTurns, loop, task,
                 cut, workerVars, budgetVars>>

(* markEntryDead(): the loop finishes the item it is in.                   *)
Kill(a) ==
  /\ a \notin killed /\ LockFree(a)
  /\ killed' = killed \cup {a}
  /\ asleep' = asleep \ {a}
  /\ active' = [active EXCEPT ![a] = current[a]]
  /\ cut' = IF loop[a].at = "resting" /\ a \notin asleep THEN cut \cup {Mine(a)} ELSE cut
  /\ UNCHANGED <<historyVars, mark, done, opened, current, endTurns, loop, task,
                 workerVars, budgetVars>>

-----------------------------------------------------------------------------
(* The agent's loop: its turns, its sleep and its resets.                  *)

(* An item is posted, which wakes the agent, and taken from the inbox.     *)
(* With one waiting, sleepIfIdle() returns early.                          *)
StartTurn(a) ==
  /\ loop[a].at \in {"resting", "handled"}
  /\ Woken(a)
  /\ Goes(a, Step("turn"))
  /\ UNCHANGED <<historyVars, mark, done, opened, current, killed, endTurns, task, cut,
                 workerVars, budgetVars>>

\* The worker has read the session and has yet to look for its largest id.
Underway(s) == worker.at \in {"read", "posted"} /\ worker.batch[1].session = s

AppendRecord(a, visible) ==
  /\ lastId < MaxRecords
  /\ lastId' = lastId + 1
  /\ rows' = [rows EXCEPT ![Target(a)] = @ \cup {lastId + 1}]
  /\ shown' = IF visible THEN shown \cup {lastId + 1} ELSE shown
  /\ late' = IF Underway(Target(a)) THEN late \cup {lastId + 1} ELSE late
  /\ UNCHANGED <<skipped, mark, done, agentVars, workerVars, budgetVars>>

(* A message or an answer; code leaves rlm_* records, a task's code too.   *)
Say(a) == loop[a].at = "turn" /\ AppendRecord(a, TRUE)
RunCode(a) ==
  (loop[a].at = "turn" \/ task[a].at \in {"woke", "beside"}) /\ AppendRecord(a, FALSE)

(* The end of handleMessage() writes the state and counts; other items do  *)
(* neither.                                                                *)
EndTurn(a) ==
  /\ loop[a].at = "turn"
  /\ \/ /\ Goes(a, Step("handled"))
        /\ UNCHANGED <<active, endTurns>>
     \/ /\ active' = [active EXCEPT ![a] = current[a]]
        /\ endTurns' = [endTurns EXCEPT ![a] = IF @ = TurnLimit THEN @ ELSE @ + 1]
        /\ Goes(a, IF endTurns[a] < TurnLimit THEN Step("handled") ELSE Marking("turn"))
  /\ UNCHANGED <<historyVars, mark, done, opened, current, asleep, killed, task, cut,
                 workerVars, budgetVars>>

\* sleepIfIdle() passes its checks and writes the state.
FallsAsleep(a) ==
  /\ a \notin asleep \cup killed /\ LockFree(a)
  /\ asleep' = asleep \cup {a}
  /\ active' = [active EXCEPT ![a] = current[a]]
  /\ UNCHANGED <<historyVars, mark, done, opened, current, killed, endTurns, cut,
                 workerVars, budgetVars>>

\* Mutant: the agent sleeps without marking its session.
SleepsWithoutMark(a) ==
  loop[a].at = "handled" /\ FallsAsleep(a) /\ Goes(a, Resting) /\ UNCHANGED task

(* sleepIfIdle() after an item; the rest of it marks the session.          *)
Sleep(a) ==
  loop[a].at = "handled" /\ FallsAsleep(a) /\ Goes(a, Marking("sleep")) /\ UNCHANGED task

(* sleepIfIdle() finds the agent asleep, or its entry gone.                *)
SleepReturns(a) ==
  /\ loop[a].at = "handled"
  /\ (a \in asleep /\ LockFree(a)) \/ a \in killed
  /\ Goes(a, Resting)
  /\ cut' = cut \cup {Mine(a)}
  /\ UNCHANGED <<historyVars, mark, done, sessionVars, asleep, killed, endTurns, task,
                 workerVars, budgetVars>>

(* handleReset() and applyCompactionSummary().                             *)
StartReset(a) ==
  /\ loop[a].at = "turn"
  /\ opened[a] < MaxSessions
  /\ endTurns' = [endTurns EXCEPT ![a] = 0]
  /\ Goes(a, Marking("reset"))
  /\ UNCHANGED <<historyVars, mark, done, sessionVars, asleep, killed, task, cut,
                 workerVars, budgetVars>>

\* What maxId() answers.
IsMaxId(m, s) == m \in rows[s] \cup {None} /\ \A r \in rows[s] : r <= m

AfterMark(a) ==
  CASE loop[a].why = "turn" -> Step("handled")
    [] loop[a].why = "sleep" -> Resting
    [] OTHER -> Step("opening")

ReadMaxId(a) ==
  /\ loop[a].at = "max"
  /\ \E m \in Ids \cup {None} :
       /\ IsMaxId(m, Mine(a))
       /\ Goes(a, IF m = None THEN AfterMark(a)
                              ELSE [loop[a] EXCEPT !.at = "mark", !.max = m])
  /\ UNCHANGED <<historyVars, mark, done, sessionVars, asleep, killed, endTurns, task, cut,
                 workerVars, budgetVars>>

\* Mutant: the mark is the first id that is not there yet.
MarksOneBeyond(s, id) ==
  [mark EXCEPT ![s] = IF @ = None \/ @ < id THEN id + 1 ELSE @]

\* SessionsRepository.invalidate().
Invalidated(s, id) ==
  [mark EXCEPT ![s] = IF @ = None \/ @ < id THEN id ELSE @]

Mark(a) ==
  /\ loop[a].at = "mark"
  /\ mark' = Invalidated(Mine(a), loop[a].max)
  /\ Goes(a, AfterMark(a))
  /\ cut' = cut \ {Mine(a)}
  /\ UNCHANGED <<historyVars, done, sessionVars, asleep, killed, endTurns, task,
                 workerVars, budgetVars>>

(* The new session exists and is in memory before the row names it.        *)
OpenSession(a) ==
  /\ loop[a].at = "opening"
  /\ opened' = [opened EXCEPT ![a] = @ + 1]
  /\ current' = [current EXCEPT ![a] = opened[a] + 1]
  /\ Goes(a, Step("switching"))
  /\ UNCHANGED <<historyVars, mark, done, active, asleep, killed, endTurns, task, cut,
                 workerVars, budgetVars>>

SwitchSession(a) ==
  /\ loop[a].at = "switching"
  /\ active' = [active EXCEPT ![a] = current[a]]
  /\ Goes(a, Step("turn"))
  /\ UNCHANGED <<historyVars, mark, done, opened, current, asleep, killed, endTurns, task,
                 cut, workerVars, budgetVars>>

\* The sessions that are left without a mark when agent a is interrupted.
CutShort(a) ==
  {s \in {Mine(a)} : a \in asleep \cup killed /\ (loop[a].at # "resting" \/ TaskMarking(a))}
    \cup {s \in {Target(a)} : loop[a].at = "switching"}

(* A call throws: the item is rejected and the agent does not go to sleep. *)
ItemFails(a) ==
  /\ loop[a].at # "resting"
  /\ mishaps < MaxMishaps
  /\ mishaps' = mishaps + 1
  /\ Goes(a, Resting)
  /\ cut' = cut \cup CutShort(a)
  /\ UNCHANGED <<historyVars, mark, done, sessionVars, asleep, killed, endTurns, task,
                 tasks, workerVars>>

-----------------------------------------------------------------------------
(* A task beside the loop: taskExecuteAndAwait().                          *)

TaskGoes(a, step) == task' = [task EXCEPT ![a] = step]

(* It wakes the agent; another one may be under way and is left out.       *)
TaskStarts(a) ==
  /\ task[a].at = "none" /\ tasks < MaxTasks
  /\ tasks' = tasks + 1
  /\ Woken(a)
  /\ TaskGoes(a, [NoTask EXCEPT !.at = IF a \in asleep THEN "woke" ELSE "beside"])
  /\ UNCHANGED <<historyVars, mark, done, opened, current, killed, endTurns, loop, cut,
                 workerVars, mishaps>>

(* It puts the agent that it woke, or one of kind `task`, to sleep: the    *)
(* inbox is empty, but the loop may be in an item.                         *)
TaskSleeps(a) ==
  /\ task[a].at \in {"woke", "beside"}
  /\ FallsAsleep(a)
  /\ TaskGoes(a, [NoTask EXCEPT !.at = "max"])
  /\ UNCHANGED loop

(* Another item waits, the agent sleeps or is dead, or the task is none to *)
(* put it to sleep.                                                        *)
TaskReturns(a) ==
  /\ task[a].at \in {"woke", "beside"}
  /\ \/ a \in asleep \cup killed
     \/ loop[a].at \notin {"resting", "handled"}
     \/ task[a].at = "beside"
  /\ TaskGoes(a, NoTask)
  /\ UNCHANGED <<historyVars, mark, done, sessionVars, asleep, killed, endTurns, loop, cut,
                 workerVars, budgetVars>>

TaskReadsMaxId(a) ==
  /\ task[a].at = "max"
  /\ \E m \in Ids \cup {None} :
       /\ IsMaxId(m, Mine(a))
       /\ TaskGoes(a, IF m = None THEN NoTask
                                  ELSE [at |-> "mark", session |-> current[a], max |-> m])
  /\ UNCHANGED <<historyVars, mark, done, sessionVars, asleep, killed, endTurns, loop, cut,
                 workerVars, budgetVars>>

(* The id may be an old one by now: the loop may have said more, marked    *)
(* it and seen it processed.                                               *)
TaskMarks(a) ==
  /\ task[a].at = "mark"
  /\ mark' = Invalidated(<<a, task[a].session>>, task[a].max)
  /\ TaskGoes(a, NoTask)
  /\ UNCHANGED <<historyVars, done, sessionVars, asleep, killed, endTurns, loop, cut,
                 workerVars, budgetVars>>

(* A call of its sleepIfIdle() throws: the agent sleeps without the mark.  *)
TaskFails(a) ==
  /\ TaskMarking(a)
  /\ mishaps < MaxMishaps
  /\ mishaps' = mishaps + 1
  /\ TaskGoes(a, NoTask)
  /\ cut' = cut \cup {Mine(a)}
  /\ UNCHANGED <<historyVars, mark, done, sessionVars, asleep, killed, endTurns, loop,
                 tasks, workerVars>>

-----------------------------------------------------------------------------
(* The worker: tick().                                                     *)

Invalid == {s \in Sessions : mark[s] # None}
Row(s) == [session |-> s, mark |-> mark[s], done |-> done[s]]

\* findInvalidated(): at most Batch marked sessions, the smallest mark first.
IsBatch(b) ==
  /\ Len(b) = IF Cardinality(Invalid) < Batch THEN Cardinality(Invalid) ELSE Batch
  /\ \A i \in 1..Len(b) : b[i].session \in Invalid /\ b[i] = Row(b[i].session)
  /\ \A i, j \in 1..Len(b) : i < j => b[i].session # b[j].session /\ b[i].mark <= b[j].mark
  /\ \A s \in Invalid : s \in {b[i].session : i \in 1..Len(b)}
                        \/ \A i \in 1..Len(b) : b[i].mark <= mark[s]

Batches == UNION {[1..n -> {Row(s) : s \in Invalid}] : n \in 0..Batch}

AtWork(at, batch) == [at |-> at, batch |-> batch, seen |-> {}, upTo |-> None]
NextSession(batch) == IF batch = << >> THEN Waiting ELSE AtWork("next", batch)

Tick ==
  /\ worker.at = "waiting"
  /\ \E b \in Batches : IsBatch(b) /\ worker' = NextSession(b)
  /\ UNCHANGED <<historyVars, mark, done, agentVars, routed, unmarked, setBack, budgetVars>>

This == worker.batch[1]

\* Mutant: the records after the mark, not those after processed_until.
NewAfterMark(item) == {r \in rows[item.session] : r > item.mark}

New(item) == {r \in rows[item.session] : r > item.done}

(* The agent and its user are looked up.  Sessions of a skipped kind are   *)
(* dismissed; of the others the new records are read, and what holds no    *)
(* record that a transcript shows is dismissed as well.                    *)
Read ==
  /\ worker.at = "next"
  /\ worker' = IF This.session[1] \in skipped \/ New(This) \cap shown = {}
                 THEN [worker EXCEPT !.at = "dismiss", !.upTo = This.mark]
                 ELSE [worker EXCEPT !.at = "read", !.seen = New(This)]
  /\ UNCHANGED <<historyVars, mark, done, agentVars, routed, unmarked, setBack, budgetVars>>

(* postToAgent(): the transcript is in the memory agent's inbox.           *)
Post ==
  /\ worker.at = "read"
  /\ worker' = [worker EXCEPT !.at = "posted"]
  /\ routed' = routed \cup (worker.seen \cap shown)
  /\ UNCHANGED <<historyVars, mark, done, agentVars, unmarked, setBack, budgetVars>>

ReadNewMaxId ==
  /\ worker.at = "posted"
  /\ \E m \in Ids : IsMaxId(m, This.session)
                    /\ worker' = [worker EXCEPT !.at = "clear", !.upTo = m]
  /\ UNCHANGED <<historyVars, mark, done, agentVars, routed, unmarked, setBack, budgetVars>>

\* Mutant: the mark is cleared without the comparison.
AlwaysUnchanged(item) == TRUE

\* SessionsRepository.markProcessed(): a compare and swap on the mark.
Unchanged(item) == mark[item.session] = item.mark

\* What the update writes: nothing keeps processed_until from going back.
Clears(s, upTo) ==
  /\ mark' = [mark EXCEPT ![s] = None]
  /\ done' = [done EXCEPT ![s] = upTo]
  /\ setBack' = setBack \cup {r \in rows[s] : upTo < r /\ r <= done[s]}

\* Mutant: processed_until becomes the mark, not the largest id.
ProcessedToMark ==
  /\ worker.at \in {"dismiss", "clear"}
  /\ worker' = NextSession(Tail(worker.batch))
  /\ IF Unchanged(This)
       THEN Clears(This.session, This.mark) /\ UNCHANGED unmarked
       ELSE /\ unmarked' = unmarked \cup worker.seen
            /\ UNCHANGED <<mark, done, setBack>>
  /\ UNCHANGED <<historyVars, agentVars, routed, budgetVars>>

MarkProcessed ==
  /\ worker.at \in {"dismiss", "clear"}
  /\ worker' = NextSession(Tail(worker.batch))
  /\ IF Unchanged(This)
       THEN Clears(This.session, worker.upTo) /\ UNCHANGED unmarked
       ELSE /\ unmarked' = unmarked \cup worker.seen
            /\ UNCHANGED <<mark, done, setBack>>
  /\ UNCHANGED <<historyVars, agentVars, routed, budgetVars>>

Sent == IF worker.at \in {"posted", "clear"} THEN worker.seen ELSE {}

(* A call throws: the rest of the batch waits for the next tick.           *)
TickFails ==
  /\ worker.at # "waiting"
  /\ mishaps < MaxMishaps
  /\ mishaps' = mishaps + 1
  /\ worker' = Waiting
  /\ unmarked' = unmarked \cup Sent
  /\ UNCHANGED <<historyVars, mark, done, tasks, agentVars, routed, setBack>>

-----------------------------------------------------------------------------
(* A crash, and the boot after it: an agent that is neither asleep nor     *)
(* dead is restored and handles a restore item.                            *)
MemoryRestart ==
  /\ mishaps < MaxMishaps
  /\ mishaps' = mishaps + 1
  /\ loop' = [a \in Agents |-> IF a \in asleep \cup killed THEN Resting ELSE Step("turn")]
  /\ task' = [a \in Agents |-> NoTask]
  /\ cut' = cut \cup UNION {CutShort(a) : a \in asleep \cup killed}
  /\ current' = active
  /\ endTurns' = [a \in Agents |-> 0]
  /\ worker' = Waiting
  /\ unmarked' = unmarked \cup Sent
  /\ UNCHANGED <<historyVars, mark, done, opened, active, asleep, killed, tasks,
                 routed, setBack>>

AgentStep(a) ==
  \/ EndTurn(a) \/ Sleep(a) \/ SleepReturns(a) \/ ReadMaxId(a) \/ Mark(a)
  \/ OpenSession(a) \/ SwitchSession(a)

TaskStep(a) == TaskSleeps(a) \/ TaskReturns(a) \/ TaskReadsMaxId(a) \/ TaskMarks(a)

WorkerStep == Tick \/ Read \/ Post \/ ReadNewMaxId \/ MarkProcessed

MemoryNext ==
  \/ \E a \in Agents : \/ AgentStep(a) \/ StartTurn(a) \/ Say(a) \/ RunCode(a)
                       \/ StartReset(a) \/ ItemFails(a) \/ Wake(a) \/ Kill(a)
                       \/ TaskStarts(a) \/ TaskStep(a) \/ TaskFails(a)
  \/ WorkerStep \/ TickFails
  \/ MemoryRestart

(* Sleep is fair as an item is not always waiting: the inbox of an agent   *)
(* is empty now and then.  A turn ends, and so does a task.                *)
MemoryFairness ==
  /\ \A a \in Agents : /\ WF_memoryVars(AgentStep(a)) /\ WF_memoryVars(TaskStep(a))
                       /\ SF_memoryVars(Sleep(a) \/ SleepReturns(a))
  /\ WF_memoryVars(WorkerStep)

MemorySpec == MemoryInit /\ [][MemoryNext]_memoryVars /\ MemoryFairness

-----------------------------------------------------------------------------
\* The agent, or a task for it, has not finished with the session.
StillAt(s) ==
  /\ s = Mine(s[1])
  /\ \/ loop[s[1]].at # "resting"
     \/ TaskMarking(s[1])
     \/ s[1] \notin asleep \cup killed

NewShown(s) == {r \in (rows[s] \cap shown) \ setBack : r > done[s]}

(* No record is forgotten: as long as a session holds a record that        *)
(* processed_until has not passed, the session is marked, or its agent is  *)
(* still at it, or the agent was seen to stop without marking it: a call   *)
(* failed, a crash came, it was killed, or its sleepIfIdle() found it      *)
(* asleep, by a task, in the middle of its item.  It rests on the `<` of   *)
(* invalidate() and the compare and swap of markProcessed().               *)
NothingUnannounced ==
  \A s \in Sessions :
    NewShown(s) # {} => mark[s] # None \/ StillAt(s) \/ s \in cut

(* processed_until passes a record that no transcript held only if the     *)
(* record came between the worker's read and its second look at the        *)
(* largest id.                                                             *)
SkippedOnlyInWindow ==
  \A s \in Sessions : s[1] \notin skipped =>
    \A r \in rows[s] \cap shown : r <= done[s] => r \in routed \cup late

(* A record is sent to memory twice only if its session was marked again   *)
(* meanwhile, the tick failed or crashed between the two, or the mark of a *)
(* task was so old that processed_until went back behind the record.       *)
AgainOnlyIfUnmarked ==
  [][Post => worker.seen \cap shown \cap routed \subseteq unmarked \cup setBack]_memoryVars

(* What an agent said is processed, unless the agent's item failed and     *)
(* left it awake or the agent was seen to stop without the mark.           *)
EveryRecordIsProcessed ==
  \A r \in Ids : r \in shown ~>
    \E s \in Sessions :
      /\ r \in rows[s]
      /\ \/ r <= done[s] \/ r \in setBack
         \/ s \in cut
         \/ /\ loop[s[1]].at = "resting" /\ task[s[1]].at = "none"
            /\ s[1] \notin asleep \cup killed
=============================================================================
