----------------------------- MODULE AgentSystem -----------------------------
(***************************************************************************)
(* The lifecycle of one agent: engine/agents/agentSystem.ts, the loop of   *)
(* engine/agents/agent.ts and the queue of engine/agents/ops/agentInbox.ts.*)
(*                                                                         *)
(* An agent is a database record with a lifecycle, rows of the durable     *)
(* inbox and a history.  When it is loaded it also has an AgentEntry: the  *)
(* state in memory, an in-memory queue, a lock and a loop.  Several tasks  *)
(* act on it at once: callers of postAndAwait() (Posters), of kill()       *)
(* (Killers), of steer() (Steerers), of taskExecuteAndAwait() (Runners),   *)
(* the poison-pill timer (Pill) and the loop of each entry.  Each step     *)
(* below is what a task does between two awaits that another task or a     *)
(* crash can see.  An entry is named by a number, and its loop, which      *)
(* takes locks like the other tasks, by the same number.                   *)
(***************************************************************************)
EXTENDS AsyncLock, FiniteSets, FiniteSetsExt, SequencesExt

CONSTANTS
  Posters,          \* tasks that post one item each and await its completion
  Messages,         \* the posters whose item is a message: messages merge
  ConnectorPosters, \* the posters that find the agent by its connector
  Killers, Steerers, Runners,
  Pill,             \* the poison-pill timer and the task it starts
  PoisonPillKind,   \* poisonPillKindIs(config.kind)
  Starts,           \* Init: the agent is "loaded", new, or "asleep" on disk
  MaxEntries,       \* bound: AgentEntries made between two restarts
  MaxRestarts,      \* bound: crashes
  Restore           \* the id of the synthetic restore item

Tasks == Posters \cup Killers \cup Steerers \cup Runners \cup {Pill}
Sources == Posters \cup {Pill}     \* whoever puts items in the inbox
Entries == 1..MaxEntries
Actors == Tasks \cup Entries

ASSUME AgentSystemAssumption ==
  /\ Messages \subseteq Posters /\ ConnectorPosters \subseteq Posters
  /\ IsFiniteSet(Posters)
  /\ Posters \cap (Killers \cup Steerers \cup Runners) = {}
  /\ Killers \cap (Steerers \cup Runners) = {} /\ Steerers \cap Runners = {}
  /\ Pill \notin Posters \cup Killers \cup Steerers \cup Runners
  /\ Tasks \cap Entries = {}
  /\ PoisonPillKind \in BOOLEAN /\ Starts \subseteq {"loaded", "asleep"}
  /\ MaxEntries \in Nat \ {0} /\ MaxRestarts \in Nat
  /\ Restore \notin Tasks

VARIABLES
  life,      \* agents.lifecycle in the database
  rows,      \* the agent's rows of the inbox table
  stamp,     \* postedAt of each source's item, 0 before it is posted
  phase,     \* the unfinished executions the history shows: of a "turn", of
             \* a "task", or one that was "left" open by what has ended
  pillTimer, \* the poison-pill signal is scheduled
  map,       \* AgentSystem.entries.get(agentId), 0 when it is not loaded
  created,   \* the entries made since the last restart
  ent,       \* the AgentEntry objects
  pc,        \* where each task and each loop is
  at,        \* the entry a task captured or whose lock a loop wants
  seen,      \* the lifecycle a task has read, or that it woke the agent
  held,      \* the rows a task has read, or the merged item it will write
  times,     \* how often the history records the item of a source
  outcome,   \* the completion of each source's item
  mistaken,  \* observed: sources whose row a replay dropped though no turn was
             \* unfinished but of an item that had ended, or of a task
  restarts

durableVars == <<life, rows, stamp, phase, pillTimer>>
ghostVars == <<times, outcome, mistaken>>
noted == <<seen, held>>
vars == <<durableVars, map, created, ent, pc, at, noted, ghostVars, restarts>>

\* An inbox entry: a merged one holds the parts of several messages.
Item(s) == [id |-> s, parts |-> {s}]
RestoreItem == [id |-> Restore, parts |-> {}]
NoItem == [id |-> 0, parts |-> {}]
Items == [id : Sources, parts : SUBSET Sources]
QueueItems == Items \cup {RestoreItem}

Lifecycles == {"active", "sleeping", "dead"}
Nothing == "nothing"

NoEntry == [state |-> "active", terminating |-> FALSE, lock |-> FreeLock,
            queue |-> << >>, current |-> NoItem]

NewEntry(state) == [NoEntry EXCEPT !.state = state]

Ended == {"done", "posted", "rejected", "gone"}
LoopSteps == {"off", "next", "waiting", "taken", "recorded", "open", "computed",
              "handled", "idling", "scheduling", "answering"}
TaskSteps == {"idle", "restoring", "replaying", "queueing", "resolved", "waking",
              "inserting", "enqueueing", "mergeDelete", "mergeUpsert",
              "executing", "executed", "idling", "scheduling",
              "due", "killing", "draining", "killWrite", "killClear"} \cup Ended

TypeOK ==
  /\ life \in Lifecycles
  /\ rows \subseteq Items
  /\ stamp \in [Sources -> 0..Cardinality(Sources)]
  /\ phase \subseteq {"turn", "task", "left"}
  /\ pillTimer \in BOOLEAN
  /\ map \in 0..created /\ created \in 0..MaxEntries
  /\ ent \in [Entries -> [state : Lifecycles, terminating : BOOLEAN,
                          lock : LockType(Actors), queue : Seq(QueueItems),
                          current : QueueItems \cup {NoItem}]]
  /\ pc \in [Actors -> TaskSteps \cup LoopSteps]
  /\ at \in [Actors -> 0..created]
  /\ seen \in [Actors -> Lifecycles \cup {Nothing, "woke"}]
  /\ held \in [Actors -> SUBSET Items]
  /\ times \in [Sources -> Nat]
  /\ outcome \in [Sources -> {"pending", "resolved", "rejected"}]
  /\ mistaken \subseteq Sources
  /\ restarts \in 0..MaxRestarts

Init ==
  /\ life \in {IF start = "loaded" THEN "active" ELSE "sleeping" : start \in Starts}
  /\ rows = {} /\ phase = {}
  /\ stamp = [s \in Sources |-> 0]
  /\ pillTimer = (PoisonPillKind /\ life = "sleeping")
  /\ map = (IF life = "active" THEN 1 ELSE 0) /\ created = map
  /\ ent = [e \in Entries |-> NoEntry]
  /\ pc = [x \in Actors |-> IF x \in Tasks THEN "idle" ELSE "off"]
  /\ at = [x \in Actors |-> 0]
  /\ seen = [x \in Actors |-> Nothing] /\ held = [x \in Actors |-> {}]
  /\ times = [s \in Sources |-> 0]
  /\ outcome = [s \in Sources |-> "pending"] /\ mistaken = {}
  /\ restarts = 0

-----------------------------------------------------------------------------
(* Entries, their locks and their queues. *)

Goes(x, step) == pc' = [pc EXCEPT ![x] = step]

Requested(e, x) == [ent EXCEPT ![e].lock = LockRequest(@, x)]

\* x runs its section under the lock of the entry it captured.
Granted(x) ==
  \A i \in 1..Len(ent[at[x]].lock.queue) : ent[at[x]].lock.queue[i] # x

Unlocked(entries, x) == [entries EXCEPT ![at[x]].lock = LockRelease(@)]

\* Mutant: a queued item does not start the loop.
NotStarted(e, pcs) == pcs

\* startEntryIfRunning(): a loop is started once.
Started(e, pcs) == IF pcs[e] = "off" THEN [pcs EXCEPT ![e] = "next"] ELSE pcs

Gone(e) == ent[e].state = "dead" \/ ent[e].terminating

\* Mutant: newest first.
ByStampDescending(items) ==
  CHOOSE q \in SetToSeqs(items) : \A i, j \in DOMAIN q : i < j => stamp[q[i].id] > stamp[q[j].id]

\* findByAgentId(): ordered by postedAt.
ByStamp(items) ==
  CHOOSE q \in SetToSeqs(items) : \A i, j \in DOMAIN q : i < j => stamp[q[i].id] < stamp[q[j].id]

\* Mutant: the completions are forgotten.
NotRejected(parts) == outcome

Rejected(parts) ==
  [s \in Sources |-> IF s \in parts /\ outcome[s] = "pending" THEN "rejected"
                     ELSE outcome[s]]
Resolved(parts) ==
  [s \in Sources |-> IF s \in parts /\ outcome[s] = "pending" THEN "resolved"
                     ELSE outcome[s]]

PartsOf(items) == UNION {items[i].parts : i \in 1..Len(items)}

-----------------------------------------------------------------------------
(* resolveEntry() and restoreAgent(): find the entry or make one.  The     *)
(* agent looked up by its connector is not checked for being dead.         *)

ResolveLoaded(x) ==
  /\ pc[x] = "idle" /\ x \in Posters \cup Runners
  /\ map # 0
  /\ IF Gone(map) /\ x \notin ConnectorPosters
       THEN Goes(x, "rejected") /\ UNCHANGED at
       ELSE Goes(x, "resolved") /\ at' = [at EXCEPT ![x] = map]
  /\ UNCHANGED <<durableVars, map, created, ent, noted, ghostVars, restarts>>

RestoreRead(x) ==
  /\ pc[x] = "idle" /\ x \in Posters \cup Runners
  /\ map = 0
  /\ seen' = [seen EXCEPT ![x] = life]
  /\ Goes(x, "restoring")
  /\ UNCHANGED <<held, durableVars, map, created, ent, at, ghostVars, restarts>>

(* The state was read some awaits ago; another task may have restored or   *)
(* killed the agent since, and the new entry replaces the one in the map.  *)
RestoreRegister(x) ==
  /\ pc[x] = "restoring"
  /\ \/ /\ seen[x] = "dead"
        /\ Goes(x, "rejected")
        /\ UNCHANGED <<map, created, ent, at>>
     \/ /\ seen[x] # "dead" /\ created < MaxEntries
        /\ created' = created + 1 /\ map' = created'
        /\ ent' = [ent EXCEPT ![created'] =
             [NewEntry(seen[x]) EXCEPT !.queue = <<RestoreItem>>,
                                       !.lock = LockRequest(@, x)]]
        /\ at' = [at EXCEPT ![x] = created']
        /\ Goes(x, "replaying")
  /\ seen' = [seen EXCEPT ![x] = Nothing]
  /\ UNCHANGED <<held, durableVars, ghostVars, restarts>>

(* replayPersistedInboxItems(), under the lock: read the rows ... *)
ReplayRead(x) ==
  /\ pc[x] = "replaying" /\ Granted(x)
  /\ held' = [held EXCEPT ![x] = rows]
  /\ Goes(x, "queueing")
  /\ UNCHANGED <<seen, durableVars, map, created, ent, at, ghostVars, restarts>>

\* agentLoopPendingPhaseResolve() finds an unfinished execution.
PendingPhase == phase # {}

\* Mutant: the oldest row is dropped whatever the history shows.
AlwaysStale(items) == IF items = {} THEN {} ELSE {ByStamp(items)[1]}

\* The row taken for the one that was in flight when the history shows an
\* unfinished execution: the oldest.
StaleInFlight(items) ==
  IF PendingPhase /\ items # {} THEN {ByStamp(items)[1]} ELSE {}

\* Only the unfinished execution of a turn has its row among them.
ObservesDrop ==
  mistaken' = mistaken \cup
    IF PendingPhase /\ "turn" \notin phase
      THEN UNION {r.parts : r \in rows \ rows'} ELSE {}

(* ... drop the one in flight, queue the others, and start the loop. *)
ReplayQueue(x) ==
  /\ pc[x] = "queueing"
  /\ rows' = {r \in rows : r.id \notin {i.id : i \in StaleInFlight(held[x])}}
  /\ ent' = Unlocked([ent EXCEPT ![at[x]].queue =
              @ \o ByStamp(held[x] \ StaleInFlight(held[x]))], x)
  /\ pc' = Started(at[x], [pc EXCEPT ![x] = "resolved"])
  /\ held' = [held EXCEPT ![x] = {}]
  /\ ObservesDrop
  /\ UNCHANGED <<seen, life, stamp, phase, pillTimer, map, created, at, times, outcome,
                 restarts>>

-----------------------------------------------------------------------------
(* enqueueEntry(), and the wake-ups of steer() and taskExecuteAndAwait().  *)

EnterLock(x) ==
  /\ pc[x] = "resolved"
  /\ ent' = Requested(at[x], x)
  /\ Goes(x, "waking")
  /\ UNCHANGED <<durableVars, map, created, at, noted, ghostVars, restarts>>

Steer(x) ==
  /\ pc[x] = "idle" /\ x \in Steerers
  /\ IF map = 0
       THEN Goes(x, "rejected") /\ UNCHANGED <<ent, at>>
       ELSE /\ at' = [at EXCEPT ![x] = map]
            /\ ent' = Requested(map, x)
            /\ Goes(x, "waking")
  /\ UNCHANGED <<durableVars, map, created, noted, ghostVars, restarts>>

\* Mutant: the timer is not cancelled.
WokenWithTimer(e) ==
  IF ent[e].state = "sleeping"
    THEN /\ ent' = [ent EXCEPT ![e].state = "active"]
         /\ life' = "active" /\ UNCHANGED pillTimer
    ELSE UNCHANGED <<ent, life, pillTimer>>

\* wakeEntryIfSleeping()
WokenIfSleeping(e) ==
  IF ent[e].state = "sleeping"
    THEN /\ ent' = [ent EXCEPT ![e].state = "active"]
         /\ life' = "active" /\ pillTimer' = FALSE
    ELSE UNCHANGED <<ent, life, pillTimer>>

WakeAndInsert(x) ==
  /\ pc[x] = "waking" /\ Granted(x) /\ x \in Sources
  /\ WokenIfSleeping(at[x])
  /\ Goes(x, "inserting")
  /\ UNCHANGED <<rows, stamp, phase, map, created, at, noted, ghostVars, restarts>>

\* Steerers and runners only wake the agent; a runner remembers if it did.
WakeOnly(x) ==
  /\ pc[x] = "waking" /\ Granted(x) /\ x \in Steerers \cup Runners
  /\ LET asleep == ent[at[x]].state = "sleeping"
         awake == [ent EXCEPT ![at[x]].state = IF asleep THEN "active" ELSE @] IN
       /\ ent' = Unlocked(awake, x)
       /\ life' = IF asleep THEN "active" ELSE life
       /\ pillTimer' = (pillTimer /\ ~asleep)
       /\ seen' = [seen EXCEPT ![x] = IF asleep /\ x \in Runners THEN "woke" ELSE @]
  /\ pc' = IF x \in Steerers THEN Started(at[x], [pc EXCEPT ![x] = "done"])
           ELSE [pc EXCEPT ![x] = "executing"]
  /\ UNCHANGED <<held, rows, stamp, phase, map, created, at, ghostVars, restarts>>

(* The row is written before the item is queued. *)
InsertRow(x) ==
  /\ pc[x] = "inserting"
  /\ stamp' = [stamp EXCEPT ![x] = 1 + Cardinality({s \in Sources : stamp[s] > 0})]
  /\ rows' = rows \cup {Item(x)}
  /\ Goes(x, "enqueueing")
  /\ UNCHANGED <<life, phase, pillTimer, map, created, ent, at, noted, ghostVars, restarts>>

\* mergePendingMessage() finds a message at the end of the queue.
Merges(x) ==
  LET q == ent[at[x]].queue IN
  x \in Messages /\ q # << >> /\ Last(q).id \in Messages

\* Mutant: the item handed to the loop is queued as well.
PostedTwice(e, item) ==
  [ent EXCEPT ![e].current = IF pc[e] = "waiting" THEN item ELSE @,
              ![e].queue = Append(@, item)]

\* AgentInbox.post(): a loop that waits in next() is handed the item.
Posted(e, item) ==
  IF pc[e] = "waiting" THEN [ent EXCEPT ![e].current = item]
  ELSE [ent EXCEPT ![e].queue = Append(@, item)]

Enqueue(x) ==
  /\ pc[x] = "enqueueing" /\ ~Merges(x)
  /\ ent' = Unlocked(Posted(at[x], Item(x)), x)
  /\ pc' = Started(at[x], [pc EXCEPT
              ![x] = "posted",
              ![at[x]] = IF @ = "waiting" THEN "taken" ELSE @])
  /\ UNCHANGED <<durableVars, map, created, at, noted, ghostVars, restarts>>

(* A message merged into the last one: its own row goes, and the row of    *)
(* the message it was merged into is written again.                        *)
EnqueueMerged(x) ==
  /\ pc[x] = "enqueueing" /\ Merges(x)
  /\ LET q == ent[at[x]].queue
         merged == [Last(q) EXCEPT !.parts = @ \cup {x}] IN
       /\ ent' = [ent EXCEPT ![at[x]].queue = Front(q) \o <<merged>>]
       /\ held' = [held EXCEPT ![x] = {merged}]
  /\ Goes(x, "mergeDelete")
  /\ UNCHANGED <<seen, durableVars, map, created, at, ghostVars, restarts>>

MergeDelete(x) ==
  /\ pc[x] = "mergeDelete"
  /\ rows' = {r \in rows : r.id # x}
  /\ Goes(x, "mergeUpsert")
  /\ UNCHANGED <<life, stamp, phase, pillTimer, map, created, ent, at, noted,
                 ghostVars, restarts>>

MergeUpsert(x) ==
  /\ pc[x] = "mergeUpsert"
  /\ rows' = {r \in rows : \A m \in held[x] : r.id # m.id} \cup held[x]
  /\ ent' = Unlocked(ent, x)
  /\ pc' = Started(at[x], [pc EXCEPT ![x] = "posted"])
  /\ held' = [held EXCEPT ![x] = {}]
  /\ UNCHANGED <<seen, life, stamp, phase, pillTimer, map, created, at, ghostVars, restarts>>

-----------------------------------------------------------------------------
(* runLoop(): the entry's loop takes an item, handles it, lets the agent   *)
(* fall asleep, answers and deletes the row.                               *)

LoopNext(e) ==
  /\ pc[e] = "next"
  /\ IF ent[e].queue = << >>
       THEN Goes(e, "waiting") /\ UNCHANGED ent
       ELSE /\ ent' = [ent EXCEPT ![e].current = Head(ent[e].queue),
                                  ![e].queue = Tail(@)]
            /\ Goes(e, "taken")
  /\ UNCHANGED <<durableVars, map, created, at, noted, ghostVars, restarts>>

\* What handleRestore() leaves of the phase: one execution is completed.  None
\* is when completing it throws, and one that lies before the latest assistant
\* turn, or that a task started alone, agentHistoryPendingLoad() does not find.
AfterRestore == {phase \ {f} : f \in phase} \cup {phase}

HandleRestore(e) ==
  /\ pc[e] = "taken" /\ ent[e].current = RestoreItem
  /\ phase' \in AfterRestore
  /\ life' = ent[e].state
  /\ Goes(e, "handled")
  /\ UNCHANGED <<rows, stamp, pillTimer, map, created, ent, at, noted, ghostVars, restarts>>

(* The user record of the item is appended to the history. *)
Record(e) ==
  /\ pc[e] = "taken" /\ ent[e].current # RestoreItem
  /\ times' = [s \in Sources |->
                 IF s \in ent[e].current.parts THEN times[s] + 1 ELSE times[s]]
  /\ Goes(e, "recorded")
  /\ UNCHANGED <<durableVars, map, created, ent, at, noted, outcome, mistaken, restarts>>

(* The model answers with code to run, and the code ends.  An execution    *)
(* left open by an earlier item stays so, unless its code was never begun: *)
(* then the new answer hides it.                                           *)
OpenTurn(e) ==
  /\ pc[e] = "recorded"
  /\ \E hidden \in SUBSET {"left"} : phase' = (phase \ hidden) \cup {"turn"}
  /\ Goes(e, "open")
  /\ UNCHANGED <<life, rows, stamp, pillTimer, map, created, ent, at, noted,
                 ghostVars, restarts>>

CloseTurn(e) ==
  /\ pc[e] = "open"
  /\ phase' = phase \ {"turn"}
  /\ Goes(e, "computed")
  /\ UNCHANGED <<life, rows, stamp, pillTimer, map, created, ent, at, noted,
                 ghostVars, restarts>>

\* The steps of a turn at which it may end.
InTurn == {"recorded", "open", "computed"}

\* A turn that is aborted, or whose agentLoopRun() throws, leaves its
\* execution unfinished in the history.
PhaseLeft(e) ==
  IF pc[e] = "open" THEN (phase \ {"turn"}) \cup {"left"} ELSE phase

(* The handler ends with agentStateWrite(), after an abort or an error of  *)
(* agentLoopRun(), which catches both, as after any other turn.            *)
FinishTurn(e) ==
  /\ pc[e] \in InTurn
  /\ phase' = PhaseLeft(e)
  /\ life' = ent[e].state
  /\ Goes(e, "handled")
  /\ UNCHANGED <<rows, stamp, pillTimer, map, created, ent, at, noted, ghostVars, restarts>>

(* The handler throws: no sleep, the completion is rejected. *)
FailTurn(e) ==
  /\ pc[e] \in InTurn
  /\ phase' = PhaseLeft(e)
  /\ outcome' = Rejected(ent[e].current.parts)
  /\ Goes(e, "answering")
  /\ UNCHANGED <<life, rows, stamp, pillTimer, map, created, ent, at, noted, times,
                 mistaken, restarts>>

(* The completion is resolved and the row deleted. *)
Answer(e) ==
  /\ pc[e] = "answering"
  /\ outcome' = Resolved(ent[e].current.parts)
  /\ rows' = {r \in rows : r.id # ent[e].current.id}
  /\ ent' = [ent EXCEPT ![e].current = NoItem]
  /\ Goes(e, "next")
  /\ UNCHANGED <<life, stamp, phase, pillTimer, map, created, at, noted, times,
                 mistaken, restarts>>

-----------------------------------------------------------------------------
(* sleepIfIdle(), called by a loop and by a task that woke the agent: it   *)
(* works on the entry in the map, whoever calls it.                        *)

AfterSleep(x) == IF x \in Entries THEN "answering" ELSE "done"

WantsSleep(x) == pc[x] = "handled"

SleepRequest(x) ==
  /\ WantsSleep(x)
  /\ IF map = 0
       THEN Goes(x, AfterSleep(x)) /\ UNCHANGED <<ent, at>>
       ELSE /\ at' = [at EXCEPT ![x] = map]
            /\ ent' = Requested(map, x)
            /\ Goes(x, "idling")
  /\ UNCHANGED <<durableVars, map, created, noted, ghostVars, restarts>>

\* Mutant: the queue is not looked at.
StaysAsleepOnly(e) == ent[e].state = "sleeping"

StaysAwake(e) == ent[e].queue # << >> \/ ent[e].state = "sleeping"

FallAsleep(x) ==
  /\ pc[x] = "idling" /\ Granted(x)
  /\ IF StaysAwake(at[x])
       THEN /\ ent' = Unlocked(ent, x)
            /\ Goes(x, AfterSleep(x))
            /\ UNCHANGED life
       ELSE /\ ent' = [ent EXCEPT ![at[x]].state = "sleeping"]
            /\ life' = "sleeping"
            /\ Goes(x, "scheduling")
  /\ UNCHANGED <<rows, stamp, phase, pillTimer, map, created, at, noted,
                 ghostVars, restarts>>

SchedulePoisonPill(x) ==
  /\ pc[x] = "scheduling"
  /\ pillTimer' = (pillTimer \/ PoisonPillKind)
  /\ ent' = Unlocked(ent, x)
  /\ Goes(x, AfterSleep(x))
  /\ UNCHANGED <<life, rows, stamp, phase, map, created, at, noted, ghostVars, restarts>>

-----------------------------------------------------------------------------
(* taskExecuteAndAwait() runs code beside the loop, without an item, and   *)
(* lets an agent it woke fall asleep again; an agent of the kind "task",   *)
(* which it always lets fall asleep, is not the one modelled here.         *)

StartTask(x) ==
  /\ pc[x] = "executing"
  /\ phase' = phase \cup {"task"}
  /\ Goes(x, "executed")
  /\ UNCHANGED <<life, rows, stamp, pillTimer, map, created, ent, at, noted,
                 ghostVars, restarts>>

EndTask(x) ==
  /\ pc[x] = "executed"
  /\ \E left \in SUBSET {"left"} : phase' = (phase \ {"task"}) \cup left
  /\ Goes(x, IF seen[x] = "woke" THEN "handled" ELSE "done")
  /\ seen' = [seen EXCEPT ![x] = Nothing]
  /\ UNCHANGED <<held, life, rows, stamp, pillTimer, map, created, ent, at, ghostVars, restarts>>

-----------------------------------------------------------------------------
(* kill(), handlePoisonPill() and markEntryDead(). *)

Terminated(e, x) ==
  [ent EXCEPT ![e].terminating = TRUE, ![e].lock = LockRequest(@, x)]

KillLoaded(x) ==
  /\ pc[x] = "idle" /\ x \in Killers
  /\ map # 0
  /\ at' = [at EXCEPT ![x] = map]
  /\ ent' = Terminated(map, x)
  /\ Goes(x, "killing")
  /\ UNCHANGED <<durableVars, map, created, noted, ghostVars, restarts>>

KillUnloaded(x) ==
  /\ pc[x] = "idle" /\ x \in Killers
  /\ map = 0
  /\ seen' = [seen EXCEPT ![x] = life]
  /\ Goes(x, "killWrite")
  /\ UNCHANGED <<held, durableVars, map, created, ent, at, ghostVars, restarts>>

(* The timer is due: its delivery has read the record of the signal, so a  *)
(* cancellation from here on comes too late.                               *)
PillDue ==
  /\ pc[Pill] = "idle" /\ pillTimer
  /\ Goes(Pill, "due")
  /\ UNCHANGED <<durableVars, map, created, ent, at, noted, ghostVars, restarts>>

(* The signal arrives.  An active agent is sent a last item first.  The    *)
(* delivery deletes the record it has read, once the signal is out: one    *)
(* that was scheduled since it read is another and stays.                  *)
PillFires ==
  /\ pc[Pill] = "due"
  /\ pillTimer' \in {FALSE, pillTimer}
  /\ \/ /\ map # 0 /\ ent[map].state = "dead"
        /\ Goes(Pill, "idle")
        /\ UNCHANGED <<ent, at, seen>>
     \/ /\ map # 0 /\ ent[map].state = "active"
        /\ ent' = [ent EXCEPT ![map].terminating = TRUE]
        /\ at' = [at EXCEPT ![Pill] = map]
        /\ Goes(Pill, "resolved")
        /\ UNCHANGED seen
     \/ /\ map # 0 /\ ent[map].state = "sleeping"
        /\ ent' = Terminated(map, Pill)
        /\ at' = [at EXCEPT ![Pill] = map]
        /\ Goes(Pill, "killing")
        /\ UNCHANGED seen
     \/ /\ map = 0
        /\ seen' = [seen EXCEPT ![Pill] = life]
        /\ Goes(Pill, IF life = "dead" THEN "done" ELSE "killWrite")
        /\ UNCHANGED <<ent, at>>
  /\ UNCHANGED <<held, life, rows, stamp, phase, map, created, ghostVars, restarts>>

PillHandled ==
  /\ pc[Pill] = "posted" /\ outcome[Pill] # "pending"
  /\ ent' = Terminated(at[Pill], Pill)
  /\ Goes(Pill, "killing")
  /\ UNCHANGED <<durableVars, map, created, at, noted, ghostVars, restarts>>

MarkDead(x) ==
  /\ pc[x] = "killing" /\ Granted(x)
  /\ IF ent[at[x]].state = "dead"
       THEN /\ ent' = Unlocked(ent, x)
            /\ Goes(x, "done")
            /\ UNCHANGED <<life, pillTimer>>
       ELSE /\ ent' = [ent EXCEPT ![at[x]].state = "dead"]
            /\ life' = "dead" /\ pillTimer' = FALSE
            /\ Goes(x, "draining")
  /\ UNCHANGED <<rows, stamp, phase, map, created, at, noted, ghostVars, restarts>>

(* The queue is drained and its completions are rejected, the rows and the *)
(* entry in the map are deleted.  The loop is not stopped.                 *)
Drain(x) ==
  /\ pc[x] = "draining"
  /\ rows' = {}
  /\ outcome' = Rejected(PartsOf(ent[at[x]].queue))
  /\ ent' = Unlocked([ent EXCEPT ![at[x]].queue = << >>], x)
  /\ map' = 0
  /\ Goes(x, "done")
  /\ UNCHANGED <<life, stamp, phase, pillTimer, created, at, noted, times, mistaken,
                 restarts>>

(* Of an agent that was not loaded the record is overwritten. *)
KillWrite(x) ==
  /\ pc[x] = "killWrite"
  /\ life' = (IF seen[x] = "dead" THEN life ELSE "dead")
  /\ pillTimer' = FALSE
  /\ Goes(x, "killClear")
  /\ UNCHANGED <<rows, stamp, phase, map, created, ent, at, noted, ghostVars, restarts>>

KillClear(x) ==
  /\ pc[x] = "killClear"
  /\ rows' = {}
  /\ seen' = [seen EXCEPT ![x] = Nothing]
  /\ Goes(x, "done")
  /\ UNCHANGED <<held, life, stamp, phase, pillTimer, map, created, ent, at, ghostVars, restarts>>

-----------------------------------------------------------------------------
(* The process crashes and starts again: load() and start(), which nothing *)
(* interrupts.  An agent that is dead or asleep is not loaded.             *)

Restart ==
  /\ restarts < MaxRestarts
  /\ restarts' = restarts + 1
  /\ pillTimer' = (IF life = "active" THEN pillTimer
                   ELSE life = "sleeping" /\ PoisonPillKind)
  /\ created' = (IF life = "active" THEN 1 ELSE 0) /\ map' = created'
  /\ at' = [x \in Actors |-> 0]
  /\ seen' = [x \in Actors |-> Nothing] /\ held' = [x \in Actors |-> {}]
  /\ pc' = [x \in Actors |->
              IF x \in Entries THEN IF x = map' THEN "next" ELSE "off"
              ELSE IF pc[x] = "due" THEN "idle"
              ELSE IF x = Pill /\ pc[x] = "posted" THEN "gone"
              ELSE IF pc[x] \in Ended \cup {"idle"} THEN pc[x]
              ELSE IF pc[x] \in {"draining", "killClear"} THEN "done"
              ELSE "gone"]
  /\ LET dropped == IF life = "active" THEN StaleInFlight(rows) ELSE {} IN
       /\ rows' = rows \ dropped
       /\ ent' = [e \in Entries |->
                    IF e = map' THEN [NoEntry EXCEPT !.queue = <<RestoreItem>> \o ByStamp(rows')]
                    ELSE NoEntry]
  /\ ObservesDrop
  /\ UNCHANGED <<life, stamp, phase, times, outcome>>

-----------------------------------------------------------------------------
Resolving(x) == ResolveLoaded(x) \/ RestoreRead(x)

TaskStep(x) ==
  \/ RestoreRegister(x) \/ ReplayRead(x) \/ ReplayQueue(x)
  \/ EnterLock(x) \/ WakeAndInsert(x) \/ WakeOnly(x) \/ InsertRow(x)
  \/ Enqueue(x) \/ EnqueueMerged(x) \/ MergeDelete(x) \/ MergeUpsert(x)
  \/ StartTask(x) \/ EndTask(x)
  \/ MarkDead(x) \/ Drain(x) \/ KillWrite(x) \/ KillClear(x)

LoopStep(e) ==
  \/ LoopNext(e) \/ HandleRestore(e) \/ Record(e) \/ OpenTurn(e) \/ CloseTurn(e)
  \/ FinishTurn(e) \/ FailTurn(e) \/ Answer(e)

SleepStep(x) == SleepRequest(x) \/ FallAsleep(x) \/ SchedulePoisonPill(x)

Next ==
  \/ \E x \in Tasks : Resolving(x) \/ Steer(x) \/ KillLoaded(x) \/ KillUnloaded(x)
  \/ PillDue \/ PillFires \/ PillHandled
  \/ \E x \in Tasks : TaskStep(x)
  \/ \E e \in Entries : LoopStep(e)
  \/ \E x \in Actors : SleepStep(x)
  \/ Restart

(* Every task that has begun goes on, and so does every loop. *)
Fairness ==
  /\ \A x \in Tasks : WF_vars(TaskStep(x))
  /\ \A e \in Entries : WF_vars(LoopStep(e))
  /\ \A x \in Actors : WF_vars(SleepStep(x))
  /\ WF_vars(PillFires) /\ WF_vars(PillHandled)

Spec == Init /\ [][Next]_vars /\ Fairness

-----------------------------------------------------------------------------
LockIsIdle(e) == LockIsFree(ent[e].lock)

Accepted(s) == pc[s] = "posted"
InRows(s) == \E r \in rows : s \in r.parts
Handled(s) == times[s] > 0 \/ outcome[s] = "rejected"

\* Some task has declared the agent dead and cleared its inbox.
Killed == \E x \in Killers \cup {Pill} : pc[x] \in {"draining", "killClear", "done"}

(* "items survive process restarts" (engine-agent.md:141): an item that    *)
(* was accepted is in the inbox table or has been handled, whatever        *)
(* crashed when, unless the agent was killed or a replay dropped the row   *)
(* for an execution that is not of the item in flight: an aborted turn     *)
(* (agentLoopRun.ts:1202) or a task has left it open.                      *)
NoAcceptedItemLost ==
  \A p \in Posters : Accepted(p) => InRows(p) \/ Handled(p) \/ Killed \/ p \in mistaken

(* An agent whose record says it sleeps, which a boot does not load, has   *)
(* no row left but one that was handled: "active --> sleeping: inbox       *)
(* drained" (subagent-dead-state.md).                                      *)
SleepsOnlyWhenDone ==
  life = "sleeping" /\ ~Killed => \A r \in rows : \A s \in r.parts : Handled(s)

(* Only a restart makes the agent handle an item again, once per restart.  *)
HandledOncePerRun == \A s \in Sources : times[s] <= 1 + restarts

(* "interleaving that could leave stale idle lifecycle signals behind"     *)
(* (agentSystem.ts:617): when nobody is at work on the loaded agent, its   *)
(* timer runs only if it sleeps.  It speaks of interleavings: that a       *)
(* cancellation fails, which cancelPoisonPill() logs and swallows, leaves  *)
(* the timer of an agent that is awake, and is not modelled.               *)
NoStalePill ==
  map # 0 /\ LockIsIdle(map) /\ pillTimer /\ ~Killed => ent[map].state = "sleeping"

(* Items are handled in the order they were posted: none is handled for    *)
(* the first time before an older one that is in the inbox table.          *)
HandledInOrder ==
  [][\A s, t \in Sources :
       /\ InRows(s) /\ stamp[s] < stamp[t]
       /\ times[t] = 0 /\ times'[t] > 0 /\ ~Killed
       => Handled(s) \/ times'[s] > 0]_vars

(* dead is "a terminal lifecycle state" (subagent-dead-state.md:3). *)
DeadIsTerminal == [][life = "dead" => life' = "dead"]_vars

(* Whoever awaits an item is answered, killed agents included. *)
EveryAwaiterSettles ==
  \A s \in Sources : Accepted(s) ~> outcome[s] # "pending"

(* An accepted item is handled in the end, restarts included, unless a     *)
(* replay dropped its row for an execution that an ended turn or a task    *)
(* had left open.                                                          *)
EveryItemHandled ==
  \A p \in Posters : Accepted(p) ~> Handled(p) \/ Killed \/ p \in mistaken
=============================================================================
