---------------------------- MODULE ConfigReload -----------------------------
(***************************************************************************)
(* Online config reload.  Engine.reload() coalesces requests in an         *)
(* InvalidateSync (utils/sync.ts); one run of doSync() compares the        *)
(* settings file with the config in force, takes the write side of the     *)
(* ReadWriteLock in ConfigModule, installs the new config and reloads the  *)
(* modules (providers, plugins, app server).  Everything that must not see *)
(* a half-applied config runs under the read side: connector callbacks,    *)
(* cron tasks and delayed-signal ticks (Sections) and the processing of    *)
(* agent inbox items (Agents).  While an agent handles an item it calls    *)
(* the inference router, which takes the read lock a second time, and may  *)
(* ask another agent and wait for that agent's item.                       *)
(*                                                                         *)
(* A config is the number of the edit of the settings file that wrote it.  *)
(***************************************************************************)
EXTENDS ReadWriteLock, FiniteSets

CONSTANTS
  Sections,        \* tasks whose read sections take no lock again
  Agents,          \* agent loops
  Callers,         \* callers of Engine.reload(), each calls once
  MaxVersion,      \* bound: edits of the settings file
  Unreloadable,    \* edits that change a path, which need a restart
  ModulesMayFail,  \* a module reload may throw
  Nobody,          \* not an agent: the item came from outside
  Torn             \* not a version: the modules after a reload that threw

Readers == Sections \cup Agents

ASSUME ConfigReloadAssumption ==
  /\ IsFiniteSet(Sections) /\ IsFiniteSet(Agents)
  /\ MaxVersion \in Nat
  /\ Unreloadable \subseteq 1..MaxVersion
  /\ ModulesMayFail \in BOOLEAN
  /\ Sections \cap Agents = {}
  /\ Nobody \notin Readers
  /\ Torn \notin 0..MaxVersion

VARIABLES
  lock,         \* ConfigModule.configurationLock
  pc,           \* where each reader is
  serving,      \* the agent that waits for the item an agent handles
  asks,         \* agent_ask items in each agent's inbox, by sender
  disk,         \* the settings file
  config,       \* ConfigModule.config
  modules,      \* the config the module registries were reloaded from
  sync,         \* where doSync() is
  loaded,       \* the settings doSync() has read
  invalidated, invalidatedDouble, pendings, stopped,  \* InvalidateSync
  caller,       \* where each caller of reload() is
  asked         \* the settings file when a caller called

readerVars == <<pc, serving, asks>>
configVars == <<disk, config, modules>>
syncVars == <<invalidated, invalidatedDouble, pendings, stopped, caller, asked>>
vars == <<lock, readerVars, configVars, sync, loaded, syncVars>>

Versions == 0..MaxVersion
Writer == "doSync"

TypeOK ==
  /\ lock \in RWLockType(Readers, {Writer})
  /\ pc \in [Readers -> {"out", "waitingOuter", "outer",
                         "waitingInner", "inner", "asking"}]
  /\ serving \in [Agents -> Agents \cup {Nobody}]
  /\ asks \in [Agents -> SUBSET Agents]
  /\ disk \in Versions /\ config \in Versions
  /\ modules \in Versions \cup {Torn}
  /\ sync \in {"idle", "start", "load", "compare", "waitWrite", "locked",
               "install", "applying", "backoff", "settle"}
  /\ loaded \in Versions
  /\ invalidated \in BOOLEAN /\ invalidatedDouble \in BOOLEAN
  /\ pendings \subseteq Callers
  /\ stopped \in BOOLEAN
  /\ caller \in [Callers -> {"idle", "waiting", "resolved", "released"}]
  /\ asked \in [Callers -> Versions]

Init ==
  /\ lock = UnlockedRW
  /\ pc = [r \in Readers |-> "out"]
  /\ serving = [a \in Agents |-> Nobody]
  /\ asks = [a \in Agents |-> {}]
  /\ disk = 0 /\ config = 0 /\ modules = 0
  /\ sync = "idle" /\ loaded = 0
  /\ invalidated = FALSE /\ invalidatedDouble = FALSE
  /\ pendings = {} /\ stopped = FALSE
  /\ caller = [c \in Callers |-> "idle"]
  /\ asked = [c \in Callers |-> 0]

-----------------------------------------------------------------------------
(* Read sections. *)

\* A reader gives one read hold back; the last one lets doSync() in.
ReadHoldReleased ==
  /\ lock' = ReleaseRead(lock)
  /\ sync' = IF ReleaseReadWakesWriter(lock) THEN "locked" ELSE sync

EnterSection(s) ==
  /\ pc[s] = "out"
  /\ lock' = AcquireRead(lock, s)
  /\ pc' = [pc EXCEPT ![s] = IF ReadAtOnce(lock) THEN "outer" ELSE "waitingOuter"]
  /\ UNCHANGED <<serving, asks, configVars, sync, loaded, syncVars>>

LeaveSection(s) ==
  /\ pc[s] = "outer"
  /\ ReadHoldReleased
  /\ pc' = [pc EXCEPT ![s] = "out"]
  /\ UNCHANGED <<serving, asks, configVars, loaded, syncVars>>

(* An agent loop takes the next item: an outside one, or an ask. *)
BeginItem(a, from) ==
  /\ pc[a] = "out"
  /\ from \in asks[a] \cup {Nobody}
  /\ lock' = AcquireRead(lock, a)
  /\ pc' = [pc EXCEPT ![a] = IF ReadAtOnce(lock) THEN "outer" ELSE "waitingOuter"]
  /\ serving' = [serving EXCEPT ![a] = from]
  /\ asks' = [asks EXCEPT ![a] = @ \ {from}]
  /\ UNCHANGED <<configVars, sync, loaded, syncVars>>

(* The item is handled: the lock is released, then an asker is answered. *)
EndItem(a) ==
  /\ pc[a] = "outer"
  /\ ReadHoldReleased
  /\ pc' = [r \in Readers |->
              IF r = a THEN "out" ELSE IF r = serving[a] THEN "outer" ELSE pc[r]]
  /\ serving' = [serving EXCEPT ![a] = Nobody]
  /\ UNCHANGED <<asks, configVars, loaded, syncVars>>

(* InferenceRouter.complete() inside an item: a second read hold. *)
BeginInference(a) ==
  /\ pc[a] = "outer"
  /\ lock' = AcquireRead(lock, a)
  /\ pc' = [pc EXCEPT ![a] = IF ReadAtOnce(lock) THEN "inner" ELSE "waitingInner"]
  /\ UNCHANGED <<serving, asks, configVars, sync, loaded, syncVars>>

EndInference(a) ==
  /\ pc[a] = "inner"
  /\ ReadHoldReleased
  /\ pc' = [pc EXCEPT ![a] = "outer"]
  /\ UNCHANGED <<serving, asks, configVars, loaded, syncVars>>

(* agent_ask: postAndAwait() from inside an item, never to oneself. *)
Ask(a, b) ==
  /\ pc[a] = "outer"
  /\ a # b
  /\ pc' = [pc EXCEPT ![a] = "asking"]
  /\ asks' = [asks EXCEPT ![b] = @ \cup {a}]
  /\ UNCHANGED <<lock, serving, configVars, sync, loaded, syncVars>>

-----------------------------------------------------------------------------
(* The settings file and the callers. *)

EditSettings ==
  /\ disk < MaxVersion
  /\ disk' = disk + 1
  /\ UNCHANGED <<lock, readerVars, config, modules, sync, loaded, syncVars>>

\* Mutant: a request that meets a running doSync() starts no second round.
NoSecondRound == FALSE

\* invalidate() finds doSync() running: what it has read may be too old.
SecondRound == invalidated

(* reload(): invalidateAndAwait() and the invalidate() in it. *)
Reload(c) ==
  /\ caller[c] = "idle"
  /\ asked' = [asked EXCEPT ![c] = disk]
  /\ IF stopped
       THEN /\ caller' = [caller EXCEPT ![c] = "released"]
            /\ UNCHANGED <<sync, invalidated, invalidatedDouble, pendings>>
       ELSE /\ caller' = [caller EXCEPT ![c] = "waiting"]
            /\ pendings' = pendings \cup {c}
            /\ invalidated' = TRUE
            /\ invalidatedDouble' = SecondRound
            /\ sync' = IF invalidated THEN sync ELSE "start"
  /\ UNCHANGED <<lock, readerVars, configVars, loaded, stopped>>

\* notifyPendings()
PendingsNotified(as) ==
  /\ caller' = [c \in Callers |-> IF c \in pendings THEN as ELSE caller[c]]
  /\ pendings' = {}

(* shutdown() stops the InvalidateSync. *)
Stop ==
  /\ ~stopped
  /\ PendingsNotified("released")
  /\ stopped' = TRUE
  /\ UNCHANGED <<lock, readerVars, configVars, sync, loaded, invalidated,
                 invalidatedDouble, asked>>

-----------------------------------------------------------------------------
(* doSync() and its command reloadApplyLatest(). *)

WriteHoldReleased ==
  /\ lock' = ReleaseWrite(lock)
  /\ pc' = [r \in Readers |->
              IF r \notin ReleaseWriteWokenReaders(lock) THEN pc[r]
              ELSE IF pc[r] = "waitingOuter" THEN "outer" ELSE "inner"]

(* backoff() calls its callback: a stopped sync skips the command. *)
SyncBegin ==
  /\ sync = "start"
  /\ sync' = IF stopped THEN "settle" ELSE "load"
  /\ UNCHANGED <<lock, readerVars, configVars, loaded, syncVars>>

(* configLoad() reads the file, before the lock is taken and again under   *)
(* it; the file may be edited before what was read is used.                *)
SyncLoad ==
  /\ \/ sync = "load" /\ sync' = "compare"
     \/ sync = "locked" /\ sync' = "install"
  /\ loaded' = disk
  /\ UNCHANGED <<lock, readerVars, configVars, syncVars>>

SyncCompare ==
  /\ sync = "compare"
  /\ \/ /\ loaded \in Unreloadable
        /\ sync' = "backoff" /\ lock' = lock
     \/ /\ loaded = config
        /\ sync' = "settle" /\ lock' = lock
     \/ /\ loaded \notin Unreloadable /\ loaded # config
        /\ lock' = AcquireWrite(lock, Writer)
        /\ sync' = IF WriteAtOnce(lock) THEN "locked" ELSE "waitWrite"
  /\ loaded' = 0
  /\ UNCHANGED <<readerVars, configVars, syncVars>>

(* Compared again under the lock, then installed. *)
SyncInstall ==
  /\ sync = "install"
  /\ \/ /\ loaded \in Unreloadable \/ loaded = config
        /\ WriteHoldReleased
        /\ sync' = IF loaded \in Unreloadable THEN "backoff" ELSE "settle"
        /\ UNCHANGED config
     \/ /\ loaded \notin Unreloadable /\ loaded # config
        /\ config' = loaded
        /\ sync' = "applying"
        /\ UNCHANGED <<lock, pc>>
  /\ loaded' = 0
  /\ UNCHANGED <<serving, asks, disk, modules, syncVars>>

(* The modules reload from config.current, still under the write lock. *)
SyncApply ==
  /\ sync = "applying"
  /\ modules' = config
  /\ sync' = "settle"
  /\ WriteHoldReleased
  /\ UNCHANGED <<serving, asks, disk, config, loaded, syncVars>>

(* A module reload throws: the modules after it are not reloaded. *)
SyncApplyThrows ==
  /\ ModulesMayFail
  /\ sync = "applying"
  /\ modules' = Torn
  /\ sync' = "backoff"
  /\ WriteHoldReleased
  /\ UNCHANGED <<serving, asks, disk, config, loaded, syncVars>>

SyncRetry ==
  /\ sync = "backoff"
  /\ sync' = "start"
  /\ UNCHANGED <<lock, readerVars, configVars, loaded, syncVars>>

(* The tail of doSync(). *)
SyncSettle ==
  /\ sync = "settle"
  /\ \/ /\ stopped
        /\ PendingsNotified("released")
        /\ sync' = "idle"
        /\ UNCHANGED <<invalidated, invalidatedDouble>>
     \/ /\ ~stopped /\ invalidatedDouble
        /\ invalidatedDouble' = FALSE
        /\ sync' = "start"
        /\ UNCHANGED <<invalidated, pendings, caller>>
     \/ /\ ~stopped /\ ~invalidatedDouble
        /\ invalidated' = FALSE
        /\ PendingsNotified("resolved")
        /\ sync' = "idle"
        /\ UNCHANGED invalidatedDouble
  /\ UNCHANGED <<lock, readerVars, configVars, loaded, stopped, asked>>

SyncStep == \/ SyncBegin \/ SyncLoad \/ SyncCompare \/ SyncInstall \/ SyncApply
            \/ SyncApplyThrows \/ SyncRetry \/ SyncSettle

AgentStep(a) ==
  \/ \E from \in Agents \cup {Nobody} : BeginItem(a, from)
  \/ EndItem(a) \/ BeginInference(a) \/ EndInference(a)
  \/ \E b \in Agents : Ask(a, b)

Next ==
  \/ \E s \in Sections : EnterSection(s) \/ LeaveSection(s)
  \/ \E a \in Agents : AgentStep(a)
  \/ EditSettings \/ Stop
  \/ \E c \in Callers : Reload(c)
  \/ SyncStep

(* A section ends, an inference call returns, an item makes finitely many  *)
(* calls, an agent gets to each item of its inbox, and doSync() goes on.   *)
Fairness ==
  /\ \A s \in Sections : WF_vars(LeaveSection(s))
  /\ \A a \in Agents :
       /\ WF_vars(EndInference(a))
       /\ SF_vars(EndItem(a))
       /\ \A b \in Agents : SF_vars(BeginItem(a, b))
  /\ WF_vars(SyncStep)

Spec == Init /\ [][Next]_vars /\ Fairness

-----------------------------------------------------------------------------
Reading(r) == pc[r] \in {"outer", "waitingInner", "inner", "asking"}
Writing == sync \in {"locked", "install", "applying"}
Waiting(r) == pc[r] \in {"waitingOuter", "waitingInner"}

\* Read holds: one for an item or section, one more for an inference call.
Holds(r) == IF pc[r] = "inner" THEN 2 ELSE IF Reading(r) THEN 1 ELSE 0

HoldSet == {h \in Readers \X {1, 2} : h[2] <= Holds(h[1])}

(* The counters of ReadWriteLock agree with who is inside, agents that     *)
(* hold it twice included, nobody is queued twice or forgotten, and the    *)
(* two sides exclude each other.                                           *)
LockCountsItsHolders ==
  /\ lock.activeReaders = Cardinality(HoldSet)
  /\ lock.writerActive = Writing
  /\ lock.writerActive => lock.activeReaders = 0
  /\ \A r \in Readers :
       Waiting(r) <=> \E i \in 1..Len(lock.waitingReaders) : lock.waitingReaders[i] = r
  /\ \A i, j \in 1..Len(lock.waitingReaders) :
       lock.waitingReaders[i] = lock.waitingReaders[j] => i = j
  /\ lock.waitingWriters = IF sync = "waitWrite" THEN <<Writer>> ELSE << >>

\* a waits for the item it asked b to handle.
AsksOf(b) == asks[b] \cup {serving[b]}

(* An agent is outside an answer exactly as long as one inbox holds its    *)
(* question: an answer resumes the agent that asked, and only that one.    *)
AsksAreOutstanding ==
  /\ \A a, b \in Agents : a \in AsksOf(b) => pc[a] = "asking"
  /\ \A a, b, c \in Agents : a \in AsksOf(b) /\ a \in AsksOf(c) => b = c
  /\ \A b \in Agents : serving[b] \notin asks[b]

(* invalidate() starts doSync() only when none runs: the write side of the *)
(* lock has one client.                                                    *)
OneDoSync == sync # "idle" => invalidated

(* The invariant the action properties rest on. *)
ReadersAccountedFor ==
  LockCountsItsHolders /\ AsksAreOutstanding /\ OneDoSync

(* Strict quiescence (config-reload-locking.md): neither the config nor    *)
(* what the modules made of it changes under a running reader.             *)
ConfigUnderReaders ==
  (\E r \in Readers : Reading(r)) => UNCHANGED <<config, modules>>

ConfigStableWhileReading == [][ConfigUnderReaders]_vars

(* "queued writers block newly arriving readers" (readWriteLock.ts:3): no  *)
(* reader gets in past a doSync() that waits for the lock.                 *)
ReadersHeldBack ==
  \A r \in Readers : sync = "waitWrite" /\ ~Reading(r) => ~Reading(r)'

NoReaderPassesWriter == [][ReadersHeldBack]_vars

(* Coalescing loses no request: when reload() returns to a caller of a     *)
(* running engine, the config in force is not older than the settings the  *)
(* caller saw, unless a later edit of them cannot be applied online.       *)
FreshWhenResolved ==
  \A c \in Callers :
    caller[c] = "waiting" /\ caller'[c] = "resolved" => config >= asked[c]

ReloadIsFresh == [][FreshWhenResolved]_vars

(* An agent that holds the lock waits, inside, for something else. *)
StuckInside == \E a \in Agents : pc[a] \in {"waitingInner", "asking"}

(* reload() returns, except when the settings cannot be applied online or  *)
(* an agent waits forever inside the read section of its item.             *)
ReloadReturnsUnlessStuck ==
  \A c \in Callers :
    caller[c] = "waiting" ~>
      \/ caller[c] # "waiting"
      \/ []StuckInside
      \/ [](disk \in Unreloadable)

(* reload() returns: "a config write lock waits for in-flight inference    *)
(* calls to finish before applying changes" (config-reload-locking.md).    *)
ReloadReturns == \A c \in Callers : caller[c] = "waiting" ~> caller[c] # "waiting"

(* "apply complete" precedes "reload resolved" (config-reload-locking.md): *)
(* when reload() returns, the modules run the config in force.             *)
ResolvedReloadIsApplied ==
  [][\A c \in Callers :
       caller[c] = "waiting" /\ caller'[c] = "resolved" => modules = config]_vars
=============================================================================
