--------------------------- MODULE DelayedSignals ---------------------------
(***************************************************************************)
(* Delayed signals on top of the durable runtime:                          *)
(* engine/signals/delayedSignals.ts, durable/durableLocal.ts and           *)
(* storage/delayedSignalsRepository.ts.                                    *)
(*                                                                         *)
(* A scheduled signal is a row of the table signals_delayed.  An alarm     *)
(* starts a tick, which selects the due rows and calls the durable         *)
(* function delayedSignalDeliver for each that has no call yet.  The job   *)
(* generates the signal and then deletes the row.  Meanwhile callers       *)
(* schedule signals, which replaces those with the same key, and cancel    *)
(* by key.  A lock orders the changes; the generation is outside of it.    *)
(*                                                                         *)
(* Signals are numbered by their deliverAt.  All belong to one user and    *)
(* one type.  The connection to the database is one and answers in order,  *)
(* so a statement and the update of the caches after it are one step.      *)
(***************************************************************************)
EXTENDS DurableLocal, AsyncLock

CONSTANTS
  Signals,     \* numbers: the delayed signals, each scheduled once at most
  Stored,      \* the signals in the table before the first boot
  Keyed,       \* the signals that have the repeat key, the others have none
  Cancellers,  \* tasks that cancel by the repeat key, once each
  Deliverer,   \* the task that drain() is
  MaxFailures  \* bound: loads, calls, generations and deletions that throw

ASSUME SignalsAssumption ==
  /\ Signals \subseteq Nat \ {0} /\ Inputs = Signals
  /\ Stored \subseteq Signals /\ Keyed \subseteq Signals
  /\ Deliverer \notin Signals \cup Cancellers /\ Signals \cap Cancellers = {}
  /\ MaxFailures \in Nat

Schedulers == Signals \ Stored   \* the task that schedules a signal has its name
Tasks == Signals \cup Cancellers \cup {Deliverer}

VARIABLES
  table,     \* the rows of signals_delayed
  known,     \* the repository's cache, signalsById
  events,    \* DelayedSignals.events
  loaded,    \* loadUnlocked() was called: events are what it has read
  listed,    \* the repository's allSignalsLoaded: all rows are in its cache
  started,   \* start() has run
  due,       \* the signals whose deliverAt has passed
  alarm,     \* DelayedSignals.timer is set
  tick,      \* where tick() is, the rows it has selected
  pendingDurable,
   \* the signal each job delivers
  delivery,  \* where deliver() is
  lock, pc,  \* the lock, and where schedulers and cancellers are
  generated, \* observed: how often each signal was generated
  withdrawn, \* observed: signals whose row was cancelled or replaced
  unread,    \* observed: rows that this process failed to read when it loaded
  failures

signalVars == <<table, known, events, loaded, listed, unread, started, due, alarm, tick,
                pendingDurable, delivery, lock, pc, generated, withdrawn, failures>>
vars == <<durableVars, signalVars>>

NoTick == [at |-> "idle", rows |-> {}]

TypeOK ==
  /\ DurableTypeOK
  /\ table \subseteq Signals /\ known \subseteq Signals /\ events \subseteq Signals
  /\ loaded \in BOOLEAN /\ listed \in BOOLEAN /\ unread \subseteq Signals
  /\ started \in BOOLEAN /\ alarm \in BOOLEAN
  /\ due \subseteq Signals /\ pendingDurable \subseteq Signals
  /\ tick \in [at : {"idle", "posting", "calling"}, rows : SUBSET Signals]
  /\ delivery \in {"none", "generating", "locking"}
  /\ lock \in LockType(Tasks)
  /\ pc \in [Schedulers \cup Cancellers ->
               {"idle", "locking", "replaced", "scheduled", "cancelled", "gone"}]
  /\ generated \in [Signals -> Nat]
  /\ withdrawn \subseteq Signals
  /\ failures \in 0..MaxFailures

Init ==
  /\ DurableInit
  /\ table = Stored /\ known = {} /\ events = {} /\ due = {}
  /\ loaded = FALSE /\ listed = FALSE /\ unread = {} /\ started = FALSE /\ alarm = FALSE
  /\ tick = NoTick /\ delivery = "none" /\ pendingDurable = {}
  /\ lock = FreeLock
  /\ pc = [t \in Schedulers \cup Cancellers |-> "idle"]
  /\ generated = [s \in Signals |-> 0] /\ withdrawn = {} /\ failures = 0

-----------------------------------------------------------------------------
IsFirst(s, S) == s \in S /\ \A t \in S : s <= t

\* scheduleNext(): an alarm for the earliest event, if any.  It may come
\* before that event is due, after maxTimerMs.
AlarmFor(evs) == started /\ power = "started" /\ evs # {}

\* Task t has the lock, which it asked for.
Granted(t) == \A i \in 1..Len(lock.queue) : lock.queue[i] # t

SameKey(s) == IF s \in Keyed THEN Keyed \ {s} ELSE {}

(* The first to get the lock, start() or a caller, reads the table. *)
LoadSignals ==
  /\ power = "started" /\ ~loaded
  /\ loaded' = TRUE /\ listed' = TRUE
  /\ known' = known \cup table /\ events' = table
  /\ UNCHANGED <<table, unread, started, due, alarm, tick, pendingDurable, delivery,
                 lock, pc, generated, withdrawn, failures>>

(* inLock() of a call that throws: nothing else is undone, no alarm is set.*)
Abandons(t) ==
  /\ pc[t] \in {"locking", "replaced"} /\ Granted(t)
  /\ pc' = [pc EXCEPT ![t] = "gone"]
  /\ lock' = LockRelease(lock)

(* findAll() throws.  The events have been cleared and `loaded` is set, so *)
(* nobody reads the table again.  The error goes to the caller; at boot    *)
(* schedulePoisonPill() and cancelPoisonPill() swallow it.                 *)
LoadThrows ==
  /\ power = "started" /\ ~loaded
  /\ failures < MaxFailures /\ failures' = failures + 1
  /\ loaded' = TRUE
  /\ events' = {} /\ unread' = table
  /\ \/ UNCHANGED <<lock, pc>>
     \/ \E t \in Schedulers \cup Cancellers : Abandons(t)
  /\ UNCHANGED <<table, known, listed, started, due, alarm, tick, pendingDurable,
                 delivery, generated, withdrawn>>

StartSignals ==
  /\ power = "started" /\ loaded /\ ~started
  /\ started' = TRUE
  /\ alarm' = (events # {})
  /\ UNCHANGED <<table, known, events, loaded, listed, unread, due, tick,
                 pendingDurable, delivery, lock, pc, generated, withdrawn, failures>>

(* The deliverAt of a signal passes. *)
TimePasses(s) ==
  /\ s \in table \ due
  /\ due' = due \cup {s}
  /\ UNCHANGED <<table, known, events, loaded, listed, unread, started, alarm, tick,
                 pendingDurable, delivery, lock, pc, generated, withdrawn, failures>>

-----------------------------------------------------------------------------
(* schedule(): under the lock, first the rows with the same key go, then   *)
(* the new row comes, in a transaction that deletes them once more.        *)

AskLock(t) ==
  /\ t \in Schedulers \cup Cancellers
  /\ pc[t] = "idle" /\ power = "started"
  /\ pc' = [pc EXCEPT ![t] = "locking"]
  /\ lock' = LockRequest(lock, t)
  /\ UNCHANGED <<table, known, events, loaded, listed, unread, started, due, alarm,
                 tick, pendingDurable, delivery, generated, withdrawn, failures>>

\* Mutant: the repository's cache keeps the replaced signals.
ReplaceInTableOnly(s) ==
  /\ s \in Schedulers
  /\ pc[s] = "locking" /\ Granted(s) /\ loaded
  /\ pc' = [pc EXCEPT ![s] = "replaced"]
  /\ table' = table \ SameKey(s)
  /\ events' = events \ SameKey(s)
  /\ withdrawn' = withdrawn \cup (table \cap SameKey(s))
  /\ UNCHANGED <<known, loaded, listed, unread, started, due, alarm, tick,
                 pendingDurable, delivery, lock, generated, failures>>

ReplaceSameKey(s) ==
  /\ s \in Schedulers
  /\ pc[s] = "locking" /\ Granted(s) /\ loaded
  /\ pc' = [pc EXCEPT ![s] = "replaced"]
  /\ table' = table \ SameKey(s)
  /\ known' = IF table \cap SameKey(s) # {} THEN known \ SameKey(s) ELSE known
  /\ events' = events \ SameKey(s)
  /\ withdrawn' = withdrawn \cup (table \cap SameKey(s))
  /\ UNCHANGED <<loaded, listed, unread, started, due, alarm, tick, pendingDurable,
                 delivery, lock, generated, failures>>

\* Mutant: the new signal sets no alarm.
CreateSilently(s) ==
  /\ s \in Schedulers /\ pc[s] = "replaced"
  /\ pc' = [pc EXCEPT ![s] = "scheduled"]
  /\ table' = (table \ SameKey(s)) \cup {s} /\ known' = (known \ SameKey(s)) \cup {s}
  /\ events' = events \cup {s}
  /\ withdrawn' = withdrawn \cup (table \cap SameKey(s))
  /\ lock' = LockRelease(lock)
  /\ UNCHANGED <<alarm, loaded, listed, unread, started, due, tick, pendingDurable,
                 delivery, generated, failures>>

CreateSignal(s) ==
  /\ s \in Schedulers /\ pc[s] = "replaced"
  /\ pc' = [pc EXCEPT ![s] = "scheduled"]
  /\ table' = (table \ SameKey(s)) \cup {s} /\ known' = (known \ SameKey(s)) \cup {s}
  /\ events' = events \cup {s}
  /\ withdrawn' = withdrawn \cup (table \cap SameKey(s))
  /\ lock' = LockRelease(lock)
  /\ alarm' = AlarmFor(events')
  /\ UNCHANGED <<loaded, listed, unread, started, due, tick, pendingDurable, delivery,
                 generated, failures>>

(* cancelByRepeatKey(): the events with the key, one row after the other.  *)
CancelOne(c) ==
  /\ c \in Cancellers
  /\ pc[c] = "locking" /\ Granted(c) /\ loaded
  /\ \E s \in Signals :
       /\ IsFirst(s, events \cap Keyed)
       /\ table' = table \ {s} /\ known' = known \ {s} /\ events' = events \ {s}
       /\ withdrawn' = withdrawn \cup (table \cap {s})
  /\ UNCHANGED <<loaded, listed, unread, started, due, alarm, tick, pendingDurable,
                 delivery, lock, pc, generated, failures>>

CancelReturns(c) ==
  /\ c \in Cancellers
  /\ pc[c] = "locking" /\ Granted(c) /\ loaded
  /\ events \cap Keyed = {}
  /\ pc' = [pc EXCEPT ![c] = "cancelled"]
  /\ lock' = LockRelease(lock)
  /\ alarm' = AlarmFor(events)
  /\ UNCHANGED <<table, known, events, loaded, listed, unread, started, due, tick,
                 pendingDurable, delivery, generated, withdrawn, failures>>

(* A statement of schedule() or cancelByRepeatKey() throws. *)
CallerThrows(t) ==
  /\ t \in Schedulers \cup Cancellers /\ loaded
  /\ failures < MaxFailures /\ failures' = failures + 1
  /\ Abandons(t)
  /\ UNCHANGED <<table, known, events, loaded, listed, unread, started, due, alarm, tick,
                 pendingDurable, delivery, generated, withdrawn>>

-----------------------------------------------------------------------------
(* tick() and deliverDue(). *)

(* Waiting for the read lock of the config is like a later alarm.  Then    *)
(* findDue() selects the rows and refreshes the repository's cache.        *)
AlarmRings ==
  /\ alarm /\ power = "started" /\ tick.at = "idle"
  /\ tick' = [at |-> "posting", rows |-> table \cap due]
  /\ known' = known \cup (table \cap due)
  /\ alarm' = FALSE
  /\ UNCHANGED <<table, events, loaded, listed, unread, started, due, pendingDurable,
                 delivery, lock, pc, generated, withdrawn, failures>>

(* While a tick runs, an alarm only sets the next one. *)
AlarmPutOff ==
  /\ alarm /\ power = "started" /\ tick.at # "idle"
  /\ alarm' = AlarmFor(events)
  /\ UNCHANGED <<table, known, events, loaded, listed, unread, started, due, tick,
                 pendingDurable, delivery, lock, pc, generated, withdrawn, failures>>

\* Mutant: a call is made though another is under way.
AllRows == tick.rows

\* The selected rows that have no call yet.
Uncalled == tick.rows \ pendingDurable

(* After stop() a call is refused, and the tick has no effect any more.    *)
CallDeliver(j) ==
  /\ tick.at = "posting"
  /\ \E s \in Signals :
       /\ IsFirst(s, Uncalled)
       /\ Post(j, s)
       /\ tick' = [at |-> "calling", rows |-> {r \in tick.rows : r > s}]
       /\ pendingDurable' = pendingDurable \cup {s}
  /\ UNCHANGED <<table, known, events, loaded, listed, unread, started, due, alarm,
                 delivery, lock, pc, generated, withdrawn, failures>>

CallReturns(j) ==
  /\ TriggerJob(j)
  /\ tick' = [tick EXCEPT !.at = "posting"]
  /\ UNCHANGED <<table, known, events, loaded, listed, unread, started, due, alarm,
                 pendingDurable, delivery, lock, pc, generated, withdrawn, failures>>

(* durableCall() throws: the disk is full, say. *)
CallThrows(j) ==
  /\ failures < MaxFailures /\ failures' = failures + 1
  /\ WriteFails(j)
  /\ tick' = [tick EXCEPT !.at = "posting"]
  /\ pendingDurable' = pendingDurable \ {input[j]}
  /\ UNCHANGED <<table, known, events, loaded, listed, unread, started, due, alarm,
                 delivery, lock, pc, generated, withdrawn>>

(* The tick ends and sets the next alarm, after failureRetryMs if a call   *)
(* threw.                                                                  *)
TickEnds ==
  /\ tick.at = "posting" /\ Uncalled = {}
  /\ tick' = NoTick
  /\ alarm' = AlarmFor(events)
  /\ UNCHANGED <<table, known, events, loaded, listed, unread, started, due,
                 pendingDurable, delivery, lock, pc, generated, withdrawn, failures>>

-----------------------------------------------------------------------------
(* deliver(), executed by a job. *)

Target == input[drain.job]

\* findById(): until all rows are loaded, a miss asks the table.
Found == IF listed THEN known ELSE known \cup table

\* `finally` of deliver().
DeliverySettled(evs) ==
  /\ pendingDurable' = pendingDurable \ {Target}
  /\ alarm' = AlarmFor(evs)
  /\ delivery' = "none"

\* Mutant: the row goes before the signal is generated.
DeliverTakes ==
  /\ drain.at = "running" /\ delivery = "none"
  /\ Target \in Found
  /\ table' = table \ {Target} /\ known' = known \ {Target} /\ events' = events \ {Target}
  /\ delivery' = "generating"
  /\ UNCHANGED <<durableVars, loaded, listed, unread, started, due, alarm, tick,
                 pendingDurable, lock, pc, generated, withdrawn, failures>>

DeliverFinds ==
  /\ drain.at = "running" /\ delivery = "none"
  /\ Target \in Found
  /\ known' = known \cup {Target}
  /\ delivery' = "generating"
  /\ UNCHANGED <<durableVars, table, events, loaded, listed, unread, started, due,
                 alarm, tick, pendingDurable, lock, pc, generated, withdrawn,
                 failures>>

DeliverFindsNothing ==
  /\ drain.at = "running" /\ delivery = "none"
  /\ Target \notin Found
  /\ JobSucceeds
  /\ DeliverySettled(events)
  /\ UNCHANGED <<table, known, events, loaded, listed, unread, started, due, tick,
                 lock, pc, generated, withdrawn, failures>>

(* Signals.generate() has recorded the event and told the subscribers. *)
Generates ==
  /\ drain.at = "running" /\ delivery = "generating"
  /\ generated' = [generated EXCEPT ![Target] = @ + 1]
  /\ delivery' = "locking"
  /\ lock' = LockRequest(lock, Deliverer)
  /\ UNCHANGED <<durableVars, table, known, events, loaded, listed, unread, started,
                 due, alarm, tick, pendingDurable, pc, withdrawn, failures>>

GenerateThrows ==
  /\ drain.at = "running" /\ delivery = "generating"
  /\ failures < MaxFailures /\ failures' = failures + 1
  /\ JobFails
  /\ DeliverySettled(events)
  /\ UNCHANGED <<table, known, events, loaded, listed, unread, started, due, tick,
                 lock, pc, generated, withdrawn>>

\* Mutant: only the event goes.
ForgetDelivered ==
  /\ drain.at = "running" /\ delivery = "locking" /\ Granted(Deliverer)
  /\ events' = events \ {Target}
  /\ lock' = LockRelease(lock)
  /\ JobSucceeds
  /\ DeliverySettled(events')
  /\ UNCHANGED <<table, known, loaded, listed, unread, started, due, tick, pc,
                 generated, withdrawn, failures>>

(* Under the lock, the event and the row go. *)
DeleteDelivered ==
  /\ drain.at = "running" /\ delivery = "locking" /\ Granted(Deliverer)
  /\ table' = table \ {Target} /\ known' = known \ {Target} /\ events' = events \ {Target}
  /\ lock' = LockRelease(lock)
  /\ JobSucceeds
  /\ DeliverySettled(events')
  /\ UNCHANGED <<loaded, listed, unread, started, due, tick, pc, generated, withdrawn,
                 failures>>

\* Mutant: the error is caught and the job succeeds.
DeleteThrowsUnseen ==
  /\ drain.at = "running" /\ delivery = "locking" /\ Granted(Deliverer)
  /\ failures < MaxFailures /\ failures' = failures + 1
  /\ events' = events \ {Target}
  /\ lock' = LockRelease(lock)
  /\ JobSucceeds
  /\ DeliverySettled(events')
  /\ UNCHANGED <<table, known, loaded, listed, unread, started, due, tick, pc,
                 generated, withdrawn>>

(* The event goes first: it is gone when the deletion of the row throws. *)
DeleteThrows ==
  /\ drain.at = "running" /\ delivery = "locking" /\ Granted(Deliverer)
  /\ failures < MaxFailures /\ failures' = failures + 1
  /\ events' = events \ {Target}
  /\ lock' = LockRelease(lock)
  /\ JobFails
  /\ DeliverySettled(events')
  /\ UNCHANGED <<table, known, loaded, listed, unread, started, due, tick, pc,
                 generated, withdrawn>>

-----------------------------------------------------------------------------
(* Engine.shutdown() stops both.  A crash leaves the table and the files.  *)

Shutdown ==
  /\ Stop
  /\ alarm' = FALSE
  /\ UNCHANGED <<table, known, events, loaded, listed, unread, started, due, tick,
                 pendingDurable, delivery, lock, pc, generated, withdrawn, failures>>

Restart ==
  /\ Crash
  /\ known' = {} /\ events' = {} /\ started' = FALSE
  /\ loaded' = FALSE /\ listed' = FALSE /\ unread' = {}
  /\ alarm' = FALSE
  /\ tick' = NoTick /\ delivery' = "none" /\ pendingDurable' = {}
  /\ lock' = FreeLock
  /\ pc' = [t \in DOMAIN pc |->
              IF pc[t] \in {"locking", "replaced"} THEN "gone" ELSE pc[t]]
  /\ UNCHANGED <<table, due, generated, withdrawn, failures>>

TaskStep(t) ==
  \/ ReplaceSameKey(t) \/ CreateSignal(t) \/ CancelOne(t) \/ CancelReturns(t)

TickStep == AlarmRings \/ AlarmPutOff \/ TickEnds

DeliverStep ==
  \/ DeliverFinds \/ DeliverFindsNothing \/ Generates \/ DeleteDelivered

CallStep(j) ==
  \/ CallDeliver(j) \/ CallReturns(j)
  \/ WriteJob(j) /\ UNCHANGED signalVars

Next ==
  \/ RuntimeStep /\ UNCHANGED signalVars
  \/ (LoadSignals \/ LoadThrows \/ StartSignals) /\ UNCHANGED durableVars
  \/ \E s \in Signals : TimePasses(s) /\ UNCHANGED durableVars
  \/ \E t \in Tasks :
       (AskLock(t) \/ TaskStep(t) \/ CallerThrows(t)) /\ UNCHANGED durableVars
  \/ TickStep /\ UNCHANGED durableVars
  \/ \E j \in Jobs : CallStep(j) \/ CallThrows(j)
  \/ DeliverStep \/ GenerateThrows \/ DeleteThrows
  \/ Shutdown \/ Restart

(* Timers fire, and what has begun goes on. *)
Fairness ==
  /\ WF_vars(TimerFires /\ UNCHANGED signalVars)
  /\ WF_vars(DrainStep /\ UNCHANGED signalVars)
  /\ WF_vars(BootStep /\ UNCHANGED signalVars)
  /\ \A j \in Jobs : WF_vars(ComesDue(j) /\ UNCHANGED signalVars)
  /\ \A j \in Jobs : WF_vars(CallStep(j))
  /\ WF_vars((LoadSignals \/ StartSignals) /\ UNCHANGED durableVars)
  /\ \A t \in Tasks : WF_vars(TaskStep(t) /\ UNCHANGED durableVars)
  /\ WF_vars(AlarmRings /\ UNCHANGED durableVars)
  /\ WF_vars(TickEnds /\ UNCHANGED durableVars)
  /\ WF_vars(DeliverStep)

Spec == Init /\ [][Next]_vars /\ Fairness

-----------------------------------------------------------------------------
Delivering(s) == delivery # "none" /\ Target = s

Covered(s) ==
  \/ s \in events
  \/ \E j \in Jobs : j \in owed /\ input[j] = s

(* "removal happens only after successful generation" (signals.md:113): a  *)
(* signal whose schedule() has returned is in the table until it was       *)
(* generated, cancelled or replaced.                                       *)
NoSignalLost ==
  \A s \in Signals :
    (s \in Stored \/ pc[s] = "scheduled")
      => s \in table \/ generated[s] > 0 \/ s \in withdrawn

(* A row of the table is never forgotten by a running process: an event in *)
(* memory will set an alarm for it, or a job will deliver it.  Only what   *)
(* was there when findAll() failed has neither: loaded is set before, and  *)
(* no later call reads those rows for its events.                          *)
EveryRowIsCovered ==
  loaded => \A s \in table : Covered(s) \/ s \in unread

(* Only a crash or a failure makes a signal generated again.               *)
GeneratedOnce == \A s \in Signals : generated[s] <= 1 + crashes + failures

(* A signal has one call under way, but for what a crash or a failure adds.*)
Calls(s) == {j \in Jobs : input[j] = s /\ (call[j] = "writing" \/ j \in owed)}

OneCallPerSignal == \A s \in Signals : Cardinality(Calls(s)) <= 1 + crashes + failures

(* "can be removed explicitly via `cancelByRepeatKey`" (signals.md:127): a *)
(* delivery of a cancelled or replaced signal does not begin any more; one *)
(* that had begun goes on.                                                 *)
WithdrawnStaysQuiet ==
  [][\A s \in withdrawn : ~Delivering(s) => ~Delivering(s)']_vars

(* "entries are dispatched via `Signals.generate(...)` once due"           *)
(* (signals.md:112): a row that is due goes, whatever crashes and fails,   *)
(* unless this process failed to read it when it loaded the table.         *)
EveryDueSignalGoes ==
  \A s \in Signals :
    s \in table \cap due ~> s \notin table \/ power = "stopped" \/ s \in unread
=============================================================================
