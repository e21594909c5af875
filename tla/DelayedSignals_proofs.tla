------------------------ MODULE DelayedSignals_proofs ------------------------
(***************************************************************************)
(* Proofs about DelayedSignals for any signals, callers, jobs, crashes and *)
(* failures: it uses the durable runtime as DurableLocal allows, no signal *)
(* is lost, no row is forgotten, only crashes and failures repeat a        *)
(* signal or its call, and a withdrawn signal stays quiet.                 *)
(***************************************************************************)
EXTENDS DelayedSignals, DurableLocal_proofs, FiniteSetTheorems

Unscheduled(s) == s \in Schedulers /\ pc[s] # "scheduled"

(* A job is for a signal that was scheduled, and deliver() runs in a job.  *)
JobsOfSignals ==
  /\ \A j \in Jobs : call[j] # "none" => input[j] \in Signals /\ ~Unscheduled(input[j])
  /\ delivery # "none" => drain.at = "running"
  /\ delivery = "locking" => generated[Target] > 0

(* Nothing knows a signal that has not been scheduled. *)
NotYet ==
  \A s \in Schedulers :
    Unscheduled(s) =>
      s \notin table \cup known \cup tick.rows \cup withdrawn /\ generated[s] = 0

(* The caches agree with the table: nothing that was withdrawn is found,   *)
(* every row is, once all were loaded, and a job that has succeeded but is *)
(* still there has no row left.                                            *)
CachesAgree ==
  /\ withdrawn \cap (table \cup known) = {}
  /\ listed => table \subseteq known
  /\ \A j \in Jobs : OnDisk(j) /\ j \notin owed => input[j] \notin table

(* What a signal that can still be found was generated too often is due to *)
(* a crash or a failure.                                                   *)
RepeatsAreExcused ==
  /\ \A s \in Signals : s \in table \cup known =>
       generated[s] <= crashes + failures \/ (delivery = "locking" /\ Target = s)
  /\ delivery = "generating" => generated[Target] <= crashes + failures

SignalsInv ==
  /\ TypeOK /\ DurableInv
  /\ JobsOfSignals /\ NotYet /\ CachesAgree /\ RepeatsAreExcused
  /\ NoSignalLost /\ EveryRowIsCovered /\ GeneratedOnce

-----------------------------------------------------------------------------
(* The operators of the lock keep its type. *)
LEMMA RequestType ==
  ASSUME NEW l \in LockType(Tasks), NEW t \in Tasks
  PROVE  LockRequest(l, t) \in LockType(Tasks)
<1>1. CASE LockIsFree(l) BY <1>1 DEF LockType, LockIsFree, LockRequest
<1>2. CASE ~LockIsFree(l) BY <1>2 DEF LockType, LockIsFree, LockRequest
<1> QED BY <1>1, <1>2

LEMMA ReleaseType ==
  ASSUME NEW l \in LockType(Tasks)
  PROVE  LockRelease(l) \in LockType(Tasks)
<1>1. CASE UnlockHandsOver(l) BY <1>1 DEF LockType, UnlockHandsOver, LockRelease
<1>2. CASE ~UnlockHandsOver(l) BY <1>2 DEF LockType, UnlockHandsOver, LockRelease
<1> QED BY <1>1, <1>2

(* Every step is a step of the runtime, or leaves the runtime alone. *)
LEMMA StepIsDurable == ASSUME [Next]_vars PROVE [DurableNext]_durableVars
<1> USE SignalsAssumption DEF DurableNext
<1>1. CASE (LoadSignals \/ LoadThrows \/ StartSignals) /\ UNCHANGED durableVars BY <1>1
<1>2. CASE \E s \in Signals : TimePasses(s) /\ UNCHANGED durableVars BY <1>2
<1>3. CASE \E t \in Tasks :
             (AskLock(t) \/ TaskStep(t) \/ CallerThrows(t)) /\ UNCHANGED durableVars
  BY <1>3
<1>4. CASE TickStep /\ UNCHANGED durableVars BY <1>4
<1>5. CASE RuntimeStep /\ UNCHANGED signalVars BY <1>5
<1>6. CASE \E j \in Jobs : CallStep(j)
  BY <1>6 DEF CallStep, CallDeliver, CallReturns
<1>7. CASE \E j \in Jobs : CallThrows(j) BY <1>7 DEF CallThrows
<1>8. CASE DeliverStep
  BY <1>8 DEF DeliverStep, DeliverFinds, DeliverFindsNothing, Generates, DeleteDelivered
<1>9. CASE GenerateThrows \/ DeleteThrows BY <1>9 DEF GenerateThrows, DeleteThrows
<1>10. CASE Shutdown \/ Restart BY <1>10 DEF Shutdown, Restart
<1>11. CASE UNCHANGED vars BY <1>11 DEF vars
<1> QED BY <1>1, <1>2, <1>3, <1>4, <1>5, <1>6, <1>7, <1>8, <1>9, <1>10, <1>11 DEF Next

LEMMA InitIsDurable == Init => DurableInit
  BY DEF Init

(* Delayed signals use the runtime as its specification allows. *)
THEOREM SignalsUseRuntime == Spec => DurableSpec
  BY InitIsDurable, StepIsDurable, PTL DEF Spec, DurableSpec

-----------------------------------------------------------------------------
(* What holds while deliver() runs. *)
LEMMA RunningJob ==
  ASSUME DurableInv, JobsOfSignals, drain.at = "running"
  PROVE  /\ drain.job \in Jobs /\ OnDisk(drain.job) /\ call[drain.job] # "none"
         /\ Target \in Signals /\ ~Unscheduled(Target)
<1>1. drain.job \in Jobs
  BY DEF DurableInv, DrainShape, Working4
<1>2. power # "recovering"
  BY DEF DurableInv, DrainShape, Idle
<1>3. OnDisk(drain.job)
  BY <1>2 DEF DurableInv, OneJobAtATime, OnDisk
<1> QED BY <1>1, <1>3 DEF DurableInv, FilesWereWritten, JobsOfSignals, Target

(* A task that throws is gone and has left the lock.                       *)
LEMMA AbandonsTypes ==
  ASSUME TypeOK, NEW t, Abandons(t)
  PROVE  /\ lock' \in LockType(Tasks)
         /\ pc' \in [Schedulers \cup Cancellers ->
                       {"idle", "locking", "replaced", "scheduled", "cancelled", "gone"}]
         /\ \A s \in Schedulers : pc'[s] = "scheduled" <=> pc[s] = "scheduled"
  BY ReleaseType DEF TypeOK, Abandons

LEMMA TypesStep ==
  ASSUME TypeOK, DurableInv, JobsOfSignals, [Next]_vars
  PROVE  TypeOK'
<1> USE SignalsAssumption DEF TypeOK, NoTick
<1>durable. DurableTypeOK'
  BY StepIsDurable, DurableTypes
<1>failed. failures < MaxFailures /\ failures' = failures + 1 => failures' \in 0..MaxFailures
  OBVIOUS
<1>tasks. Deliverer \in Tasks /\ \A s \in Signals : s \in Tasks
  BY DEF Tasks
<1>1. CASE LoadSignals /\ UNCHANGED durableVars BY <1>durable, <1>1 DEF LoadSignals
<1>2. CASE StartSignals /\ UNCHANGED durableVars BY <1>durable, <1>2 DEF StartSignals
<1>3. CASE \E s \in Signals : TimePasses(s) /\ UNCHANGED durableVars
  BY <1>durable, <1>3 DEF TimePasses
<1>4. CASE \E t \in Tasks : AskLock(t) /\ UNCHANGED durableVars
  BY <1>durable, <1>4, RequestType DEF AskLock
<1>5. CASE \E t \in Tasks : ReplaceSameKey(t) /\ UNCHANGED durableVars
  BY <1>durable, <1>5 DEF ReplaceSameKey, Schedulers
<1>6. CASE \E t \in Tasks : CreateSignal(t) /\ UNCHANGED durableVars
  <2>1. PICK s \in Tasks : CreateSignal(s) BY <1>6
  <2>2. lock' \in LockType(Tasks) BY <2>1, ReleaseType DEF CreateSignal
  <2>3. s \in Signals BY <2>1 DEF CreateSignal, Schedulers
  <2>4. alarm' \in BOOLEAN BY <2>1 DEF CreateSignal, AlarmFor
  <2> QED BY <1>durable, <1>6, <2>1, <2>2, <2>3, <2>4 DEF CreateSignal
<1>7. CASE \E t \in Tasks : CancelOne(t) /\ UNCHANGED durableVars
  BY <1>durable, <1>7 DEF CancelOne
<1>8. CASE \E t \in Tasks : CancelReturns(t) /\ UNCHANGED durableVars
  BY <1>durable, <1>8, ReleaseType DEF CancelReturns, AlarmFor
<1>9. CASE AlarmRings /\ UNCHANGED durableVars BY <1>durable, <1>9 DEF AlarmRings
<1>10. CASE AlarmPutOff /\ UNCHANGED durableVars BY <1>durable, <1>10 DEF AlarmPutOff, AlarmFor
<1>11. CASE TickEnds /\ UNCHANGED durableVars BY <1>durable, <1>11 DEF TickEnds, AlarmFor
<1>12. CASE RuntimeStep /\ UNCHANGED signalVars BY <1>durable, <1>12 DEF signalVars
<1>13. CASE \E j \in Jobs : CallDeliver(j) BY <1>durable, <1>13 DEF CallDeliver, Uncalled, IsFirst
<1>14. CASE \E j \in Jobs : CallReturns(j) BY <1>durable, <1>14 DEF CallReturns
<1>15. CASE \E j \in Jobs : WriteJob(j) /\ UNCHANGED signalVars
  BY <1>durable, <1>15 DEF signalVars
<1>16. CASE \E j \in Jobs : CallThrows(j)
  <2>1. failures' \in 0..MaxFailures BY <1>16, <1>failed DEF CallThrows
  <2> QED BY <1>durable, <1>16, <2>1 DEF CallThrows
<1>17. CASE DeliverFinds BY <1>durable, <1>17, RunningJob DEF DeliverFinds
<1>18. CASE DeliverFindsNothing
  BY <1>durable, <1>18 DEF DeliverFindsNothing, DeliverySettled, AlarmFor
<1>19. CASE Generates
  <2>0. Target \in Signals BY <1>19, RunningJob DEF Generates
  <2>1. generated' \in [Signals -> Nat] BY <1>19, <2>0 DEF Generates
  <2>2. lock' \in LockType(Tasks) BY <1>19, <1>tasks, RequestType DEF Generates
  <2> QED BY <1>durable, <1>19, <2>1, <2>2 DEF Generates
<1>20. CASE DeleteDelivered
  BY <1>durable, <1>20, ReleaseType DEF DeleteDelivered, DeliverySettled, AlarmFor
<1>21. CASE GenerateThrows 
  BY <1>durable, <1>failed, <1>21 DEF GenerateThrows, DeliverySettled, AlarmFor
<1>22. CASE DeleteThrows
  BY <1>durable, <1>failed, <1>22, ReleaseType DEF DeleteThrows, DeliverySettled, AlarmFor
<1>23. CASE Shutdown BY <1>durable, <1>23 DEF Shutdown
<1>24. CASE Restart
  <2>1. lock' \in LockType(Tasks) BY <1>24 DEF Restart, FreeLock, LockType
  <2> QED BY <1>durable, <1>24, <2>1 DEF Restart
<1>25. CASE UNCHANGED vars BY <1>durable, <1>25 DEF vars, signalVars
<1>26. CASE LoadThrows /\ UNCHANGED durableVars
  BY <1>durable, <1>failed, <1>26, AbandonsTypes DEF LoadThrows
<1>27. CASE \E t \in Tasks : CallerThrows(t) /\ UNCHANGED durableVars
  BY <1>durable, <1>failed, <1>27, AbandonsTypes DEF CallerThrows
<1> QED BY <1>1, <1>2, <1>3, <1>4, <1>5, <1>6, <1>7, <1>8, <1>9, <1>10, <1>11,
           <1>12, <1>13, <1>14, <1>15, <1>16, <1>17, <1>18, <1>19, <1>20, <1>21,
           <1>22, <1>23, <1>24, <1>25, <1>26, <1>27
        DEF Next, TaskStep, TickStep, CallStep, DeliverStep

-----------------------------------------------------------------------------
(* A job that a crash left after it had succeeded: its file is there, but  *)
(* nothing is owed, and it is not the one that drain() is about to unlink. *)
LeftOver(j) == OnDisk(j) /\ j \notin owed /\ ~(drain.at = "succeeded" /\ drain.job = j)

(* What the runtime keeps while a job begins or goes on: jobs keep their   *)
(* inputs, owed jobs stay owed, and no job that has succeeded comes back.  *)
RuntimeKeeps ==
  /\ \A j \in Jobs : call'[j] # "none" => call[j] # "none" /\ input'[j] = input[j]
  /\ \A j \in Jobs : OnDisk(j)' /\ j \notin owed' => OnDisk(j) /\ j \notin owed
  /\ \A j \in Jobs : LeftOver(j)' => LeftOver(j)
  /\ owed \subseteq owed'
  /\ drain.at = "running" => drain' = drain
  /\ crashes' = crashes

LEMMA RuntimeStepKeeps ==
  ASSUME DurableInv, RuntimeStep
  PROVE  RuntimeKeeps
<1> USE DurableAssumption
    DEF DurableInv, DurableTypeOK, NoJobLost, OneJobAtATime, FilesWereWritten, DrainShape,
        Working4, Idle, Working, NoJob, RuntimeKeeps, LeftOver, OnDisk
<1>1. CASE TimerFires BY <1>1 DEF TimerFires
<1>2. CASE ListPending BY <1>2 DEF ListPending
<1>3. CASE ClaimJob BY <1>3 DEF ClaimJob
<1>4. CASE NothingDue BY <1>4 DEF NothingDue
<1>5. CASE RequeueJob BY <1>5 DEF RequeueJob
<1>6. CASE UnlinkActive BY <1>6 DEF UnlinkActive, Forgotten
<1>7. CASE Start BY <1>7 DEF Start
<1>8. CASE \E j \in Jobs : RecoverJob(j) BY <1>8 DEF RecoverJob
<1>9. CASE \E j \in Jobs : ComesDue(j) BY <1>9 DEF ComesDue
<1> QED BY <1>1, <1>2, <1>3, <1>4, <1>5, <1>6, <1>7, <1>8, <1>9
        DEF RuntimeStep, DrainStep, BootStep

LEMMA CallKeeps ==
  ASSUME DurableInv, NEW j \in Jobs, WriteJob(j) \/ TriggerJob(j) \/ WriteFails(j)
  PROVE  RuntimeKeeps
<1> USE DEF DurableInv, DurableTypeOK, RuntimeKeeps, LeftOver, OnDisk
<1>1. CASE WriteJob(j) BY <1>1 DEF WriteJob
<1>2. CASE TriggerJob(j) BY <1>2 DEF TriggerJob, Forgotten
<1>3. CASE WriteFails(j) BY <1>3 DEF WriteFails, Forgotten
<1> QED BY <1>1, <1>2, <1>3

(* Steps that are of no interest to the invariants below. *)
Elsewhere ==
  /\ RuntimeKeeps
  /\ UNCHANGED <<table, known, events, loaded, listed, unread, delivery, generated,
                 withdrawn>>
  /\ \A s \in Schedulers : pc'[s] = "scheduled" <=> pc[s] = "scheduled"
  /\ tick'.rows \subseteq tick.rows
  /\ pendingDurable' \subseteq pendingDurable
  /\ failures' \in Nat /\ failures' >= failures

LEMMA ElsewhereSteps ==
  ASSUME TypeOK, DurableInv,
         \/ RuntimeStep /\ UNCHANGED signalVars
         \/ \E j \in Jobs :
              \/ CallReturns(j) \/ CallThrows(j)
              \/ WriteJob(j) /\ UNCHANGED signalVars
         \/ /\ UNCHANGED durableVars
            /\ \/ StartSignals \/ AlarmPutOff \/ TickEnds
               \/ \E s \in Signals : TimePasses(s)
               \/ \E t \in Tasks : AskLock(t) \/ CancelReturns(t) \/ CallerThrows(t)
         \/ Shutdown \/ UNCHANGED vars
  PROVE  Elsewhere
<1> USE SignalsAssumption DEF TypeOK, Elsewhere
<1>1. CASE RuntimeStep /\ UNCHANGED signalVars
  BY <1>1, RuntimeStepKeeps DEF signalVars
<1>2. CASE \E j \in Jobs : WriteJob(j) /\ UNCHANGED signalVars
  BY <1>2, CallKeeps DEF signalVars
<1>3. CASE \E j \in Jobs : CallReturns(j)
  BY <1>3, CallKeeps DEF CallReturns
<1>4. CASE \E j \in Jobs : CallThrows(j)
  <2>1. RuntimeKeeps BY <1>4, CallKeeps DEF CallThrows
  <2> QED BY <1>4, <2>1 DEF CallThrows
<1>5. CASE UNCHANGED durableVars
  <2>1. RuntimeKeeps BY <1>5 DEF durableVars, RuntimeKeeps, LeftOver, OnDisk
  <2>2. CASE StartSignals BY <2>1, <2>2 DEF StartSignals
  <2>3. CASE AlarmPutOff BY <2>1, <2>3 DEF AlarmPutOff
  <2>4. CASE TickEnds BY <2>1, <2>4 DEF TickEnds, NoTick
  <2>5. CASE \E s \in Signals : TimePasses(s) BY <2>1, <2>5 DEF TimePasses
  <2>6. CASE \E t \in Tasks : AskLock(t) BY <2>1, <2>6 DEF AskLock
  <2>7. CASE \E t \in Tasks : CancelReturns(t) BY <2>1, <2>7 DEF CancelReturns, Schedulers
  <2>8. CASE UNCHANGED signalVars BY <2>1, <2>8 DEF signalVars
  <2>12. CASE \E t \in Tasks : CallerThrows(t)
    <3>1. \A s \in Schedulers : pc'[s] = "scheduled" <=> pc[s] = "scheduled"
      BY <2>12, AbandonsTypes DEF CallerThrows
    <3> QED BY <2>1, <2>12, <3>1 DEF CallerThrows
  <2> HIDE DEF Elsewhere, TypeOK
  <2>9. CASE Shutdown BY <1>5, <2>9 DEF Shutdown, Stop, durableVars
  <2>10. CASE \E j \in Jobs : CallReturns(j) BY <1>3, <2>10
  <2>11. CASE \E j \in Jobs : CallThrows(j) BY <1>4, <2>11
  <2> QED BY <1>1, <1>2, <2>2, <2>3, <2>4, <2>5, <2>6, <2>7, <2>8, <2>9, <2>10, <2>11, <2>12 DEF vars
<1>6. CASE Shutdown
  <2>1. RuntimeKeeps BY <1>6 DEF Shutdown, Stop, RuntimeKeeps, LeftOver, OnDisk
  <2> QED BY <1>6, <2>1 DEF Shutdown
<1> QED BY <1>1, <1>2, <1>3, <1>4, <1>5, <1>6 DEF vars

(* The end of a job, whatever comes of it. *)
LEMMA JobEnds ==
  ASSUME DurableInv, JobSucceeds \/ JobFails
  PROVE  /\ drain'.at # "running"
         /\ \A j \in Jobs : call'[j] = call[j] /\ input'[j] = input[j]
         /\ \A j \in Jobs : OnDisk(j)' <=> OnDisk(j)
         /\ owed' = owed \/ (JobSucceeds /\ owed' = owed \ {drain.job})
         /\ crashes' = crashes
<1>1. CASE JobSucceeds BY <1>1 DEF JobSucceeds, OnDisk, DurableInv, DurableTypeOK
<1>2. CASE JobFails BY <1>2 DEF JobFails, OnDisk, DurableInv, DurableTypeOK
<1> QED BY <1>1, <1>2

(* What a crash leaves: the jobs that have files. *)
LEMMA CrashKeeps ==
  ASSUME DurableInv, Crash
  PROVE  /\ \A j \in Jobs : call'[j] # "none" => OnDisk(j) /\ input'[j] = input[j]
         /\ \A j \in Jobs : OnDisk(j)' <=> OnDisk(j)
         /\ owed' = owed /\ crashes' = crashes + 1
  BY DEF Crash, OnDisk, DurableInv, DurableTypeOK

-----------------------------------------------------------------------------
(* Every step, by what it means to the invariants. *)
TableStep ==
  /\ UNCHANGED durableVars
  /\ \/ LoadSignals \/ LoadThrows \/ AlarmRings
     \/ \E t \in Tasks : ReplaceSameKey(t) \/ CreateSignal(t) \/ CancelOne(t)

LEMMA StepKinds ==
  ASSUME TypeOK, DurableInv, [Next]_vars
  PROVE  \/ Elsewhere \/ TableStep
         \/ \E j \in Jobs : CallDeliver(j)
         \/ DeliverFinds \/ DeliverFindsNothing \/ Generates \/ GenerateThrows
         \/ DeleteDelivered \/ DeleteThrows \/ Restart
<1>1. CASE RuntimeStep /\ UNCHANGED signalVars BY <1>1, ElsewhereSteps
<1>2. CASE (LoadSignals \/ LoadThrows \/ StartSignals) /\ UNCHANGED durableVars
  BY <1>2, ElsewhereSteps DEF TableStep
<1>3. CASE \E s \in Signals : TimePasses(s) /\ UNCHANGED durableVars
  BY <1>3, ElsewhereSteps
<1>4. CASE \E t \in Tasks :
             (AskLock(t) \/ TaskStep(t) \/ CallerThrows(t)) /\ UNCHANGED durableVars
  BY <1>4, ElsewhereSteps DEF TaskStep, TableStep
<1>5. CASE TickStep /\ UNCHANGED durableVars
  BY <1>5, ElsewhereSteps DEF TickStep, TableStep
<1>6. CASE \E j \in Jobs : CallStep(j) \/ CallThrows(j)
  BY <1>6, ElsewhereSteps DEF CallStep
<1>7. CASE DeliverStep BY <1>7 DEF DeliverStep
<1>8. CASE Shutdown BY <1>8, ElsewhereSteps
<1>9. CASE UNCHANGED vars BY <1>9, ElsewhereSteps
<1> QED BY <1>1, <1>2, <1>3, <1>4, <1>5, <1>6, <1>7, <1>8, <1>9 DEF Next

LEMMA CallFacts ==
  ASSUME DurableInv, NEW j \in Jobs, CallDeliver(j)
  PROVE  \E s \in tick.rows :
           /\ s \in Signals
           /\ \A k \in Jobs : call'[k] # "none" =>
                IF k = j THEN input'[k] = s ELSE call[k] # "none" /\ input'[k] = input[k]
           /\ \A k \in Jobs : OnDisk(k)' <=> OnDisk(k) /\ k # j
           /\ \A k \in Jobs : OnDisk(k) => k # j
           /\ owed' = owed /\ crashes' = crashes /\ drain' = drain
           /\ tick'.rows \subseteq tick.rows
<1>1. PICK s \in Signals :
        /\ IsFirst(s, Uncalled) /\ Post(j, s)
        /\ tick' = [at |-> "calling", rows |-> {r \in tick.rows : r > s}]
  BY DEF CallDeliver
<1>2. s \in tick.rows BY <1>1 DEF IsFirst, Uncalled
<1>3. ~OnDisk(j) BY <1>1 DEF Post, FreeIds, DurableInv, FilesWereWritten
<1> QED BY <1>1, <1>2, <1>3 DEF Post, DurableInv, DurableTypeOK, OnDisk

(* The signal that deliver() works on does not change under it. *)
LEMMA TargetStays ==
  ASSUME DurableInv, DurableInv', JobsOfSignals, delivery # "none",
         RuntimeKeeps \/ \E j \in Jobs : CallDeliver(j)
  PROVE  drain' = drain /\ Target' = Target
<1>1. drain.at = "running" BY DEF JobsOfSignals
<1>2. drain' = drain BY <1>1, CallFacts DEF RuntimeKeeps
<1>3. drain.job \in Jobs /\ OnDisk(drain.job) BY <1>1, RunningJob
<1>4. power' # "recovering" BY <1>1, <1>2 DEF DurableInv, DrainShape, Idle
<1>5. call'[drain.job] # "none"
  BY <1>1, <1>2, <1>3, <1>4 DEF DurableInv, OneJobAtATime, FilesWereWritten, OnDisk
<1>6. input'[drain.job] = input[drain.job]
  BY <1>3, <1>5, CallFacts DEF RuntimeKeeps
<1> QED BY <1>2, <1>6 DEF Target

(* Jobs are for signals that were scheduled. *)
LEMMA JobsStep ==
  ASSUME SignalsInv, TypeOK', DurableInv', [Next]_vars
  PROVE  JobsOfSignals'
<1> USE SignalsAssumption DEF SignalsInv, JobsOfSignals, Unscheduled
<1>1. CASE Elsewhere
  <2>1. delivery # "none" => drain' = drain /\ Target' = Target
    BY <1>1, TargetStays DEF Elsewhere
  <2> QED BY <1>1, <2>1 DEF Elsewhere, RuntimeKeeps
<1>2. CASE TableStep
  <2>1. \A s \in Schedulers : pc[s] = "scheduled" => pc'[s] = "scheduled"
    BY <1>2, AbandonsTypes
       DEF TableStep, LoadSignals, LoadThrows, AlarmRings, ReplaceSameKey, CreateSignal,
           CancelOne, TypeOK
  <2>2. delivery' = delivery /\ generated' = generated
    BY <1>2 DEF TableStep, LoadSignals, LoadThrows, AlarmRings, ReplaceSameKey,
                CreateSignal, CancelOne
  <2> QED BY <1>2, <2>1, <2>2 DEF TableStep, durableVars, Target
<1>3. CASE \E j \in Jobs : CallDeliver(j)
  <2>1. UNCHANGED <<pc, delivery, generated>> BY <1>3 DEF CallDeliver
  <2>2. delivery # "none" => drain' = drain /\ Target' = Target BY <1>3, TargetStays
  <2>3. \A j \in Jobs : call'[j] # "none" => input'[j] \in Signals /\ ~Unscheduled(input'[j])
    BY <1>3, CallFacts DEF NotYet
  <2> QED BY <2>1, <2>2, <2>3
<1>4. CASE DeliverFinds BY <1>4 DEF DeliverFinds, durableVars
<1>5. CASE Generates
  <2>1. generated'[Target] = generated[Target] + 1 /\ generated[Target] \in Nat
    BY <1>5, RunningJob DEF Generates, TypeOK
  <2> QED BY <1>5, <2>1 DEF Generates, durableVars, Target
<1>6. CASE DeliverFindsNothing
  BY <1>6, JobEnds DEF DeliverFindsNothing, DeliverySettled
<1>7. CASE GenerateThrows BY <1>7, JobEnds DEF GenerateThrows, DeliverySettled
<1>8. CASE DeleteDelivered BY <1>8, JobEnds DEF DeleteDelivered, DeliverySettled
<1>9. CASE DeleteThrows BY <1>9, JobEnds DEF DeleteThrows, DeliverySettled
<1>10. CASE Restart
  <2>1. \A s \in Schedulers : pc[s] = "scheduled" => pc'[s] = "scheduled"
    BY <1>10 DEF Restart, TypeOK
  <2>2. \A j \in Jobs : OnDisk(j) => call[j] # "none"
    BY DEF DurableInv, FilesWereWritten
  <2> QED BY <1>10, <2>1, <2>2, CrashKeeps DEF Restart
<1> QED BY <1>1, <1>2, <1>3, <1>4, <1>5, <1>6, <1>7, <1>8, <1>9, <1>10, StepKinds

(* Only scheduled signals get around. *)
LEMMA NotYetStep ==
  ASSUME SignalsInv, TypeOK', [Next]_vars
  PROVE  NotYet'
<1> USE SignalsAssumption DEF SignalsInv, NotYet, Unscheduled
<1>1. CASE Elsewhere BY <1>1 DEF Elsewhere
<1>2. CASE LoadSignals BY <1>2 DEF LoadSignals
<1>3. CASE AlarmRings BY <1>3 DEF AlarmRings
<1>4. CASE \E t \in Tasks : ReplaceSameKey(t) BY <1>4 DEF ReplaceSameKey, TypeOK
<1>5. CASE \E t \in Tasks : CreateSignal(t) BY <1>5 DEF CreateSignal, TypeOK
<1>6. CASE \E t \in Tasks : CancelOne(t) BY <1>6 DEF CancelOne
<1>7. CASE \E j \in Jobs : CallDeliver(j) BY <1>7, CallFacts DEF CallDeliver
<1>8. CASE DeliverFinds BY <1>8, RunningJob DEF DeliverFinds
<1>9. CASE DeliverFindsNothing BY <1>9 DEF DeliverFindsNothing
<1>10. CASE Generates
  <2>1. \A s \in Schedulers : Unscheduled(s) => generated'[s] = generated[s]
    BY <1>10, RunningJob DEF Generates, TypeOK, Schedulers
  <2> QED BY <1>10, <2>1 DEF Generates
<1>11. CASE GenerateThrows BY <1>11 DEF GenerateThrows
<1>12. CASE DeleteDelivered BY <1>12 DEF DeleteDelivered
<1>13. CASE DeleteThrows BY <1>13 DEF DeleteThrows
<1>14. CASE Restart BY <1>14 DEF Restart, NoTick, TypeOK
<1>15. CASE LoadThrows BY <1>15, AbandonsTypes DEF LoadThrows
<1> QED BY <1>1, <1>2, <1>3, <1>4, <1>5, <1>6, <1>7, <1>8, <1>9, <1>10, <1>11,
           <1>12, <1>13, <1>14, <1>15, StepKinds DEF TableStep

(* The caches follow the table. *)
LEMMA CachesStep ==
  ASSUME SignalsInv, TypeOK', DurableInv', [Next]_vars
  PROVE  CachesAgree' /\ EveryRowIsCovered'
<1> USE SignalsAssumption
    DEF SignalsInv, CachesAgree, EveryRowIsCovered, Covered
<1>owed. \A j \in Jobs : j \in owed => OnDisk(j) /\ call[j] # "none"
  BY DEF DurableInv, NoJobLost, FilesWereWritten, OnDisk
<1>owedAfter. \A j \in Jobs : j \in owed' => call'[j] # "none"
  BY DEF DurableInv, NoJobLost, FilesWereWritten, OnDisk
<1>disk. \A j \in Jobs : OnDisk(j) => call[j] # "none"
  BY DEF DurableInv, FilesWereWritten
<1>diskAfter. \A j \in Jobs : OnDisk(j)' => call'[j] # "none"
  BY DEF DurableInv, FilesWereWritten
<1>1. CASE Elsewhere
  <2>1. \A j \in Jobs : j \in owed => j \in owed' /\ input'[j] = input[j]
    BY <1>1, <1>owedAfter DEF Elsewhere, RuntimeKeeps
  <2>2. \A j \in Jobs : OnDisk(j)' /\ j \notin owed' =>
          OnDisk(j) /\ j \notin owed /\ input'[j] = input[j]
    BY <1>1, <1>diskAfter DEF Elsewhere, RuntimeKeeps
  <2> QED BY <1>1, <2>1, <2>2 DEF Elsewhere
<1>2. CASE TableStep
  <2>0. /\ owed' = owed /\ input' = input
        /\ \A j \in Jobs : OnDisk(j)' <=> OnDisk(j)
    BY <1>2 DEF TableStep, durableVars, OnDisk
  <2>2. CASE LoadSignals BY <2>0, <2>2 DEF LoadSignals
  <2>3. CASE AlarmRings BY <2>0, <2>3 DEF AlarmRings
  <2>4. CASE \E t \in Tasks : ReplaceSameKey(t) BY <2>0, <2>4 DEF ReplaceSameKey
  <2>5. CASE \E t \in Tasks : CreateSignal(t)
    <3>1. PICK s \in Schedulers : CreateSignal(s) BY <2>5 DEF CreateSignal
    <3>2. Unscheduled(s) BY <3>1 DEF CreateSignal, Unscheduled
    <3>3. s \notin withdrawn BY <3>2 DEF NotYet
    <3>4. \A j \in Jobs : OnDisk(j) => input[j] # s
      BY <1>disk, <3>2 DEF JobsOfSignals
    <3>5. /\ table' = (table \ SameKey(s)) \cup {s}
          /\ known' = (known \ SameKey(s)) \cup {s}
          /\ events' = events \cup {s} /\ UNCHANGED <<loaded, listed, unread>>
          /\ withdrawn' = withdrawn \cup (table \cap SameKey(s))
      BY <3>1 DEF CreateSignal
    <3>6. s \notin SameKey(s) BY DEF SameKey
    <3>7. CachesAgree' BY <2>0, <3>3, <3>4, <3>5, <3>6
    <3>8. EveryRowIsCovered' BY <2>0, <3>5
    <3> QED BY <3>7, <3>8
  <2>6. CASE \E t \in Tasks : CancelOne(t) BY <2>0, <2>6 DEF CancelOne
  <2>7. CASE LoadThrows
    BY <2>0, <2>7 DEF LoadThrows
  <2> QED BY <1>2, <2>2, <2>3, <2>4, <2>5, <2>6, <2>7 DEF TableStep
<1>3. CASE \E j \in Jobs : CallDeliver(j)
  <2>1. PICK j \in Jobs : CallDeliver(j) BY <1>3
  <2>2. UNCHANGED <<table, known, events, loaded, listed, unread, withdrawn>> BY <2>1 DEF CallDeliver
  <2>3. /\ \A k \in Jobs : OnDisk(k)' <=> OnDisk(k)
        /\ \A k \in Jobs : OnDisk(k) => input'[k] = input[k]
        /\ owed' = owed
    BY <2>1, <1>diskAfter, CallFacts
  <2> QED BY <1>owed, <2>2, <2>3
<1>4. CASE DeliverFinds
  BY <1>4, RunningJob DEF DeliverFinds, Found, durableVars, OnDisk
<1>5. CASE Generates BY <1>5 DEF Generates, durableVars, OnDisk
<1>6. CASE DeliverFindsNothing
  <2>1. Target \notin table BY <1>6 DEF DeliverFindsNothing, Found
  <2>2. UNCHANGED <<table, known, events, loaded, listed, unread, withdrawn>> BY <1>6 DEF DeliverFindsNothing
  <2> QED BY <1>6, <2>1, <2>2, JobEnds DEF DeliverFindsNothing, Target
<1>7. CASE GenerateThrows
  <2>1. owed' = owed BY <1>7 DEF GenerateThrows, JobFails
  <2> QED BY <1>7, <2>1, JobEnds DEF GenerateThrows
<1>8. CASE DeleteDelivered
  <2>1. /\ table' = table \ {Target} /\ known' = known \ {Target}
        /\ events' = events \ {Target} /\ UNCHANGED <<loaded, listed, unread, withdrawn>>
    BY <1>8 DEF DeleteDelivered
  <2> QED BY <1>8, <2>1, JobEnds DEF DeleteDelivered, Target
<1>9. CASE DeleteThrows
  <2>1. owed' = owed /\ drain.at = "running" BY <1>9 DEF DeleteThrows, JobFails
  <2>2. /\ UNCHANGED <<table, known, loaded, listed, unread, withdrawn>>
        /\ events' = events \ {Target}
    BY <1>9 DEF DeleteThrows
  <2>3. Target \in table => drain.job \in Jobs /\ drain.job \in owed
    BY <2>1, RunningJob DEF Target
  <2> QED BY <1>9, <2>1, <2>2, <2>3, JobEnds DEF DeleteThrows, Target
<1>10. CASE Restart
  BY <1>10, <1>diskAfter, CrashKeeps DEF Restart
<1> QED BY <1>1, <1>2, <1>3, <1>4, <1>5, <1>6, <1>7, <1>8, <1>9, <1>10, StepKinds

LEMMA MoreExcuses ==
  ASSUME NEW n \in Nat, NEW c \in Nat, NEW f \in Nat, NEW g \in Nat, f <= g, n <= c + f
  PROVE  n <= c + g
  OBVIOUS

(* Who is gone was generated or withdrawn, and a repetition has an excuse. *)
LEMMA GeneratedStep ==
  ASSUME SignalsInv, TypeOK', DurableInv', [Next]_vars
  PROVE  NoSignalLost' /\ RepeatsAreExcused' /\ GeneratedOnce'
<1> USE SignalsAssumption
    DEF SignalsInv, NoSignalLost, RepeatsAreExcused, GeneratedOnce
<1>numbers. /\ \A s \in Signals : generated[s] \in Nat
      /\ failures \in Nat /\ crashes \in Nat
  BY DEF TypeOK, DurableTypeOK
<1>1. CASE Elsewhere
  <2>1. delivery # "none" => Target' = Target BY <1>1, TargetStays DEF Elsewhere
  <2>2. /\ UNCHANGED <<table, known, delivery, generated, withdrawn>>
        /\ crashes' = crashes /\ failures' \in Nat /\ failures' >= failures
        /\ \A s \in Schedulers : pc'[s] = "scheduled" <=> pc[s] = "scheduled"
    BY <1>1 DEF Elsewhere, RuntimeKeeps
  <2>3. NoSignalLost' BY <2>2 DEF Schedulers
  <2>4. RepeatsAreExcused'
    <3>1. \A n \in Nat : n <= crashes + failures => n <= crashes' + failures'
      <4>1. crashes' = crashes /\ failures' \in Nat /\ failures' >= failures BY <2>2
      <4>2. crashes \in Nat /\ failures \in Nat BY <1>numbers
      <4> QED BY <4>1, <4>2, MoreExcuses
    <3>2. delivery = "generating" => generated[Target] \in Nat
      BY <1>numbers, RunningJob DEF JobsOfSignals
    <3> QED BY <1>numbers, <2>1, <2>2, <3>1, <3>2
  <2>5. GeneratedOnce' BY <1>numbers, <2>2
  <2> QED BY <2>3, <2>4, <2>5
<1>2. CASE TableStep
  <2>0. crashes' = crashes /\ Target' = Target
    BY <1>2 DEF TableStep, durableVars, Target
  <2>2. CASE LoadSignals BY <2>0, <2>2 DEF LoadSignals
  <2>3. CASE AlarmRings BY <2>0, <2>3 DEF AlarmRings
  <2>4. CASE \E t \in Tasks : ReplaceSameKey(t) BY <2>0, <2>4 DEF ReplaceSameKey, TypeOK
  <2>5. CASE \E t \in Tasks : CreateSignal(t)
    <3>1. PICK s \in Schedulers : CreateSignal(s) BY <2>5 DEF CreateSignal
    <3>2. generated[s] = 0 BY <3>1 DEF CreateSignal, Unscheduled, NotYet
    <3> QED BY <1>numbers, <2>0, <3>1, <3>2 DEF CreateSignal, TypeOK
  <2>6. CASE \E t \in Tasks : CancelOne(t) BY <2>0, <2>6 DEF CancelOne
  <2>7. CASE LoadThrows
    <3>1. \A s \in Schedulers : pc'[s] = "scheduled" <=> pc[s] = "scheduled"
      BY <2>7, AbandonsTypes DEF LoadThrows
    <3>2. /\ UNCHANGED <<table, known, delivery, generated, withdrawn>>
          /\ failures' = failures + 1
      BY <2>7 DEF LoadThrows
    <3>3. \A n \in Nat : n <= crashes + failures => n <= crashes' + failures'
      BY <1>numbers, <2>0, <3>2, MoreExcuses
    <3>4. delivery = "generating" => generated[Target] \in Nat
      BY <1>numbers, RunningJob DEF JobsOfSignals
    <3>5. NoSignalLost' BY <3>1, <3>2 DEF Schedulers
    <3>6. RepeatsAreExcused' BY <1>numbers, <2>0, <3>2, <3>3, <3>4
    <3>7. GeneratedOnce' BY <1>numbers, <2>0, <3>2
    <3> QED BY <3>5, <3>6, <3>7
  <2> QED BY <1>2, <2>2, <2>3, <2>4, <2>5, <2>6, <2>7 DEF TableStep
<1>3. CASE \E j \in Jobs : CallDeliver(j)
  <2>1. delivery # "none" => Target' = Target BY <1>3, TargetStays
  <2>2. crashes' = crashes BY <1>3, CallFacts
  <2> QED BY <1>3, <2>1, <2>2 DEF CallDeliver
<1>4. CASE DeliverFinds
  <2>1. Target \in table \cup known BY <1>4 DEF DeliverFinds, Found
  <2>2. Target' = Target /\ crashes' = crashes BY <1>4 DEF DeliverFinds, durableVars, Target
  <2> QED BY <1>4, <2>1, <2>2, RunningJob DEF DeliverFinds
<1>5. CASE Generates
  <2>1. Target' = Target /\ crashes' = crashes BY <1>5 DEF Generates, durableVars, Target
  <2>2. Target \in Signals BY <1>5, RunningJob DEF Generates
  <2>3. \A s \in Signals : generated'[s] = IF s = Target THEN generated[s] + 1 ELSE generated[s]
    BY <1>5, <2>2 DEF Generates, TypeOK
  <2>4. UNCHANGED <<table, known, pc, withdrawn, failures>>
        /\ delivery = "generating" /\ delivery' = "locking"
    BY <1>5 DEF Generates
  <2> QED BY <1>numbers, <2>1, <2>2, <2>3, <2>4
<1>6. CASE DeliverFindsNothing
  BY <1>6, JobEnds DEF DeliverFindsNothing, DeliverySettled
<1>7. CASE GenerateThrows
  BY <1>numbers, <1>7, JobEnds DEF GenerateThrows, DeliverySettled
<1>8. CASE DeleteDelivered
  <2>1. generated[Target] > 0 BY <1>8 DEF DeleteDelivered, JobsOfSignals
  <2> QED BY <1>numbers, <1>8, <2>1, JobEnds DEF DeleteDelivered, DeliverySettled
<1>9. CASE DeleteThrows
  BY <1>numbers, <1>9, JobEnds DEF DeleteThrows, DeliverySettled
<1>10. CASE Restart
  <2>1. \A s \in Signals : (s \in Stored \/ pc'[s] = "scheduled") =>
          s \in Stored \/ pc[s] = "scheduled"
    BY <1>10 DEF Restart, TypeOK, Schedulers
  <2> QED BY <1>numbers, <1>10, <2>1, CrashKeeps DEF Restart
<1> QED BY <1>1, <1>2, <1>3, <1>4, <1>5, <1>6, <1>7, <1>8, <1>9, <1>10, StepKinds

LEMMA SignalsInitInv == Init => SignalsInv
<1> SUFFICES ASSUME Init PROVE SignalsInv OBVIOUS
<1> USE SignalsAssumption DEF Init
<1>1. DurableInv BY DurableInitInv, InitIsDurable
<1>2. \A j \in Jobs : call[j] = "none" /\ ~OnDisk(j) BY DEF DurableInit, OnDisk
<1>3. TypeOK
  <2>1. lock \in LockType(Tasks) BY DEF FreeLock, LockType
  <2>2. tick \in [at : {"idle", "posting", "calling"}, rows : SUBSET Signals]
    BY DEF NoTick
  <2>3. pc \in [Schedulers \cup Cancellers ->
                 {"idle", "locking", "replaced", "scheduled", "cancelled", "gone"}]
    OBVIOUS
  <2>4. generated \in [Signals -> Nat] /\ failures \in 0..MaxFailures
    OBVIOUS
  <2> QED BY <1>1, <2>1, <2>2, <2>3, <2>4 DEF TypeOK, DurableInv
<1>4. JobsOfSignals /\ CachesAgree BY <1>2 DEF JobsOfSignals, CachesAgree
<1>5. NotYet BY DEF NotYet, NoTick, Schedulers
<1>6. RepeatsAreExcused /\ GeneratedOnce
  BY <1>1 DEF RepeatsAreExcused, GeneratedOnce, DurableInv, DurableTypeOK
<1>7. NoSignalLost /\ EveryRowIsCovered
  BY DEF NoSignalLost, EveryRowIsCovered, Schedulers
<1> QED BY <1>1, <1>3, <1>4, <1>5, <1>6, <1>7 DEF SignalsInv

LEMMA SignalsStepInv == SignalsInv /\ [Next]_vars => SignalsInv'
<1> SUFFICES ASSUME SignalsInv, [Next]_vars PROVE SignalsInv' OBVIOUS
<1>1. DurableInv' BY StepIsDurable, DurableStepInv DEF SignalsInv
<1>2. TypeOK' BY TypesStep DEF SignalsInv
<1> QED BY <1>1, <1>2, JobsStep, NotYetStep, CachesStep, GeneratedStep DEF SignalsInv

THEOREM SignalsInvariant == Spec => []SignalsInv
  BY SignalsInitInv, SignalsStepInv, PTL DEF Spec

(* Types. *)
THEOREM SignalsTyped == Spec => []TypeOK
  BY SignalsInvariant, PTL DEF SignalsInv

(* A scheduled signal stays in the table until it is generated, cancelled  *)
(* or replaced, whatever crashes and fails.                                *)
THEOREM SignalsPersist == Spec => []NoSignalLost
  BY SignalsInvariant, PTL DEF SignalsInv

(* Every row of the table has an event in memory or a job on disk, but for *)
(* those that were there when this process failed to read the table.       *)
THEOREM RowsAreCovered == Spec => []EveryRowIsCovered
  BY SignalsInvariant, PTL DEF SignalsInv

(* Without a crash or a failure a signal is generated at most once.        *)
THEOREM SignalsGoOnce == Spec => []GeneratedOnce
  BY SignalsInvariant, PTL DEF SignalsInv

(* The delivery of a cancelled or replaced signal does not begin.          *)
LEMMA QuietStep ==
  ASSUME SignalsInv, SignalsInv', [Next]_vars, NEW s \in withdrawn, Delivering(s)'
  PROVE  Delivering(s)
<1> USE DEF SignalsInv, Delivering
<1>1. CASE Elsewhere
  <2>1. delivery' = delivery BY <1>1 DEF Elsewhere
  <2> QED BY <1>1, <2>1, TargetStays DEF Elsewhere
<1>2. CASE TableStep
  BY <1>2 DEF TableStep, durableVars, Target, LoadSignals, LoadThrows, AlarmRings,
              ReplaceSameKey, CreateSignal, CancelOne
<1>3. CASE \E j \in Jobs : CallDeliver(j)
  <2>1. delivery' = delivery BY <1>3 DEF CallDeliver
  <2> QED BY <1>3, <2>1, TargetStays
<1>4. CASE DeliverFinds
  <2>1. Target \in table \cup known BY <1>4 DEF DeliverFinds, Found
  <2>2. Target' = Target BY <1>4 DEF DeliverFinds, durableVars, Target
  <2> QED BY <2>1, <2>2 DEF CachesAgree
<1>5. CASE Generates BY <1>5 DEF Generates, durableVars, Target
<1>6. CASE DeliverFindsNothing BY <1>6 DEF DeliverFindsNothing, DeliverySettled
<1>7. CASE GenerateThrows BY <1>7 DEF GenerateThrows, DeliverySettled
<1>8. CASE DeleteDelivered BY <1>8 DEF DeleteDelivered, DeliverySettled
<1>9. CASE DeleteThrows BY <1>9 DEF DeleteThrows, DeliverySettled
<1>10. CASE Restart BY <1>10 DEF Restart
<1> QED BY <1>1, <1>2, <1>3, <1>4, <1>5, <1>6, <1>7, <1>8, <1>9, <1>10, StepKinds

(* A cancelled or replaced signal stays quiet.                             *)
THEOREM WithdrawnIsQuiet == Spec => WithdrawnStaysQuiet
<1>1. SignalsInv /\ SignalsInv' /\ [Next]_vars =>
        [\A s \in withdrawn : ~Delivering(s) => ~Delivering(s)']_vars
  BY QuietStep
<1> QED BY <1>1, SignalsInvariant, PTL DEF Spec, WithdrawnStaysQuiet

-----------------------------------------------------------------------------
(* The repository's cache has no row that the table has not; and nobody    *)
(* works on the signal of a job that is left over, so that its second run, *)
(* which finds nothing, takes no other call out of pendingDurable.         *)
LeftOversAreForgotten ==
  /\ known \subseteq table
  /\ \A j \in Jobs : LeftOver(j) => input[j] \notin table \cup tick.rows \cup pendingDurable

(* A signal that is pending has one call; what it has beyond that, a crash *)
(* or a failure made.                                                      *)
Pending(s) == IF s \in pendingDurable THEN 1 ELSE 0

CallsAreExcused ==
  \A s \in Signals : Cardinality(Calls(s)) <= crashes + failures + Pending(s)

CallsInv == LeftOversAreForgotten /\ CallsAreExcused

LEMMA CallsAreFinite ==
  ASSUME TypeOK, NEW s
  PROVE  IsFiniteSet(Calls(s)) /\ Cardinality(Calls(s)) \in Nat
<1>1. IsFiniteSet(Jobs) BY DurableAssumption, FS_Interval DEF Jobs
<1>2. Calls(s) \subseteq Jobs BY DEF Calls
<1> QED BY <1>1, <1>2, FS_Subset, FS_CardinalityType

(* No call is added, and a signal that is no longer pending has an excuse. *)
LEMMA NoCallAdded ==
  ASSUME TypeOK, TypeOK', CallsAreExcused, NEW s \in Signals,
         Calls(s)' \subseteq Calls(s),
         \/ crashes' + failures' = crashes + failures /\ (s \in pendingDurable => s \in pendingDurable')
         \/ crashes' + failures' = crashes + failures + 1
  PROVE  Cardinality(Calls(s)') <= crashes' + failures' + Pending(s)'
<1>1. Cardinality(Calls(s)') <= Cardinality(Calls(s)) /\ Cardinality(Calls(s)') \in Nat
  BY CallsAreFinite, FS_Subset, FS_CardinalityType
<1>2. Cardinality(Calls(s)) \in Nat BY CallsAreFinite
<1>3. Cardinality(Calls(s)) <= crashes + failures + Pending(s) BY DEF CallsAreExcused
<1>4. crashes + failures \in Nat /\ crashes' + failures' \in Nat
  <2>1. crashes \in Nat /\ failures \in Nat
    BY SignalsAssumption, DurableAssumption DEF TypeOK, DurableTypeOK
  <2>2. crashes' \in Nat /\ failures' \in Nat
    BY SignalsAssumption, DurableAssumption DEF TypeOK, DurableTypeOK
  <2>3. \A a, b \in Nat : a + b \in Nat OBVIOUS
  <2> QED BY ONLY <2>1, <2>2, <2>3
<1>5. Pending(s) \in {0, 1} /\ Pending(s)' \in {0, 1} BY DEF Pending
<1>6. CASE s \in pendingDurable => s \in pendingDurable'
  <2>1. Pending(s) <= Pending(s)' BY <1>6 DEF Pending
  <2>2. crashes + failures <= crashes' + failures' BY <1>4
  <2> HIDE DEF Pending
  <2> QED BY <1>1, <1>2, <1>3, <1>4, <1>5, <2>1, <2>2
<1>7. CASE crashes' + failures' = crashes + failures + 1
  <2> QED BY <1>1, <1>2, <1>3, <1>4, <1>5, <1>7
<1> QED BY <1>6, <1>7

(* The files of a job that is owed, or is being called, are known.         *)
LEMMA CallsOnDisk ==
  ASSUME DurableInv, NEW j \in Jobs, j \in owed
  PROVE  OnDisk(j) /\ call[j] \in {"written", "returned"}
  BY DEF DurableInv, NoJobLost, FilesWereWritten, OnDisk

(* The runtime neither makes a call nor forgets one.                       *)
LEMMA SameCalls ==
  ASSUME DurableInv, NEW s,
         RuntimeStep \/ \E j \in Jobs : WriteJob(j) \/ TriggerJob(j)
  PROVE  Calls(s)' = Calls(s)
<1> USE DEF DurableInv, DurableTypeOK, Calls
<1>1. CASE RuntimeStep
  <2>1. owed' = owed
    BY <1>1 DEF RuntimeStep, TimerFires, DrainStep, ListPending, ClaimJob, NothingDue,
                RequeueJob, UnlinkActive, BootStep, Start, RecoverJob, ComesDue
  <2>2. CASE UNCHANGED <<call, input>> BY <2>1, <2>2
  <2>3. CASE UnlinkActive
    <3>1. CASE drain.at = "succeeded" /\ call[drain.job] = "returned"
      <4>1. drain.job \in Jobs /\ drain.job \notin owed
        BY <3>1 DEF DrainShape, Working4
      <4>2. \A j \in Jobs \ {drain.job} : call'[j] = call[j] /\ input'[j] = input[j]
        BY <2>3, <3>1, <4>1 DEF UnlinkActive, Forgotten
      <4>3. call'[drain.job] = "none" BY <2>3, <3>1, <4>1 DEF UnlinkActive
      <4> QED BY <2>1, <3>1, <4>1, <4>2, <4>3
    <3>2. CASE ~(drain.at = "succeeded" /\ call[drain.job] = "returned")
      BY <2>2, <2>3, <3>2 DEF UnlinkActive
    <3> QED BY <3>1, <3>2
  <2> QED BY <1>1, <2>2, <2>3
      DEF RuntimeStep, TimerFires, DrainStep, ListPending, ClaimJob, NothingDue,
          RequeueJob, BootStep, Start, RecoverJob, ComesDue
<1>2. CASE \E j \in Jobs : WriteJob(j) BY <1>2 DEF WriteJob
<1>3. CASE \E j \in Jobs : TriggerJob(j)
  <2>1. PICK j \in Jobs : TriggerJob(j) BY <1>3
  <2>2. owed' = owed BY <2>1 DEF TriggerJob
  <2>3. \A k \in Jobs \ {j} : call'[k] = call[k] /\ input'[k] = input[k]
    BY <2>1 DEF TriggerJob, Forgotten
  <2>4. call[j] = "written" /\ call'[j] \in {"none", "returned"} BY <2>1 DEF TriggerJob
  <2>5. j \in owed => input'[j] = input[j] BY <2>1, CallsOnDisk DEF TriggerJob
  <2> QED BY <2>2, <2>3, <2>4, <2>5
<1> QED BY <1>1, <1>2, <1>3

(* What a step does to the signal that is no longer pending, if there is   *)
(* one: deliver() has settled, so drain() has ended its job.               *)
LEMMA EndedCalls ==
  ASSUME TypeOK, DurableInv, JobsOfSignals, NEW s, JobSucceeds \/ JobFails
  PROVE  /\ Calls(s)' \subseteq Calls(s)
         /\ JobSucceeds /\ s = Target /\ drain.job \in owed =>
              drain.job \in Calls(s) /\ Calls(s)' = Calls(s) \ {drain.job}
<1>1. /\ \A j \in Jobs : call'[j] = call[j] /\ input'[j] = input[j]
      /\ owed' = owed \/ (JobSucceeds /\ owed' = owed \ {drain.job})
  BY JobEnds
<1>2. Calls(s)' \subseteq Calls(s) BY <1>1 DEF Calls
<1>3. ASSUME JobSucceeds, s = Target, drain.job \in owed
      PROVE  drain.job \in Calls(s) /\ Calls(s)' = Calls(s) \ {drain.job}
  <2>1. drain.job \in Jobs BY <1>3, RunningJob DEF JobSucceeds
  <2>2. call[drain.job] # "writing" BY <1>3, <2>1, CallsOnDisk
  <2>3. owed' = owed \ {drain.job} BY <1>3 DEF JobSucceeds
  <2> QED BY <1>1, <1>3, <2>1, <2>2, <2>3 DEF Calls, Target
<1> QED BY <1>2, <1>3

LEMMA SuccessStep ==
  ASSUME SignalsInv, CallsInv, TypeOK', NEW s \in Signals, JobSucceeds,
         pendingDurable' = pendingDurable \ {Target}, failures' = failures
  PROVE  Cardinality(Calls(s)') <= crashes' + failures' + Pending(s)'
<1> USE DEF SignalsInv, CallsInv
<1>1. crashes' = crashes /\ Calls(s)' \subseteq Calls(s) BY JobEnds, EndedCalls
<1>2. CASE s # Target \/ drain.job \notin owed
  <2>1. ASSUME drain.job \notin owed PROVE Target \notin pendingDurable
    <3>1. drain.job \in Jobs /\ LeftOver(drain.job)
      BY <2>1, RunningJob DEF JobSucceeds, LeftOver
    <3> QED BY <3>1 DEF LeftOversAreForgotten, Target
  <2>2. s \in pendingDurable => s \in pendingDurable' BY <1>2, <2>1
  <2> QED BY <1>1, <2>2, NoCallAdded
<1>3. CASE s = Target /\ drain.job \in owed
  <2>1. drain.job \in Calls(s) /\ Calls(s)' = Calls(s) \ {drain.job}
    BY <1>3, EndedCalls
  <2>2. Cardinality(Calls(s)') = Cardinality(Calls(s)) - 1
    BY <2>1, CallsAreFinite, FS_RemoveElement
  <2>3. Cardinality(Calls(s)) <= crashes + failures + Pending(s) BY DEF CallsAreExcused
  <2>4. Pending(s) \in {0, 1} /\ Pending(s)' \in {0, 1} BY DEF Pending
  <2>5. crashes \in Nat /\ failures \in Nat /\ Cardinality(Calls(s)) \in Nat
    BY CallsAreFinite, SignalsAssumption, DurableAssumption DEF TypeOK, DurableTypeOK
  <2> QED BY <1>1, <2>2, <2>3, <2>4, <2>5
<1> QED BY <1>2, <1>3

LEMMA PostedCall ==
  ASSUME SignalsInv, CallsInv, TypeOK', NEW s \in Signals,
         NEW j \in Jobs, CallDeliver(j)
  PROVE  Cardinality(Calls(s)') <= crashes' + failures' + Pending(s)'
<1> USE DEF SignalsInv, CallsInv
<1>1. PICK r \in Signals :
        /\ IsFirst(r, Uncalled) /\ Post(j, r)
        /\ pendingDurable' = pendingDurable \cup {r}
  BY DEF CallDeliver
<1>2. r \notin pendingDurable BY <1>1 DEF IsFirst, Uncalled
<1>3. call[j] = "none" /\ j \notin owed
  BY <1>1, CallsOnDisk DEF Post, FreeIds
<1>4. /\ owed' = owed /\ crashes' = crashes /\ failures' = failures
      /\ \A k \in Jobs \ {j} : call'[k] = call[k] /\ input'[k] = input[k]
      /\ call'[j] = "writing" /\ input'[j] = r
  BY <1>1 DEF Post, CallDeliver, DurableInv, DurableTypeOK
<1>5. j \notin Calls(s) BY <1>3 DEF Calls
<1>6. CASE s # r
  <2>1. Calls(s)' \subseteq Calls(s) BY <1>4, <1>6 DEF Calls
  <2> QED BY <1>1, <1>4, <2>1, NoCallAdded
<1>7. CASE s = r
  <2>1. Calls(s)' = Calls(s) \cup {j} BY <1>3, <1>4, <1>7 DEF Calls
  <2>2. Cardinality(Calls(s)') = Cardinality(Calls(s)) + 1
    BY <1>5, <2>1, CallsAreFinite, FS_AddElement
  <2>3. Cardinality(Calls(s)) <= crashes + failures + Pending(s) BY DEF CallsAreExcused
  <2>4. Pending(s) = 0 /\ Pending(s)' = 1 BY <1>1, <1>2, <1>7 DEF Pending
  <2>5. crashes \in Nat /\ failures \in Nat /\ Cardinality(Calls(s)) \in Nat
    BY CallsAreFinite, SignalsAssumption, DurableAssumption DEF TypeOK, DurableTypeOK
  <2> QED BY <1>4, <2>2, <2>3, <2>4, <2>5
<1> QED BY <1>6, <1>7

LEMMA CallsAreExcusedStep ==
  ASSUME SignalsInv, CallsInv, TypeOK', [Next]_vars
  PROVE  CallsAreExcused'
<1> USE DEF SignalsInv, CallsInv
<1> SUFFICES ASSUME NEW s \in Signals
             PROVE  Cardinality(Calls(s)') <= crashes' + failures' + Pending(s)'
  BY DEF CallsAreExcused, Pending
<1>runtime. RuntimeStep \/ (\E j \in Jobs : WriteJob(j) \/ TriggerJob(j)) => crashes' = crashes
  BY DEF RuntimeStep, TimerFires, DrainStep, ListPending, ClaimJob, NothingDue, RequeueJob,
         UnlinkActive, BootStep, Start, RecoverJob, ComesDue, WriteJob, TriggerJob
<1>numbers. crashes \in Nat /\ failures \in Nat
  BY SignalsAssumption, DurableAssumption DEF TypeOK, DurableTypeOK
<1>1. CASE RuntimeStep /\ UNCHANGED signalVars
  <2>1. Calls(s)' = Calls(s) BY <1>1, SameCalls
  <2> QED BY <1>runtime, <1>1, <2>1, NoCallAdded DEF signalVars
<1>2. CASE \E j \in Jobs : CallReturns(j) \/ (WriteJob(j) /\ UNCHANGED signalVars)
  <2>1. \E j \in Jobs : WriteJob(j) \/ TriggerJob(j) BY <1>2 DEF CallReturns
  <2>2. Calls(s)' = Calls(s) BY <2>1, SameCalls
  <2>3. pendingDurable' = pendingDurable /\ failures' = failures
    BY <1>2 DEF CallReturns, signalVars
  <2> QED BY <1>runtime, <2>1, <2>2, <2>3, NoCallAdded
<1>3. CASE UNCHANGED durableVars /\ pendingDurable' = pendingDurable /\ failures' = failures
  <2>1. Calls(s)' = Calls(s) /\ crashes' = crashes BY <1>3 DEF durableVars, Calls
  <2> QED BY <1>3, <2>1, NoCallAdded
<1>4. CASE \E j \in Jobs : CallDeliver(j) BY <1>4, PostedCall
<1>5. CASE \E j \in Jobs : CallThrows(j)
  <2>1. PICK j \in Jobs : CallThrows(j) BY <1>5
  <2>2. WriteFails(j) /\ failures' = failures + 1 BY <2>1 DEF CallThrows
  <2>3. owed' = owed /\ crashes' = crashes /\ call[j] = "writing" BY <2>2 DEF WriteFails
  <2>4. \A k \in Jobs \ {j} : call'[k] = call[k] /\ input'[k] = input[k]
    BY <2>2 DEF WriteFails, Forgotten, DurableInv, DurableTypeOK
  <2>5. j \notin owed BY <2>3, CallsOnDisk
  <2>6. call'[j] = "none" BY <2>2 DEF WriteFails, DurableInv, DurableTypeOK
  <2>7. Calls(s)' \subseteq Calls(s) BY <2>3, <2>4, <2>5, <2>6 DEF Calls
  <2>8. crashes' + failures' = crashes + failures + 1 BY <1>numbers, <2>2, <2>3
  <2> QED BY <2>7, <2>8, NoCallAdded
<1>6. CASE DeliverFindsNothing \/ DeleteDelivered
  BY <1>6, SuccessStep DEF DeliverFindsNothing, DeleteDelivered, DeliverySettled
<1>7. CASE GenerateThrows \/ DeleteThrows
  <2>1. JobFails /\ failures' = failures + 1 BY <1>7 DEF GenerateThrows, DeleteThrows
  <2>2. Calls(s)' \subseteq Calls(s) BY <2>1, EndedCalls
  <2>3. crashes' + failures' = crashes + failures + 1 BY <1>numbers, <2>1 DEF JobFails
  <2> QED BY <2>2, <2>3, NoCallAdded
<1>8. CASE Shutdown
  <2>1. Calls(s)' = Calls(s) /\ crashes' = crashes BY <1>8 DEF Shutdown, Stop, Calls
  <2> QED BY <1>8, <2>1, NoCallAdded DEF Shutdown
<1>9. CASE Restart
  <2>1. failures' = failures BY <1>9 DEF Restart
  <2>2. owed' = owed /\ crashes' = crashes + 1 BY <1>9, CrashKeeps DEF Restart
  <2>3. \A j \in Jobs : call'[j] # "writing" BY <1>9 DEF Restart, Crash
  <2>4. \A j \in Jobs : j \in owed => input'[j] = input[j]
    BY <1>9, CallsOnDisk DEF Restart, Crash
  <2>5. Calls(s)' \subseteq Calls(s) BY <2>2, <2>3, <2>4 DEF Calls
  <2>6. crashes' + failures' = crashes + failures + 1 BY <1>numbers, <2>1, <2>2
  <2> QED BY <2>5, <2>6, NoCallAdded
<1>10. CASE DeliverFinds \/ Generates BY <1>3, <1>10 DEF DeliverFinds, Generates
<1>failed. CASE /\ UNCHANGED durableVars
                /\ LoadThrows \/ \E t \in Tasks : CallerThrows(t)
  <2>1. Calls(s)' = Calls(s) /\ crashes' = crashes BY <1>failed DEF durableVars, Calls
  <2>2. failures' = failures + 1 BY <1>failed DEF LoadThrows, CallerThrows
  <2>3. crashes' + failures' = crashes + failures + 1 BY <1>numbers, <2>1, <2>2
  <2> QED BY <2>1, <2>3, NoCallAdded
<1>11. CASE TableStep
  BY <1>3, <1>11, <1>failed
     DEF TableStep, LoadSignals, AlarmRings, ReplaceSameKey, CreateSignal, CancelOne
<1>12. CASE /\ UNCHANGED durableVars
            /\ \/ StartSignals \/ AlarmPutOff \/ TickEnds
               \/ \E r \in Signals : TimePasses(r)
               \/ \E t \in Tasks : AskLock(t) \/ CancelReturns(t)
  BY <1>3, <1>12 DEF StartSignals, AlarmPutOff, TickEnds, TimePasses, AskLock, CancelReturns
<1>13. CASE UNCHANGED vars BY <1>3, <1>13 DEF vars, signalVars
<1>14. CASE TickStep /\ UNCHANGED durableVars
  BY <1>11, <1>12, <1>14 DEF TickStep, TableStep
<1>15. CASE \E t \in Tasks :
              (AskLock(t) \/ TaskStep(t) \/ CallerThrows(t)) /\ UNCHANGED durableVars
  BY <1>11, <1>12, <1>failed, <1>15 DEF TaskStep, TableStep
<1>16. CASE (LoadSignals \/ LoadThrows \/ StartSignals) /\ UNCHANGED durableVars
  BY <1>11, <1>12, <1>16 DEF TableStep
<1>17. CASE \E r \in Signals : TimePasses(r) /\ UNCHANGED durableVars
  BY <1>12, <1>17
<1>18. CASE \E j \in Jobs : CallStep(j) \/ CallThrows(j)
  BY <1>2, <1>4, <1>5, <1>18 DEF CallStep
<1> QED BY <1>1, <1>6, <1>7, <1>8, <1>9, <1>10, <1>13, <1>14, <1>15, <1>16, <1>17, <1>18
        DEF Next, DeliverStep

LEMMA LeftOversStep ==
  ASSUME SignalsInv, CallsInv, SignalsInv', [Next]_vars
  PROVE  LeftOversAreForgotten'
<1> USE DEF SignalsInv, CallsInv, LeftOversAreForgotten
<1>disk. \A j \in Jobs : OnDisk(j) => call[j] # "none"
  BY DEF DurableInv, FilesWereWritten
<1>diskAfter. \A j \in Jobs : LeftOver(j)' => OnDisk(j)' /\ call'[j] # "none"
  BY DEF DurableInv, FilesWereWritten, LeftOver
<1>1. CASE Elsewhere BY <1>1, <1>diskAfter DEF Elsewhere, RuntimeKeeps
<1>2. CASE TableStep
  <2>0. input' = input /\ \A j \in Jobs : LeftOver(j)' <=> LeftOver(j)
    BY <1>2 DEF TableStep, durableVars, LeftOver, OnDisk
  <2>2. CASE LoadSignals BY <2>0, <2>2 DEF LoadSignals
  <2>3. CASE AlarmRings BY <2>0, <2>3 DEF AlarmRings
  <2>4. CASE \E t \in Tasks : ReplaceSameKey(t) BY <2>0, <2>4 DEF ReplaceSameKey
  <2>5. CASE \E t \in Tasks : CreateSignal(t)
    <3>1. PICK s \in Schedulers : CreateSignal(s) BY <2>5 DEF CreateSignal
    <3>2. Unscheduled(s) BY <3>1 DEF CreateSignal, Unscheduled
    <3>3. \A j \in Jobs : LeftOver(j) => input[j] # s
      BY <1>disk, <3>2 DEF JobsOfSignals, LeftOver
    <3> QED BY <2>0, <3>1, <3>3 DEF CreateSignal
  <2>6. CASE \E t \in Tasks : CancelOne(t) BY <2>0, <2>6 DEF CancelOne
  <2>7. CASE LoadThrows
    BY <2>0, <2>7 DEF LoadThrows
  <2> QED BY <1>2, <2>2, <2>3, <2>4, <2>5, <2>6, <2>7 DEF TableStep
<1>3. CASE \E j \in Jobs : CallDeliver(j)
  <2>1. PICK j \in Jobs : CallDeliver(j) BY <1>3
  <2>2. PICK s \in tick.rows :
          /\ \A k \in Jobs : call'[k] # "none" => k = j \/ input'[k] = input[k]
          /\ \A k \in Jobs : LeftOver(k)' => LeftOver(k) /\ k # j
          /\ tick'.rows \subseteq tick.rows
          /\ pendingDurable' = pendingDurable \cup {s}
    <3>1. PICK s \in Signals :
            /\ IsFirst(s, Uncalled) /\ pendingDurable' = pendingDurable \cup {s}
      BY <2>1 DEF CallDeliver
    <3>2. s \in tick.rows BY <3>1 DEF IsFirst, Uncalled
    <3> QED BY <2>1, <3>1, <3>2, CallFacts DEF LeftOver
  <2>3. table' = table /\ known' = known BY <2>1 DEF CallDeliver
  <2> QED BY <1>diskAfter, <2>2, <2>3
<1>4. CASE DeliverFinds
  BY <1>4 DEF DeliverFinds, Found, durableVars, LeftOver, OnDisk
<1>5. CASE Generates BY <1>5 DEF Generates, durableVars, LeftOver, OnDisk
<1>ended. ASSUME JobSucceeds \/ JobFails
          PROVE  /\ input' = input
                 /\ \A j \in Jobs : LeftOver(j)' => LeftOver(j)
  BY <1>ended DEF JobSucceeds, JobFails, LeftOver, OnDisk, DurableInv, DurableTypeOK
<1>6. CASE DeliverFindsNothing
  BY <1>6, <1>ended DEF DeliverFindsNothing, DeliverySettled
<1>7. CASE GenerateThrows BY <1>7, <1>ended DEF GenerateThrows, DeliverySettled
<1>8. CASE DeleteDelivered BY <1>8, <1>ended DEF DeleteDelivered, DeliverySettled
<1>9. CASE DeleteThrows BY <1>9, <1>ended DEF DeleteThrows, DeliverySettled
<1>10. CASE Restart
  <2>1. tick'.rows = {} /\ pendingDurable' = {} /\ known' = {}
    BY <1>10 DEF Restart, NoTick
  <2> QED BY <2>1 DEF LeftOver, CachesAgree
<1> QED BY <1>1, <1>2, <1>3, <1>4, <1>5, <1>6, <1>7, <1>8, <1>9, <1>10, StepKinds

LEMMA CallsInitInv == Init => CallsInv
<1> SUFFICES ASSUME Init PROVE CallsInv OBVIOUS
<1>1. TypeOK BY SignalsInitInv DEF SignalsInv
<1>2. \A s : Calls(s) = {}
  BY DEF Init, DurableInit, Calls
<1>3. \A j \in Jobs : ~LeftOver(j) BY DEF Init, DurableInit, LeftOver, OnDisk
<1>4. known \subseteq table /\ crashes = 0 /\ failures = 0 /\ pendingDurable = {}
  BY DEF Init, DurableInit
<1> QED BY <1>2, <1>3, <1>4, FS_EmptySet
        DEF CallsInv, CallsAreExcused, LeftOversAreForgotten, Pending

LEMMA CallsBounded ==
  ASSUME TypeOK, CallsInv
  PROVE  OneCallPerSignal
<1> SUFFICES ASSUME NEW s \in Signals
             PROVE  Cardinality(Calls(s)) <= 1 + crashes + failures
  BY DEF OneCallPerSignal
<1>1. Cardinality(Calls(s)) <= crashes + failures + Pending(s)
  BY DEF CallsInv, CallsAreExcused
<1>2. Pending(s) \in {0, 1} BY DEF Pending
<1>3. crashes \in Nat /\ failures \in Nat /\ Cardinality(Calls(s)) \in Nat
  BY CallsAreFinite, SignalsAssumption, DurableAssumption DEF TypeOK, DurableTypeOK
<1> QED BY <1>1, <1>2, <1>3

(* However often it is scheduled, delivered again or retried, a signal has *)
(* no second call under way but for a crash or a failure.                  *)
THEOREM SignalsCalledOnce == Spec => []OneCallPerSignal
<1>1. Init => SignalsInv /\ CallsInv BY SignalsInitInv, CallsInitInv
<1>2. (SignalsInv /\ CallsInv) /\ [Next]_vars => (SignalsInv /\ CallsInv)'
  <2> SUFFICES ASSUME SignalsInv, CallsInv, [Next]_vars
               PROVE  SignalsInv' /\ CallsInv'
    OBVIOUS
  <2>1. SignalsInv' BY SignalsStepInv
  <2>2. LeftOversAreForgotten' BY <2>1, LeftOversStep
  <2>3. CallsAreExcused' BY <2>1, CallsAreExcusedStep DEF SignalsInv
  <2> QED BY <2>1, <2>2, <2>3 DEF CallsInv
<1>3. SignalsInv /\ CallsInv => OneCallPerSignal BY CallsBounded DEF SignalsInv
<1> QED BY <1>1, <1>2, <1>3, PTL DEF Spec
=============================================================================
