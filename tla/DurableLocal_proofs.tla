------------------------ MODULE DurableLocal_proofs -------------------------
(***************************************************************************)
(* Proofs about the job files of DurableLocal, for any calls, any number   *)
(* of jobs and crashes: no job is lost, one job runs at a time, and no     *)
(* wake-up is lost.                                                        *)
(***************************************************************************)
EXTENDS DurableLocal, TLAPS

Working4 == {"running", "succeeded", "failed", "requeued"}

(* A job with a file was written by jobSchedule(). *)
FilesWereWritten == \A j \in Jobs : OnDisk(j) => call[j] \in {"written", "returned"}

(* Nothing runs while a boot recovers; drain() has a job while it works;   *)
(* what it has seen in pending/ stays there, and it deletes no job that is *)
(* owed.                                                                   *)
DrainShape ==
  /\ power = "recovering" => drain = Idle /\ timer = NoTimer
  /\ drain.at \in Working4 => drain.job \in Jobs
  /\ drain.at = "listed" => drain.seen \subseteq pendingDir
  /\ drain.at = "succeeded" => drain.job \notin owed

(* When drain() is about to find nothing, whoever wrote a file meanwhile   *)
(* has triggered it again, or will.                                        *)
EmptyListing ==
  /\ drain.at = "listed" /\ drain.seen = {}
  /\ pendingDir # {} /\ power = "started"
  => timer # NoTimer \/ \E j \in Jobs : call[j] = "written"

DurableInv ==
  /\ DurableTypeOK /\ NoJobLost /\ OneJobAtATime /\ NoLostWakeup
  /\ FilesWereWritten /\ DrainShape /\ EmptyListing

LEMMA DurableInitInv == DurableInit => DurableInv
  BY DurableAssumption
  DEF DurableInit, DurableInv, DurableTypeOK, NoJobLost, OneJobAtATime, NoLostWakeup,
      FilesWereWritten, DrainShape, EmptyListing, Idle, NoJob, NoTimer, OnDisk, Working4

LEMMA DurableTypes ==
  ASSUME DurableInv, [DurableNext]_durableVars
  PROVE  DurableTypeOK'
<1> USE DurableAssumption
    DEF DurableInv, DurableTypeOK, Idle, Listing, Working, NoJob, NoTimer, Soon, Until,
        Triggered, NextRound, OnDisk, Forgotten, Jobs
<1>1. CASE RuntimeStep
  <2>1. CASE TimerFires BY <2>1 DEF TimerFires
  <2>2. CASE ListPending BY <2>2 DEF ListPending
  <2>3. CASE ClaimJob BY <2>3 DEF ClaimJob
  <2>4. CASE NothingDue BY <2>4 DEF NothingDue
  <2>5. CASE RequeueJob BY <2>5 DEF RequeueJob, DrainShape, Working4
  <2>6. CASE UnlinkActive BY <2>6 DEF UnlinkActive, DrainShape, Working4
  <2>7. CASE Start BY <2>7 DEF Start
  <2>9. CASE \E j \in Jobs : RecoverJob(j) BY <2>9 DEF RecoverJob
  <2>8. CASE \E j \in Jobs : ComesDue(j) BY <2>8 DEF ComesDue
  <2> QED BY <1>1, <2>1, <2>2, <2>3, <2>4, <2>5, <2>6, <2>7, <2>8, <2>9
          DEF RuntimeStep, DrainStep, BootStep
<1>2. CASE \E j \in Jobs, in \in Inputs : Post(j, in) BY <1>2 DEF Post
<1>3. CASE \E j \in Jobs : WriteJob(j) BY <1>3 DEF WriteJob
<1>4. CASE \E j \in Jobs : TriggerJob(j) BY <1>4 DEF TriggerJob
<1>5. CASE \E j \in Jobs : WriteFails(j) BY <1>5 DEF WriteFails
<1>6. CASE JobSucceeds BY <1>6 DEF JobSucceeds
<1>7. CASE JobFails BY <1>7 DEF JobFails
<1>8. CASE Stop BY <1>8 DEF Stop
<1>9. CASE Crash BY <1>9 DEF Crash
<1>10. CASE UNCHANGED durableVars BY <1>10 DEF durableVars
<1> QED BY <1>1, <1>2, <1>3, <1>4, <1>5, <1>6, <1>7, <1>8, <1>9, <1>10 DEF DurableNext

(* What a step of the files may do: a written file stays somewhere. *)
LEMMA FilesStep ==
  ASSUME DurableInv, [DurableNext]_durableVars
  PROVE  /\ NoJobLost' /\ OneJobAtATime'
         /\ FilesWereWritten' /\ DrainShape'
<1> USE DurableAssumption
    DEF DurableInv, DurableTypeOK, NoJobLost, OneJobAtATime, FilesWereWritten, DrainShape,
        Working4, Idle, Listing, Working, NoJob, NoTimer, Soon, Until, NextRound, OnDisk, Jobs
<1>1. CASE RuntimeStep
  <2>1. CASE TimerFires BY <2>1 DEF TimerFires
  <2>2. CASE ListPending BY <2>2 DEF ListPending
  <2>3. CASE ClaimJob
    <3>1. PICK j \in drain.seen \ later :
            /\ pendingDir' = pendingDir \ {j} /\ activeDir' = activeDir \cup {j}
            /\ drain' = Working("running", j)
      BY <2>3 DEF ClaimJob
    <3>2. activeDir = {} /\ power # "recovering"
      BY <2>3 DEF ClaimJob
    <3>3. NoJobLost' BY <2>3, <3>1 DEF ClaimJob
    <3>4. OneJobAtATime' BY <2>3, <3>1, <3>2 DEF ClaimJob
    <3>5. FilesWereWritten' BY <2>3, <3>1 DEF ClaimJob
    <3>6. DrainShape' BY <2>3, <3>1, <3>2 DEF ClaimJob
    <3> QED BY <3>3, <3>4, <3>5, <3>6
  <2>4. CASE NothingDue BY <2>4 DEF NothingDue
  <2>5. CASE RequeueJob BY <2>5 DEF RequeueJob
  <2>6. CASE UnlinkActive
    <3>1. activeDir' = {} /\ power' = power /\ pendingDir' = pendingDir /\ drain' = NextRound
      BY <2>6 DEF UnlinkActive
    <3>2. drain.job \in Jobs /\ activeDir = {drain.job} /\ power # "recovering"
      BY <2>6 DEF UnlinkActive
    <3>3. drain.job \notin owed \/ drain.job \in pendingDir
      BY <2>6 DEF UnlinkActive
    <3>4. NoJobLost' BY <2>6, <3>1, <3>2, <3>3 DEF UnlinkActive
    <3>5. OneJobAtATime' BY <3>1
    <3>6. FilesWereWritten'
      <4>1. CASE call' = call BY <3>1, <3>2, <4>1
      <4>2. CASE /\ drain.at = "succeeded"
                 /\ call' = [call EXCEPT ![drain.job] = "none"]
        <5>1. drain.job \notin pendingDir BY <3>2, <4>2
        <5> QED BY <3>1, <3>2, <4>2, <5>1
      <4> QED BY <2>6, <4>1, <4>2 DEF UnlinkActive
    <3>7. DrainShape' BY <3>1, <3>2
    <3> QED BY <3>4, <3>5, <3>6, <3>7
  <2>7. CASE Start BY <2>7 DEF Start
  <2>8. CASE \E j \in Jobs : ComesDue(j) BY <2>8 DEF ComesDue
  <2>9. CASE \E j \in Jobs : RecoverJob(j) BY <2>9 DEF RecoverJob
  <2> QED BY <1>1, <2>1, <2>2, <2>3, <2>4, <2>5, <2>6, <2>7, <2>8, <2>9
          DEF RuntimeStep, DrainStep, BootStep
<1>2. CASE \E j \in Jobs, in \in Inputs : Post(j, in) BY <1>2 DEF Post, FreeIds
<1>3. CASE \E j \in Jobs : WriteJob(j) BY <1>3 DEF WriteJob
<1>4. CASE \E j \in Jobs : TriggerJob(j) BY <1>4 DEF TriggerJob, Triggered
<1>5. CASE \E j \in Jobs : WriteFails(j) BY <1>5 DEF WriteFails
<1>6. CASE JobSucceeds BY <1>6 DEF JobSucceeds
<1>7. CASE JobFails BY <1>7 DEF JobFails
<1>8. CASE Stop BY <1>8 DEF Stop
<1>9. CASE Crash BY <1>9 DEF Crash
<1>10. CASE UNCHANGED durableVars BY <1>10 DEF durableVars
<1> QED BY <1>1, <1>2, <1>3, <1>4, <1>5, <1>6, <1>7, <1>8, <1>9, <1>10 DEF DurableNext

(* Whatever ends a drain() or a timer leaves a reason to come back. *)
LEMMA WakeupStep ==
  ASSUME DurableInv, [DurableNext]_durableVars
  PROVE  NoLostWakeup' /\ EmptyListing'
<1> USE DurableAssumption
    DEF DurableInv, DurableTypeOK, NoLostWakeup, EmptyListing, DrainShape, FilesWereWritten,
        Working4, Idle, Listing, Working, NoJob, NoTimer, Soon, Until, NextRound, OnDisk,
        Triggered, Jobs
<1>1. CASE RuntimeStep
  <2>1. CASE TimerFires BY <2>1 DEF TimerFires
  <2>2. CASE ListPending BY <2>2 DEF ListPending
  <2>3. CASE ClaimJob BY <2>3 DEF ClaimJob
  <2>4. CASE NothingDue BY <2>4 DEF NothingDue
  <2>5. CASE RequeueJob BY <2>5 DEF RequeueJob
  <2>6. CASE UnlinkActive BY <2>6 DEF UnlinkActive
  <2>7. CASE Start BY <2>7 DEF Start
  <2>8. CASE \E j \in Jobs : ComesDue(j) BY <2>8 DEF ComesDue
  <2>9. CASE \E j \in Jobs : RecoverJob(j) BY <2>9 DEF RecoverJob
  <2> QED BY <1>1, <2>1, <2>2, <2>3, <2>4, <2>5, <2>6, <2>7, <2>8, <2>9
          DEF RuntimeStep, DrainStep, BootStep
<1>2. CASE \E j \in Jobs, in \in Inputs : Post(j, in) BY <1>2 DEF Post, FreeIds
<1>3. CASE \E j \in Jobs : WriteJob(j) BY <1>3 DEF WriteJob
<1>4. CASE \E j \in Jobs : TriggerJob(j) BY <1>4 DEF TriggerJob
<1>5. CASE \E j \in Jobs : WriteFails(j) BY <1>5 DEF WriteFails
<1>6. CASE JobSucceeds BY <1>6 DEF JobSucceeds
<1>7. CASE JobFails BY <1>7 DEF JobFails
<1>8. CASE Stop BY <1>8 DEF Stop
<1>9. CASE Crash BY <1>9 DEF Crash
<1>10. CASE UNCHANGED durableVars BY <1>10 DEF durableVars
<1> QED BY <1>1, <1>2, <1>3, <1>4, <1>5, <1>6, <1>7, <1>8, <1>9, <1>10 DEF DurableNext

LEMMA DurableStepInv == DurableInv /\ [DurableNext]_durableVars => DurableInv'
  BY DurableTypes, FilesStep, WakeupStep DEF DurableInv

THEOREM DurableInvariant == DurableSpec => []DurableInv
  BY DurableInitInv, DurableStepInv, PTL DEF DurableSpec

(* Scheduled calls persist: a job file is never without a place. *)
THEOREM JobsPersist == DurableSpec => []NoJobLost
  BY DurableInvariant, PTL DEF DurableInv

(* Jobs run one at a time, and a retry is written back once. *)
THEOREM JobsRunOneByOne == DurableSpec => []OneJobAtATime
  BY DurableInvariant, PTL DEF DurableInv

(* A pending job is always about to be looked for. *)
THEOREM WakeupsPersist == DurableSpec => []NoLostWakeup
  BY DurableInvariant, PTL DEF DurableInv
=============================================================================
