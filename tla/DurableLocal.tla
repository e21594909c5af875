---------------------------- MODULE DurableLocal ----------------------------
(***************************************************************************)
(* The local durable runtime: durable/durableLocal.ts.  A call that must   *)
(* survive a crash is a job file in pending/.  drain() takes one job after *)
(* another: it moves the file to active/, executes it, and deletes it or   *)
(* writes it back to pending/ with a delay.  A boot moves what a crash     *)
(* left in active/ back to pending/.                                       *)
(*                                                                         *)
(* What a job executes is the business of the module that uses this one:   *)
(* it conjoins its own steps to Post, WriteJob, TriggerJob, JobSucceeds,   *)
(* JobFails, Crash and Stop.  A module that extends this one composes the  *)
(* rest with RuntimeStep.                                                  *)
(*                                                                         *)
(* Ids of jobs are numbers; an id is used again when its files are gone.   *)
(* Times are abstracted to what decides: a job is `later` while its        *)
(* nextRunAt is to come.  Assumed of Node: the answer of readdir() is      *)
(* handled before the one-millisecond timer of a trigger that was set      *)
(* after the directory was read empty.                                     *)
(***************************************************************************)
EXTENDS Naturals, FiniteSets

CONSTANTS Inputs,     \* what jobs are called with
          NoInput,
          MaxJobs,    \* bound: jobs that are under way at the same time
          MaxCrashes  \* bound: crashes

Jobs == 1..MaxJobs

ASSUME DurableAssumption ==
  MaxJobs \in Nat /\ MaxCrashes \in Nat /\ NoInput \notin Inputs

VARIABLES
  power,      \* started, stopped, or recovering what a crash left
  pendingDir, \* the jobs with a file in pending/
  activeDir,  \* the jobs with a file in active/
  later,      \* the pending jobs whose nextRunAt is in the future
  call,       \* where jobSchedule() is with each job
  input,      \* the input of each job
  timer,      \* what the one timer waits for
  drain,      \* where drain() is, the files it has seen, its job
  owed,       \* observed: jobs that were written and have not succeeded
  crashes

durableVars ==
  <<power, pendingDir, activeDir, later, call, input, timer, drain, owed, crashes>>

\* What the timer waits for: nothing, the next turn, or job j's nextRunAt.
NoTimer == 0
Soon == MaxJobs + 1
Until(j) == j

NoJob == 0
Idle == [at |-> "idle", seen |-> {}, job |-> NoJob]
Listing == [Idle EXCEPT !.at = "listing"]
Working(step, j) == [at |-> step, seen |-> {}, job |-> j]

DurableTypeOK ==
  /\ power \in {"recovering", "started", "stopped"}
  /\ pendingDir \subseteq Jobs /\ activeDir \subseteq Jobs
  /\ later \subseteq Jobs /\ owed \subseteq Jobs
  /\ call \in [Jobs -> {"none", "writing", "written", "returned"}]
  /\ input \in [Jobs -> Inputs \cup {NoInput}]
  /\ timer \in 0..MaxJobs + 1
  /\ drain \in [at : {"idle", "listing", "listed", "running", "succeeded", "failed",
                      "requeued"},
                seen : SUBSET Jobs, job : Jobs \cup {NoJob}]
  /\ crashes \in 0..MaxCrashes

DurableInit ==
  /\ power = "recovering"
  /\ pendingDir = {} /\ activeDir = {} /\ later = {} /\ owed = {}
  /\ call = [j \in Jobs |-> "none"]
  /\ input = [j \in Jobs |-> NoInput]
  /\ timer = NoTimer
  /\ drain = Idle
  /\ crashes = 0

-----------------------------------------------------------------------------
\* Mutant: a call that arrives while drain() works does not trigger it.
TriggeredIfIdle(wait) ==
  IF power = "started" /\ drain.at = "idle" THEN wait ELSE timer

\* triggerDrain(): the newest trigger replaces the timer.
Triggered(wait) == IF power = "started" THEN wait ELSE timer

\* The `while` of drain(), and `finally` when it ends.
NextRound == IF power = "started" THEN Listing ELSE Idle

OnDisk(j) == j \in pendingDir \cup activeDir
Forgotten(j) == [input EXCEPT ![j] = NoInput]

(* jobSchedule(): a job gets a fresh id, its file appears in one piece and *)
(* drain() is triggered.                                                   *)
FreeIds == {j \in Jobs : call[j] = "none"}

Post(j, in) ==
  /\ power = "started"
  /\ j \in FreeIds /\ \A k \in FreeIds : j <= k
  /\ call' = [call EXCEPT ![j] = "writing"]
  /\ input' = [input EXCEPT ![j] = in]
  /\ UNCHANGED <<power, pendingDir, activeDir, later, timer, drain, owed, crashes>>

WriteJob(j) ==
  /\ call[j] = "writing"
  /\ call' = [call EXCEPT ![j] = "written"]
  /\ pendingDir' = pendingDir \cup {j}
  /\ owed' = owed \cup {j}
  /\ UNCHANGED <<power, activeDir, later, input, timer, drain, crashes>>

TriggerJob(j) ==
  /\ call[j] = "written"
  /\ call' = [call EXCEPT ![j] = IF OnDisk(j) THEN "returned" ELSE "none"]
  /\ input' = IF OnDisk(j) THEN input ELSE Forgotten(j)
  /\ timer' = Triggered(Soon)
  /\ UNCHANGED <<power, pendingDir, activeDir, later, drain, owed, crashes>>

(* The disk refuses the write. *)
WriteFails(j) ==
  /\ call[j] = "writing"
  /\ call' = [call EXCEPT ![j] = "none"]
  /\ input' = Forgotten(j)
  /\ UNCHANGED <<power, pendingDir, activeDir, later, timer, drain, owed, crashes>>

-----------------------------------------------------------------------------
(* The timer, and drain().  A second drain() returns at once. *)

\* Mutant: drain() does not look whether it is at work already.
SecondDrain ==
  /\ timer # NoTimer
  /\ timer \notin later
  /\ timer' = NoTimer
  /\ drain' = NextRound
  /\ UNCHANGED <<power, pendingDir, activeDir, later, call, input, owed, crashes>>

TimerFires ==
  /\ timer # NoTimer
  /\ timer \notin later
  /\ drain.at = "listed" => drain.seen # {}
  /\ timer' = NoTimer
  /\ drain' = IF drain.at = "idle" THEN NextRound ELSE drain
  /\ UNCHANGED <<power, pendingDir, activeDir, later, call, input, owed, crashes>>

(* readdir() reads the directory; its answer arrives. *)
ListPending ==
  /\ drain.at = "listing"
  /\ drain' = [drain EXCEPT !.at = "listed", !.seen = pendingDir]
  /\ UNCHANGED <<power, pendingDir, activeDir, later, call, input, timer, owed, crashes>>

(* The files are read and sorted by nextRunAt.  A job that is due, if there *)
(* is one, is moved to active/ by jobRun(): nobody else moves it.  Else    *)
(* drain() is triggered for the time of the first.                         *)
ClaimJob ==
  /\ drain.at = "listed"
  /\ \E j \in drain.seen \ later :
       /\ pendingDir' = pendingDir \ {j}
       /\ activeDir' = activeDir \cup {j}
       /\ drain' = Working("running", j)
  /\ UNCHANGED <<power, later, call, input, timer, owed, crashes>>

NothingDue ==
  /\ drain.at = "listed"
  /\ drain.seen \subseteq later
  /\ drain' = Idle
  /\ IF drain.seen = {} THEN UNCHANGED timer
     ELSE \E j \in drain.seen : timer' = Triggered(Until(j))
  /\ UNCHANGED <<power, pendingDir, activeDir, later, call, input, owed, crashes>>

JobSucceeds ==
  /\ drain.at = "running"
  /\ drain' = [drain EXCEPT !.at = "succeeded"]
  /\ owed' = owed \ {drain.job}
  /\ UNCHANGED <<power, pendingDir, activeDir, later, call, input, timer, crashes>>

\* Mutant: the job leaves active/ before it is written to pending/.
LeavesActiveFirst ==
  /\ drain.at = "running"
  /\ drain' = [drain EXCEPT !.at = "failed"]
  /\ activeDir' = activeDir \ {drain.job}
  /\ UNCHANGED <<power, pendingDir, later, call, input, timer, owed, crashes>>

JobFails ==
  /\ drain.at = "running"
  /\ drain' = [drain EXCEPT !.at = "failed"]
  /\ UNCHANGED <<power, pendingDir, activeDir, later, call, input, timer, owed, crashes>>

(* The failed job is written back with its delay, before it leaves active/.*)
RequeueJob ==
  /\ drain.at = "failed"
  /\ pendingDir' = pendingDir \cup {drain.job}
  /\ later' = later \cup {drain.job}
  /\ drain' = [drain EXCEPT !.at = "requeued"]
  /\ UNCHANGED <<power, activeDir, call, input, timer, owed, crashes>>

UnlinkActive ==
  /\ drain.at \in {"succeeded", "requeued"}
  /\ activeDir' = activeDir \ {drain.job}
  /\ IF drain.at = "succeeded" /\ call[drain.job] = "returned"
       THEN call' = [call EXCEPT ![drain.job] = "none"] /\ input' = Forgotten(drain.job)
       ELSE UNCHANGED <<call, input>>
  /\ drain' = NextRound
  /\ UNCHANGED <<power, pendingDir, later, timer, owed, crashes>>

(* The time a job was put off to has come.  The timer waits for the first. *)
ComesDue(j) ==
  /\ j \in later
  /\ timer \in later => j = timer
  /\ later' = later \ {j}
  /\ UNCHANGED <<power, pendingDir, activeDir, call, input, timer, drain, owed, crashes>>

-----------------------------------------------------------------------------
(* recoverActiveJobs(), one file at a time: a file in pending/ is newer    *)
(* than the one in active/, which is then deleted; else it is renamed.     *)
RecoverJob(j) ==
  /\ power = "recovering"
  /\ j \in activeDir
  /\ activeDir' = activeDir \ {j}
  /\ pendingDir' = pendingDir \cup {j}
  /\ UNCHANGED <<power, later, call, input, timer, drain, owed, crashes>>

Start ==
  /\ power = "recovering" /\ activeDir = {}
  /\ power' = "started"
  /\ timer' = Soon
  /\ UNCHANGED <<pendingDir, activeDir, later, call, input, drain, owed, crashes>>

Stop ==
  /\ power = "started"
  /\ power' = "stopped"
  /\ timer' = NoTimer
  /\ UNCHANGED <<pendingDir, activeDir, later, call, input, drain, owed, crashes>>

(* The process ends, stopped or not, and a new one boots. *)
Crash ==
  /\ crashes < MaxCrashes
  /\ crashes' = crashes + 1
  /\ power' = "recovering"
  /\ timer' = NoTimer /\ drain' = Idle
  /\ call' = [j \in Jobs |-> IF OnDisk(j) THEN "returned" ELSE "none"]
  /\ input' = [j \in Jobs |-> IF OnDisk(j) THEN input[j] ELSE NoInput]
  /\ UNCHANGED <<pendingDir, activeDir, later, owed>>

DrainStep == ListPending \/ ClaimJob \/ NothingDue \/ RequeueJob \/ UnlinkActive
BootStep == Start \/ \E j \in Jobs : RecoverJob(j)
RuntimeStep == TimerFires \/ DrainStep \/ BootStep \/ \E j \in Jobs : ComesDue(j)

(* The runtime on its own: any calls, which succeed or fail. *)
DurableNext ==
  \/ RuntimeStep
  \/ \E j \in Jobs, in \in Inputs : Post(j, in)
  \/ \E j \in Jobs : WriteJob(j) \/ TriggerJob(j) \/ WriteFails(j)
  \/ JobSucceeds \/ JobFails \/ Stop \/ Crash

DurableSpec == DurableInit /\ [][DurableNext]_durableVars

-----------------------------------------------------------------------------
(* "scheduled calls persist to disk and are replayed after restarts"       *)
(* (durableLocal.ts:34): until it has succeeded, a job that was written is *)
(* in one of the directories, whatever crashed when.                       *)
NoJobLost == owed \subseteq pendingDir \cup activeDir

(* While the runtime runs, active/ holds the job of drain() and no other;  *)
(* only a job that is being written back is in both directories.           *)
OneJobAtATime ==
  power # "recovering" =>
    /\ activeDir = IF drain.at \in {"running", "succeeded", "failed", "requeued"}
                     THEN {drain.job} ELSE {}
    /\ pendingDir \cap activeDir = IF drain.at = "requeued" THEN {drain.job} ELSE {}

(* No wake-up is lost: a pending job has a drain() at work, a timer, or a  *)
(* caller that has yet to trigger one.                                     *)
NoLostWakeup ==
  pendingDir # {} /\ power = "started" =>
    \/ drain.at # "idle" \/ timer # NoTimer
    \/ \E j \in Jobs : call[j] = "written"

(* A job that is due does not wait for the time of another one.            *)
DueJobIsAwaited ==
  pendingDir \ later # {} /\ power = "started" =>
    \/ drain.at # "idle" \/ timer = Soon \/ timer \in Jobs \ later
    \/ \E j \in Jobs : call[j] = "written"
=============================================================================
