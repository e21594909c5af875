--------------------------- MODULE CronScheduler ---------------------------
(***************************************************************************)
(* The schedule of cron triggers: engine/cron/ops/cronScheduler.ts and the *)
(* jobs of engine/cron/crons.ts, over the repository of one trigger.       *)
(*                                                                         *)
(* Users add, delete, enable, disable and list triggers and run one now;   *)
(* one of them starts the scheduler of a new process.  A tick starts the   *)
(* run of a trigger that is due, under the mark of runningTasks; a run     *)
(* waits for the read lock of the configuration, executes the task and     *)
(* stamps the row; a one-shot trigger leaves the schedule before the run   *)
(* and the table after it.  Between two steps of a job or a run, which are *)
(* its calls of the repository, anything else may happen.  Where a job     *)
(* looks the trigger up twice in a row it does so once here.               *)
(*                                                                         *)
(* Schedules are valid and their times abstracted: an entry is due or not  *)
(* yet.  The timer of the tick is armed whenever something is scheduled,   *)
(* so the model has none.                                                  *)
(***************************************************************************)
EXTENDS CronTasksRepository

CONSTANTS Users,         \* who does jobs, one at a time
          Runs,          \* bound: runs at a time
          MaxJobs        \* bound: jobs

ASSUME CronAssumption ==
  /\ Callers = Users \cup Runs /\ Users \cap Runs = {}
  /\ MaxFailures \in Nat /\ MaxJobs \in Nat

VARIABLES
  phase,       \* started and stopped of the scheduler
  entry,       \* tasks: the entry of the trigger
  running,     \* runningTasks holds the trigger
  job,         \* what each user does
  run,         \* where each run is
  unguarded,   \* observed: the mark was removed, or set twice, during a run
  spent,       \* observed: the one-shot ran and was not scheduled anew
  disturbed,   \* observed: what may set the schedule and the table apart
  jobs

schedulerVars == <<phase, entry, running, run, unguarded, spent>>
jobVars == <<job, disturbed, jobs>>
cronVars == <<repositoryVars, schedulerVars, jobVars>>

NoEntry == [at |-> "none", once |-> FALSE]
Entry(task) == [at |-> "later", once |-> task.once]

Resting == [does |-> "nothing", task |-> NoTask]
NoRun == [at |-> "none", by |-> "tick", once |-> FALSE]

CronTypeOK ==
  /\ RepositoryTypeOK
  /\ phase \in {"new", "started", "stopped"}
  /\ entry \in [at : {"none", "later", "due"}, once : BOOLEAN]
  /\ running \in BOOLEAN
  /\ job \in [Users -> [does : {"nothing", "starting", "adding", "creating", "deleting",
                                "erasing", "setting", "updating", "reloading", "listing"},
                        task : Tasks]]
  /\ run \in [Runs -> [at : {"none", "finding", "locked", "stamping", "deleting"},
                       by : {"tick", "now"}, once : BOOLEAN]]
  /\ unguarded \in BOOLEAN /\ spent \in BOOLEAN /\ disturbed \in BOOLEAN
  /\ jobs \in 0..MaxJobs

CronInit ==
  /\ RepositoryInit
  /\ phase = "new"
  /\ entry = NoEntry
  /\ running = FALSE
  /\ job = [u \in Users |-> Resting]
  /\ run = [r \in Runs |-> NoRun]
  /\ unguarded = FALSE /\ spent = FALSE /\ disturbed = FALSE
  /\ jobs = 0

-----------------------------------------------------------------------------
(* The jobs of users.                                                      *)

\* Everything of the repository but its calls.
storedVars == <<rows, cache, complete, raced, failures>>

Answered(c) == call[c].at = "returned"
Found(c) == call[c].found
Does(u, what) == job' = [job EXCEPT ![u].does = what]
Done(u) == job' = [job EXCEPT ![u] = Resting] /\ call' = [call EXCEPT ![u] = NoCall]

\* Caller c changes the trigger, in the table or in the schedule.
Changing(c) ==
  \/ c \in Users /\ job[c].does \in {"starting", "creating", "erasing", "updating", "reloading"}
  \/ c \in Runs /\ run[c].at = "deleting"

\* A change begins while another is under way.
Meets(c) == disturbed' = (disturbed \/ \E d \in Callers \ {c} : Changing(d))

Begin(u, what, task, method) ==
  /\ job[u].does = "nothing"
  /\ job' = [job EXCEPT ![u] = [does |-> what, task |-> task]]
  /\ Asks(u, method, task)
  /\ UNCHANGED <<storedVars, entry, running, run, unguarded, spent>>

(* start(), once in the life of a process.                                 *)
StartCron(u) ==
  /\ phase = "new" /\ phase' = "started"
  /\ Begin(u, "starting", NoTask, "scheduled")
  /\ Meets(u)
  /\ UNCHANGED jobs

BeginJob(u) ==
  /\ jobs < MaxJobs
  /\ jobs' = jobs + 1
  /\ UNCHANGED <<phase, disturbed>>
  /\ \/ \E task \in Tasks : Begin(u, "adding", task, "find")
     \/ \E task \in Tasks : ~task.once /\ Begin(u, "setting", task, "find")
     \/ Begin(u, "deleting", NoTask, "find")
     \/ Begin(u, "listing", NoTask, "list")

Keeps == UNCHANGED <<storedVars, phase, run, jobs>>

(* addTask(): it ends when the linked task is missing.                     *)
AddFound(u) ==
  /\ job[u].does = "adding" /\ Answered(u)
  /\ \/ Does(u, "creating") /\ Asks(u, "create", job[u].task) /\ Meets(u)
     \/ Done(u) /\ UNCHANGED disturbed
  /\ Keeps /\ UNCHANGED <<entry, running, unguarded, spent>>

AddCreated(u) ==
  /\ job[u].does = "creating" /\ Answered(u)
  /\ Done(u)
  /\ IF job[u].task.enabled /\ phase = "started"
       THEN entry' = Entry(job[u].task) /\ spent' = FALSE /\ UNCHANGED disturbed
       ELSE disturbed' = (disturbed \/ entry # NoEntry) /\ UNCHANGED <<entry, spent>>
  /\ Keeps /\ UNCHANGED <<running, unguarded>>

(* deleteTask().                                                           *)
DeleteFound(u) ==
  /\ job[u].does = "deleting" /\ Answered(u)
  /\ IF Found(u) = Absent
       THEN Done(u) /\ UNCHANGED <<entry, running, unguarded, disturbed>>
       ELSE /\ entry' = NoEntry
            /\ running' = FALSE
            /\ unguarded' = (unguarded \/ running)
            /\ Does(u, "erasing") /\ Asks(u, "delete", NoTask) /\ Meets(u)
  /\ Keeps /\ UNCHANGED spent

(* cronEnabledSet(): the update, then reload().                            *)
SetFound(u) ==
  /\ job[u].does = "setting" /\ Answered(u)
  /\ IF Found(u) = Absent \/ Found(u).task.enabled = job[u].task.enabled
       THEN Done(u) /\ UNCHANGED disturbed
       ELSE Does(u, "updating") /\ Asks(u, "set", job[u].task) /\ Meets(u)
  /\ Keeps /\ UNCHANGED <<entry, running, unguarded, spent>>

SetUpdated(u) ==
  /\ job[u].does = "updating" /\ Answered(u)
  /\ entry' = NoEntry
  /\ IF phase = "started" THEN Does(u, "reloading") /\ Asks(u, "scheduled", NoTask) ELSE Done(u)
  /\ Keeps /\ UNCHANGED <<running, unguarded, spent, disturbed>>

TickRun(r) == run[r].by = "tick" /\ run[r].at \in {"locked", "stamping"}

(* The end of start() and reload(): what findAll() listed is scheduled.    *)
ScheduleListed(u) ==
  /\ job[u].does \in {"starting", "reloading"} /\ Answered(u)
  /\ Done(u)
  /\ IF Found(u) = Absent
       THEN UNCHANGED <<entry, spent>>
       ELSE /\ entry' = Entry(Found(u).task)
            /\ spent' = (spent /\ \E r \in Runs : TickRun(r))
  /\ Keeps /\ UNCHANGED <<running, unguarded, disturbed>>

JobEnds(u) ==
  /\ job[u].does # "nothing"
  /\ call[u].at = "thrown" \/ (job[u].does \in {"erasing", "listing"} /\ Answered(u))
  /\ Done(u)
  /\ disturbed' = (disturbed \/ (call[u].at = "thrown"
                                 /\ job[u].does \in {"starting", "erasing", "reloading"}))
  /\ Keeps /\ UNCHANGED <<entry, running, unguarded, spent>>

JobStep(u) ==
  \/ AddFound(u) \/ AddCreated(u) \/ DeleteFound(u) \/ SetFound(u) \/ SetUpdated(u)
  \/ ScheduleListed(u) \/ JobEnds(u)

-----------------------------------------------------------------------------
(* The ticks and the runs.                                                 *)

TimePasses ==
  /\ entry.at = "later"
  /\ entry' = [entry EXCEPT !.at = "due"]
  /\ UNCHANGED <<repositoryVars, phase, running, run, unguarded, spent, jobVars>>

RunsOn(r, at) == run' = [run EXCEPT ![r].at = at]

\* Mutant: a one-shot trigger stays in the schedule.
StillScheduled(once) == entry

\* tasks.delete() of a one-shot trigger.
Unscheduled(once) == IF once THEN NoEntry ELSE entry

(* A trigger whose run is still under way misses its time.                 *)
TickSkips ==
  /\ entry.at = "due" /\ phase = "started" /\ running
  /\ entry' = [entry EXCEPT !.at = "later"]
  /\ UNCHANGED <<repositoryVars, phase, running, run, unguarded, spent, jobVars>>

TickStarts(r) ==
  /\ entry.at = "due" /\ phase = "started" /\ ~running
  /\ run[r].at = "none"
  /\ entry' = IF entry.once THEN NoEntry ELSE [entry EXCEPT !.at = "later"]
  /\ running' = TRUE
  /\ run' = [run EXCEPT ![r] = [at |-> "locked", by |-> "tick", once |-> entry.once]]
  /\ UNCHANGED <<repositoryVars, phase, unguarded, spent, jobVars>>

(* triggerTaskNow(): a trigger that is not scheduled is looked up first.   *)
RunNow(r) ==
  /\ run[r].at = "none" /\ ~running
  /\ jobs < MaxJobs /\ jobs' = jobs + 1
  /\ IF entry = NoEntry
       THEN /\ run' = [run EXCEPT ![r] = [at |-> "finding", by |-> "now", once |-> FALSE]]
            /\ Asks(r, "find", NoTask)
            /\ UNCHANGED running
       ELSE /\ run' = [run EXCEPT ![r] = [at |-> "locked", by |-> "now", once |-> FALSE]]
            /\ running' = TRUE
            /\ UNCHANGED call
  /\ UNCHANGED <<storedVars, phase, entry, unguarded, spent, job, disturbed>>

RunFound(r) ==
  /\ run[r].at = "finding" /\ call[r].at \in {"returned", "thrown"}
  /\ call' = [call EXCEPT ![r] = NoCall]
  /\ IF Found(r) = Absent
       THEN run' = [run EXCEPT ![r] = NoRun] /\ UNCHANGED <<running, unguarded>>
       ELSE /\ RunsOn(r, "locked")
            /\ running' = TRUE
            /\ unguarded' = (unguarded \/ running)
  /\ UNCHANGED <<storedVars, phase, entry, spent, jobVars>>

(* The read lock is granted.  Whether the task is dispatched or is missing *)
(* or refuses its parameters, the run is stamped.                          *)
Execute(r) ==
  /\ run[r].at = "locked" /\ phase # "stopped"
  /\ RunsOn(r, "stamping")
  /\ Asks(r, "stamp", NoTask)
  /\ spent' = (spent \/ (run[r].by = "tick" /\ run[r].once))
  /\ UNCHANGED <<storedVars, phase, entry, running, unguarded, jobVars>>

\* Mutant: a run whose stamp threw leaves its mark.
MarkLeft(r) == running /\ call[r].at = "thrown"

\* The finally of the run removes the mark.
MarkAfter(r) == FALSE

(* The finally of a run: a one-shot trigger is deleted, executed or not.   *)
RunEnds(r) ==
  /\ \/ run[r].at = "stamping" /\ call[r].at \in {"returned", "thrown"}
     \/ run[r].at = "locked" /\ phase = "stopped"
  /\ running' = MarkAfter(r)
  /\ entry' = Unscheduled(run[r].once)
  /\ IF run[r].once
       THEN RunsOn(r, "deleting") /\ Asks(r, "delete", NoTask) /\ Meets(r)
       ELSE /\ run' = [run EXCEPT ![r] = NoRun]
            /\ call' = [call EXCEPT ![r] = NoCall]
            /\ UNCHANGED disturbed
  /\ UNCHANGED <<storedVars, phase, unguarded, spent, job, jobs>>

RunDeleted(r) ==
  /\ run[r].at = "deleting" /\ call[r].at \in {"returned", "thrown"}
  /\ run' = [run EXCEPT ![r] = NoRun]
  /\ call' = [call EXCEPT ![r] = NoCall]
  /\ disturbed' = (disturbed \/ call[r].at = "thrown")
  /\ UNCHANGED <<storedVars, phase, entry, running, unguarded, spent, job, jobs>>

RunStep(r) == RunFound(r) \/ Execute(r) \/ RunEnds(r) \/ RunDeleted(r)

StopCron ==
  /\ phase # "stopped"
  /\ phase' = "stopped"
  /\ entry' = NoEntry
  /\ running' = FALSE
  /\ unguarded' = (unguarded \/ running)
  /\ UNCHANGED <<repositoryVars, run, spent, jobVars>>

(* A crash, and the boot of a new process.                                 *)
CronRestart ==
  /\ RepositoryRestart
  /\ phase' = "new"
  /\ entry' = NoEntry
  /\ running' = FALSE
  /\ job' = [u \in Users |-> Resting]
  /\ run' = [r \in Runs |-> NoRun]
  /\ unguarded' = FALSE /\ disturbed' = FALSE
  /\ UNCHANGED <<spent, jobs>>

CallStep(c) == RepositoryStep(c) /\ UNCHANGED <<schedulerVars, jobVars>>

CronNext ==
  \/ \E c \in Callers : \/ CallStep(c)
                        \/ CallThrows(c) /\ UNCHANGED <<schedulerVars, jobVars>>
  \/ \E u \in Users : StartCron(u) \/ BeginJob(u) \/ JobStep(u)
  \/ TimePasses \/ TickSkips
  \/ \E r \in Runs : TickStarts(r) \/ RunNow(r) \/ RunStep(r)
  \/ StopCron \/ CronRestart

CronSpec == CronInit /\ [][CronNext]_cronVars

-----------------------------------------------------------------------------
Underway(r) == run[r].at \in {"locked", "stamping"}

(* The trigger runs once at a time: the mark of runningTasks is there      *)
(* exactly during a run, and there is one, unless deleteTask() or stop()   *)
(* removed it, or two lookups of triggerTaskNow() set it twice.            *)
OneRunAtATime ==
  ~unguarded =>
    /\ running <=> \E r \in Runs : Underway(r)
    /\ \A r, s \in Runs : Underway(r) /\ Underway(s) => r = s

(* A one-shot trigger is executed once by the ticks, unless it was put     *)
(* back after its run by a start() or reload() that still found its row.   *)
OneShotRunsOnce ==
  [][\A r \in Runs : Execute(r) /\ TickRun(r) /\ run[r].once =>
       ~spent \/ unguarded]_cronVars

AllQuiet ==
  /\ \A u \in Users : job[u].does = "nothing"
  /\ \A r \in Runs : run[r].at = "none"

(* When nothing is under way, a trigger is scheduled if and only if the    *)
(* table has an enabled one: after any jobs one by one, beside any runs.   *)
(* They differ where changes overlapped, where a deletion or a listing     *)
(* threw, and where a scheduled trigger was created anew as disabled,      *)
(* which addTask() leaves in the schedule.                                 *)
ScheduleMatchesTable ==
  phase = "started" /\ AllQuiet /\ ~raced /\ ~disturbed =>
    (entry # NoEntry <=> \E v \in Open : rows[v].task.enabled)
=============================================================================
