------------------------ MODULE CronScheduler_proofs ------------------------
(***************************************************************************)
(* Proofs about cron triggers, for any number of users, runs, jobs,        *)
(* failures and crashes: the types, that a deleted trigger stays deleted,  *)
(* that it runs once at a time, that a one-shot runs once, and that the    *)
(* cache and the schedule agree with the table.                            *)
(***************************************************************************)
EXTENDS CronScheduler, SequenceTheorems, TLAPS

Methods == {"none", "find", "list", "scheduled", "create", "set", "stamp", "delete"}
Places == {"idle", "waiting", "loading", "writing", "caching", "querying", "filling",
           "returned", "thrown"}
Calls == [method : Methods, at : Places, task : Tasks, found : Records]

-----------------------------------------------------------------------------
(* Types.                                                                  *)

LEMMA Constants == NoTask \in Tasks /\ Absent \in Records /\ NoCall \in Calls
BY DEF NoTask, Tasks, Absent, Records, NoCall, Calls, Methods, Places

(* What the start of a call makes of it.                                   *)
LEMMA AskedTyped ==
  ASSUME cache \in Records, NEW method \in Methods, NEW task \in Tasks
  PROVE  Asked(method, task) \in Calls
<1>1. Visible(method, cache) \in Records
  BY Constants DEF Visible
<1> QED BY <1>1, Constants DEF Asked, Calls, Places

LEMMA AsksTyped ==
  ASSUME RepositoryTypeOK, NEW c \in Callers, NEW method \in Methods, NEW task \in Tasks,
         Asks(c, method, task)
  PROVE  call' \in [Callers -> Calls]
<1>1. Asked(method, task) \in Calls
  BY AskedTyped DEF RepositoryTypeOK
<1> QED BY <1>1 DEF Asks, RepositoryTypeOK, Calls, Methods, Places

LEMMA MovesTyped ==
  ASSUME RepositoryTypeOK, NEW c \in Callers, NEW place \in Places, NEW record \in Records,
         Moves(c, place, record)
  PROVE  call' \in [Callers -> Calls]
BY DEF Moves, RepositoryTypeOK, Calls, Methods, Places

Versions == [task : Tasks, open : BOOLEAN]
Closed(v) == [rows EXCEPT ![v].open = FALSE]

(* The table after a row was closed, whether there is such a row or not.   *)
LEMMA ClosedRows ==
  ASSUME RepositoryTypeOK, NEW v
  PROVE  /\ Closed(v) \in Seq(Versions)
         /\ Len(Closed(v)) = Len(rows) /\ DOMAIN Closed(v) = 1..Len(rows)
         /\ \A w \in 1..Len(rows) :
              Closed(v)[w] = IF w = v THEN [rows[w] EXCEPT !.open = FALSE] ELSE rows[w]
<1> DEFINE n == Len(rows)
<1>1. rows \in [1..n -> Versions] /\ n \in Nat
  BY LenProperties DEF RepositoryTypeOK, Versions
<1>2. Closed(v) = [w \in 1..n |-> IF w = v THEN [rows[w] EXCEPT !.open = FALSE] ELSE rows[w]]
  BY <1>1 DEF Closed
<1>3. \A w \in 1..n : rows[w] \in Versions /\ [rows[w] EXCEPT !.open = FALSE] \in Versions
  BY <1>1 DEF Versions
<1>4. Closed(v) \in [1..n -> Versions]
  BY <1>2, <1>3
<1>5. Closed(v) \in Seq(Versions)
  BY <1>1, <1>4, SeqDef
<1>6. Len(Closed(v)) = n
  BY <1>1, <1>4, <1>5, LenProperties
<1> QED BY <1>2, <1>5, <1>6, <1>4

LEMMA OpenVersions ==
  ASSUME RepositoryTypeOK
  PROVE  /\ DOMAIN rows = 1..Len(rows) /\ Len(rows) \in Nat
         /\ \A v \in 1..Len(rows) : rows[v] \in Versions
         /\ \A v : v \in Open <=> v \in 1..Len(rows) /\ rows[v].open
<1>1. rows \in [1..Len(rows) -> Versions] /\ Len(rows) \in Nat
  BY LenProperties DEF RepositoryTypeOK, Versions
<1> QED BY <1>1 DEF Open

LEMMA SingletonTyped ==
  ASSUME NEW S, NEW e \in S
  PROVE  << e >> \in Seq(S)
OBVIOUS

(* A query answers a record.                                               *)
LEMMA AnswersTyped ==
  ASSUME RepositoryTypeOK
  PROVE  Answers \subseteq Records
<1>1. ASSUME NEW v \in Open  PROVE Record(v) \in Records
  BY OpenVersions DEF Record, Records, Versions
<1> QED BY <1>1, Constants DEF Answers

LEMMA LookupTyped ==
  ASSUME NEW k, NEW record
  PROVE  AfterLookup(k, record) \in Places
BY DEF AfterLookup, Places

(* The steps of the repository keep its types.                             *)
LEMMA RepositoryTypes ==
  ASSUME RepositoryTypeOK, MaxFailures \in Nat, NEW c \in Callers,
         RepositoryStep(c) \/ CallThrows(c)
  PROVE  RepositoryTypeOK'
<1> USE DEF RepositoryTypeOK
<1>c. call \in [Callers -> Calls]
  BY DEF Calls, Methods, Places
<1>k. call[c].found \in Records /\ call[c].task \in Tasks /\ call[c].method \in Methods
  BY <1>c DEF Calls
<1>f. SUFFICES /\ rows' \in Seq([task : Tasks, open : BOOLEAN])
               /\ cache' \in Records /\ complete' \in BOOLEAN
               /\ call' \in [Callers -> Calls]
               /\ raced' \in BOOLEAN /\ failures' \in 0..MaxFailures
  BY DEF Calls, Methods, Places
<1>1. CASE Enter(c)
  <2>1. CASE cache = Absent
    BY <1>1, <2>1, Constants, MovesTyped DEF Enter, Places
  <2>2. CASE cache # Absent /\ call[c].method = "find"
    BY <1>1, <2>2, MovesTyped DEF Enter, Places
  <2>3. CASE cache # Absent /\ call[c].method # "find"
    BY <1>1, <2>3, MovesTyped, LookupTyped DEF Enter
  <2> QED BY <2>1, <2>2, <2>3
<1>2. CASE Load(c)
  BY <1>2, AnswersTyped, MovesTyped, LookupTyped DEF Load
<1>3. CASE InsertFirst(c)
  <2>1. [version |-> 1, task |-> call[c].task] \in Records
    BY <1>k DEF Records
  <2>2. << Row(call[c].task, TRUE) >> \in Seq([task : Tasks, open : BOOLEAN])
    <3>1. Row(call[c].task, TRUE) \in [task : Tasks, open : BOOLEAN]
      BY <1>k DEF Row
    <3> HIDE DEF Row
    <3> QED BY <3>1, SingletonTyped
  <2>3. call' \in [Callers -> Calls]
    BY <1>3, <2>1, Constants, MovesTyped DEF InsertFirst, Throws, Places
  <2> QED BY <1>3, <2>2, <2>3 DEF InsertFirst, RacedByWrite
<1>4. CASE Advance(c)
  <2> DEFINE v == call[c].found.version
             task == NewTask(call[c])
  <2>1. v \in Nat /\ task \in Tasks
    BY <1>k DEF Records, NewTask, Tasks
  <2>2. [version |-> v + 1, task |-> task] \in Records
    BY <2>1 DEF Records
  <2>3. Append([rows EXCEPT ![v].open = FALSE], Row(task, TRUE))
          \in Seq([task : Tasks, open : BOOLEAN])
    <3>1. [rows EXCEPT ![v].open = FALSE] \in Seq([task : Tasks, open : BOOLEAN])
      BY ClosedRows DEF Closed, Versions
    <3>2. Row(task, TRUE) \in [task : Tasks, open : BOOLEAN]
      BY <2>1 DEF Row
    <3> QED BY <3>1, <3>2, AppendProperties
  <2>4. call' \in [Callers -> Calls]
    BY <1>4, <2>2, Constants, MovesTyped DEF Advance, Throws, Places
  <2>5. rows' \in Seq([task : Tasks, open : BOOLEAN])
    BY <1>4, <2>3 DEF Advance
  <2> QED BY <1>4, <2>4, <2>5 DEF Advance, RacedByWrite
<1>5. CASE CloseRow(c)
  <2>1. call' \in [Callers -> Calls]
    BY <1>5, <1>k, MovesTyped DEF CloseRow, Places
  <2>2. rows' \in Seq([task : Tasks, open : BOOLEAN])
    BY <1>5, ClosedRows DEF CloseRow, Closed, Versions
  <2> QED BY <1>5, <2>1, <2>2 DEF CloseRow, RacedByWrite
<1>6. CASE StampRow(c)
  BY <1>6, <1>k, MovesTyped DEF StampRow, Places
<1>7. CASE CacheRecord(c)
  <2>1. call' \in [Callers -> Calls]
    BY <1>7, <1>k, MovesTyped DEF CacheRecord, Places
  <2>2. cache' \in Records
    BY <1>7, <1>k, Constants DEF CacheRecord, Cached
  <2> QED BY <1>7, <2>1, <2>2 DEF CacheRecord
<1>8. CASE Query(c)
  <2>1. PICK record \in Answers : Moves(c, "filling", Visible(call[c].method, record))
    BY <1>8 DEF Query
  <2>2. Visible(call[c].method, record) \in Records
    BY AnswersTyped, Constants DEF Visible
  <2> QED BY <1>8, <2>1, <2>2, MovesTyped DEF Query, Places
<1>9. CASE Fill(c)
  <2>1. call' \in [Callers -> Calls]
    BY <1>9, <1>k, MovesTyped DEF Fill, Places
  <2> QED BY <1>9, <1>k, <2>1 DEF Fill
<1>10. CASE CallThrows(c)
  <2>1. call' \in [Callers -> Calls]
    BY <1>10, Constants, MovesTyped DEF CallThrows, Throws, Places
  <2> QED BY <1>10, <2>1 DEF CallThrows
<1> QED BY <1>1, <1>2, <1>3, <1>4, <1>5, <1>6, <1>7, <1>8, <1>9, <1>10 DEF RepositoryStep

LEMMA StoredTyped ==
  ASSUME RepositoryTypeOK, UNCHANGED storedVars, call' \in [Callers -> Calls]
  PROVE  RepositoryTypeOK'
BY DEF RepositoryTypeOK, storedVars, Calls, Methods, Places

Jobs == [does : {"nothing", "starting", "adding", "creating", "deleting", "erasing", "setting",
                 "updating", "reloading", "listing"}, task : Tasks]
RunStates == [at : {"none", "finding", "locked", "stamping", "deleting"},
              by : {"tick", "now"}, once : BOOLEAN]
Entries == [at : {"none", "later", "due"}, once : BOOLEAN]

\* The types of what the scheduler adds.
SchedulerTypes ==
  /\ phase \in {"new", "started", "stopped"} /\ entry \in Entries /\ running \in BOOLEAN
  /\ job \in [Users -> Jobs] /\ run \in [Runs -> RunStates]
  /\ unguarded \in BOOLEAN /\ spent \in BOOLEAN /\ disturbed \in BOOLEAN
  /\ jobs \in 0..MaxJobs

LEMMA TypesSplit ==
  /\ CronTypeOK <=> RepositoryTypeOK /\ SchedulerTypes
  /\ CronTypeOK' <=> RepositoryTypeOK' /\ SchedulerTypes'
BY DEF CronTypeOK, SchedulerTypes, Jobs, RunStates, Entries

LEMMA SchedulerConstants ==
  /\ NoEntry \in Entries /\ Resting \in Jobs /\ NoRun \in RunStates
  /\ \A task \in Tasks : Entry(task) \in Entries
BY Constants DEF NoEntry, Entry, Entries, Resting, Jobs, NoRun, RunStates, Tasks

LEMMA EveryCaller ==
  /\ \A u \in Users : u \in Callers
  /\ \A r \in Runs : r \in Callers
BY CronAssumption

(* The end of a job, and of a run, leaves no call.                         *)
LEMMA NoCallTyped ==
  ASSUME RepositoryTypeOK, NEW c \in Callers, call' = [call EXCEPT ![c] = NoCall]
  PROVE  call' \in [Callers -> Calls]
BY Constants DEF RepositoryTypeOK, Calls, Methods, Places

LEMMA CallOf ==
  ASSUME RepositoryTypeOK, NEW c \in Callers
  PROVE  call[c].found \in Records
BY DEF RepositoryTypeOK

(* A job ends, or goes on with another call.                               *)
LEMMA JobMoves ==
  ASSUME CronTypeOK, NEW u \in Users,
         \/ Done(u)
         \/ \E what \in {"creating", "erasing", "updating", "reloading"},
               method \in {"create", "delete", "set", "scheduled"}, task \in Tasks :
              Does(u, what) /\ Asks(u, method, task)
  PROVE  job' \in [Users -> Jobs] /\ call' \in [Callers -> Calls]
<1> USE TypesSplit
<1>1. CASE Done(u)
  BY <1>1, SchedulerConstants, EveryCaller, NoCallTyped DEF Done, SchedulerTypes
<1>2. ASSUME NEW what \in {"creating", "erasing", "updating", "reloading"},
             NEW method \in {"create", "delete", "set", "scheduled"}, NEW task \in Tasks,
             Does(u, what), Asks(u, method, task)
      PROVE  job' \in [Users -> Jobs] /\ call' \in [Callers -> Calls]
  <2>1. job' \in [Users -> Jobs]
    BY <1>2 DEF Does, SchedulerTypes, Jobs
  <2>2. method \in Methods
    BY DEF Methods
  <2> QED BY <1>2, <2>1, <2>2, EveryCaller, AsksTyped
<1> QED BY <1>1, <1>2

LEMMA JobTypes ==
  ASSUME CronTypeOK, NEW u \in Users, StartCron(u) \/ BeginJob(u) \/ JobStep(u)
  PROVE  CronTypeOK'
<1> USE TypesSplit
<1>0. /\ RepositoryTypeOK /\ SchedulerTypes
      /\ job[u] \in Jobs /\ job[u].task \in Tasks /\ u \in Callers
      /\ Found(u) \in Records /\ Found(u).task \in Tasks
  <2>1. call[u].found \in Records
    BY EveryCaller, CallOf
  <2> QED BY <2>1, EveryCaller DEF SchedulerTypes, Jobs, Found, Records
<1>b. ASSUME NEW what \in {"starting", "adding", "setting", "deleting", "listing"},
             NEW task \in Tasks, NEW method \in {"find", "list", "scheduled"},
             Begin(u, what, task, method),
             phase' \in {"new", "started", "stopped"}, disturbed' \in BOOLEAN,
             jobs' \in 0..MaxJobs
      PROVE  CronTypeOK'
  <2>1. job' \in [Users -> Jobs]
    BY <1>0, <1>b DEF Begin, SchedulerTypes, Jobs
  <2>2. call' \in [Callers -> Calls]
    BY <1>0, <1>b, AsksTyped DEF Begin, Methods
  <2>3. RepositoryTypeOK'
    BY <1>0, <1>b, <2>2, StoredTyped DEF Begin
  <2> QED BY <1>0, <1>b, <2>1, <2>3 DEF Begin, SchedulerTypes
<1>m. MaxJobs \in Nat
  BY CronAssumption
<1>1. CASE StartCron(u)
  BY <1>0, <1>1, <1>b, Constants DEF StartCron, Meets, SchedulerTypes
<1>2. CASE BeginJob(u)
  <2>1. jobs' \in 0..MaxJobs
    BY <1>0, <1>2, <1>m DEF BeginJob, SchedulerTypes
  <2>2. UNCHANGED <<phase, disturbed>>
    BY <1>2 DEF BeginJob
  <2>3. CASE \E task \in Tasks : Begin(u, "adding", task, "find")
    BY <1>0, <2>1, <2>2, <2>3, <1>b DEF SchedulerTypes
  <2>4. CASE \E task \in Tasks : Begin(u, "setting", task, "find")
    BY <1>0, <2>1, <2>2, <2>4, <1>b DEF SchedulerTypes
  <2>5. CASE Begin(u, "deleting", NoTask, "find")
    BY <1>0, <2>1, <2>2, <2>5, <1>b, Constants DEF SchedulerTypes
  <2>6. CASE Begin(u, "listing", NoTask, "list")
    BY <1>0, <2>1, <2>2, <2>6, <1>b, Constants DEF SchedulerTypes
  <2> QED BY <1>2, <2>3, <2>4, <2>5, <2>6 DEF BeginJob
<1>k. ASSUME JobStep(u)
      PROVE  /\ Keeps
             /\ job' \in [Users -> Jobs] /\ call' \in [Callers -> Calls]
             /\ entry' \in Entries /\ running' \in BOOLEAN
             /\ unguarded' \in BOOLEAN /\ spent' \in BOOLEAN /\ disturbed' \in BOOLEAN
  <2>t. /\ entry \in Entries /\ running \in BOOLEAN /\ spent \in BOOLEAN
        /\ unguarded \in BOOLEAN /\ disturbed \in BOOLEAN
    BY <1>0 DEF SchedulerTypes
  <2>1. CASE AddFound(u)
    <3>1. job' \in [Users -> Jobs] /\ call' \in [Callers -> Calls]
      BY <1>0, <2>1, JobMoves DEF AddFound
    <3> QED BY <2>t, <2>1, <3>1 DEF AddFound, Meets
  <2>2. CASE AddCreated(u)
    <3>1. job' \in [Users -> Jobs] /\ call' \in [Callers -> Calls]
      BY <1>0, <2>2, JobMoves DEF AddCreated
    <3> QED BY <1>0, <2>t, <2>2, <3>1, SchedulerConstants DEF AddCreated
  <2>3. CASE DeleteFound(u)
    <3>1. job' \in [Users -> Jobs] /\ call' \in [Callers -> Calls]
      BY <1>0, <2>3, JobMoves, Constants DEF DeleteFound
    <3> QED BY <2>t, <2>3, <3>1, SchedulerConstants DEF DeleteFound, Meets
  <2>4. CASE SetFound(u)
    <3>1. job' \in [Users -> Jobs] /\ call' \in [Callers -> Calls]
      BY <1>0, <2>4, JobMoves DEF SetFound
    <3> QED BY <2>t, <2>4, <3>1 DEF SetFound, Meets
  <2>5. CASE SetUpdated(u)
    <3>1. job' \in [Users -> Jobs] /\ call' \in [Callers -> Calls]
      BY <1>0, <2>5, JobMoves, Constants DEF SetUpdated
    <3> QED BY <2>t, <2>5, <3>1, SchedulerConstants DEF SetUpdated
  <2>6. CASE ScheduleListed(u)
    <3>1. job' \in [Users -> Jobs] /\ call' \in [Callers -> Calls]
      BY <1>0, <2>6, JobMoves DEF ScheduleListed
    <3> QED BY <1>0, <2>t, <2>6, <3>1, SchedulerConstants DEF ScheduleListed
  <2>7. CASE JobEnds(u)
    <3>1. job' \in [Users -> Jobs] /\ call' \in [Callers -> Calls]
      BY <1>0, <2>7, JobMoves DEF JobEnds
    <3> QED BY <2>t, <2>7, <3>1 DEF JobEnds
  <2> QED BY <1>k, <2>1, <2>2, <2>3, <2>4, <2>5, <2>6, <2>7 DEF JobStep
<1>3. CASE JobStep(u)
  <2>1. RepositoryTypeOK'
    BY <1>0, <1>3, <1>k, StoredTyped DEF Keeps
  <2>2. UNCHANGED <<phase, run, jobs>>
    BY <1>3, <1>k DEF Keeps
  <2>3. SchedulerTypes'
    BY <1>0, <1>3, <1>k, <2>2 DEF SchedulerTypes
  <2> QED BY <2>1, <2>3
<1> QED BY <1>1, <1>2, <1>3

LEMMA RunTypes ==
  ASSUME CronTypeOK, NEW r \in Runs, TickStarts(r) \/ RunNow(r) \/ RunStep(r)
  PROVE  CronTypeOK'
<1> USE TypesSplit
<1>0. /\ RepositoryTypeOK /\ SchedulerTypes /\ r \in Callers /\ MaxJobs \in Nat
      /\ run[r] \in RunStates /\ "find" \in Methods /\ "stamp" \in Methods
      /\ "delete" \in Methods
  BY EveryCaller, CronAssumption DEF SchedulerTypes, Methods
<1>s. SUFFICES ASSUME TRUE
               PROVE  /\ UNCHANGED storedVars
                      /\ UNCHANGED <<phase, job>>
                      /\ call' \in [Callers -> Calls] /\ run' \in [Runs -> RunStates]
                      /\ entry' \in Entries /\ running' \in BOOLEAN
                      /\ unguarded' \in BOOLEAN /\ spent' \in BOOLEAN
                      /\ disturbed' \in BOOLEAN /\ jobs' \in 0..MaxJobs
  <2>1. ASSUME UNCHANGED storedVars, call' \in [Callers -> Calls]
        PROVE  RepositoryTypeOK'
    BY <1>0, <2>1, StoredTyped
  <2> QED BY <1>0, <2>1 DEF SchedulerTypes
<1>t. /\ entry \in Entries /\ running \in BOOLEAN /\ spent \in BOOLEAN /\ run \in [Runs -> RunStates]
      /\ unguarded \in BOOLEAN /\ disturbed \in BOOLEAN /\ jobs \in 0..MaxJobs
      /\ entry.once \in BOOLEAN /\ run[r].once \in BOOLEAN
  BY <1>0 DEF SchedulerTypes, Entries, RunStates
<1>c. call \in [Callers -> Calls]
  BY <1>0 DEF RepositoryTypeOK, Calls, Methods, Places
<1>1. CASE TickStarts(r)
  <2>1. run' \in [Runs -> RunStates]
    BY <1>t, <1>1 DEF TickStarts, RunStates
  <2>2. entry' \in Entries
    BY <1>t, <1>1, SchedulerConstants DEF TickStarts, Entries
  <2> QED BY <1>t, <1>c, <1>1, <2>1, <2>2 DEF TickStarts, repositoryVars, storedVars, jobVars
<1>2. CASE RunNow(r)
  <2>1. run' \in [Runs -> RunStates]
    <3>1. \E at \in {"finding", "locked"} :
            run' = [run EXCEPT ![r] = [at |-> at, by |-> "now", once |-> FALSE]]
      BY <1>2 DEF RunNow
    <3>2. \A at \in {"finding", "locked"} :
            [at |-> at, by |-> "now", once |-> FALSE] \in RunStates
      BY DEF RunStates
    <3> QED BY <1>t, <3>1, <3>2
  <2>2. call' \in [Callers -> Calls]
    BY <1>0, <1>c, <1>2, AsksTyped, Constants DEF RunNow
  <2>3. jobs' \in 0..MaxJobs
    BY <1>0, <1>t, <1>2 DEF RunNow
  <2> QED BY <1>t, <1>2, <2>1, <2>2, <2>3 DEF RunNow
<1>3. CASE RunFound(r)
  <2>1. run' \in [Runs -> RunStates]
    BY <1>t, <1>3, SchedulerConstants DEF RunFound, RunsOn, RunStates
  <2>2. call' \in [Callers -> Calls]
    BY <1>0, <1>3, NoCallTyped DEF RunFound
  <2> QED BY <1>t, <1>3, <2>1, <2>2 DEF RunFound, jobVars
<1>4. CASE Execute(r)
  <2>1. run' \in [Runs -> RunStates]
    BY <1>t, <1>4 DEF Execute, RunsOn, RunStates
  <2>2. call' \in [Callers -> Calls]
    BY <1>0, <1>4, AsksTyped, Constants DEF Execute
  <2> QED BY <1>t, <1>4, <2>1, <2>2 DEF Execute, jobVars
<1>5. CASE RunEnds(r)
  <2>1. run' \in [Runs -> RunStates]
    BY <1>t, <1>5, SchedulerConstants DEF RunEnds, RunsOn, RunStates
  <2>2. call' \in [Callers -> Calls]
    BY <1>0, <1>5, AsksTyped, NoCallTyped, Constants DEF RunEnds
  <2>3. entry' \in Entries
    BY <1>t, <1>5, SchedulerConstants DEF RunEnds, Unscheduled
  <2> QED BY <1>t, <1>5, <2>1, <2>2, <2>3 DEF RunEnds, MarkAfter, Meets
<1>6. CASE RunDeleted(r)
  <2>1. run' \in [Runs -> RunStates]
    BY <1>t, <1>6, SchedulerConstants DEF RunDeleted
  <2>2. call' \in [Callers -> Calls]
    BY <1>0, <1>6, NoCallTyped DEF RunDeleted
  <2> QED BY <1>t, <1>6, <2>1, <2>2 DEF RunDeleted
<1> QED BY <1>1, <1>2, <1>3, <1>4, <1>5, <1>6 DEF RunStep

LEMMA InitTyped ==
  ASSUME CronInit
  PROVE  CronTypeOK
<1> USE CronAssumption, Constants, SchedulerConstants
<1>1. rows \in Seq(Versions)
  <2>1. \A task \in Tasks : <<Row(task, TRUE)>> \in Seq(Versions)
    <3> SUFFICES ASSUME NEW task \in Tasks  PROVE <<Row(task, TRUE)>> \in Seq(Versions)
      OBVIOUS
    <3>1. Row(task, TRUE) \in Versions
      BY DEF Row, Versions
    <3> QED BY <3>1, SingletonTyped
  <2>2. << >> \in Seq(Versions)
    BY EmptySeq
  <2>3. rows = << >> \/ \E task \in Tasks : rows = <<Row(task, TRUE)>>
    BY DEF CronInit, RepositoryInit
  <2> QED BY <2>1, <2>2, <2>3
<1>2. call \in [Callers -> Calls]
  BY DEF CronInit, RepositoryInit
<1>n. 0 \in 0..MaxFailures /\ 0 \in 0..MaxJobs
  OBVIOUS
<1>3. RepositoryTypeOK
  <2>1. /\ cache \in Records /\ complete \in BOOLEAN /\ raced \in BOOLEAN
        /\ failures \in 0..MaxFailures
    BY <1>n DEF CronInit, RepositoryInit
  <2> QED BY <1>1, <1>2, <2>1 DEF RepositoryTypeOK, Versions, Calls, Methods, Places
<1>4. SchedulerTypes
  <2>1. job \in [Users -> Jobs] /\ run \in [Runs -> RunStates] /\ entry \in Entries
    BY DEF CronInit
  <2>2. jobs \in 0..MaxJobs /\ phase = "new" /\ running = FALSE
    BY <1>n DEF CronInit
  <2>3. unguarded = FALSE /\ spent = FALSE /\ disturbed = FALSE
    BY DEF CronInit
  <2> QED BY <2>1, <2>2, <2>3 DEF SchedulerTypes
<1> QED BY <1>3, <1>4, TypesSplit

LEMMA StepTyped ==
  ASSUME CronTypeOK, [CronNext]_cronVars
  PROVE  CronTypeOK'
<1> USE TypesSplit
<1>0. /\ MaxFailures \in Nat /\ RepositoryTypeOK /\ SchedulerTypes
  BY CronAssumption
<1>1. ASSUME NEW c \in Callers, CallStep(c) \/ (CallThrows(c) /\ UNCHANGED <<schedulerVars, jobVars>>)
      PROVE  CronTypeOK'
  <2>1. RepositoryTypeOK'
    BY <1>0, <1>1, RepositoryTypes DEF CallStep
  <2>2. UNCHANGED <<schedulerVars, jobVars>>
    BY <1>1 DEF CallStep
  <2> QED BY <1>0, <2>1, <2>2 DEF SchedulerTypes, schedulerVars, jobVars
<1>2. ASSUME TimePasses \/ TickSkips
      PROVE  CronTypeOK'
  <2>1. entry' \in Entries
    BY <1>0, <1>2 DEF TimePasses, TickSkips, SchedulerTypes, Entries
  <2>2. UNCHANGED <<repositoryVars, phase, running, run, unguarded, spent, jobVars>>
    BY <1>2 DEF TimePasses, TickSkips
  <2>3. RepositoryTypeOK'
    BY <1>0, <2>2 DEF RepositoryTypeOK, repositoryVars
  <2> QED BY <1>0, <2>1, <2>2, <2>3 DEF SchedulerTypes, jobVars
<1>3. ASSUME StopCron
      PROVE  CronTypeOK'
  <2>1. RepositoryTypeOK'
    BY <1>0, <1>3 DEF StopCron, RepositoryTypeOK, repositoryVars
  <2> QED BY <1>0, <1>3, <2>1, SchedulerConstants DEF StopCron, SchedulerTypes, jobVars
<1>4. ASSUME CronRestart
      PROVE  CronTypeOK'
  <2>1. call' \in [Callers -> Calls]
    BY <1>4, Constants DEF CronRestart, RepositoryRestart
  <2>2. RepositoryTypeOK'
    <3>1. /\ UNCHANGED rows /\ cache' = Absent /\ complete' = FALSE /\ raced' = FALSE
          /\ failures' \in 0..MaxFailures
      BY <1>0, <1>4 DEF CronRestart, RepositoryRestart, RepositoryTypeOK
    <3>2. rows' \in Seq([task : Tasks, open : BOOLEAN]) /\ cache' \in Records
      BY <1>0, <3>1, Constants DEF RepositoryTypeOK
    <3> QED BY <2>1, <3>1, <3>2 DEF RepositoryTypeOK, Calls, Methods, Places
  <2> QED BY <1>0, <1>4, <2>2, SchedulerConstants DEF CronRestart, SchedulerTypes
<1>5. ASSUME UNCHANGED cronVars
      PROVE  CronTypeOK'
  BY <1>0, <1>5 DEF cronVars, repositoryVars, schedulerVars, jobVars, RepositoryTypeOK,
     SchedulerTypes
<1>6. ASSUME NEW u \in Users, StartCron(u) \/ BeginJob(u) \/ JobStep(u)
      PROVE  CronTypeOK'
  BY <1>6, JobTypes
<1>7. ASSUME NEW r \in Runs, TickStarts(r) \/ RunNow(r) \/ RunStep(r)
      PROVE  CronTypeOK'
  BY <1>7, RunTypes
<1> QED BY <1>1, <1>2, <1>3, <1>4, <1>5, <1>6, <1>7 DEF CronNext

(* Whatever users, ticks, failures and crashes do, records, calls, jobs    *)
(* and runs are of their types.                                            *)
THEOREM CronTypeCorrect == CronSpec => []CronTypeOK
<1>1. CronInit => CronTypeOK
  BY InitTyped
<1>2. CronTypeOK /\ [CronNext]_cronVars => CronTypeOK'
  BY StepTyped
<1> QED BY <1>1, <1>2, PTL DEF CronSpec

-----------------------------------------------------------------------------
(* Runs.  Beside the mark, the schedule of a one-shot that has run matters: *)
(* while its run is there, the schedule may hold it again, and when the    *)
(* run ends it does not.                                                   *)

OneShotLeft ==
  ~unguarded /\ spent =>
    /\ \A r \in Runs : TickRun(r) => run[r].once /\ run[r].at = "stamping"
    /\ entry # NoEntry => \E r \in Runs : TickRun(r)

OnlyNowLooksUp == \A r \in Runs : run[r].at = "finding" => run[r].by = "now"

RunLaws == OneRunAtATime /\ OneShotLeft /\ OnlyNowLooksUp

LEMMA JobsKeepRuns ==
  ASSUME RunLaws, NEW u \in Users, StartCron(u) \/ BeginJob(u) \/ JobStep(u)
  PROVE  RunLaws'
<1> USE DEF RunLaws, OneRunAtATime, OneShotLeft, OnlyNowLooksUp, Underway, TickRun
<1>1. CASE StartCron(u) \/ BeginJob(u)
  <2>1. UNCHANGED <<entry, running, run, unguarded, spent>>
    BY <1>1 DEF StartCron, BeginJob, Begin
  <2> QED BY <2>1
<1>2. CASE JobStep(u)
  <2>0. UNCHANGED run
    BY <1>2 DEF JobStep, Keeps, AddFound, AddCreated, DeleteFound, SetFound, SetUpdated,
       ScheduleListed, JobEnds
  <2>1. CASE AddFound(u) \/ SetFound(u) \/ JobEnds(u)
    <3>1. UNCHANGED <<entry, running, unguarded, spent>>
      BY <2>1 DEF AddFound, SetFound, JobEnds
    <3> QED BY <2>0, <3>1
  <2>2. CASE AddCreated(u)
    <3>1. UNCHANGED <<running, unguarded>> /\ (spent' = FALSE \/ UNCHANGED <<entry, spent>>)
      BY <2>2 DEF AddCreated
    <3> QED BY <2>0, <3>1
  <2>3. CASE DeleteFound(u)
    <3>1. CASE UNCHANGED <<entry, running, unguarded>>
      BY <2>0, <2>3, <3>1 DEF DeleteFound
    <3>2. CASE entry' = NoEntry /\ running' = FALSE /\ unguarded' = (unguarded \/ running)
      BY <2>0, <2>3, <3>2 DEF DeleteFound
    <3> QED BY <2>3, <3>1, <3>2 DEF DeleteFound
  <2>4. CASE SetUpdated(u)
    <3>1. UNCHANGED <<running, unguarded, spent>> /\ entry' = NoEntry
      BY <2>4 DEF SetUpdated
    <3> QED BY <2>0, <3>1
  <2>5. CASE ScheduleListed(u)
    <3>1. CASE UNCHANGED <<entry, spent>>
      BY <2>0, <2>5, <3>1 DEF ScheduleListed
    <3>2. CASE spent' = (spent /\ \E r \in Runs : TickRun(r))
      BY <2>0, <2>5, <3>2 DEF ScheduleListed
    <3> QED BY <2>5, <3>1, <3>2 DEF ScheduleListed
  <2> QED BY <1>2, <2>1, <2>2, <2>3, <2>4, <2>5 DEF JobStep
<1> QED BY <1>1, <1>2

LEMMA RunsKeepRuns ==
  ASSUME CronTypeOK, RunLaws, NEW r \in Runs, TickStarts(r) \/ RunNow(r) \/ RunStep(r)
  PROVE  RunLaws'
<1> USE DEF RunLaws, OneRunAtATime, OneShotLeft, OnlyNowLooksUp, Underway, TickRun
<1>0. run \in [Runs -> RunStates] /\ run[r] \in RunStates
  BY TypesSplit DEF SchedulerTypes
<1> USE <1>0 DEF RunStates
<1>a. /\ \A s \in Runs \ {r} : run'[s] = run[s]
      /\ run'[r] \in RunStates
      /\ run' \in [Runs -> RunStates]
  <2>1. CronTypeOK'
    BY RunTypes
  <2>2. run' \in [Runs -> RunStates]
    BY <2>1, TypesSplit DEF SchedulerTypes
  <2>3. \A s \in Runs \ {r} : run'[s] = run[s]
    BY DEF TickStarts, RunNow, RunStep, RunFound, Execute, RunEnds, RunDeleted, RunsOn
  <2> QED BY <2>2, <2>3
<1>1. CASE TickStarts(r)
  <2>1. /\ ~running /\ running' /\ UNCHANGED <<unguarded, spent>>
        /\ entry # NoEntry
        /\ run'[r].at = "locked" /\ run[r].at = "none"
    BY <1>1 DEF TickStarts, NoEntry
  <2>2. ~unguarded => ~spent
    BY <2>1
  <2>3. ~unguarded => \A s \in Runs : ~Underway(s)
    BY <2>1
  <2> QED BY <1>a, <2>1, <2>2, <2>3
<1>2. CASE RunNow(r)
  <2>1. CASE run'[r].at = "finding" /\ run'[r].by = "now" /\ UNCHANGED running
    <3>1. UNCHANGED <<unguarded, spent, entry>> /\ run[r].at = "none"
      BY <1>2 DEF RunNow
    <3> QED BY <1>a, <2>1, <3>1
  <2>2. CASE run'[r].at = "locked" /\ run'[r].by = "now" /\ running'
    <3>1. UNCHANGED <<unguarded, spent, entry>> /\ run[r].at = "none" /\ ~running
      BY <1>2 DEF RunNow
    <3>2. ~unguarded => \A s \in Runs : ~Underway(s)
      BY <3>1
    <3>3. \A s \in Runs : TickRun(s)' <=> TickRun(s)
      BY <1>a, <2>2, <3>1
    <3>4. OneRunAtATime'
      BY <1>a, <2>2, <3>1, <3>2
    <3>5. OneShotLeft'
      BY <1>a, <2>2, <3>1, <3>2, <3>3
    <3>6. OnlyNowLooksUp'
      BY <1>a, <2>2
    <3> QED BY <3>4, <3>5, <3>6
  <2> QED BY <1>2, <2>1, <2>2 DEF RunNow
<1>3. CASE RunFound(r)
  <2>0. run[r].at = "finding" /\ UNCHANGED <<spent, entry>>
    BY <1>3 DEF RunFound
  <2>1. CASE run' = [run EXCEPT ![r] = NoRun] /\ UNCHANGED <<running, unguarded>>
    BY <1>a, <2>0, <2>1 DEF NoRun
  <2>2. CASE RunsOn(r, "locked") /\ running' = TRUE /\ unguarded' = (unguarded \/ running)
    <3>1. run'[r].at = "locked" /\ run'[r].by = run[r].by /\ run'[r].once = run[r].once
      BY <2>2 DEF RunsOn
    <3>2. ~unguarded' => ~unguarded /\ \A s \in Runs : ~Underway(s)
      BY <2>2
    <3>3. run[r].by = "now"
      BY <2>0
    <3>4. \A s \in Runs : TickRun(s)' <=> TickRun(s)
      BY <1>a, <2>0, <3>1, <3>3
    <3>5. OneRunAtATime'
      BY <1>a, <2>2, <3>1, <3>2
    <3>6. OneShotLeft'
      BY <1>a, <2>0, <3>1, <3>2, <3>3
    <3>7. OnlyNowLooksUp'
      BY <1>a, <3>1
    <3> QED BY <3>5, <3>6, <3>7
  <2> QED BY <1>3, <2>1, <2>2 DEF RunFound
<1>4. CASE Execute(r)
  <2>1. /\ run[r].at = "locked" /\ run'[r].at = "stamping"
        /\ run'[r].by = run[r].by /\ run'[r].once = run[r].once
        /\ UNCHANGED <<running, unguarded, entry>>
        /\ spent' = (spent \/ (run[r].by = "tick" /\ run[r].once))
    BY <1>4 DEF Execute, RunsOn
  <2>2. ~unguarded => running /\ \A s \in Runs : Underway(s) => s = r
    BY <2>1
  <2>3. OneRunAtATime'
    BY <1>a, <2>1, <2>2
  <2>4. OneShotLeft'
    BY <1>a, <2>1, <2>2
  <2>5. OnlyNowLooksUp'
    BY <1>a, <2>1
  <2> QED BY <2>3, <2>4, <2>5
<1>5. CASE RunEnds(r)
  <2>1. /\ Underway(r) /\ UNCHANGED <<unguarded, spent>> /\ running' = FALSE
        /\ entry' = IF run[r].once THEN NoEntry ELSE entry
    BY <1>5 DEF RunEnds, MarkAfter, Unscheduled
  <2>2. run'[r].at \in {"none", "deleting"}
    BY <1>5 DEF RunEnds, RunsOn, NoRun
  <2>3. ~unguarded => \A s \in Runs : Underway(s) => s = r
    BY <2>1
  <2>4. ~unguarded => \A s \in Runs : ~(Underway(s)')
    BY <1>a, <2>2, <2>3
  <2>5. ~unguarded /\ spent /\ entry' # NoEntry => FALSE
    BY <2>1, <2>3
  <2> QED BY <1>a, <2>1, <2>2, <2>4, <2>5
<1>6. CASE RunDeleted(r)
  <2>1. /\ run[r].at = "deleting" /\ run'[r].at = "none"
        /\ UNCHANGED <<entry, running, unguarded, spent>>
    BY <1>6 DEF RunDeleted, NoRun
  <2> QED BY <1>a, <2>1
<1> QED BY <1>1, <1>2, <1>3, <1>4, <1>5, <1>6 DEF RunStep

LEMMA RunLawsKept ==
  ASSUME CronTypeOK, RunLaws, [CronNext]_cronVars
  PROVE  RunLaws'
<1>1. ASSUME UNCHANGED <<entry, running, run, unguarded, spent>>
      PROVE  RunLaws'
  BY <1>1 DEF RunLaws, OneRunAtATime, OneShotLeft, OnlyNowLooksUp, Underway, TickRun
<1>2. ASSUME NEW c \in Callers, CallStep(c) \/ (CallThrows(c) /\ UNCHANGED <<schedulerVars, jobVars>>)
      PROVE  RunLaws'
  BY <1>1, <1>2 DEF CallStep, schedulerVars
<1>3. ASSUME TimePasses \/ TickSkips
      PROVE  RunLaws'
  <2>1. UNCHANGED <<running, run, unguarded, spent>> /\ entry # NoEntry
    BY <1>3 DEF TimePasses, TickSkips, NoEntry
  <2> QED BY <2>1 DEF RunLaws, OneRunAtATime, OneShotLeft, OnlyNowLooksUp, Underway, TickRun
<1>4. ASSUME StopCron
      PROVE  RunLaws'
  <2>1. /\ entry' = NoEntry /\ running' = FALSE /\ unguarded' = (unguarded \/ running)
        /\ UNCHANGED <<run, spent>>
    BY <1>4 DEF StopCron
  <2> QED BY <2>1 DEF RunLaws, OneRunAtATime, OneShotLeft, OnlyNowLooksUp, Underway, TickRun
<1>5. ASSUME CronRestart
      PROVE  RunLaws'
  <2>1. entry' = NoEntry /\ running' = FALSE /\ \A r \in Runs : run'[r].at = "none"
    BY <1>5 DEF CronRestart, NoRun
  <2> QED BY <2>1 DEF RunLaws, OneRunAtATime, OneShotLeft, OnlyNowLooksUp, Underway, TickRun
<1>6. ASSUME NEW u \in Users, StartCron(u) \/ BeginJob(u) \/ JobStep(u)
      PROVE  RunLaws'
  BY <1>6, JobsKeepRuns
<1>7. ASSUME NEW r \in Runs, TickStarts(r) \/ RunNow(r) \/ RunStep(r)
      PROVE  RunLaws'
  BY <1>7, RunsKeepRuns
<1>8. ASSUME UNCHANGED cronVars
      PROVE  RunLaws'
  BY <1>1, <1>8 DEF cronVars, schedulerVars
<1> QED BY <1>2, <1>3, <1>4, <1>5, <1>6, <1>7, <1>8 DEF CronNext

LEMMA RunLawsHold == CronSpec => [](CronTypeOK /\ RunLaws)
<1>1. CronInit => CronTypeOK /\ RunLaws
  <2> SUFFICES ASSUME CronInit  PROVE CronTypeOK /\ RunLaws
    OBVIOUS
  <2>1. CronTypeOK
    BY InitTyped
  <2>2. RunLaws
    BY DEF CronInit, RunLaws, OneRunAtATime, OneShotLeft, OnlyNowLooksUp, Underway, TickRun, NoRun
  <2> QED BY <2>1, <2>2
<1>2. CronTypeOK /\ RunLaws /\ [CronNext]_cronVars => (CronTypeOK /\ RunLaws)'
  BY StepTyped, RunLawsKept
<1> QED BY <1>1, <1>2, PTL DEF CronSpec

(* Whatever users, ticks, failures and crashes do, a trigger runs once at  *)
(* a time, under the mark of runningTasks.                                 *)
THEOREM RunsOneByOne == CronSpec => []OneRunAtATime
<1>1. RunLaws => OneRunAtATime
  BY DEF RunLaws
<1> QED BY <1>1, RunLawsHold, PTL

(* Whatever users, ticks, failures and crashes do, the ticks execute a     *)
(* one-shot once, unless it was listed after its run.                      *)
THEOREM OneShotExecutedOnce == CronSpec => OneShotRunsOnce
<1>1. CronTypeOK /\ RunLaws /\ [CronNext]_cronVars =>
        [\A r \in Runs : Execute(r) /\ TickRun(r) /\ run[r].once => ~spent \/ unguarded]_cronVars
  <2> SUFFICES ASSUME RunLaws, NEW r \in Runs, Execute(r), TickRun(r), ~unguarded
               PROVE  ~spent
    OBVIOUS
  <2>1. run[r].at = "locked"
    BY DEF Execute
  <2> QED BY <2>1 DEF RunLaws, OneShotLeft
<1> QED BY <1>1, RunLawsHold, PTL DEF CronSpec, OneShotRunsOnce

-----------------------------------------------------------------------------
(* The table: at most its last version is open.                            *)

OneOpen == Open \subseteq {Len(rows)}

(* What the three statements that change the table do to it.               *)
LEMMA Insertion ==
  ASSUME RepositoryTypeOK, NEW task \in Tasks, rows' = << Row(task, TRUE) >>
  PROVE  Open' = {1} /\ Len(rows') = 1 /\ Record(1)' = [version |-> 1, task |-> task]
BY DEF Open, Record, Row

LEMMA Closing ==
  ASSUME RepositoryTypeOK, NEW v, rows' = Closed(v)
  PROVE  Open' = Open \ {v} /\ Len(rows') = Len(rows)
<1>1. /\ DOMAIN rows' = 1..Len(rows) /\ Len(rows') = Len(rows)
      /\ \A w \in 1..Len(rows) :
           rows'[w] = IF w = v THEN [rows[w] EXCEPT !.open = FALSE] ELSE rows[w]
  BY ClosedRows
<1>2. \A w \in 1..Len(rows) : rows[w] \in Versions
  BY OpenVersions
<1>3. \A w \in 1..Len(rows) : rows'[w].open <=> rows[w].open /\ w # v
  BY <1>1, <1>2 DEF Versions
<1>4. \A w : w \in Open' <=> w \in 1..Len(rows) /\ rows'[w].open
  BY <1>1 DEF Open
<1>5. \A w : w \in Open <=> w \in 1..Len(rows) /\ rows[w].open
  BY OpenVersions
<1> QED BY <1>1, <1>3, <1>4, <1>5

LEMMA Advancing ==
  ASSUME RepositoryTypeOK, NEW v \in Nat, NEW task \in Tasks, Advances(v), OneOpen,
         rows' = Append(Closed(v), Row(task, TRUE))
  PROVE  Open' = {v + 1} /\ Len(rows') = v + 1
         /\ Record(v + 1)' = [version |-> v + 1, task |-> task]
<1>1. v = Len(rows)
  BY DEF Advances
<1>2. Row(task, TRUE) \in Versions
  BY DEF Row, Versions
<1>3. /\ Closed(v) \in Seq(Versions) /\ Len(Closed(v)) = v
      /\ \A w \in 1..v : Closed(v)[w] = IF w = v THEN [rows[w] EXCEPT !.open = FALSE] ELSE rows[w]
  BY <1>1, ClosedRows
<1>4. /\ rows' \in Seq(Versions) /\ Len(rows') = v + 1
      /\ \A w \in 1..v : rows'[w] = Closed(v)[w]
      /\ rows'[v + 1] = Row(task, TRUE)
  <2> DEFINE closed == Closed(v)
             row == Row(task, TRUE)
  <2>1. closed \in Seq(Versions) /\ Len(closed) = v /\ row \in Versions
    BY <1>2, <1>3
  <2> HIDE DEF closed, row
  <2>2. /\ Append(closed, row) \in Seq(Versions) /\ Len(Append(closed, row)) = v + 1
        /\ \A w \in 1..v : Append(closed, row)[w] = closed[w]
        /\ Append(closed, row)[v + 1] = row
    BY <2>1, AppendProperties
  <2> QED BY <2>2 DEF closed, row
<1>5. DOMAIN rows' = 1..(v + 1)
  BY <1>4, LenProperties
<1>6. \A w \in 1..v : ~rows'[w].open
  <2>1. \A w \in 1..v : rows[w] \in Versions /\ (rows[w].open => w = v)
    BY <1>1, OpenVersions DEF OneOpen
  <2> QED BY <1>3, <1>4, <2>1 DEF Versions
<1>7. rows'[v + 1].open /\ rows'[v + 1].task = task
  BY <1>4 DEF Row
<1>8. Open' = {v + 1}
  <2>1. ASSUME NEW w \in 1..(v + 1)
        PROVE  rows'[w].open <=> w = v + 1
    <3>1. w \in 1..v \/ w = v + 1
      BY <1>1
    <3>2. CASE w \in 1..v
      <4>1. w # v + 1
        BY <3>2, <1>1
      <4> QED BY <3>2, <4>1, <1>6
    <3>3. CASE w = v + 1
      BY <3>3, <1>7
    <3> QED BY <3>1, <3>2, <3>3
  <2>2. v + 1 \in 1..(v + 1)
    OBVIOUS
  <2> QED BY <1>5, <2>1, <2>2 DEF Open
<1>9. Record(v + 1)' = [version |-> v + 1, task |-> task]
  BY <1>7 DEF Record
<1> QED BY <1>4, <1>8, <1>9

(* Only these three change it.                                             *)
LEMMA TableSteps ==
  ASSUME [CronNext]_cronVars
  PROVE  UNCHANGED rows \/ \E c \in Callers : InsertFirst(c) \/ Advance(c) \/ CloseRow(c)
<1>1. ASSUME NEW c \in Callers, CallStep(c)
      PROVE  UNCHANGED rows \/ InsertFirst(c) \/ Advance(c) \/ CloseRow(c)
  BY <1>1 DEF CallStep, RepositoryStep, Enter, Load, StampRow, CacheRecord, Query, Fill
<1>2. ASSUME NEW c \in Callers, CallThrows(c)
      PROVE  UNCHANGED rows
  BY <1>2 DEF CallThrows
<1>3. ASSUME NEW u \in Users, StartCron(u) \/ BeginJob(u) \/ JobStep(u)
      PROVE  UNCHANGED rows
  BY <1>3 DEF StartCron, BeginJob, Begin, JobStep, AddFound, AddCreated, DeleteFound, SetFound,
     SetUpdated, ScheduleListed, JobEnds, Keeps, storedVars
<1>4. ASSUME NEW r \in Runs, TickStarts(r) \/ RunNow(r) \/ RunStep(r)
      PROVE  UNCHANGED rows
  BY <1>4 DEF TickStarts, RunNow, RunStep, RunFound, Execute, RunEnds, RunDeleted, storedVars,
     repositoryVars
<1>5. ASSUME TimePasses \/ TickSkips \/ StopCron \/ CronRestart \/ UNCHANGED cronVars
      PROVE  UNCHANGED rows
  BY <1>5 DEF TimePasses, TickSkips, StopCron, CronRestart, RepositoryRestart, repositoryVars,
     cronVars
<1> QED BY <1>1, <1>2, <1>3, <1>4, <1>5 DEF CronNext

LEMMA DeletedStays ==
  ASSUME RepositoryTypeOK, rows # << >>, Open = {},
         NEW c \in Callers, InsertFirst(c) \/ Advance(c) \/ CloseRow(c)
  PROVE  UNCHANGED rows
<1>1. CASE InsertFirst(c)
  BY <1>1 DEF InsertFirst
<1>2. CASE Advance(c)
  <2>1. ASSUME NEW v, Advances(v)  PROVE FALSE
    <3>1. Len(rows) \in 1..Len(rows)
      BY OpenVersions, EmptySeq DEF RepositoryTypeOK
    <3> QED BY <2>1, <3>1, OpenVersions DEF Advances
  <2> QED BY <1>2, <2>1 DEF Advance
<1>3. CASE CloseRow(c)
  <2> DEFINE v == call[c].found.version
             n == Len(rows)
  <2>1. rows' = Closed(v)
    BY <1>3 DEF CloseRow, Closed
  <2>2. /\ Closed(v) \in Seq(Versions) /\ Len(Closed(v)) = n
        /\ \A w \in 1..n : Closed(v)[w] = IF w = v THEN [rows[w] EXCEPT !.open = FALSE]
                                                  ELSE rows[w]
    BY ClosedRows
  <2>3. \A w \in 1..n : rows[w] \in Versions /\ ~rows[w].open
    BY OpenVersions
  <2>4. \A w \in 1..n : [rows[w] EXCEPT !.open = FALSE] = rows[w]
    BY <2>3 DEF Versions
  <2>5. \A w \in 1..n : Closed(v)[w] = rows[w]
    BY <2>2, <2>4
  <2>6. rows \in Seq(Versions)
    BY DEF RepositoryTypeOK, Versions
  <2>7. Closed(v) = rows
    BY <2>2, <2>5, <2>6, SeqEqual
  <2> QED BY <2>1, <2>7
<1> QED BY <1>1, <1>2, <1>3

(* Whatever users, ticks, failures and crashes do, a deleted trigger is    *)
(* never written again.                                                    *)
THEOREM DeletionIsFinal == CronSpec => DeletedForever
<1>1. CronTypeOK /\ [CronNext]_cronVars =>
        [rows # << >> /\ Open = {} => UNCHANGED rows]_repositoryVars
  <2> SUFFICES ASSUME CronTypeOK, [CronNext]_cronVars, rows # << >>, Open = {}
               PROVE  UNCHANGED rows
    OBVIOUS
  <2>1. RepositoryTypeOK
    BY TypesSplit
  <2> QED BY <2>1, TableSteps, DeletedStays
<1> QED BY <1>1, CronTypeCorrect, PTL DEF CronSpec, DeletedForever
-----------------------------------------------------------------------------
(* The cache.  Jobs and runs only begin and take up calls that hold no     *)
(* lock, so a call inside a lock, or behind the query of findAll(), is     *)
(* disturbed by other calls only: while none has raced, the record it      *)
(* found is the one of the table.                                          *)

IdleCalls ==
  /\ \A u \in Users : job[u].does = "nothing" => call[u].at = "idle"
  /\ \A r \in Runs : run[r].at \in {"none", "locked"} => call[r].at = "idle"

Alone == \A c, d \in Callers : Inside(c) /\ Inside(d) => c = d

FoundFits(c) ==
  /\ call[c].at = "writing" =>
       call[c].found \in Answers /\ (call[c].method = "delete" => call[c].found # Absent)
  /\ call[c].at = "caching" =>
       IF call[c].method = "delete" THEN Open = {} ELSE call[c].found \in Answers
  /\ call[c].at = "filling" =>
       \E record \in Answers : call[c].found = Visible(call[c].method, record)

CacheFits ==
  /\ cache = Absent \/ cache \in Answers
  /\ complete /\ cache = Absent => Open = {}

\* No call has changed the table and not yet the cache.
Writers == {"create", "set", "delete"}
NoneCaching == \A c \in Callers : call[c].method \in Writers => call[c].at # "caching"

CacheLaws ==
  ~raced => /\ Alone
            /\ \A c \in Callers : FoundFits(c)
            /\ NoneCaching => CacheFits

\* Where a call holds no lock and has read nothing.
Quiet == {"idle", "waiting", "querying", "returned", "thrown"}

LEMMA AskedQuiet ==
  ASSUME NEW method, NEW task
  PROVE  Asked(method, task).at \in Quiet /\ Asked(method, task).at # "idle"
BY DEF Asked, Quiet

LEMMA AsksQuiet ==
  ASSUME RepositoryTypeOK, NEW c \in Callers, NEW method, NEW task, Asks(c, method, task)
  PROVE  /\ \A d \in Callers \ {c} : call'[d] = call[d]
         /\ call'[c].at \in Quiet
<1>1. call' = [call EXCEPT ![c] = Asked(method, task)] /\ DOMAIN call = Callers
  BY DEF Asks, RepositoryTypeOK
<1> QED BY <1>1, AskedQuiet

LEMMA NoCallQuiet ==
  ASSUME RepositoryTypeOK, NEW c \in Callers, call' = [call EXCEPT ![c] = NoCall]
  PROVE  /\ \A d \in Callers \ {c} : call'[d] = call[d]
         /\ call'[c].at = "idle" /\ call'[c].at \in Quiet
BY DEF NoCall, Quiet, RepositoryTypeOK

(* The jobs and the runs, as the calls see them.                           *)
LEMMA JobCalls ==
  ASSUME CronTypeOK, IdleCalls, NEW u \in Users, StartCron(u) \/ BeginJob(u) \/ JobStep(u)
  PROVE  /\ UNCHANGED storedVars
         /\ \A d \in Callers \ {u} : call'[d] = call[d]
         /\ call[u].at \in Quiet /\ call'[u].at \in Quiet
         /\ IdleCalls'
<1>0. /\ RepositoryTypeOK /\ u \in Callers /\ u \notin Runs
      /\ job \in [Users -> Jobs] /\ \A r \in Runs : r \in Callers
  BY TypesSplit, EveryCaller, CronAssumption DEF SchedulerTypes
<1>i. ASSUME UNCHANGED run, \A d \in Callers \ {u} : call'[d] = call[d],
             \A d \in Users \ {u} : job'[d] = job[d],
             job'[u].does # "nothing" \/ call'[u].at = "idle"
      PROVE  IdleCalls'
  <2>1. \A r \in Runs : call'[r] = call[r]
    BY <1>0, <1>i
  <2>2. \A d \in Users \ {u} : call'[d] = call[d]
    BY <1>i, EveryCaller
  <2> QED BY <1>i, <2>1, <2>2 DEF IdleCalls
<1>d. ASSUME Done(u)
      PROVE  /\ \A d \in Callers \ {u} : call'[d] = call[d]
             /\ \A d \in Users \ {u} : job'[d] = job[d]
             /\ call'[u].at = "idle" /\ call'[u].at \in Quiet
  BY <1>0, <1>d, NoCallQuiet DEF Done
<1>n. ASSUME NEW what, NEW method, NEW task, Does(u, what), Asks(u, method, task)
      PROVE  /\ \A d \in Callers \ {u} : call'[d] = call[d]
             /\ \A d \in Users \ {u} : job'[d] = job[d]
             /\ job'[u].does = what /\ call'[u].at \in Quiet
  <2>1. \A d \in Users \ {u} : job'[d] = job[d]
    BY <1>0, <1>n DEF Does
  <2>2. job'[u].does = what
    BY <1>0, <1>n DEF Does, Jobs
  <2> QED BY <1>0, <1>n, <2>1, <2>2, AsksQuiet
<1>b. ASSUME NEW what, what # "nothing", NEW method, NEW task, Begin(u, what, task, method)
      PROVE  /\ UNCHANGED storedVars
             /\ \A d \in Callers \ {u} : call'[d] = call[d]
             /\ call[u].at \in Quiet /\ call'[u].at \in Quiet
             /\ IdleCalls'
  <2>1. UNCHANGED storedVars /\ UNCHANGED run /\ job[u].does = "nothing"
    BY <1>b DEF Begin
  <2>2. call[u].at \in Quiet
    BY <2>1 DEF IdleCalls, Quiet
  <2>3. (\A d \in Users \ {u} : job'[d] = job[d]) /\ job'[u].does = what
    BY <1>0, <1>b DEF Begin
  <2>4. (\A d \in Callers \ {u} : call'[d] = call[d]) /\ call'[u].at \in Quiet
    BY <1>0, <1>b, AsksQuiet DEF Begin
  <2> QED BY <1>b, <1>i, <2>1, <2>2, <2>3, <2>4
<1>1. CASE StartCron(u)
  BY <1>1, <1>b DEF StartCron
<1>2. CASE BeginJob(u)
  BY <1>2, <1>b DEF BeginJob
<1>3. CASE JobStep(u)
  <2>1. UNCHANGED storedVars /\ UNCHANGED run
    BY <1>3 DEF JobStep, Keeps, AddFound, AddCreated, DeleteFound, SetFound, SetUpdated,
       ScheduleListed, JobEnds
  <2>2. call[u].at \in Quiet
    BY <1>3 DEF JobStep, Answered, AddFound, AddCreated, DeleteFound, SetFound, SetUpdated,
       ScheduleListed, JobEnds, Quiet
  <2>3. \/ Done(u)
        \/ \E what \in {"creating", "erasing", "updating", "reloading"},
              method \in {"create", "delete", "set", "scheduled"}, task \in {NoTask, job[u].task} :
             Does(u, what) /\ Asks(u, method, task)
    BY <1>3 DEF JobStep, AddFound, AddCreated, DeleteFound, SetFound, SetUpdated,
       ScheduleListed, JobEnds
  <2>4. CASE Done(u)
    BY <1>i, <1>d, <2>1, <2>2, <2>4
  <2>5. CASE ~Done(u)
    <3>1. PICK what \in {"creating", "erasing", "updating", "reloading"},
               method \in {"create", "delete", "set", "scheduled"},
               task \in {NoTask, job[u].task} : Does(u, what) /\ Asks(u, method, task)
      BY <2>3, <2>5
    <3>2. what # "nothing"
      OBVIOUS
    <3> QED BY <1>i, <1>n, <2>1, <2>2, <3>1, <3>2
  <2> QED BY <2>4, <2>5
<1> QED BY <1>1, <1>2, <1>3

LEMMA RunCalls ==
  ASSUME CronTypeOK, IdleCalls, NEW r \in Runs, TickStarts(r) \/ RunNow(r) \/ RunStep(r)
  PROVE  /\ UNCHANGED storedVars
         /\ \A d \in Callers \ {r} : call'[d] = call[d]
         /\ call'[r] = call[r] \/ (call[r].at \in Quiet /\ call'[r].at \in Quiet)
         /\ IdleCalls'
<1>0. /\ RepositoryTypeOK /\ r \in Callers /\ r \notin Users
      /\ run \in [Runs -> RunStates] /\ \A u \in Users : u \in Callers
  BY TypesSplit, EveryCaller, CronAssumption DEF SchedulerTypes
<1>i. ASSUME UNCHANGED job, \A d \in Callers \ {r} : call'[d] = call[d],
             \A s \in Runs \ {r} : run'[s] = run[s],
             run'[r].at \notin {"none", "locked"} \/ call'[r].at = "idle"
      PROVE  IdleCalls'
  <2>1. \A u \in Users : call'[u] = call[u]
    BY <1>0, <1>i
  <2>2. \A s \in Runs \ {r} : call'[s] = call[s]
    BY <1>i, EveryCaller
  <2> QED BY <1>i, <2>1, <2>2 DEF IdleCalls
<1>1. CASE TickStarts(r)
  <2>1. UNCHANGED <<storedVars, call, job>> /\ run[r].at = "none"
    BY <1>1 DEF TickStarts, repositoryVars, storedVars, jobVars
  <2>2. \A s \in Runs \ {r} : run'[s] = run[s]
    BY <1>0, <1>1 DEF TickStarts
  <2>3. call'[r].at = "idle"
    BY <2>1 DEF IdleCalls
  <2> QED BY <1>i, <2>1, <2>2, <2>3
<1>2. CASE RunNow(r)
  <2>1. UNCHANGED <<storedVars, job>> /\ run[r].at = "none"
    BY <1>2 DEF RunNow
  <2>2. \A s \in Runs \ {r} : run'[s] = run[s]
    BY <1>0, <1>2 DEF RunNow
  <2>3. call[r].at = "idle" /\ call[r].at \in Quiet
    BY <2>1 DEF IdleCalls, Quiet
  <2>4. CASE entry = NoEntry
    <3>1. run'[r].at = "finding"
      BY <1>0, <1>2, <2>4 DEF RunNow
    <3>2. (\A d \in Callers \ {r} : call'[d] = call[d]) /\ call'[r].at \in Quiet
      BY <1>0, <1>2, <2>4, AsksQuiet DEF RunNow
    <3> QED BY <1>i, <2>1, <2>2, <2>3, <3>1, <3>2
  <2>5. CASE entry # NoEntry
    <3>1. UNCHANGED call
      BY <1>2, <2>5 DEF RunNow
    <3> QED BY <1>i, <2>1, <2>2, <2>3, <3>1
  <2> QED BY <2>4, <2>5
<1>3. CASE RunFound(r)
  <2>1. UNCHANGED <<storedVars, job>> /\ call[r].at \in Quiet
    BY <1>3 DEF RunFound, jobVars, Quiet
  <2>2. \A s \in Runs \ {r} : run'[s] = run[s]
    BY <1>0, <1>3 DEF RunFound, RunsOn
  <2>3. (\A d \in Callers \ {r} : call'[d] = call[d]) /\ call'[r].at = "idle" /\ call'[r].at \in Quiet
    BY <1>0, <1>3, NoCallQuiet DEF RunFound
  <2> QED BY <1>i, <2>1, <2>2, <2>3
<1>4. CASE Execute(r)
  <2>1. UNCHANGED <<storedVars, job>> /\ run[r].at = "locked"
    BY <1>4 DEF Execute, jobVars
  <2>2. (\A s \in Runs \ {r} : run'[s] = run[s]) /\ run'[r].at = "stamping"
    BY <1>0, <1>4 DEF Execute, RunsOn, RunStates
  <2>3. (\A d \in Callers \ {r} : call'[d] = call[d]) /\ call'[r].at \in Quiet
    BY <1>0, <1>4, AsksQuiet DEF Execute
  <2>4. call[r].at \in Quiet
    BY <2>1 DEF IdleCalls, Quiet
  <2> QED BY <1>i, <2>1, <2>2, <2>3, <2>4
<1>5. CASE RunEnds(r)
  <2>1. UNCHANGED <<storedVars, job>>
    BY <1>5 DEF RunEnds
  <2>2. \A s \in Runs \ {r} : run'[s] = run[s]
    BY <1>0, <1>5 DEF RunEnds, RunsOn
  <2>3. call[r].at \in Quiet
    BY <1>5 DEF RunEnds, IdleCalls, Quiet
  <2>4. CASE run[r].once
    <3>1. run'[r].at = "deleting"
      BY <1>0, <1>5, <2>4 DEF RunEnds, RunsOn, RunStates
    <3>2. (\A d \in Callers \ {r} : call'[d] = call[d]) /\ call'[r].at \in Quiet
      BY <1>0, <1>5, <2>4, AsksQuiet DEF RunEnds
    <3> QED BY <1>i, <2>1, <2>2, <2>3, <3>1, <3>2
  <2>5. CASE ~run[r].once
    <3>1. (\A d \in Callers \ {r} : call'[d] = call[d])
          /\ call'[r].at = "idle" /\ call'[r].at \in Quiet
      BY <1>0, <1>5, <2>5, NoCallQuiet DEF RunEnds
    <3> QED BY <1>i, <2>1, <2>2, <2>3, <3>1
  <2> QED BY <2>4, <2>5
<1>6. CASE RunDeleted(r)
  <2>1. UNCHANGED <<storedVars, job>> /\ call[r].at \in Quiet
    BY <1>6 DEF RunDeleted, Quiet
  <2>2. \A s \in Runs \ {r} : run'[s] = run[s]
    BY <1>0, <1>6 DEF RunDeleted
  <2>3. (\A d \in Callers \ {r} : call'[d] = call[d]) /\ call'[r].at = "idle" /\ call'[r].at \in Quiet
    BY <1>0, <1>6, NoCallQuiet DEF RunDeleted
  <2> QED BY <1>i, <2>1, <2>2, <2>3
<1> QED BY <1>1, <1>2, <1>3, <1>4, <1>5, <1>6 DEF RunStep

(* They leave the laws of the cache alone.                                 *)
LEMMA QuietKeepsCache ==
  ASSUME CacheLaws, UNCHANGED storedVars,
         \A d \in Callers : call'[d] = call[d] \/ (call[d].at \in Quiet /\ call'[d].at \in Quiet)
  PROVE  CacheLaws'
<1>1. Open' = Open /\ Answers' = Answers
  BY DEF Open, Answers, Record, storedVars
<1>2. UNCHANGED <<raced, cache, complete>>
  BY DEF storedVars
<1>3. \A d \in Callers : Inside(d)' <=> Inside(d)
  BY DEF Inside, Quiet
<1>4. \A d \in Callers : FoundFits(d) => FoundFits(d)'
  BY <1>1 DEF FoundFits, Quiet, Visible
<1>5. NoneCaching' => NoneCaching
  BY DEF NoneCaching, Quiet
<1>6. CacheFits => CacheFits'
  BY <1>1, <1>2 DEF CacheFits
<1> QED BY <1>2, <1>3, <1>4, <1>5, <1>6 DEF CacheLaws, Alone
\* What the calls of the repository do to a call.
LEMMA CallMoves ==
  ASSUME RepositoryTypeOK, NEW c \in Callers, NEW place, NEW record, Moves(c, place, record)
  PROVE  /\ \A d \in Callers \ {c} : call'[d] = call[d]
         /\ call'[c].at = place /\ call'[c].found = record
         /\ call'[c].method = call[c].method /\ call'[c].task = call[c].task
<1>1. call \in [Callers -> Calls]
  BY DEF RepositoryTypeOK, Calls, Methods, Places
<1> QED BY <1>1 DEF Moves, Calls

(* The record of an open row, and no other, is an answer.                  *)
LEMMA AnswerOpen ==
  ASSUME RepositoryTypeOK, OneOpen, NEW record \in Answers, record # Absent
  PROVE  /\ record.version = Len(rows) /\ record.version \in Nat
         /\ Open = {record.version}
<1>1. PICK v \in Open : record = Record(v)
  BY DEF Answers
<1>2. v = Len(rows) /\ v \in Nat /\ Open = {v}
  BY OpenVersions DEF OneOpen
<1>3. record.version = v
  BY <1>1 DEF Record
<1> QED BY <1>2, <1>3

LEMMA AbsentAnswer ==
  ASSUME RepositoryTypeOK, Absent \in Answers
  PROVE  Open = {}
<1>1. ASSUME NEW v \in Open, Absent = Record(v)  PROVE FALSE
  <2>1. v = 0
    BY <1>1 DEF Absent, Record
  <2> QED BY <2>1, OpenVersions
<1> QED BY <1>1 DEF Answers

LEMMA NewAnswers ==
  ASSUME NEW v, NEW record, Open' = {v}, Record(v)' = record
  PROVE  Answers' = {record}
<1>1. Answers' = {Record(w)' : w \in {v}}
  BY DEF Answers, Record
<1> QED BY <1>1

(* One step of the table.                                                  *)
LEMMA TableStep ==
  ASSUME RepositoryTypeOK, OneOpen, NEW c \in Callers,
         InsertFirst(c) \/ Advance(c) \/ CloseRow(c)
  PROVE  /\ OneOpen'
         /\ \/ call'[c].at = "thrown" /\ UNCHANGED rows
            \/ /\ call'[c].at = "caching" /\ call'[c].method # "delete"
               /\ call'[c].found \in Answers'
            \/ /\ call'[c].at = "caching" /\ call'[c].method = "delete"
               /\ call[c].found \in Answers /\ call[c].found # Absent => Open' = {}
<1>0. call[c].task \in Tasks /\ call[c].found \in Records
  BY DEF RepositoryTypeOK
<1>1. CASE InsertFirst(c)
  <2> PICK task \in Tasks : task = call[c].task
    BY <1>0
  <2> DEFINE record == [version |-> 1, task |-> task]
  <2>1. CASE rows = << >>
    <3>1. rows' = << Row(task, TRUE) >> /\ Moves(c, "caching", record)
      BY <1>1, <2>1 DEF InsertFirst
    <3>2. Open' = {1} /\ Len(rows') = 1 /\ Record(1)' = record
      BY <1>0, <3>1, Insertion
    <3>3. Answers' = {record}
      BY <3>2, NewAnswers
    <3>4. call'[c].at = "caching" /\ call'[c].method = "create" /\ call'[c].found = record
      BY <1>1, <3>1, CallMoves DEF InsertFirst
    <3> QED BY <3>2, <3>3, <3>4 DEF OneOpen
  <2>2. CASE rows # << >>
    <3>1. Moves(c, "thrown", Absent) /\ UNCHANGED rows
      BY <1>1, <2>2 DEF InsertFirst, Throws
    <3> QED BY <3>1, CallMoves DEF OneOpen, Open
  <2> QED BY <2>1, <2>2
<1>2. CASE Advance(c)
  <2>0. call[c].found.version \in Nat /\ NewTask(call[c]) \in Tasks
    BY <1>0 DEF Records, NewTask, Tasks
  <2> PICK v \in Nat, task \in Tasks : v = call[c].found.version /\ task = NewTask(call[c])
    BY <2>0
  <2> DEFINE record == [version |-> v + 1, task |-> task]
  <2>1. CASE Advances(v)
    <3>1. rows' = Append(Closed(v), Row(task, TRUE)) /\ Moves(c, "caching", record)
      BY <1>2, <2>1 DEF Advance, Closed
    <3>2. Open' = {v + 1} /\ Len(rows') = v + 1 /\ Record(v + 1)' = record
      BY <2>0, <2>1, <3>1, Advancing
    <3>3. Answers' = {record}
      BY <3>2, NewAnswers
    <3>4. call'[c].at = "caching" /\ call'[c].method # "delete" /\ call'[c].found = record
      BY <1>2, <3>1, CallMoves DEF Advance
    <3> QED BY <3>2, <3>3, <3>4 DEF OneOpen
  <2>2. CASE ~Advances(v)
    <3>1. Moves(c, "thrown", Absent) /\ UNCHANGED rows
      BY <1>2, <2>2 DEF Advance, Throws
    <3> QED BY <3>1, CallMoves DEF OneOpen, Open
  <2> QED BY <2>1, <2>2
<1>3. CASE CloseRow(c)
  <2> DEFINE v == call[c].found.version
  <2>1. rows' = Closed(v) /\ Moves(c, "caching", call[c].found) /\ call[c].method = "delete"
    BY <1>3 DEF CloseRow, Closed
  <2>2. Open' = Open \ {v} /\ Len(rows') = Len(rows)
    BY <2>1, Closing
  <2>3. OneOpen'
    BY <2>2 DEF OneOpen
  <2>4. call'[c].at = "caching" /\ call'[c].method = "delete"
    BY <2>1, CallMoves
  <2>5. ASSUME call[c].found \in Answers, call[c].found # Absent
        PROVE  Open' = {}
    BY <2>2, <2>5, AnswerOpen
  <2> QED BY <2>3, <2>4, <2>5
<1> QED BY <1>1, <1>2, <1>3

LEMMA OneOpenKept ==
  ASSUME CronTypeOK, OneOpen, [CronNext]_cronVars
  PROVE  OneOpen'
<1>1. RepositoryTypeOK
  BY TypesSplit
<1>2. CASE UNCHANGED rows
  BY <1>2 DEF OneOpen, Open
<1> QED BY <1>1, <1>2, TableSteps, TableStep
(* A call that leaves the table alone.                                     *)
LEMMA CallKeepsCache ==
  ASSUME RepositoryTypeOK, CacheLaws, ~raced, UNCHANGED rows, NEW c \in Callers,
         \A d \in Callers \ {c} : call'[d] = call[d],
         Inside(c)' => \A d \in Callers \ {c} : ~Inside(d),
         FoundFits(c)', NoneCaching' => CacheFits'
  PROVE  CacheLaws'
<1>1. Open' = Open /\ Answers' = Answers
  BY DEF Open, Answers, Record
<1>2. \A d \in Callers \ {c} : (Inside(d)' <=> Inside(d)) /\ (FoundFits(d) => FoundFits(d)')
  BY <1>1 DEF Inside, FoundFits, Visible
<1>3. Alone'
  BY <1>2 DEF CacheLaws, Alone
<1>4. \A d \in Callers : FoundFits(d)'
  BY <1>2 DEF CacheLaws
<1> QED BY <1>3, <1>4 DEF CacheLaws

LEMMA CallsKeepCache ==
  ASSUME RepositoryTypeOK, OneOpen, CacheLaws, NEW c \in Callers,
         RepositoryStep(c) \/ CallThrows(c)
  PROVE  CacheLaws'
<1>s. SUFFICES ASSUME ~raced'  PROVE CacheLaws'
  BY DEF CacheLaws
<1>r. ~raced
  BY <1>s DEF RepositoryStep, Enter, Load, InsertFirst, Advance, CloseRow, StampRow, CacheRecord,
     Query, Fill, CallThrows, RacedByWrite
<1>0. Alone /\ (\A d \in Callers : FoundFits(d)) /\ (NoneCaching => CacheFits)
  BY <1>r DEF CacheLaws
<1>i. Inside(c) => \A d \in Callers \ {c} : ~Inside(d)
  BY <1>0 DEF Alone
<1>n. ASSUME \A d \in Callers \ {c} : ~Inside(d), call[c].at # "caching"
      PROVE  CacheFits
  BY <1>0, <1>n DEF NoneCaching, Inside
<1>u. ASSUME UNCHANGED <<rows, cache, complete>>, CacheFits
      PROVE  CacheFits'
  BY <1>u DEF CacheFits, Open, Answers, Record
<1>a. UNCHANGED rows => Open' = Open /\ Answers' = Answers
  BY DEF Open, Answers, Record
<1>1. CASE Enter(c)
  <2>1. (\A d \in Callers : ~Inside(d)) /\ UNCHANGED <<rows, cache, complete>>
    BY <1>s, <1>1 DEF Enter
  <2>2. CacheFits /\ CacheFits'
    BY <1>n, <1>u, <1>1, <2>1 DEF Enter
  <2>3. CASE cache = Absent \/ call[c].method = "find"
    <3>1. PICK place, record : place \in {"loading", "returned"} /\ Moves(c, place, record)
      BY <1>1, <2>3 DEF Enter
    <3>2. (\A d \in Callers \ {c} : call'[d] = call[d]) /\ call'[c].at = place
      BY <3>1, CallMoves
    <3>3. FoundFits(c)'
      BY <3>1, <3>2 DEF FoundFits
    <3> QED BY <1>r, <2>1, <2>2, <3>2, <3>3, CallKeepsCache
  <2>4. CASE cache # Absent /\ call[c].method # "find"
    <3>1. Moves(c, AfterLookup(call[c], cache), cache) /\ cache \in Answers
      BY <1>1, <2>2, <2>4 DEF Enter, CacheFits
    <3>2. /\ \A d \in Callers \ {c} : call'[d] = call[d]
          /\ call'[c].at = AfterLookup(call[c], cache) /\ call'[c].found = cache
          /\ call'[c].method = call[c].method
      BY <3>1, CallMoves
    <3>3. AfterLookup(call[c], cache) = "caching" => call[c].method # "delete"
      BY <2>4 DEF AfterLookup
    <3>4. AfterLookup(call[c], cache) # "filling"
      BY DEF AfterLookup
    <3>5. FoundFits(c)'
      BY <1>a, <2>1, <2>4, <3>1, <3>2, <3>3, <3>4 DEF FoundFits
    <3> QED BY <1>r, <2>1, <2>2, <3>2, <3>5, CallKeepsCache
  <2> QED BY <2>3, <2>4
<1>2. CASE Load(c)
  <2>1. (\A d \in Callers \ {c} : ~Inside(d)) /\ UNCHANGED <<rows, cache, complete>>
    BY <1>i, <1>2 DEF Load, Inside
  <2>2. CacheFits'
    BY <1>n, <1>u, <1>2, <2>1 DEF Load
  <2>3. PICK record \in Answers : Moves(c, AfterLookup(call[c], record), record)
    BY <1>2 DEF Load
  <2>4. /\ \A d \in Callers \ {c} : call'[d] = call[d]
        /\ call'[c].at = AfterLookup(call[c], record) /\ call'[c].found = record
        /\ call'[c].method = call[c].method
    BY <2>3, CallMoves
  <2>5. /\ AfterLookup(call[c], record) = "caching" => call[c].method # "delete"
        /\ AfterLookup(call[c], record) = "writing" /\ call[c].method = "delete" =>
             record # Absent
        /\ AfterLookup(call[c], record) # "filling"
    BY DEF AfterLookup
  <2>6. FoundFits(c)'
    BY <1>a, <2>1, <2>4, <2>5 DEF FoundFits
  <2> QED BY <1>r, <2>1, <2>2, <2>4, <2>6, CallKeepsCache
<1>3. CASE InsertFirst(c) \/ Advance(c) \/ CloseRow(c)
  <2>1. /\ call[c].at = "writing" /\ UNCHANGED <<cache, complete>>
        /\ \A d \in Callers : call[d].at # "filling"
    BY <1>s, <1>3 DEF InsertFirst, Advance, CloseRow, RacedByWrite
  <2>2. \A d \in Callers \ {c} : ~Inside(d)
    BY <1>i, <2>1 DEF Inside
  <2>3. \A d \in Callers \ {c} : call'[d] = call[d]
    BY <1>3, CallMoves DEF InsertFirst, Advance, CloseRow, Throws
  <2>4. CASE call'[c].at = "thrown" /\ UNCHANGED rows
    <3>1. CacheFits'
      BY <1>n, <1>u, <2>1, <2>2, <2>4
    <3>2. FoundFits(c)'
      BY <2>4 DEF FoundFits
    <3> QED BY <1>r, <2>2, <2>3, <2>4, <3>1, <3>2, CallKeepsCache
  <2>5. CASE ~(call'[c].at = "thrown" /\ UNCHANGED rows)
    <3>1. /\ call'[c].at = "caching"
          /\ IF call'[c].method = "delete"
               THEN call[c].found \in Answers /\ call[c].found # Absent => Open' = {}
               ELSE call'[c].found \in Answers'
      BY <1>3, <2>5, TableStep
    <3>2. call'[c].method = call[c].method
      BY <1>3, CallMoves DEF InsertFirst, Advance, CloseRow, Throws
    <3>3. call[c].found \in Answers /\ (call[c].method = "delete" => call[c].found # Absent)
      BY <1>0, <2>1 DEF FoundFits
    <3>4. FoundFits(c)'
      BY <3>1, <3>2, <3>3 DEF FoundFits
    <3>5. \A d \in Callers \ {c} : ~Inside(d)' /\ FoundFits(d)'
      BY <2>1, <2>2, <2>3 DEF Inside, FoundFits
    <3>6. call'[c].method \in Writers
      BY <1>3, <3>2 DEF InsertFirst, Advance, CloseRow, Writers
    <3>7. Alone' /\ ~NoneCaching'
      BY <3>1, <3>5, <3>6 DEF Alone, NoneCaching
    <3> QED BY <3>4, <3>5, <3>7 DEF CacheLaws
  <2> QED BY <2>4, <2>5
<1>4. CASE StampRow(c)
  <2>1. (\A d \in Callers \ {c} : ~Inside(d)) /\ UNCHANGED <<rows, cache, complete>>
    BY <1>i, <1>4 DEF StampRow, Inside
  <2>2. CacheFits'
    BY <1>n, <1>u, <1>4, <2>1 DEF StampRow
  <2>3. /\ \A d \in Callers \ {c} : call'[d] = call[d]
        /\ call'[c].at = "caching" /\ call'[c].found = call[c].found
        /\ call'[c].method = "stamp"
    BY <1>4, CallMoves DEF StampRow
  <2>4. call[c].found \in Answers
    BY <1>0, <1>4 DEF StampRow, FoundFits
  <2>5. FoundFits(c)'
    BY <1>a, <2>1, <2>3, <2>4 DEF FoundFits
  <2> QED BY <1>r, <2>1, <2>2, <2>3, <2>5, CallKeepsCache
<1>5. CASE CacheRecord(c)
  <2>1. /\ UNCHANGED <<rows, complete>> /\ call[c].at = "caching"
        /\ cache' = IF call[c].method = "delete" THEN Absent ELSE call[c].found
    BY <1>5 DEF CacheRecord, Cached
  <2>2. /\ \A d \in Callers \ {c} : call'[d] = call[d]
        /\ call'[c].at = "returned"
    BY <1>5, CallMoves DEF CacheRecord
  <2>3. IF call[c].method = "delete" THEN Open = {} ELSE call[c].found \in Answers
    BY <1>0, <2>1 DEF FoundFits
  <2>4. CacheFits'
    BY <1>a, <2>1, <2>3, AbsentAnswer DEF CacheFits
  <2>5. FoundFits(c)' /\ ~Inside(c)'
    BY <2>2 DEF FoundFits, Inside
  <2> QED BY <1>r, <2>1, <2>2, <2>4, <2>5, CallKeepsCache
<1>6. CASE Query(c)
  <2>1. UNCHANGED <<rows, cache, complete>> /\ call[c].at = "querying"
    BY <1>6 DEF Query
  <2>2. PICK record \in Answers : Moves(c, "filling", Visible(call[c].method, record))
    BY <1>6 DEF Query
  <2>3. /\ \A d \in Callers \ {c} : call'[d] = call[d]
        /\ call'[c].at = "filling" /\ call'[c].found = Visible(call[c].method, record)
        /\ call'[c].method = call[c].method
    BY <2>2, CallMoves
  <2>4. FoundFits(c)' /\ ~Inside(c)'
    <3>1. record \in Answers'
      BY <1>a, <2>1
    <3> QED BY <2>3, <3>1 DEF FoundFits, Inside, Visible
  <2>5. NoneCaching' => CacheFits'
    BY <1>0, <1>u, <2>1, <2>3 DEF NoneCaching
  <2> QED BY <1>r, <2>1, <2>3, <2>4, <2>5, CallKeepsCache
<1>7. CASE Fill(c)
  <2>1. /\ UNCHANGED rows /\ call[c].at = "filling"
        /\ cache' = IF call[c].method = "list" \/ call[c].found # Absent THEN call[c].found
                                                                         ELSE cache
        /\ complete' = (complete \/ call[c].method = "list")
    BY <1>7 DEF Fill
  <2>2. /\ \A d \in Callers \ {c} : call'[d] = call[d]
        /\ call'[c].at = "returned"
    BY <1>7, CallMoves DEF Fill
  <2>3. FoundFits(c)' /\ ~Inside(c)'
    BY <2>2 DEF FoundFits, Inside
  <2>4. call[c].method = "list" \/ call[c].found # Absent => call[c].found \in Answers
    BY <1>0, <2>1 DEF FoundFits, Visible
  <2>5. ASSUME CacheFits  PROVE CacheFits'
    <3>1. CASE call[c].method = "list" \/ call[c].found # Absent
      BY <1>a, <2>1, <2>4, <3>1, AbsentAnswer DEF CacheFits
    <3>2. CASE ~(call[c].method = "list" \/ call[c].found # Absent)
      BY <1>a, <2>1, <2>5, <3>2 DEF CacheFits
    <3> QED BY <3>1, <3>2
  <2>6. NoneCaching' => CacheFits'
    BY <1>0, <2>1, <2>2, <2>5 DEF NoneCaching
  <2> QED BY <1>r, <2>1, <2>2, <2>3, <2>6, CallKeepsCache
<1>8. CASE CallThrows(c)
  <2>1. /\ UNCHANGED <<rows, cache, complete>>
        /\ call[c].at # "caching"
        /\ \A d \in Callers \ {c} : call'[d] = call[d]
        /\ call'[c].at = "thrown"
    BY <1>8, CallMoves DEF CallThrows, Throws
  <2>2. FoundFits(c)' /\ ~Inside(c)'
    BY <2>1 DEF FoundFits, Inside
  <2>3. NoneCaching' => CacheFits'
    BY <1>0, <1>u, <2>1 DEF NoneCaching
  <2> QED BY <1>r, <2>1, <2>2, <2>3, CallKeepsCache
<1> QED BY <1>1, <1>2, <1>3, <1>4, <1>5, <1>6, <1>7, <1>8 DEF RepositoryStep

LEMMA CacheLawsKept ==
  ASSUME CronTypeOK, OneOpen, IdleCalls, CacheLaws, [CronNext]_cronVars
  PROVE  IdleCalls' /\ CacheLaws'
<1>0. RepositoryTypeOK /\ job \in [Users -> Jobs] /\ run \in [Runs -> RunStates]
  BY TypesSplit DEF SchedulerTypes
<1>q. ASSUME UNCHANGED <<storedVars, call>>  PROVE CacheLaws'
  BY <1>q, QuietKeepsCache
<1>1. ASSUME NEW c \in Callers, CallStep(c) \/ (CallThrows(c) /\ UNCHANGED <<schedulerVars, jobVars>>)
      PROVE  IdleCalls' /\ CacheLaws'
  <2>1. CacheLaws'
    BY <1>0, <1>1, CallsKeepCache DEF CallStep
  <2>2. UNCHANGED <<job, run>>
    BY <1>1 DEF CallStep, schedulerVars, jobVars
  <2>3. call[c].at # "idle"
    BY <1>1 DEF CallStep, CallThrows, RepositoryStep, Enter, Load, InsertFirst, Advance,
       CloseRow, StampRow, CacheRecord, Query, Fill
  <2>4. \A d \in Callers \ {c} : call'[d] = call[d]
    BY <1>0, <1>1, CallMoves DEF CallStep, CallThrows, RepositoryStep, Enter, Load, InsertFirst,
       Advance, CloseRow, StampRow, CacheRecord, Query, Fill, Throws
  <2>5. IdleCalls'
    BY <2>2, <2>3, <2>4, EveryCaller DEF IdleCalls
  <2> QED BY <2>1, <2>5
<1>2. ASSUME NEW u \in Users, StartCron(u) \/ BeginJob(u) \/ JobStep(u)
      PROVE  IdleCalls' /\ CacheLaws'
  BY <1>2, JobCalls, QuietKeepsCache
<1>3. ASSUME NEW r \in Runs, TickStarts(r) \/ RunNow(r) \/ RunStep(r)
      PROVE  IdleCalls' /\ CacheLaws'
  BY <1>3, RunCalls, QuietKeepsCache
<1>4. ASSUME TimePasses \/ TickSkips \/ StopCron \/ UNCHANGED cronVars
      PROVE  IdleCalls' /\ CacheLaws'
  <2>1. UNCHANGED <<storedVars, call, job, run>>
    BY <1>4 DEF TimePasses, TickSkips, StopCron, cronVars, repositoryVars, storedVars,
       schedulerVars, jobVars
  <2>2. IdleCalls'
    BY <2>1 DEF IdleCalls
  <2> QED BY <1>q, <2>1, <2>2
<1>5. ASSUME CronRestart
      PROVE  IdleCalls' /\ CacheLaws'
  <2>1. /\ \A c \in Callers : call'[c].at = "idle"
        /\ cache' = Absent /\ complete' = FALSE
    BY <1>5 DEF CronRestart, RepositoryRestart, NoCall
  <2>2. IdleCalls'
    BY <2>1, EveryCaller DEF IdleCalls
  <2>3. CacheLaws'
    BY <2>1 DEF CacheLaws, Alone, Inside, FoundFits, CacheFits
  <2> QED BY <2>2, <2>3
<1> QED BY <1>1, <1>2, <1>3, <1>4, <1>5 DEF CronNext

LEMMA InitCached ==
  ASSUME CronInit
  PROVE  OneOpen /\ IdleCalls /\ CacheLaws
<1>1. /\ \A c \in Callers : call[c].at = "idle"
      /\ cache = Absent /\ complete = FALSE
  BY DEF CronInit, RepositoryInit, NoCall
<1>2. IdleCalls
  BY <1>1, EveryCaller DEF IdleCalls
<1>3. CacheLaws
  BY <1>1 DEF CacheLaws, Alone, Inside, FoundFits, CacheFits
<1>4. OneOpen
  <2>1. rows = << >> \/ \E task \in Tasks : rows = <<Row(task, TRUE)>>
    BY DEF CronInit, RepositoryInit
  <2>2. Len(rows) = 0 \/ Len(rows) = 1
    <3>1. ASSUME NEW row  PROVE Len(<< row >>) = 1
      OBVIOUS
    <3>2. Len(<< >>) = 0
      OBVIOUS
    <3> QED BY <2>1, <3>1, <3>2
  <2>3. DOMAIN rows = 1..Len(rows)
    BY InitTyped, TypesSplit, OpenVersions
  <2>4. 1..0 = {} /\ 1..1 = {1}
    OBVIOUS
  <2> QED BY <2>2, <2>3, <2>4 DEF OneOpen, Open
<1> QED BY <1>2, <1>3, <1>4

(* Whatever users, ticks, failures and crashes do, the cache agrees with   *)
(* the table when nothing is under way, unless calls that share no lock    *)
(* have overlapped.                                                        *)
THEOREM CacheIsCoherent == CronSpec => []CacheCoherentUnlessRaced
<1>1. CronInit => OneOpen /\ IdleCalls /\ CacheLaws
  BY InitCached
<1>2. CronTypeOK /\ OneOpen /\ IdleCalls /\ CacheLaws /\ [CronNext]_cronVars =>
        (OneOpen /\ IdleCalls /\ CacheLaws)'
  BY OneOpenKept, CacheLawsKept
<1>3. CacheLaws => CacheCoherentUnlessRaced
  BY DEF CacheLaws, CacheFits, NoneCaching, CacheCoherentUnlessRaced, AtRest
<1> QED BY <1>1, <1>2, <1>3, CronTypeCorrect, PTL DEF CronSpec

-----------------------------------------------------------------------------
(* The schedule.  Each job and each run has one method of the repository   *)
(* in use, so that the calls under way tell who is changing the trigger.   *)

JobMethod(does) ==
  CASE does = "nothing" -> "none"
    [] does \in {"adding", "deleting", "setting"} -> "find"
    [] does = "listing" -> "list"
    [] does \in {"starting", "reloading"} -> "scheduled"
    [] does = "creating" -> "create"
    [] does = "erasing" -> "delete"
    [] does = "updating" -> "set"

RunMethod(at) ==
  CASE at \in {"none", "locked"} -> "none"
    [] at = "finding" -> "find"
    [] at = "stamping" -> "stamp"
    [] at = "deleting" -> "delete"

CallsFit ==
  /\ \A u \in Users : /\ call[u].method = JobMethod(job[u].does)
                      /\ job[u].does = "creating" => call[u].task = job[u].task
  /\ \A r \in Runs : call[r].method = RunMethod(run[r].at)
  /\ \A c \in Callers : IF call[c].method \in {"list", "scheduled"}
                          THEN call[c].at \in {"querying", "filling", "returned", "thrown"}
                          ELSE call[c].at \notin {"querying", "filling"}

LEMMA AsksCall ==
  ASSUME RepositoryTypeOK, NEW c \in Callers, NEW method, NEW task, Asks(c, method, task)
  PROVE  /\ \A d \in Callers \ {c} : call'[d] = call[d]
         /\ call'[c].method = method /\ call'[c].task = task
         /\ IF method \in {"list", "scheduled"}
              THEN \/ call'[c].at = "querying"
                   \/ /\ call'[c].at = "returned" /\ complete
                      /\ call'[c].found = Visible(method, cache)
              ELSE call'[c].at = "waiting" \/ (method = "find" /\ call'[c].at = "returned")
<1>1. call' = [call EXCEPT ![c] = Asked(method, task)] /\ DOMAIN call = Callers
  BY DEF Asks, RepositoryTypeOK
<1>2. call'[c] = Asked(method, task) /\ \A d \in Callers \ {c} : call'[d] = call[d]
  BY <1>1
<1>3. Asked(method, task).method = method /\ Asked(method, task).task = task
  BY DEF Asked
<1>4. CASE method \in {"list", "scheduled"}
  <2>1. CASE complete BY <1>2, <1>3, <1>4, <2>1 DEF Asked
  <2>2. CASE ~complete BY <1>2, <1>3, <1>4, <2>2 DEF Asked
  <2> QED BY <2>1, <2>2
<1>5. CASE method \notin {"list", "scheduled"}
  BY <1>2, <1>3, <1>5 DEF Asked
<1> QED BY <1>2, <1>3, <1>4, <1>5

LEMMA NoCallLeft ==
  ASSUME RepositoryTypeOK, NEW c \in Callers, call' = [call EXCEPT ![c] = NoCall]
  PROVE  /\ \A d \in Callers \ {c} : call'[d] = call[d]
         /\ call'[c].method = "none" /\ call'[c].at = "idle"
BY DEF NoCall, RepositoryTypeOK

(* The steps of the repository, as the scheduler sees them.                *)
LEMMA RepositoryCalls ==
  ASSUME RepositoryTypeOK, CallsFit, NEW c \in Callers, RepositoryStep(c) \/ CallThrows(c)
  PROVE  /\ \A d \in Callers \ {c} : call'[d] = call[d]
         /\ call'[c].method = call[c].method /\ call'[c].task = call[c].task
         /\ IF call[c].method \in {"list", "scheduled"}
              THEN call'[c].at \in {"querying", "filling", "returned", "thrown"}
              ELSE call'[c].at \notin {"querying", "filling"}
<1>1. \E place, record : Moves(c, place, record)
  BY DEF RepositoryStep, CallThrows, Enter, Load, InsertFirst, Advance, CloseRow, StampRow,
     CacheRecord, Query, Fill, Throws
<1>2. /\ \A d \in Callers \ {c} : call'[d] = call[d]
      /\ call'[c].method = call[c].method /\ call'[c].task = call[c].task
  BY <1>1, CallMoves
<1>3. IF call[c].method \in {"list", "scheduled"}
        THEN call[c].at \in {"querying", "filling", "returned", "thrown"}
        ELSE call[c].at \notin {"querying", "filling"}
  BY DEF CallsFit
<1>4. \A record : AfterLookup(call[c], record) \notin {"querying", "filling"}
  BY DEF AfterLookup
<1>5. CASE Enter(c)
  BY <1>3, <1>4, <1>5, <1>2, CallMoves DEF Enter
<1>6. CASE Load(c)
  BY <1>3, <1>4, <1>6, <1>2, CallMoves DEF Load
<1>7. CASE InsertFirst(c) \/ Advance(c) \/ CloseRow(c) \/ StampRow(c)
  <2>1. /\ \E record : Moves(c, "caching", record) \/ Moves(c, "thrown", record)
        /\ call[c].at = "writing"
    BY <1>7 DEF InsertFirst, Advance, CloseRow, StampRow, Throws
  <2>2. call'[c].at \in {"caching", "thrown"}
    BY <2>1, CallMoves
  <2> QED BY <1>2, <1>3, <2>1, <2>2
<1>8. CASE CacheRecord(c)
  BY <1>3, <1>8, <1>2, CallMoves DEF CacheRecord
<1>9. CASE Query(c)
  BY <1>3, <1>9, <1>2, CallMoves DEF Query
<1>10. CASE Fill(c)
  BY <1>3, <1>10, <1>2, CallMoves DEF Fill
<1>11. CASE CallThrows(c)
  BY <1>3, <1>11, <1>2, CallMoves DEF CallThrows, Throws
<1> QED BY <1>2, <1>5, <1>6, <1>7, <1>8, <1>9, <1>10, <1>11 DEF RepositoryStep

LEMMA JobsFit ==
  ASSUME CronTypeOK, CallsFit, NEW u \in Users, StartCron(u) \/ BeginJob(u) \/ JobStep(u)
  PROVE  CallsFit'
<1>0. /\ RepositoryTypeOK /\ u \in Callers /\ u \notin Runs
      /\ job \in [Users -> Jobs] /\ \A r \in Runs : r \in Callers /\ r # u
  BY TypesSplit, EveryCaller, CronAssumption DEF SchedulerTypes
<1>f. ASSUME UNCHANGED run, \A d \in Callers \ {u} : call'[d] = call[d],
             \A d \in Users \ {u} : job'[d] = job[d],
             call'[u].method = JobMethod(job'[u].does),
             job'[u].does = "creating" => call'[u].task = job'[u].task,
             IF call'[u].method \in {"list", "scheduled"}
               THEN call'[u].at \in {"querying", "filling", "returned", "thrown"}
               ELSE call'[u].at \notin {"querying", "filling"}
      PROVE  CallsFit'
  <2>1. \A d \in Users \ {u} : call'[d] = call[d] BY <1>f, EveryCaller
  <2>2. \A r \in Runs : call'[r] = call[r] BY <1>0, <1>f
  <2> QED BY <1>f, <2>1, <2>2 DEF CallsFit
<1>d. ASSUME Done(u), UNCHANGED run  PROVE CallsFit'
  <2>1. /\ \A d \in Users \ {u} : job'[d] = job[d]
        /\ job'[u].does = "nothing"
    BY <1>0, <1>d DEF Done, Resting
  <2>2. /\ \A d \in Callers \ {u} : call'[d] = call[d]
        /\ call'[u].method = "none" /\ call'[u].at = "idle"
    BY <1>0, <1>d, NoCallLeft DEF Done
  <2> QED BY <1>d, <1>f, <2>1, <2>2 DEF JobMethod
<1>n. ASSUME NEW what, NEW method, NEW task, Does(u, what), Asks(u, method, task),
             UNCHANGED run, method = JobMethod(what), what = "creating" => task = job[u].task
      PROVE  CallsFit'
  <2>1. /\ \A d \in Users \ {u} : job'[d] = job[d]
        /\ job'[u].does = what /\ job'[u].task = job[u].task
    BY <1>0, <1>n DEF Does, Jobs
  <2> QED BY <1>0, <1>f, <1>n, <2>1, AsksCall
<1>b. ASSUME NEW what, NEW method, NEW task, Begin(u, what, task, method),
             method = JobMethod(what), what # "creating"
      PROVE  CallsFit'
  <2>1. /\ \A d \in Users \ {u} : job'[d] = job[d]
        /\ job'[u].does = what /\ UNCHANGED run
    BY <1>0, <1>b DEF Begin
  <2>2. Asks(u, method, task) BY <1>b DEF Begin
  <2> QED BY <1>0, <1>f, <1>b, <2>1, <2>2, AsksCall
<1>1. CASE StartCron(u) BY <1>1, <1>b DEF StartCron, JobMethod
<1>2. CASE BeginJob(u) BY <1>2, <1>b DEF BeginJob, JobMethod
<1>3. CASE JobStep(u)
  <2>1. UNCHANGED run
    BY <1>3 DEF JobStep, Keeps, AddFound, AddCreated, DeleteFound, SetFound, SetUpdated,
       ScheduleListed, JobEnds
  <2>2. CASE Done(u) BY <1>d, <2>1, <2>2
  <2>3. CASE ~Done(u)
    <3>1. \/ Does(u, "creating") /\ Asks(u, "create", job[u].task)
          \/ Does(u, "erasing") /\ Asks(u, "delete", NoTask)
          \/ Does(u, "updating") /\ Asks(u, "set", job[u].task)
          \/ Does(u, "reloading") /\ Asks(u, "scheduled", NoTask)
      BY <1>3, <2>3 DEF JobStep, AddFound, AddCreated, DeleteFound, SetFound, SetUpdated,
         ScheduleListed, JobEnds
    <3>2. /\ JobMethod("creating") = "create" /\ JobMethod("erasing") = "delete"
          /\ JobMethod("updating") = "set" /\ JobMethod("reloading") = "scheduled"
      BY DEF JobMethod
    <3> QED BY <1>n, <2>1, <3>1, <3>2
  <2> QED BY <2>2, <2>3
<1> QED BY <1>1, <1>2, <1>3

LEMMA RunsFit ==
  ASSUME CronTypeOK, CallsFit, NEW r \in Runs, TickStarts(r) \/ RunNow(r) \/ RunStep(r)
  PROVE  CallsFit'
<1>0. /\ RepositoryTypeOK /\ r \in Callers /\ r \notin Users
      /\ run \in [Runs -> RunStates] /\ \A u \in Users : u \in Callers /\ u # r
  BY TypesSplit, EveryCaller, CronAssumption DEF SchedulerTypes
<1>f. ASSUME UNCHANGED job, \A d \in Callers \ {r} : call'[d] = call[d],
             \A s \in Runs \ {r} : run'[s] = run[s],
             call'[r].method = RunMethod(run'[r].at),
             call'[r] = call[r] \/ (call'[r].method # "list" /\ call'[r].method # "scheduled"
                                    /\ call'[r].at \notin {"querying", "filling"})
      PROVE  CallsFit'
  <2>1. \A s \in Runs \ {r} : call'[s] = call[s] BY <1>f, EveryCaller
  <2>2. \A u \in Users : call'[u] = call[u] BY <1>0, <1>f
  <2> QED BY <1>f, <2>1, <2>2 DEF CallsFit
<1>a. ASSUME NEW method, NEW task, Asks(r, method, task), method \notin {"list", "scheduled"}
      PROVE  /\ \A d \in Callers \ {r} : call'[d] = call[d]
             /\ call'[r].method = method /\ call'[r].at \notin {"querying", "filling"}
  BY <1>0, <1>a, AsksCall
<1>n. ASSUME call' = [call EXCEPT ![r] = NoCall]
      PROVE  /\ \A d \in Callers \ {r} : call'[d] = call[d]
             /\ call'[r].method = "none" /\ call'[r].at \notin {"querying", "filling"}
  BY <1>0, <1>n, NoCallLeft
<1>m. call[r].method = RunMethod(run[r].at) BY DEF CallsFit
<1> USE DEF RunMethod
<1>1. CASE TickStarts(r)
  <2>1. /\ UNCHANGED <<call, job>> /\ run[r].at = "none" /\ run'[r].at = "locked"
        /\ \A s \in Runs \ {r} : run'[s] = run[s]
    BY <1>0, <1>1 DEF TickStarts, repositoryVars, jobVars
  <2> QED BY <1>f, <1>m, <2>1
<1>2. CASE RunNow(r)
  <2>1. /\ UNCHANGED job /\ run[r].at = "none"
        /\ \A s \in Runs \ {r} : run'[s] = run[s]
        /\ \/ run'[r].at = "finding" /\ Asks(r, "find", NoTask)
           \/ run'[r].at = "locked" /\ UNCHANGED call
    BY <1>0, <1>2 DEF RunNow
  <2> QED BY <1>f, <1>m, <1>a, <2>1
<1>3. CASE RunFound(r)
  <2>1. /\ UNCHANGED job /\ call' = [call EXCEPT ![r] = NoCall]
        /\ \A s \in Runs \ {r} : run'[s] = run[s]
        /\ run'[r].at \in {"none", "locked"}
    BY <1>0, <1>3 DEF RunFound, RunsOn, RunStates, NoRun, jobVars
  <2> QED BY <1>f, <1>n, <2>1
<1>4. CASE Execute(r)
  <2>1. /\ UNCHANGED job /\ Asks(r, "stamp", NoTask)
        /\ \A s \in Runs \ {r} : run'[s] = run[s]
        /\ run'[r].at = "stamping"
    BY <1>0, <1>4 DEF Execute, RunsOn, RunStates, jobVars
  <2> QED BY <1>f, <1>a, <2>1
<1>5. CASE RunEnds(r)
  <2>1. /\ UNCHANGED job
        /\ \A s \in Runs \ {r} : run'[s] = run[s]
        /\ \/ run'[r].at = "deleting" /\ Asks(r, "delete", NoTask)
           \/ run'[r].at = "none" /\ call' = [call EXCEPT ![r] = NoCall]
    BY <1>0, <1>5 DEF RunEnds, RunsOn, RunStates, NoRun
  <2> QED BY <1>f, <1>a, <1>n, <2>1
<1>6. CASE RunDeleted(r)
  <2>1. /\ UNCHANGED job /\ call' = [call EXCEPT ![r] = NoCall]
        /\ \A s \in Runs \ {r} : run'[s] = run[s]
        /\ run'[r].at = "none"
    BY <1>0, <1>6 DEF RunDeleted, NoRun
  <2> QED BY <1>f, <1>n, <2>1
<1> QED BY <1>1, <1>2, <1>3, <1>4, <1>5, <1>6 DEF RunStep

LEMMA CallsFitKept ==
  ASSUME CronTypeOK, CallsFit, [CronNext]_cronVars
  PROVE  CallsFit'
<1>0. RepositoryTypeOK BY TypesSplit
<1>1. ASSUME NEW c \in Callers, CallStep(c) \/ (CallThrows(c) /\ UNCHANGED <<schedulerVars, jobVars>>)
      PROVE  CallsFit'
  <2>1. UNCHANGED <<job, run>>
    BY <1>1 DEF CallStep, schedulerVars, jobVars
  <2>2. /\ \A d \in Callers \ {c} : call'[d] = call[d]
        /\ call'[c].method = call[c].method /\ call'[c].task = call[c].task
        /\ IF call[c].method \in {"list", "scheduled"}
             THEN call'[c].at \in {"querying", "filling", "returned", "thrown"}
             ELSE call'[c].at \notin {"querying", "filling"}
    BY <1>0, <1>1, RepositoryCalls DEF CallStep
  <2>3. \A d \in Callers : call'[d].method = call[d].method /\ call'[d].task = call[d].task
    BY <2>2
  <2> QED BY <2>1, <2>2, <2>3, EveryCaller DEF CallsFit
<1>2. ASSUME TimePasses \/ TickSkips \/ StopCron \/ UNCHANGED cronVars
      PROVE  CallsFit'
  BY <1>2 DEF TimePasses, TickSkips, StopCron, cronVars, repositoryVars, schedulerVars, jobVars,
     CallsFit
<1>3. ASSUME CronRestart
      PROVE  CallsFit'
  <2>1. /\ \A c \in Callers : call'[c].method = "none" /\ call'[c].at = "idle"
        /\ \A u \in Users : job'[u].does = "nothing"
        /\ \A r \in Runs : run'[r].at = "none"
    BY <1>3 DEF CronRestart, RepositoryRestart, NoCall, Resting, NoRun
  <2> QED BY <2>1, EveryCaller DEF CallsFit, JobMethod, RunMethod
<1> QED BY <1>1, <1>2, <1>3, JobsFit, RunsFit DEF CronNext

(* Whoever changes the trigger is alone; everybody else leaves schedule    *)
(* and table as they are.  So they agree before the change is written, and *)
(* for each change it is known what the table or the schedule is like when *)
(* it is.  Only a one-shot is out of the schedule while it runs.           *)

EnabledRow == \E v \in Open : rows[v].task.enabled
OneShotRuns == \E r \in Runs : Underway(r) /\ run[r].once
Agree == OneShotRuns \/ (entry # NoEntry <=> EnabledRow)

Unwritten == {"waiting", "loading", "writing", "thrown"}

ChangeFits(c) ==
  /\ call[c].method \in {"scheduled", "delete"} => entry = NoEntry
  /\ call[c].method = "scheduled" /\ call[c].at = "returned" =>
       (call[c].found # Absent <=> EnabledRow)
  /\ call[c].method = "delete" /\ call[c].at = "returned" => Open = {}
  /\ call[c].method \in {"create", "set"} /\ call[c].at \in Unwritten => Agree
  /\ call[c].method = "create" /\ call[c].at \in {"caching", "returned"} =>
       (EnabledRow <=> call[c].task.enabled)

Lawful ==
  /\ \A c, d \in Callers : Changing(c) /\ Changing(d) => c = d
  /\ \A c \in Callers : Changing(c) => ChangeFits(c)
  /\ (\A c \in Callers : ~Changing(c)) => Agree

(* Before its start the scheduler has no schedule.                         *)
Fresh ==
  phase = "new" =>
    entry = NoEntry /\ \A u \in Users : job[u].does \notin {"starting", "reloading"}

ScheduleLaws == phase = "started" /\ ~raced /\ ~disturbed => Lawful

(* The methods of those who change the trigger.                            *)
LEMMA ChangingMethod ==
  ASSUME CronTypeOK, CallsFit, NEW c \in Callers
  PROVE  Changing(c) <=> call[c].method \in Writers \cup {"scheduled"}
<1>0. job \in [Users -> Jobs] /\ run \in [Runs -> RunStates]
  BY TypesSplit DEF SchedulerTypes
<1>1. CASE c \in Users
  <2>1. c \notin Runs /\ job[c].does \in {"nothing", "starting", "adding", "creating",
            "deleting", "erasing", "setting", "updating", "reloading", "listing"}
    BY <1>0, <1>1, CronAssumption DEF Jobs
  <2>2. call[c].method = JobMethod(job[c].does) BY <1>1 DEF CallsFit
  <2> QED BY <1>1, <2>1, <2>2 DEF Changing, JobMethod, Writers
<1>2. CASE c \in Runs
  <2>1. c \notin Users /\ run[c].at \in {"none", "finding", "locked", "stamping", "deleting"}
    BY <1>0, <1>2, CronAssumption DEF RunStates
  <2>2. call[c].method = RunMethod(run[c].at) BY <1>2 DEF CallsFit
  <2> QED BY <1>2, <2>1, <2>2 DEF Changing, RunMethod, Writers
<1> QED BY <1>1, <1>2, CronAssumption

(* What a listing shows.                                                   *)
LEMMA ListedEnabled ==
  ASSUME RepositoryTypeOK, OneOpen, NEW record \in Answers
  PROVE  Visible("scheduled", record) # Absent <=> EnabledRow
<1>1. CASE record = Absent
  <2>1. Open = {} BY <1>1, AbsentAnswer
  <2> QED BY <1>1, <2>1 DEF Visible, EnabledRow
<1>2. CASE record # Absent
  <2>1. PICK v \in Open : record = Record(v) BY <1>2 DEF Answers
  <2>2. Open = {v} BY <2>1, OpenVersions DEF OneOpen
  <2>3. record.task = rows[v].task BY <2>1 DEF Record
  <2>4. EnabledRow <=> record.task.enabled BY <2>2, <2>3 DEF EnabledRow
  <2> QED BY <1>2, <2>4 DEF Visible
<1> QED BY <1>1, <1>2

(* The cache that is listed is the table, when nobody is writing.          *)
LEMMA CacheAnswers ==
  ASSUME CacheLaws, ~raced, complete, NoneCaching
  PROVE  cache \in Answers
  BY DEF CacheLaws, CacheFits, Answers

LEMMA NewEnabled ==
  ASSUME NEW v, NEW n, NEW task, Open' = {v}, Record(v)' = [version |-> n, task |-> task]
  PROVE  EnabledRow' <=> task.enabled
<1>1. rows'[v].task = task BY DEF Record
<1> QED BY <1>1 DEF EnabledRow

LEMMA WrittenEnabled ==
  ASSUME RepositoryTypeOK, OneOpen, NEW c \in Callers, call[c].method = "create",
         InsertFirst(c) \/ Advance(c)
  PROVE  \/ call'[c].at = "thrown" /\ UNCHANGED rows
         \/ call'[c].at = "caching" /\ (EnabledRow' <=> call[c].task.enabled)
<1>0. call[c].task \in Tasks /\ call[c].found \in Records
  BY DEF RepositoryTypeOK
<1> PICK task \in Tasks : task = call[c].task BY <1>0
<1>1. CASE InsertFirst(c)
  <2>1. CASE rows = << >>
    <3>1. /\ rows' = << Row(task, TRUE) >>
          /\ Moves(c, "caching", [version |-> 1, task |-> task])
      BY <1>1, <2>1 DEF InsertFirst
    <3>2. Open' = {1} /\ Record(1)' = [version |-> 1, task |-> task]
      BY <3>1, Insertion
    <3> QED BY <3>1, <3>2, NewEnabled, CallMoves
  <2>2. CASE rows # << >>
    <3>1. Moves(c, "thrown", Absent) /\ UNCHANGED rows
      BY <1>1, <2>2 DEF InsertFirst, Throws
    <3> QED BY <3>1, CallMoves
  <2> QED BY <2>1, <2>2
<1>2. CASE Advance(c)
  <2> PICK v \in Nat : v = call[c].found.version
    BY <1>0 DEF Records
  <2>0. NewTask(call[c]) = task BY DEF NewTask
  <2>1. CASE Advances(v)
    <3>1. /\ rows' = Append(Closed(v), Row(task, TRUE))
          /\ Moves(c, "caching", [version |-> v + 1, task |-> task])
      BY <1>2, <2>0, <2>1 DEF Advance, Closed
    <3>2. Open' = {v + 1} /\ Record(v + 1)' = [version |-> v + 1, task |-> task]
      BY <2>1, <3>1, Advancing
    <3> QED BY <3>1, <3>2, NewEnabled, CallMoves
  <2>2. CASE ~Advances(v)
    <3>1. Moves(c, "thrown", Absent) /\ UNCHANGED rows
      BY <1>2, <2>2 DEF Advance, Throws
    <3> QED BY <3>1, CallMoves
  <2> QED BY <2>1, <2>2
<1> QED BY <1>1, <1>2

(* A step of somebody who changes nothing; the begin, the end and a step   *)
(* of a change.                                                            *)
LEMMA LawfulBeside ==
  ASSUME Lawful, UNCHANGED rows, entry = NoEntry => entry' = NoEntry, Agree => Agree',
         \A d \in Callers : Changing(d)' <=> Changing(d),
         \A d \in Callers : Changing(d) => call'[d] = call[d]
  PROVE  Lawful'
<1>1. Open' = Open /\ (EnabledRow' <=> EnabledRow) BY DEF Open, EnabledRow
<1>2. ASSUME NEW d \in Callers, Changing(d), ChangeFits(d)  PROVE ChangeFits(d)'
  <2>1. call'[d] = call[d] BY <1>2
  <2> HIDE DEF Changing, Agree
  <2> QED BY <1>1, <1>2, <2>1 DEF ChangeFits
<1> QED BY <1>2 DEF Lawful

LEMMA LawfulBegin ==
  ASSUME NEW c \in Callers, Meets(c), ~disturbed', Changing(c)', ChangeFits(c)',
         \A d \in Callers \ {c} : Changing(d)' => Changing(d)
  PROVE  Lawful'
<1>1. \A d \in Callers \ {c} : ~Changing(d) BY DEF Meets
<1> QED BY <1>1 DEF Lawful

LEMMA LawfulEnd ==
  ASSUME Lawful, NEW c \in Callers, Changing(c), ~Changing(c)', Agree',
         \A d \in Callers \ {c} : Changing(d)' => Changing(d)
  PROVE  Lawful'
<1>1. \A d \in Callers : ~Changing(d)' BY DEF Lawful
<1> QED BY <1>1 DEF Lawful

LEMMA LawfulOn ==
  ASSUME Lawful, NEW c \in Callers, Changing(c), Changing(c)', ChangeFits(c)',
         \A d \in Callers \ {c} : Changing(d)' => Changing(d)
  PROVE  Lawful'
<1>1. \A d \in Callers \ {c} : ~Changing(d)' BY DEF Lawful
<1> QED BY <1>1 DEF Lawful

(* The call of a change goes on.                                           *)
LEMMA ChangeGoesOn ==
  ASSUME CronTypeOK, OneOpen, CacheLaws, CallsFit, ~raced, NEW c \in Callers,
         Changing(c), ChangeFits(c), UNCHANGED <<entry, run>>,
         RepositoryStep(c) \/ CallThrows(c)
  PROVE  ChangeFits(c)'
<1>0. RepositoryTypeOK BY TypesSplit
<1>1. call[c].method \in Writers \cup {"scheduled"} BY ChangingMethod
<1>2. call'[c].method = call[c].method /\ call'[c].task = call[c].task
  BY <1>0, RepositoryCalls
<1>3. FoundFits(c) BY DEF CacheLaws
<1>4. IF call[c].method = "scheduled"
        THEN call[c].at \in {"querying", "filling", "returned", "thrown"}
        ELSE call[c].at \notin {"querying", "filling"}
  BY <1>1 DEF CallsFit, Writers
<1>5. UNCHANGED rows => /\ EnabledRow' <=> EnabledRow
                        /\ Open' = Open /\ Agree' = Agree
  BY DEF EnabledRow, Open, Agree, OneShotRuns, Underway
<1>6. ASSUME UNCHANGED rows,
             call'[c].at \in {"returned", "caching"} => call[c].at = "caching"
                                                        /\ call'[c].at = "returned",
             call'[c].at \in Unwritten => call[c].at \in Unwritten,
             call[c].method # "scheduled"
      PROVE  ChangeFits(c)'
  <2>1. call[c].method = "delete" /\ call[c].at = "caching" => Open = {}
    BY <1>3 DEF FoundFits
  <2> HIDE DEF Changing, Agree, EnabledRow, Open
  <2> QED BY <1>2, <1>5, <1>6, <2>1 DEF ChangeFits
<1>7. CASE Enter(c)
  <2>1. UNCHANGED rows /\ call[c].at = "waiting" BY <1>7 DEF Enter
  <2>2. call[c].method \in Writers BY <1>1, <1>4, <2>1
  <2>3. \/ call'[c].at = "loading"
        \/ cache # Absent /\ call'[c].at = AfterLookup(call[c], cache)
    BY <1>0, <1>7, <2>2, CallMoves DEF Enter, Writers
  <2>4. CASE call[c].method = "set"
    <3>1. call'[c].at \in {"loading", "writing", "caching", "thrown"}
      BY <2>3, <2>4 DEF AfterLookup
    <3> HIDE DEF Changing, Agree, EnabledRow, Open
    <3> QED BY <1>2, <1>5, <2>1, <2>4, <3>1 DEF ChangeFits, Unwritten
  <2>5. CASE call[c].method \in {"create", "delete"}
    <3>1. call'[c].at \in {"loading", "writing"}
      BY <2>3, <2>5 DEF AfterLookup
    <3> QED BY <1>6, <2>1, <2>5, <3>1 DEF Unwritten
  <2> QED BY <2>2, <2>4, <2>5 DEF Writers
<1>8. CASE Load(c)
  <2>1. UNCHANGED rows /\ call[c].at = "loading" BY <1>8 DEF Load
  <2>2. call[c].method \in Writers BY <1>1, <1>4, <2>1
  <2>3. PICK record \in Answers : call'[c].at = AfterLookup(call[c], record)
    BY <1>0, <1>8, CallMoves DEF Load
  <2>4. CASE call[c].method = "set"
    <3>1. call'[c].at \in {"writing", "caching", "thrown"}
      BY <2>3, <2>4 DEF AfterLookup
    <3> HIDE DEF Changing, Agree, EnabledRow, Open
    <3> QED BY <1>2, <1>5, <2>1, <2>4, <3>1 DEF ChangeFits, Unwritten
  <2>5. CASE call[c].method = "create"
    <3>1. call'[c].at = "writing"
      BY <2>3, <2>5 DEF AfterLookup
    <3> QED BY <1>6, <2>1, <2>5, <3>1 DEF Unwritten
  <2>6. CASE call[c].method = "delete"
    <3>1. IF record = Absent THEN Open = {} ELSE call'[c].at = "writing"
      BY <1>0, <2>3, <2>6, AbsentAnswer DEF AfterLookup
    <3> HIDE DEF Changing, Agree, EnabledRow, Open
    <3> QED BY <1>2, <1>5, <2>1, <2>6, <3>1 DEF ChangeFits
  <2> QED BY <2>2, <2>4, <2>5, <2>6 DEF Writers
<1>9. CASE InsertFirst(c) \/ Advance(c)
  <2>1. call[c].at = "writing" /\ call[c].method \in {"create", "set"}
    BY <1>9 DEF InsertFirst, Advance
  <2>2. \/ call'[c].at = "thrown" /\ UNCHANGED rows
        \/ call'[c].at = "caching"
    BY <1>0, <1>9, TableStep
  <2>3. CASE call'[c].at = "thrown" /\ UNCHANGED rows
    BY <1>6, <2>1, <2>3 DEF Unwritten
  <2>4. CASE call'[c].at = "caching"
    <3>1. call[c].method = "create" => (EnabledRow' <=> call[c].task.enabled)
      BY <1>0, <1>9, <2>4, WrittenEnabled
    <3> HIDE DEF Changing, Agree, EnabledRow, Open
    <3> QED BY <1>2, <2>1, <2>4, <3>1 DEF ChangeFits, Unwritten
  <2> QED BY <2>2, <2>3, <2>4
<1>10. CASE CloseRow(c)
  <2>1. call[c].method = "delete" /\ call'[c].at = "caching"
    BY <1>0, <1>10, CallMoves DEF CloseRow
  <2> HIDE DEF Changing, Agree, EnabledRow, Open
  <2> QED BY <1>2, <2>1 DEF ChangeFits
<1>11. CASE StampRow(c)
  BY <1>1, <1>11 DEF StampRow, Writers
<1>12. CASE CacheRecord(c)
  <2>1. UNCHANGED rows /\ call[c].at = "caching" /\ call'[c].at = "returned"
    BY <1>0, <1>12, CallMoves DEF CacheRecord
  <2>2. call[c].method # "scheduled" BY <1>4, <2>1
  <2> QED BY <1>6, <2>1, <2>2 DEF Unwritten
<1>13. CASE Query(c)
  <2>1. call'[c].at = "filling" /\ call[c].method = "scheduled"
    BY <1>0, <1>4, <1>13, CallMoves DEF Query
  <2> HIDE DEF Changing, Agree, EnabledRow, Open
  <2> QED BY <1>2, <2>1 DEF ChangeFits
<1>14. CASE Fill(c)
  <2>1. /\ UNCHANGED rows /\ call[c].at = "filling" /\ call[c].method = "scheduled"
        /\ call'[c].found = call[c].found
    BY <1>0, <1>4, <1>14, CallMoves DEF Fill
  <2>2. call[c].found # Absent <=> EnabledRow
    BY <1>0, <1>3, <2>1, ListedEnabled DEF FoundFits
  <2> HIDE DEF Changing, Agree, EnabledRow, Open
  <2> QED BY <1>2, <1>5, <2>1, <2>2 DEF ChangeFits
<1>15. CASE CallThrows(c)
  <2>1. UNCHANGED rows /\ call[c].at \in {"loading", "writing", "querying"}
        /\ call'[c].at = "thrown"
    BY <1>0, <1>15, CallMoves DEF CallThrows, Throws
  <2>2. CASE call[c].method = "scheduled"
    <3> HIDE DEF Changing, Agree, EnabledRow, Open
    <3> QED BY <1>2, <2>1, <2>2 DEF ChangeFits
  <2>3. CASE call[c].method # "scheduled"
    <3>1. call[c].at # "querying" BY <1>4, <2>3
    <3> QED BY <1>6, <2>1, <2>3, <3>1 DEF Unwritten
  <2> QED BY <2>2, <2>3
<1> QED BY <1>7, <1>8, <1>9, <1>10, <1>11, <1>12, <1>13, <1>14, <1>15 DEF RepositoryStep

LEMMA CallsKeepSchedule ==
  ASSUME CronTypeOK, OneOpen, CacheLaws, CallsFit, ~raced, Lawful, NEW c \in Callers,
         RepositoryStep(c) \/ CallThrows(c), UNCHANGED <<schedulerVars, jobVars>>
  PROVE  Lawful'
<1>0. RepositoryTypeOK BY TypesSplit
<1>1. /\ UNCHANGED <<entry, run, job>>
      /\ \A d \in Callers : Changing(d)' <=> Changing(d)
  BY DEF schedulerVars, jobVars, Changing
<1>2. CASE Changing(c)
  <2>1. ChangeFits(c) BY <1>2 DEF Lawful
  <2>2. ChangeFits(c)' BY <1>1, <1>2, <2>1, ChangeGoesOn
  <2> QED BY <1>1, <1>2, <2>2, LawfulOn
<1>3. CASE ~Changing(c)
  <2>1. call[c].method \notin Writers BY <1>3, ChangingMethod
  <2>2. UNCHANGED rows
    BY <2>1 DEF RepositoryStep, CallThrows, Enter, Load, InsertFirst, Advance, CloseRow,
       StampRow, CacheRecord, Query, Fill, Writers
  <2>3. \A d \in Callers \ {c} : call'[d] = call[d] BY <1>0, RepositoryCalls
  <2>4. Agree => Agree'
    BY <1>1, <2>2 DEF Agree, OneShotRuns, Underway, EnabledRow, Open
  <2> QED BY <1>1, <1>3, <2>2, <2>3, <2>4, LawfulBeside
<1> QED BY <1>2, <1>3

(* findAll() that is answered from the cache shows the table, when nobody  *)
(* else is changing it.                                                    *)
LEMMA ListsTable ==
  ASSUME CronTypeOK, OneOpen, CacheLaws, CallsFit, ~raced, NEW u \in Callers,
         \A d \in Callers \ {u} : ~Changing(d), call[u].at # "caching",
         Asks(u, "scheduled", NoTask)
  PROVE  /\ call'[u].method = "scheduled"
         /\ call'[u].at = "returned" => (call'[u].found # Absent <=> EnabledRow)
<1>0. RepositoryTypeOK BY TypesSplit
<1>1. NoneCaching BY ChangingMethod DEF NoneCaching
<1>2. /\ call'[u].method = "scheduled"
      /\ call'[u].at = "returned" => complete /\ call'[u].found = Visible("scheduled", cache)
  BY <1>0, AsksCall
<1>3. complete => cache \in Answers BY <1>1, CacheAnswers
<1> QED BY <1>0, <1>2, <1>3, ListedEnabled

LEMMA JobsKeepSchedule ==
  ASSUME CronTypeOK, OneOpen, IdleCalls, CacheLaws, CallsFit, Fresh, ~raced,
         phase = "started" => Lawful, phase' = "started", ~disturbed',
         NEW u \in Users, StartCron(u) \/ BeginJob(u) \/ JobStep(u)
  PROVE  Lawful'
<1>0. /\ RepositoryTypeOK /\ u \in Callers /\ u \notin Runs
      /\ job \in [Users -> Jobs] /\ \A r \in Runs : r # u
  BY TypesSplit, EveryCaller, CronAssumption DEF SchedulerTypes
<1>1. /\ UNCHANGED <<rows, raced, run>>
      /\ \A d \in Users \ {u} : job'[d] = job[d]
  BY <1>0 DEF StartCron, BeginJob, Begin, JobStep, Keeps, storedVars, AddFound, AddCreated,
     DeleteFound, SetFound, SetUpdated, ScheduleListed, JobEnds, Done, Does
<1>2. \A d \in Callers \ {u} : Changing(d)' <=> Changing(d)
  BY <1>1 DEF Changing
<1>3. /\ EnabledRow' <=> EnabledRow
      /\ Open' = Open /\ (OneShotRuns' <=> OneShotRuns)
  BY <1>1 DEF EnabledRow, Open, OneShotRuns, Underway
<1>u. /\ Changing(u) <=> job[u].does \in {"starting", "creating", "erasing", "updating",
                                          "reloading"}
      /\ Changing(u)' <=> job'[u].does \in {"starting", "creating", "erasing", "updating",
                                            "reloading"}
  BY <1>0 DEF Changing
<1>m. call[u].method = JobMethod(job[u].does) BY DEF CallsFit
<1>beside. ASSUME phase = "started", ~Changing(u), ~Changing(u)', UNCHANGED entry,
                  \A d \in Callers \ {u} : call'[d] = call[d]
           PROVE  Lawful'
  <2>1. Agree => Agree' BY <1>3, <1>beside DEF Agree
  <2> QED BY <1>1, <1>2, <1>beside, <2>1, LawfulBeside
<1>d. ASSUME Done(u)
      PROVE  /\ job'[u].does = "nothing" /\ ~Changing(u)'
             /\ \A d \in Callers \ {u} : call'[d] = call[d]
  <2>1. job'[u].does = "nothing" BY <1>0, <1>d DEF Done, Resting
  <2> QED BY <1>0, <1>d, <1>u, <2>1, NoCallLeft DEF Done
<1>n. ASSUME NEW what, NEW method, NEW task, Does(u, what), Asks(u, method, task)
      PROVE  /\ job'[u].does = what /\ call'[u].method = method
             /\ \A d \in Callers \ {u} : call'[d] = call[d]
             /\ method \in Writers => call'[u].at = "waiting"
  <2>1. job'[u].does = what BY <1>0, <1>n DEF Does, Jobs
  <2> QED BY <1>0, <1>n, <2>1, AsksCall DEF Writers
<1>4. CASE StartCron(u)
  <2>1. /\ phase = "new" /\ job[u].does = "nothing" /\ Asks(u, "scheduled", NoTask)
        /\ Meets(u) /\ UNCHANGED entry /\ job'[u].does = "starting"
    BY <1>0, <1>4 DEF StartCron, Begin
  <2>2. entry' = NoEntry BY <2>1 DEF Fresh
  <2>3. \A d \in Callers \ {u} : ~Changing(d) BY <2>1 DEF Meets
  <2>4. call[u].at # "caching"
    BY <2>1 DEF IdleCalls
  <2>5. /\ call'[u].method = "scheduled"
        /\ call'[u].at = "returned" => (call'[u].found # Absent <=> EnabledRow)
    BY <1>0, <2>1, <2>3, <2>4, ListsTable
  <2>6. ChangeFits(u)' BY <1>3, <2>2, <2>5 DEF ChangeFits
  <2> QED BY <1>0, <1>2, <1>u, <2>1, <2>6, LawfulBegin
<1>alone. ASSUME phase = "started", Changing(u)
          PROVE  /\ Lawful /\ ChangeFits(u)
                 /\ \A d \in Callers \ {u} : Changing(d)' => Changing(d)
                 /\ \A d \in Callers \ {u} : ~Changing(d)
  BY <1>0, <1>2, <1>alone DEF Lawful
<1>calm. ASSUME phase = "started", ~Changing(u), Meets(u)
         PROVE  Agree
  <2>1. \A d \in Callers : ~Changing(d) BY <1>calm DEF Meets
  <2> QED BY <1>calm, <2>1 DEF Lawful
<1>same. ASSUME Agree, UNCHANGED entry  PROVE Agree'
  BY <1>3, <1>same DEF Agree
<1>5. CASE BeginJob(u)
  <2>1. PICK what \in {"adding", "setting", "deleting", "listing"}, method \in {"find", "list"},
             task \in Tasks : Begin(u, what, task, method)
    BY <1>5, Constants DEF BeginJob
  <2>2. /\ phase = "started" /\ UNCHANGED entry /\ job[u].does = "nothing"
        /\ job'[u].does = what /\ Asks(u, method, task)
    BY <1>0, <1>5, <2>1 DEF BeginJob, Begin
  <2>3. \A d \in Callers \ {u} : call'[d] = call[d] BY <1>0, <2>2, AsksCall
  <2> QED BY <1>beside, <1>u, <2>2, <2>3
<1>6. CASE JobStep(u)
  <2>0. phase = "started"
    BY <1>6 DEF JobStep, Keeps, AddFound, AddCreated, DeleteFound, SetFound, SetUpdated,
       ScheduleListed, JobEnds
  <2>1. CASE AddFound(u)
    <3>1. job[u].does = "adding" /\ UNCHANGED entry BY <2>1 DEF AddFound
    <3>2. CASE Done(u) BY <1>beside, <1>d, <1>u, <2>0, <3>1, <3>2
    <3>3. CASE ~Done(u)
      <4>1. Does(u, "creating") /\ Asks(u, "create", job[u].task) /\ Meets(u)
        BY <2>1, <3>3 DEF AddFound
      <4>2. Agree' BY <1>calm, <1>same, <1>u, <2>0, <3>1, <4>1
      <4>3. job'[u].does = "creating" /\ call'[u].method = "create" /\ call'[u].at = "waiting"
        BY <1>n, <4>1 DEF Writers
      <4>4. ChangeFits(u)' BY <4>2, <4>3 DEF ChangeFits
      <4> QED BY <1>0, <1>2, <1>u, <4>1, <4>3, <4>4, LawfulBegin
    <3> QED BY <3>2, <3>3
  <2>2. CASE AddCreated(u)
    <3>1. /\ job[u].does = "creating" /\ Done(u) /\ call[u].at = "returned"
          /\ IF job[u].task.enabled
               THEN entry' = Entry(job[u].task)
               ELSE entry = NoEntry /\ UNCHANGED entry
      BY <2>0, <2>2 DEF AddCreated, Answered
    <3>2. Changing(u) BY <1>u, <3>1
    <3>3. EnabledRow <=> job[u].task.enabled
      BY <1>alone, <1>m, <2>0, <3>1, <3>2 DEF ChangeFits, CallsFit, JobMethod
    <3>4. entry' # NoEntry <=> EnabledRow
      <4>1. Entry(job[u].task) # NoEntry BY DEF Entry, NoEntry
      <4> QED BY <3>1, <3>3, <4>1
    <3>5. Agree' BY <1>3, <3>4 DEF Agree
    <3> QED BY <1>0, <1>alone, <1>d, <2>0, <3>1, <3>2, <3>5, LawfulEnd
  <2>3. CASE DeleteFound(u)
    <3>1. job[u].does = "deleting" BY <2>3 DEF DeleteFound
    <3>2. CASE Done(u) /\ UNCHANGED entry BY <1>beside, <1>d, <1>u, <2>0, <3>1, <3>2
    <3>3. CASE ~(Done(u) /\ UNCHANGED entry)
      <4>1. /\ entry' = NoEntry /\ Does(u, "erasing") /\ Asks(u, "delete", NoTask)
            /\ Meets(u)
        BY <2>3, <3>3 DEF DeleteFound
      <4>2. job'[u].does = "erasing" /\ call'[u].method = "delete" /\ call'[u].at = "waiting"
        BY <1>n, <4>1 DEF Writers
      <4>3. ChangeFits(u)' BY <4>1, <4>2 DEF ChangeFits
      <4> QED BY <1>0, <1>2, <1>u, <4>1, <4>2, <4>3, LawfulBegin
    <3> QED BY <3>2, <3>3
  <2>4. CASE SetFound(u)
    <3>1. job[u].does = "setting" /\ UNCHANGED entry BY <2>4 DEF SetFound
    <3>2. CASE Done(u) BY <1>beside, <1>d, <1>u, <2>0, <3>1, <3>2
    <3>3. CASE ~Done(u)
      <4>1. Does(u, "updating") /\ Asks(u, "set", job[u].task) /\ Meets(u)
        BY <2>4, <3>3 DEF SetFound
      <4>2. Agree' BY <1>calm, <1>same, <1>u, <2>0, <3>1, <4>1
      <4>3. job'[u].does = "updating" /\ call'[u].method = "set" /\ call'[u].at = "waiting"
        BY <1>n, <4>1 DEF Writers
      <4>4. ChangeFits(u)' BY <4>2, <4>3 DEF ChangeFits
      <4> QED BY <1>0, <1>2, <1>u, <4>1, <4>3, <4>4, LawfulBegin
    <3> QED BY <3>2, <3>3
  <2>5. CASE SetUpdated(u)
    <3>1. /\ job[u].does = "updating" /\ call[u].at = "returned" /\ entry' = NoEntry
          /\ Does(u, "reloading") /\ Asks(u, "scheduled", NoTask)
      BY <2>0, <2>5 DEF SetUpdated, Answered
    <3>2. Changing(u) BY <1>u, <3>1
    <3>3. \A d \in Callers \ {u} : ~Changing(d) BY <1>alone, <2>0, <3>2
    <3>4. job'[u].does = "reloading" BY <1>n, <3>1
    <3>5. /\ call'[u].method = "scheduled"
          /\ call'[u].at = "returned" => (call'[u].found # Absent <=> EnabledRow)
      <4>1. call[u].at # "caching" BY <3>1
      <4> HIDE DEF Changing
      <4> QED BY <1>0, <3>1, <3>3, <4>1, ListsTable
    <3>6. ChangeFits(u)' BY <1>3, <3>1, <3>5 DEF ChangeFits
    <3> QED BY <1>0, <1>alone, <1>u, <2>0, <3>2, <3>4, <3>6, LawfulOn
  <2>6. CASE ScheduleListed(u)
    <3>1. /\ job[u].does \in {"starting", "reloading"} /\ Done(u) /\ call[u].at = "returned"
          /\ IF call[u].found = Absent THEN UNCHANGED entry
                                       ELSE entry' = Entry(call[u].found.task)
      BY <2>6 DEF ScheduleListed, Answered, Found
    <3>2. Changing(u) BY <1>u, <3>1
    <3>3. call[u].method = "scheduled" BY <1>m, <3>1 DEF JobMethod
    <3>4. entry = NoEntry /\ (call[u].found # Absent <=> EnabledRow)
      BY <1>alone, <2>0, <3>1, <3>2, <3>3 DEF ChangeFits
    <3>5. entry' # NoEntry <=> EnabledRow BY <3>1, <3>4 DEF Entry, NoEntry
    <3>6. Agree' BY <1>3, <3>5 DEF Agree
    <3> QED BY <1>0, <1>alone, <1>d, <2>0, <3>1, <3>2, <3>6, LawfulEnd
  <2>7. CASE JobEnds(u)
    <3>1. /\ Done(u) /\ UNCHANGED entry
          /\ call[u].at = "thrown" => job[u].does \notin {"starting", "erasing", "reloading"}
          /\ call[u].at = "thrown" \/ (job[u].does \in {"erasing", "listing"}
                                       /\ call[u].at = "returned")
      BY <2>7 DEF JobEnds, Answered
    <3>2. CASE ~Changing(u) BY <1>beside, <1>d, <2>0, <3>1, <3>2
    <3>3. CASE Changing(u)
      <4>1. \/ job[u].does \in {"creating", "updating"} /\ call[u].at = "thrown"
            \/ job[u].does = "erasing" /\ call[u].at = "returned"
        BY <1>u, <3>1, <3>3
      <4>2. CASE job[u].does \in {"creating", "updating"} /\ call[u].at = "thrown"
        <5>1. call[u].method \in {"create", "set"} BY <1>m, <4>2 DEF JobMethod
        <5>2. Agree BY <1>alone, <2>0, <3>3, <4>2, <5>1 DEF ChangeFits, Unwritten
        <5> QED BY <1>0, <1>alone, <1>d, <1>same, <2>0, <3>1, <3>3, <5>2, LawfulEnd
      <4>3. CASE job[u].does = "erasing" /\ call[u].at = "returned"
        <5>1. call[u].method = "delete" BY <1>m, <4>3 DEF JobMethod
        <5>2. entry = NoEntry /\ Open = {}
          BY <1>alone, <2>0, <3>3, <4>3, <5>1 DEF ChangeFits
        <5>3. Agree BY <5>2 DEF Agree, EnabledRow
        <5> QED BY <1>0, <1>alone, <1>d, <1>same, <2>0, <3>1, <3>3, <5>3, LawfulEnd
      <4> QED BY <4>1, <4>2, <4>3
    <3> QED BY <3>2, <3>3
  <2> QED BY <1>6, <2>1, <2>2, <2>3, <2>4, <2>5, <2>6, <2>7 DEF JobStep
<1> QED BY <1>4, <1>5, <1>6

LEMMA RunsKeepSchedule ==
  ASSUME CronTypeOK, CallsFit, Lawful, ~disturbed',
         NEW r \in Runs, TickStarts(r) \/ RunNow(r) \/ RunStep(r)
  PROVE  Lawful'
<1>0. /\ RepositoryTypeOK /\ r \in Callers /\ r \notin Users
      /\ run \in [Runs -> RunStates] /\ \A u \in Users : u # r
  BY TypesSplit, EveryCaller, CronAssumption DEF SchedulerTypes
<1>1. /\ UNCHANGED <<rows, job>>
      /\ \A s \in Runs \ {r} : run'[s] = run[s]
      /\ \A d \in Callers \ {r} : call'[d] = call[d]
  <2>1. UNCHANGED <<rows, job>>
    BY DEF TickStarts, RunNow, RunStep, RunFound, Execute, RunEnds, RunDeleted,
       repositoryVars, storedVars, jobVars
  <2>2. \A s \in Runs \ {r} : run'[s] = run[s]
    BY <1>0 DEF TickStarts, RunNow, RunStep, RunFound, Execute, RunEnds, RunDeleted, RunsOn
  <2>3. \/ UNCHANGED call
        \/ call' = [call EXCEPT ![r] = NoCall]
        \/ \E method : Asks(r, method, NoTask)
    BY DEF TickStarts, RunNow, RunStep, RunFound, Execute, RunEnds, RunDeleted, repositoryVars
  <2> QED BY <1>0, <2>1, <2>2, <2>3, NoCallLeft, AsksCall
<1>2. /\ \A d \in Callers \ {r} : Changing(d)' <=> Changing(d)
      /\ Changing(r) <=> run[r].at = "deleting"
      /\ Changing(r)' <=> run'[r].at = "deleting"
  BY <1>0, <1>1 DEF Changing
<1>3. Open' = Open /\ (EnabledRow' <=> EnabledRow)
  BY <1>1 DEF Open, EnabledRow
<1>4. ASSUME run[r].at # "deleting", run'[r].at # "deleting", UNCHANGED entry,
             Underway(r) /\ run[r].once => Underway(r)' /\ run'[r].once
      PROVE  Lawful'
  <2>1. OneShotRuns => OneShotRuns' BY <1>1, <1>4 DEF OneShotRuns, Underway
  <2>2. Agree => Agree' BY <1>3, <1>4, <2>1 DEF Agree
  <2>3. \A d \in Callers : Changing(d)' <=> Changing(d) BY <1>2, <1>4
  <2>4. \A d \in Callers : Changing(d) => call'[d] = call[d] BY <1>1, <1>2, <1>4
  <2> HIDE DEF Changing, Agree
  <2> QED BY <1>1, <1>4, <2>2, <2>3, <2>4, LawfulBeside
<1>5. CASE TickStarts(r)
  <2>1. /\ UNCHANGED call /\ entry.at = "due" /\ run[r].at = "none"
        /\ run'[r].at = "locked" /\ run'[r].once = entry.once
        /\ entry' = IF entry.once THEN NoEntry ELSE [entry EXCEPT !.at = "later"]
    BY <1>0, <1>5 DEF TickStarts, repositoryVars
  <2>2. entry # NoEntry /\ (entry' # NoEntry \/ entry.once)
    <3>1. entry \in Entries BY TypesSplit DEF SchedulerTypes
    <3> QED BY <2>1, <3>1 DEF NoEntry, Entries
  <2>3. OneShotRuns => OneShotRuns' BY <1>1, <2>1 DEF OneShotRuns, Underway
  <2>4. entry.once => OneShotRuns' BY <2>1 DEF OneShotRuns, Underway
  <2>5. Agree => Agree' BY <1>3, <2>2, <2>3, <2>4 DEF Agree
  <2>6. \A d \in Callers : Changing(d)' <=> Changing(d) BY <1>2, <2>1
  <2> HIDE DEF Changing, Agree
  <2> QED BY <1>1, <2>1, <2>2, <2>5, <2>6, LawfulBeside
<1>6. CASE RunNow(r)
  <2>1. UNCHANGED entry /\ run[r].at = "none" /\ run'[r].at \in {"finding", "locked"}
    BY <1>0, <1>6 DEF RunNow
  <2> QED BY <1>4, <2>1 DEF Underway
<1>7. CASE RunFound(r)
  <2>1. UNCHANGED entry /\ run[r].at = "finding" /\ run'[r].at \in {"none", "locked"}
    BY <1>0, <1>7 DEF RunFound, RunsOn, NoRun, RunStates
  <2> QED BY <1>4, <2>1 DEF Underway
<1>8. CASE Execute(r)
  <2>1. /\ UNCHANGED entry /\ run[r].at = "locked"
        /\ run'[r].at = "stamping" /\ run'[r].once = run[r].once
    BY <1>0, <1>8 DEF Execute, RunsOn, RunStates
  <2> QED BY <1>4, <2>1 DEF Underway
<1>9. CASE RunEnds(r)
  <2>1. run[r].at \in {"stamping", "locked"} /\ entry' = Unscheduled(run[r].once)
    BY <1>9 DEF RunEnds
  <2>2. CASE run[r].once
    <3>1. /\ RunsOn(r, "deleting") /\ Asks(r, "delete", NoTask) /\ Meets(r)
          /\ entry' = NoEntry
      BY <1>9, <2>1, <2>2 DEF RunEnds, Unscheduled
    <3>2. run'[r].at = "deleting" BY <1>0, <3>1 DEF RunsOn, RunStates
    <3>3. call'[r].method = "delete" /\ call'[r].at = "waiting"
      BY <1>0, <3>1, AsksCall
    <3>4. ChangeFits(r)' BY <3>1, <3>3 DEF ChangeFits
    <3> QED BY <1>0, <1>2, <3>1, <3>2, <3>4, LawfulBegin
  <2>3. CASE ~run[r].once
    <3>1. run'[r].at = "none" /\ UNCHANGED entry
      BY <1>0, <1>9, <2>1, <2>3 DEF RunEnds, Unscheduled, NoRun
    <3> QED BY <1>4, <2>1, <2>3, <3>1
  <2> QED BY <2>2, <2>3
<1>10. CASE RunDeleted(r)
  <2>1. /\ UNCHANGED entry /\ run[r].at = "deleting" /\ run'[r].at = "none"
        /\ call[r].at = "returned"
    BY <1>0, <1>10 DEF RunDeleted, NoRun
  <2>2. call[r].method = "delete" BY <2>1 DEF CallsFit, RunMethod
  <2>3. Changing(r) /\ ~Changing(r)' BY <1>2, <2>1
  <2>4. ChangeFits(r) BY <1>0, <2>3 DEF Lawful
  <2>5. entry = NoEntry /\ Open = {} BY <2>1, <2>2, <2>4 DEF ChangeFits
  <2>6. Agree' BY <1>3, <2>1, <2>5 DEF Agree, EnabledRow
  <2>7. \A d \in Callers \ {r} : Changing(d)' => Changing(d) BY <1>2
  <2> HIDE DEF Changing, Agree
  <2> QED BY <1>0, <2>3, <2>6, <2>7, LawfulEnd
<1> QED BY <1>5, <1>6, <1>7, <1>8, <1>9, <1>10 DEF RunStep

LEMMA FreshKept ==
  ASSUME CronTypeOK, Fresh, [CronNext]_cronVars
  PROVE  Fresh'
<1>0. job \in [Users -> Jobs] BY TypesSplit DEF SchedulerTypes
<1>1. CASE \/ \E c \in Callers : CallStep(c) \/ (CallThrows(c) /\ UNCHANGED <<schedulerVars, jobVars>>)
           \/ UNCHANGED cronVars
  BY <1>1 DEF CallStep, cronVars, schedulerVars, jobVars, Fresh
<1>2. ASSUME NEW u \in Users, StartCron(u) \/ BeginJob(u) \/ JobStep(u), phase' = "new"
      PROVE  Fresh'
  <2>1. phase = "new"
    BY <1>2 DEF StartCron, BeginJob, JobStep, Keeps, AddFound, AddCreated, DeleteFound,
       SetFound, SetUpdated, ScheduleListed, JobEnds
  <2>2. entry = NoEntry /\ job[u].does \notin {"starting", "reloading"}
    BY <2>1 DEF Fresh
  <2>3. ~StartCron(u) /\ ~ScheduleListed(u)
    BY <1>2, <2>2 DEF StartCron, ScheduleListed
  <2>4. entry' = NoEntry
    BY <1>2, <2>1, <2>2, <2>3 DEF BeginJob, Begin, JobStep, AddFound, AddCreated, DeleteFound,
       SetFound, SetUpdated, JobEnds
  <2>5. /\ \A d \in Users \ {u} : job'[d] = job[d]
        /\ job'[u].does \notin {"starting", "reloading"}
    BY <1>0, <1>2, <2>1, <2>3 DEF BeginJob, Begin, JobStep, AddFound, AddCreated, DeleteFound,
       SetFound, SetUpdated, JobEnds, Done, Does, Resting, Jobs
  <2> QED BY <2>1, <2>4, <2>5 DEF Fresh
<1>3. ASSUME NEW r \in Runs, TickStarts(r) \/ RunNow(r) \/ RunStep(r)
      PROVE  Fresh'
  <2>1. UNCHANGED <<phase, job>> /\ (entry = NoEntry => entry' = NoEntry)
    BY <1>3 DEF TickStarts, RunNow, RunStep, RunFound, Execute, RunEnds, RunDeleted,
       Unscheduled, jobVars, NoEntry
  <2> QED BY <2>1 DEF Fresh
<1>4. CASE TimePasses \/ TickSkips
  BY <1>4 DEF TimePasses, TickSkips, NoEntry, jobVars, Fresh
<1>5. CASE StopCron
  BY <1>5 DEF StopCron, Fresh
<1>6. CASE CronRestart
  BY <1>6 DEF CronRestart, Fresh, Resting
<1> QED BY <1>1, <1>2, <1>3, <1>4, <1>5, <1>6 DEF CronNext, Fresh

(* What was raced or disturbed stays so until a restart.                   *)
LEMMA MarksStay ==
  ASSUME CronTypeOK, [CronNext]_cronVars, ~CronRestart
  PROVE  (raced => raced') /\ (disturbed => disturbed')
<1>0. raced \in BOOLEAN /\ disturbed \in BOOLEAN
  BY TypesSplit DEF RepositoryTypeOK, SchedulerTypes
<1>m. ASSUME NEW c \in Callers, Meets(c)  PROVE disturbed => disturbed'
  BY <1>m, Zenon DEF Meets
<1>1. ASSUME NEW c \in Callers, CallStep(c) \/ (CallThrows(c) /\ UNCHANGED <<schedulerVars, jobVars>>)
      PROVE  (raced => raced') /\ UNCHANGED disturbed
  <2>1. UNCHANGED disturbed BY <1>1 DEF CallStep, jobVars
  <2>2. \/ UNCHANGED raced
        \/ raced' = (raced \/ \E d \in Callers : Inside(d))
        \/ raced' = (raced \/ \E d \in Callers : call[d].at = "filling")
    BY <1>1 DEF CallStep, RepositoryStep, CallThrows, Enter, Load, InsertFirst, Advance,
       CloseRow, StampRow, CacheRecord, Query, Fill, RacedByWrite
  <2>3. raced => raced'
    BY ONLY <2>2, Zenon
  <2> QED BY <2>1, <2>3
<1>2. ASSUME NEW u \in Users, StartCron(u) \/ BeginJob(u) \/ JobStep(u)
      PROVE  UNCHANGED raced /\ (disturbed => disturbed')
  <2>1. UNCHANGED raced
    BY <1>2 DEF StartCron, BeginJob, Begin, JobStep, Keeps, storedVars, AddFound, AddCreated,
       DeleteFound, SetFound, SetUpdated, ScheduleListed, JobEnds
  <2>2. UNCHANGED disturbed \/ Meets(u) \/ \E more \in BOOLEAN : disturbed' = (disturbed \/ more)
    BY <1>2 DEF StartCron, BeginJob, Begin, JobStep, AddFound, AddCreated, DeleteFound, SetFound,
       SetUpdated, ScheduleListed, JobEnds
  <2>3. u \in Callers BY EveryCaller
  <2>4. ASSUME NEW more \in BOOLEAN, disturbed' = (disturbed \/ more)  PROVE disturbed => disturbed'
    BY <2>4, Zenon
  <2> QED BY <1>m, <2>1, <2>2, <2>3, <2>4
<1>3. ASSUME NEW r \in Runs, TickStarts(r) \/ RunNow(r) \/ RunStep(r)
      PROVE  UNCHANGED raced /\ (disturbed => disturbed')
  <2>1. UNCHANGED raced
    BY <1>3 DEF TickStarts, RunNow, RunStep, RunFound, Execute, RunEnds, RunDeleted,
       repositoryVars, storedVars
  <2>2. UNCHANGED disturbed \/ Meets(r) \/ disturbed' = (disturbed \/ call[r].at = "thrown")
    BY <1>3 DEF TickStarts, RunNow, RunStep, RunFound, Execute, RunEnds, RunDeleted, jobVars
  <2>3. r \in Callers BY EveryCaller
  <2>4. disturbed' = (disturbed \/ call[r].at = "thrown") => (disturbed => disturbed')
    BY Zenon
  <2> QED BY <1>m, <2>1, <2>2, <2>3, <2>4
<1>4. CASE TimePasses \/ TickSkips \/ StopCron \/ UNCHANGED cronVars
  BY <1>4 DEF TimePasses, TickSkips, StopCron, cronVars, repositoryVars, jobVars
<1> QED BY <1>1, <1>2, <1>3, <1>4 DEF CronNext

LEMMA ScheduleLawsKept ==
  ASSUME CronTypeOK, OneOpen, IdleCalls, CacheLaws, CallsFit, Fresh, ScheduleLaws,
         [CronNext]_cronVars
  PROVE  ScheduleLaws'
<1> SUFFICES ASSUME phase' = "started", ~raced', ~disturbed'
             PROVE  Lawful'
  BY DEF ScheduleLaws
<1>0. ~CronRestart /\ ~StopCron BY DEF CronRestart, StopCron
<1>1. ~raced /\ ~disturbed BY <1>0, MarksStay
<1>2. phase = "started" => Lawful BY <1>1 DEF ScheduleLaws
<1>3. ASSUME NEW c \in Callers, CallStep(c) \/ (CallThrows(c) /\ UNCHANGED <<schedulerVars, jobVars>>)
      PROVE  Lawful'
  <2>1. UNCHANGED <<schedulerVars, jobVars>> /\ (RepositoryStep(c) \/ CallThrows(c))
    BY <1>3 DEF CallStep
  <2>2. phase = "started" BY <2>1 DEF schedulerVars
  <2> QED BY <1>1, <1>2, <2>1, <2>2, CallsKeepSchedule
<1>4. ASSUME NEW u \in Users, StartCron(u) \/ BeginJob(u) \/ JobStep(u)
      PROVE  Lawful'
  BY <1>1, <1>2, <1>4, JobsKeepSchedule
<1>5. ASSUME NEW r \in Runs, TickStarts(r) \/ RunNow(r) \/ RunStep(r)
      PROVE  Lawful'
  <2>1. phase = "started"
    BY <1>5 DEF TickStarts, RunNow, RunStep, RunFound, Execute, RunEnds, RunDeleted
  <2> QED BY <1>2, <1>5, <2>1, RunsKeepSchedule
<1>6. CASE TimePasses \/ TickSkips \/ UNCHANGED cronVars
  <2>1. /\ UNCHANGED <<phase, rows, call, run, job>>
        /\ entry = NoEntry <=> entry' = NoEntry
    <3>1. entry \in Entries BY TypesSplit DEF SchedulerTypes
    <3>2. (entry # NoEntry /\ entry' # NoEntry) \/ entry' = entry
      BY <1>6, <3>1 DEF TimePasses, TickSkips, cronVars, schedulerVars, NoEntry, Entries
    <3> QED BY <1>6, <3>2 DEF TimePasses, TickSkips, cronVars, schedulerVars, repositoryVars,
            jobVars
  <2>2. Agree => Agree'
    BY <2>1 DEF Agree, OneShotRuns, Underway, EnabledRow, Open
  <2>3. \A d \in Callers : Changing(d)' <=> Changing(d)
    BY <2>1 DEF Changing
  <2> QED BY <1>2, <2>1, <2>2, <2>3, LawfulBeside
<1> QED BY <1>0, <1>3, <1>4, <1>5, <1>6 DEF CronNext

(* Whatever users, ticks, failures and crashes do, the trigger is in the   *)
(* schedule exactly when the table has an enabled one, once nothing is     *)
(* under way and unless changes overlapped or one of them threw.           *)
THEOREM ScheduleFollowsTable == CronSpec => []ScheduleMatchesTable
<1> DEFINE Inv == OneOpen /\ IdleCalls /\ CacheLaws /\ CallsFit /\ Fresh /\ ScheduleLaws
<1>1. CronInit => Inv
  <2> SUFFICES ASSUME CronInit  PROVE Inv
    OBVIOUS
  <2>1. /\ \A c \in Callers : call[c].at = "idle" /\ call[c].method = "none"
        /\ \A u \in Users : job[u].does = "nothing"
        /\ \A r \in Runs : run[r].at = "none"
    BY DEF CronInit, RepositoryInit, NoCall, Resting, NoRun
  <2>2. CallsFit BY <2>1, EveryCaller DEF CallsFit, JobMethod, RunMethod
  <2>3. Fresh BY <2>1 DEF CronInit, Fresh
  <2>4. ScheduleLaws BY DEF CronInit, ScheduleLaws
  <2> QED BY <2>2, <2>3, <2>4, InitCached
<1>2. CronTypeOK /\ Inv /\ [CronNext]_cronVars => Inv'
  BY OneOpenKept, CacheLawsKept, CallsFitKept, FreshKept, ScheduleLawsKept
<1>3. Inv => ScheduleMatchesTable
  <2> SUFFICES ASSUME Inv, phase = "started", AllQuiet, ~raced, ~disturbed
               PROVE  entry # NoEntry <=> EnabledRow
    BY DEF ScheduleMatchesTable, EnabledRow
  <2>1. Lawful BY DEF ScheduleLaws
  <2>2. ~OneShotRuns /\ \A c \in Callers : ~Changing(c)
    BY DEF AllQuiet, OneShotRuns, Underway, Changing
  <2> QED BY <2>1, <2>2 DEF Lawful, Agree
<1> QED BY <1>1, <1>2, <1>3, CronTypeCorrect, PTL DEF CronSpec
=============================================================================
