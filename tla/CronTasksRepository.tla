------------------------ MODULE CronTasksRepository ------------------------
(***************************************************************************)
(* The versioned table of cron triggers and the cache before it:           *)
(* storage/cronTasksRepository.ts with storage/versionAdvance.ts, for one  *)
(* trigger.                                                                *)
(*                                                                         *)
(* A trigger is a row per version; the open one, without validTo, is       *)
(* current.  A change closes it and inserts the next in one transaction, a *)
(* deletion only closes it.  The cache holds the record last read or       *)
(* written, and once findAll() has listed everything, what it lacks does   *)
(* not exist.                                                              *)
(*                                                                         *)
(* findById(), update() and delete() hold the lock of the trigger, create() *)
(* holds another one, findAll() none: where they overlap the cache may end *)
(* up with an older record than the table.                                 *)
(*                                                                         *)
(* A call is a record: the method, where it is, what it was given and the  *)
(* record it found.  "set" and "stamp" are update() with a new `enabled`   *)
(* and with a new `lastRunAt`, which no decision here reads and the rows   *)
(* leave out; "list" and "scheduled" are findAll() with and without the    *)
(* disabled triggers.                                                      *)
(***************************************************************************)
EXTENDS Naturals, Sequences

CONSTANTS Callers,       \* whoever calls: one call each at a time
          MaxFailures    \* bound: statements that throw, and crashes

VARIABLES
  rows,        \* tasks_cron: the versions of the trigger, the n-th at n
  cache,       \* tasksById
  complete,    \* allTasksLoaded
  call,        \* the calls under way
  raced,       \* observed: calls that share no lock have overlapped
  failures

repositoryVars == <<rows, cache, complete, call, raced, failures>>

Tasks == [enabled : BOOLEAN, once : BOOLEAN]
Records == [version : Nat, task : Tasks]
NoTask == [enabled |-> FALSE, once |-> FALSE]
Absent == [version |-> 0, task |-> NoTask]

NoCall == [method |-> "none", at |-> "idle", task |-> NoTask, found |-> Absent]

RepositoryTypeOK ==
  /\ rows \in Seq([task : Tasks, open : BOOLEAN])
  /\ cache \in Records
  /\ complete \in BOOLEAN
  /\ call \in [Callers -> [method : {"none", "find", "list", "scheduled", "create", "set",
                                     "stamp", "delete"},
                           at : {"idle", "waiting", "loading", "writing", "caching",
                                 "querying", "filling", "returned", "thrown"},
                           task : Tasks, found : Records]]
  /\ raced \in BOOLEAN
  /\ failures \in 0..MaxFailures

Row(task, open) == [task |-> task, open |-> open]

\* The table may hold the trigger already.
RepositoryInit ==
  /\ rows \in {<< >>} \cup {<<Row(task, TRUE)>> : task \in Tasks}
  /\ cache = Absent /\ complete = FALSE
  /\ call = [c \in Callers |-> NoCall]
  /\ raced = FALSE
  /\ failures = 0

-----------------------------------------------------------------------------
Record(v) == [version |-> v, task |-> rows[v].task]

\* What a query for the open row answers.
Open == {v \in DOMAIN rows : rows[v].open}
Answers == IF Open = {} THEN {Absent} ELSE {Record(v) : v \in Open}

\* Mutant: the cache is listed without its filter.
VisibleAlways(method, record) == record

Visible(method, record) == IF method = "list" \/ record.task.enabled THEN record ELSE Absent

(* The start of a call, up to its first await.                             *)
Asked(method, task) ==
  LET at(place, record) == [method |-> method, at |-> place, task |-> task, found |-> record]
  IN CASE method = "find" /\ (cache # Absent \/ complete) -> at("returned", cache)
       [] method \in {"list", "scheduled"} /\ complete ->
            at("returned", Visible(method, cache))
       [] method \in {"list", "scheduled"} -> at("querying", Absent)
       [] OTHER -> at("waiting", Absent)

Asks(c, method, task) == call' = [call EXCEPT ![c] = Asked(method, task)]
Moves(c, place, record) == call' = [call EXCEPT ![c].at = place, ![c].found = record]
Throws(c) == Moves(c, "thrown", Absent)

LockOf(method) == IF method = "create" THEN "createLock" ELSE "taskLock"
Inside(c) == call[c].at \in {"loading", "writing", "caching"}
Free(lock) == \A d \in Callers : Inside(d) => LockOf(call[d].method) # lock

\* What a locked method does with the record it found.
AfterLookup(k, record) ==
  CASE record = Absent /\ k.method \in {"find", "delete"} -> "returned"
    [] record = Absent /\ k.method \in {"set", "stamp"} -> "thrown"
    [] k.method = "find" -> "caching"
    [] k.method = "set" /\ record.task.enabled = k.task.enabled -> "caching"
    [] OTHER -> "writing"

(* The lock is granted and the cache is looked up.                         *)
Enter(c) ==
  /\ call[c].at = "waiting"
  /\ Free(LockOf(call[c].method))
  /\ raced' = (raced \/ \E d \in Callers : Inside(d))
  /\ CASE cache = Absent -> Moves(c, "loading", Absent)
       [] call[c].method = "find" -> Moves(c, "returned", cache)
       [] OTHER -> Moves(c, AfterLookup(call[c], cache), cache)
  /\ UNCHANGED <<rows, cache, complete, failures>>

Load(c) ==
  /\ call[c].at = "loading"
  /\ \E record \in Answers : Moves(c, AfterLookup(call[c], record), record)
  /\ UNCHANGED <<rows, cache, complete, raced, failures>>

\* A change of the row passes a findAll() that has already read it.
RacedByWrite == raced \/ \E d \in Callers : call[d].at = "filling"

(* create() of a trigger without a current row inserts version 1, which    *)
(* the primary key refuses if the trigger was deleted before.              *)
InsertFirst(c) ==
  /\ call[c].at = "writing" /\ call[c].method = "create" /\ call[c].found = Absent
  /\ IF rows = << >>
       THEN /\ rows' = << Row(call[c].task, TRUE) >>
            /\ Moves(c, "caching", [version |-> 1, task |-> call[c].task])
       ELSE /\ Throws(c)
            /\ UNCHANGED rows
  /\ raced' = RacedByWrite
  /\ UNCHANGED <<cache, complete, failures>>

\* Mutant: the changes are not merged with the current row.
NewTaskUnmerged(k) == IF k.method = "create" THEN k.task ELSE [enabled |-> k.task.enabled]

NewTask(k) ==
  IF k.method = "create" THEN k.task ELSE [k.found.task EXCEPT !.enabled = k.task.enabled]

\* Mutant: the next version is inserted although no row was closed.
AdvancesUnclosed(v) == v = Len(rows)

\* One row is closed, and the primary key admits the next version.
Advances(v) == rows[v].open /\ v = Len(rows)

(* versionAdvance() in a transaction.                                      *)
Advance(c) ==
  /\ call[c].at = "writing" /\ call[c].method \in {"create", "set"} /\ call[c].found # Absent
  /\ LET v == call[c].found.version
         task == NewTask(call[c])
     IN IF Advances(v)
          THEN /\ rows' = Append([rows EXCEPT ![v].open = FALSE], Row(task, TRUE))
               /\ Moves(c, "caching", [version |-> v + 1, task |-> task])
          ELSE /\ Throws(c)
               /\ UNCHANGED rows
  /\ raced' = RacedByWrite
  /\ UNCHANGED <<cache, complete, failures>>

(* delete() does not look how many rows it closed.                         *)
CloseRow(c) ==
  /\ call[c].at = "writing" /\ call[c].method = "delete"
  /\ rows' = [rows EXCEPT ![call[c].found.version].open = FALSE]
  /\ Moves(c, "caching", call[c].found)
  /\ raced' = RacedByWrite
  /\ UNCHANGED <<cache, complete, failures>>

StampRow(c) ==
  /\ call[c].at = "writing" /\ call[c].method = "stamp"
  /\ Moves(c, "caching", call[c].found)
  /\ UNCHANGED <<rows, cache, complete, raced, failures>>

\* Mutant: a deleted trigger stays in the cache.
CachedAlways(k) == k.found

Cached(k) == IF k.method = "delete" THEN Absent ELSE k.found

CacheRecord(c) ==
  /\ call[c].at = "caching"
  /\ cache' = Cached(call[c])
  /\ Moves(c, "returned", call[c].found)
  /\ UNCHANGED <<rows, complete, raced, failures>>

(* findAll(): the query, and later what it does to the cache.              *)
Query(c) ==
  /\ call[c].at = "querying"
  /\ \E record \in Answers : Moves(c, "filling", Visible(call[c].method, record))
  /\ UNCHANGED <<rows, cache, complete, raced, failures>>

Fill(c) ==
  /\ call[c].at = "filling"
  /\ cache' = IF call[c].method = "list" \/ call[c].found # Absent
                THEN call[c].found ELSE cache
  /\ complete' = (complete \/ call[c].method = "list")
  /\ Moves(c, "returned", call[c].found)
  /\ UNCHANGED <<rows, raced, failures>>

(* A statement throws, a transaction is rolled back.                       *)
CallThrows(c) ==
  /\ call[c].at \in {"loading", "writing", "querying"}
  /\ failures < MaxFailures
  /\ failures' = failures + 1
  /\ Throws(c)
  /\ UNCHANGED <<rows, cache, complete, raced>>

RepositoryStep(c) ==
  \/ Enter(c) \/ Load(c) \/ InsertFirst(c) \/ Advance(c) \/ CloseRow(c) \/ StampRow(c)
  \/ CacheRecord(c) \/ Query(c) \/ Fill(c)

(* A crash and a new process: the table stays.                             *)
RepositoryRestart ==
  /\ failures < MaxFailures
  /\ failures' = failures + 1
  /\ cache' = Absent /\ complete' = FALSE
  /\ call' = [c \in Callers |-> NoCall]
  /\ raced' = FALSE
  /\ UNCHANGED rows

-----------------------------------------------------------------------------
(* A deleted trigger stays deleted: once no row is open, no late update,   *)
(* stamp or creation writes another one.                                   *)
DeletedForever == [][rows # << >> /\ Open = {} => UNCHANGED rows]_repositoryVars

AtRest == \A c \in Callers : call[c].at \in {"idle", "returned", "thrown"}

(* When nothing is under way the cache holds the open row, or nothing, and *)
(* nothing only if there is none once everything was listed.  The lock of  *)
(* the trigger secures that, except where create() or findAll(), which do  *)
(* not take it, overlapped another call.                                   *)
CacheCoherentUnlessRaced ==
  AtRest /\ ~raced =>
    /\ cache # Absent => cache \in Answers
    /\ complete /\ cache = Absent => Open = {}
=============================================================================
