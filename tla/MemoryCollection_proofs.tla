----------------------- MODULE MemoryCollection_proofs -----------------------
(***************************************************************************)
(* Proofs about MemoryCollection.  The inductive invariant MemoryInv says  *)
(* where the ids that the agents and the worker carry come from:           *)
(*   - IdsInOrder: ids grow, a record is in one session, marks and         *)
(*     processed_until are ids of the session;                             *)
(*   - AgentPlaces: what an agent's place in its loop says of its row, and *)
(*     what the task beside the loop holds;                                *)
(*   - Announced: what is beyond processed_until is below the mark, or the *)
(*     agent will see to it.  It is stronger than NothingUnannounced: the  *)
(*     mark must also be large enough;                                     *)
(*   - BatchHolds, WorkerPlaces: what the worker listed and read.          *)
(***************************************************************************)
EXTENDS MemoryCollection, TLAPS

IdsInOrder ==
  /\ \A r \in shown : r <= lastId
  /\ \A s \in Sessions :
       /\ \A r \in rows[s] : r <= lastId
       /\ \A t \in Sessions : \A r \in rows[s] \cap rows[t] : s = t
       /\ mark[s] \in rows[s] \cup {None}
       /\ done[s] \in rows[s] \cup {None}

PlaceOf(a) ==
  /\ active[a] <= current[a] /\ current[a] <= opened[a]
  /\ loop[a].why = "reset" \/ loop[a].at = "opening" => opened[a] < MaxSessions
  /\ loop[a].why = "sleep" => loop[a].at \in {"max", "mark"}
  /\ loop[a].at \in {"max", "mark"} => loop[a].why # "nothing"
  /\ active[a] # current[a] => Target(a) \in cut \/ loop[a].at = "switching"

RowsOf(a) ==
  /\ \A n \in 1..MaxSessions : n > active[a] => rows[<<a, n>>] = {}
  /\ loop[a].at = "mark" => /\ loop[a].max \in rows[Mine(a)]
                            /\ \A r \in rows[Mine(a)] \cap shown : r <= loop[a].max
  /\ loop[a].at = "opening" =>
       \A r \in (rows[Mine(a)] \cap shown) \ setBack :
         r <= done[Mine(a)] \/ r <= mark[Mine(a)]

(* A task that marks holds the entry's lock, and the agent sleeps.  While  *)
(* the loop rests the id that it read is not an old one.                   *)
TaskOf(a) ==
  /\ TaskMarking(a) => a \in asleep /\ loop[a].why # "sleep"
  /\ task[a].at = "mark" => task[a].max \in rows[<<a, task[a].session>>]
  /\ task[a].at = "mark" /\ loop[a].at = "resting" =>
       \/ Mine(a) \in cut
       \/ /\ task[a].session = current[a]
          /\ \A r \in rows[Mine(a)] \cap shown : r <= task[a].max

AgentPlaces == \A a \in Agents : PlaceOf(a) /\ RowsOf(a) /\ TaskOf(a)

Announced ==
  \A s \in Sessions : \A r \in (rows[s] \cap shown) \ setBack :
    r > done[s] => r <= mark[s] \/ StillAt(s) \/ s \in cut

BatchHolds ==
  /\ worker.at # "waiting" => worker.batch # << >>
  /\ \A i \in 1..Len(worker.batch) :
       /\ worker.batch[i].mark \in rows[worker.batch[i].session]
       /\ worker.batch[i].done = done[worker.batch[i].session]
       /\ \A j \in 1..Len(worker.batch) :
            worker.batch[i].session = worker.batch[j].session => i = j

Handled(r) == r \in routed \/ r \in late

WorkerPlaces ==
  /\ worker.at \in {"waiting", "next", "dismiss"} => worker.seen = {}
  /\ worker.at \in {"read", "posted", "clear"} => worker.seen \subseteq New(This)
  /\ worker.at \in {"dismiss", "clear"} => worker.upTo \in rows[This.session]
                                           /\ worker.upTo >= This.mark
  /\ worker.at = "dismiss" =>
       \/ This.session[1] \in skipped
       \/ \A r \in rows[This.session] \cap shown : r > This.done => r > worker.upTo
  /\ worker.at = "read" => \A r \in New(This) \cap shown : r \in worker.seen \cup late
  /\ worker.at = "posted" => \A r \in New(This) \cap shown : Handled(r)
  /\ worker.at = "clear" =>
       \A r \in New(This) \cap shown : r <= worker.upTo => Handled(r)
  /\ worker.at = "clear" => \A r \in worker.seen : r <= worker.upTo

(* A routed record beyond processed_until: its mark was not cleared, or    *)
(* processed_until went back, or its session's turn is not over.           *)
RoutedTwice ==
  /\ routed \subseteq shown
  /\ \A s \in Sessions : \A r \in rows[s] \cap shown \cap routed :
       r > done[s] => \/ r \in unmarked \cup setBack
                      \/ /\ worker.at \in {"posted", "clear"}
                         /\ This.session = s /\ r \in worker.seen

MemoryInv ==
  /\ MemoryTypeOK /\ IdsInOrder /\ AgentPlaces /\ Announced
  /\ BatchHolds /\ WorkerPlaces /\ SkippedOnlyInWindow /\ RoutedTwice

-----------------------------------------------------------------------------
(* Groups of actions.                                                      *)

LoopMoves(a) ==
  \/ StartTurn(a) \/ EndTurn(a) \/ Sleep(a) \/ SleepReturns(a) \/ StartReset(a)
  \/ ReadMaxId(a) \/ OpenSession(a) \/ SwitchSession(a) \/ ItemFails(a)

BesideMoves(a) ==
  \/ Wake(a) \/ Kill(a) \/ TaskStarts(a) \/ TaskSleeps(a) \/ TaskReturns(a)
  \/ TaskReadsMaxId(a) \/ TaskFails(a)

AgentMoves(a) == LoopMoves(a) \/ BesideMoves(a)

Marks(a) == Mark(a) \/ TaskMarks(a)

LEMMA LoopKeeps ==
  ASSUME NEW a \in Agents, LoopMoves(a)
  PROVE  UNCHANGED <<historyVars, mark, done, workerVars, task, killed, tasks>>
<1>1. CASE StartTurn(a) \/ Sleep(a)
  BY <1>1 DEF StartTurn, Sleep, FallsAsleep, budgetVars
<1>2. CASE EndTurn(a) \/ SleepReturns(a) \/ StartReset(a) \/ ReadMaxId(a)
  BY <1>2 DEF EndTurn, SleepReturns, StartReset, ReadMaxId, budgetVars
<1>3. CASE OpenSession(a) \/ SwitchSession(a) \/ ItemFails(a)
  BY <1>3 DEF OpenSession, SwitchSession, ItemFails, budgetVars
<1>. QED BY <1>1, <1>2, <1>3 DEF LoopMoves

LEMMA BesideKeeps ==
  ASSUME NEW a \in Agents, BesideMoves(a)
  PROVE  /\ UNCHANGED <<historyVars, mark, done, workerVars, loop, opened, current, endTurns>>
         /\ active' \in {active, [active EXCEPT ![a] = current[a]]}
         /\ asleep' \in {asleep, asleep \cup {a}, asleep \ {a}}
         /\ killed' \in {killed, killed \cup {a}}
         /\ cut' \in {cut, cut \cup {Mine(a)}}
<1>. USE DEF sessionVars
<1>1. CASE Wake(a) \/ Kill(a)
  BY <1>1 DEF Wake, Kill, Woken
<1>2. CASE TaskStarts(a) \/ TaskSleeps(a)
  BY <1>2 DEF TaskStarts, TaskSleeps, Woken, FallsAsleep
<1>3. CASE TaskReturns(a) \/ TaskReadsMaxId(a) \/ TaskFails(a)
  BY <1>3 DEF TaskReturns, TaskReadsMaxId, TaskFails
<1>. QED BY <1>1, <1>2, <1>3 DEF BesideMoves

LEMMA Movements ==
  ASSUME NEW a \in Agents, AgentMoves(a)
  PROVE  UNCHANGED <<historyVars, mark, done, workerVars>>
BY LoopKeeps, BesideKeeps DEF AgentMoves

LEMMA WorkerKeeps ==
  ASSUME WorkerStep \/ TickFails
  PROVE  UNCHANGED <<historyVars, agentVars>>
BY DEF WorkerStep, TickFails, Tick, Read, Post, ReadNewMaxId, MarkProcessed, historyVars,
  agentVars

LEMMA StepKinds ==
  ASSUME [MemoryNext]_memoryVars
  PROVE  \/ \E a \in Agents : AgentMoves(a) \/ Marks(a) \/ Say(a) \/ RunCode(a)
         \/ WorkerStep \/ TickFails \/ MemoryRestart \/ UNCHANGED memoryVars
BY DEF MemoryNext, AgentStep, TaskStep, AgentMoves, LoopMoves, BesideMoves, Marks

LEMMA Appending ==
  ASSUME NEW a \in Agents, Say(a) \/ RunCode(a)
  PROVE  /\ lastId < MaxRecords /\ lastId' = lastId + 1
         /\ rows' = [rows EXCEPT ![Target(a)] = @ \cup {lastId + 1}]
         /\ shown' = shown \/ (shown' = shown \cup {lastId + 1} /\ loop[a].at = "turn")
         /\ late' = IF Underway(Target(a)) THEN late \cup {lastId + 1} ELSE late
         /\ UNCHANGED <<skipped, mark, done, mishaps, tasks, agentVars, workerVars>>
<1>1. \E visible \in BOOLEAN :
        AppendRecord(a, visible) /\ (visible => loop[a].at = "turn")
  BY DEF Say, RunCode
<1>2. PICK visible \in BOOLEAN :
        AppendRecord(a, visible) /\ (visible => loop[a].at = "turn")
  BY <1>1
<1>3. /\ lastId < MaxRecords /\ lastId' = lastId + 1
      /\ rows' = [rows EXCEPT ![Target(a)] = @ \cup {lastId + 1}]
      /\ late' = IF Underway(Target(a)) THEN late \cup {lastId + 1} ELSE late
  BY <1>2 DEF AppendRecord
<1>4. UNCHANGED <<skipped, mark, done, mishaps, tasks, agentVars, workerVars>>
  BY <1>2 DEF AppendRecord, budgetVars
<1>5. shown' = IF visible THEN shown \cup {lastId + 1} ELSE shown
  BY <1>2 DEF AppendRecord
<1>. QED BY <1>2, <1>3, <1>4, <1>5

LEMMA TailFacts ==
  ASSUME NEW S, NEW b \in Seq(S), b # << >>
  PROVE  /\ Tail(b) \in Seq(S) /\ Len(Tail(b)) = Len(b) - 1 /\ Len(b) >= 1
         /\ b[1] \in S
         /\ \A i \in 1..Len(Tail(b)) : i + 1 \in 1..Len(b) /\ Tail(b)[i] = b[i + 1]
<1>1. Len(b) \in Nat /\ Len(b) >= 1
  OBVIOUS
<1>2. Tail(b) \in Seq(S) /\ Len(Tail(b)) = Len(b) - 1
  OBVIOUS
<1>3. \A i \in 1..Len(Tail(b)) : i + 1 \in 1..Len(b) /\ Tail(b)[i] = b[i + 1]
  OBVIOUS
<1>4. b[1] \in S
  BY <1>1
<1>. QED BY <1>1, <1>2, <1>3, <1>4

-----------------------------------------------------------------------------
(* Types.                                                                  *)

Places == [at : {"resting", "turn", "handled", "max", "mark", "opening", "switching"},
           why : {"nothing", "turn", "sleep", "reset"},
           max : Ids \cup {None}]

LEMMA PlaceTypes ==
  ASSUME MemoryTypeOK, NEW a \in Agents
  PROVE  /\ loop \in [Agents -> Places] /\ loop[a] \in Places
         /\ Resting \in Places /\ AfterMark(a) \in Places
         /\ \A at \in {"turn", "handled", "opening", "switching"} : Step(at) \in Places
         /\ \A why \in {"turn", "sleep", "reset"} : Marking(why) \in Places
         /\ \A m \in Ids \cup {None} : [loop[a] EXCEPT !.at = "mark", !.max = m] \in Places
         /\ \A step \in Places : [loop EXCEPT ![a] = step] \in [Agents -> Places]
<1>. USE DEF Places
<1>1. loop \in [Agents -> Places] /\ loop[a] \in Places
  BY DEF MemoryTypeOK
<1>2. /\ Resting \in Places
      /\ \A at \in {"turn", "handled", "opening", "switching"} : Step(at) \in Places
      /\ \A why \in {"turn", "sleep", "reset"} : Marking(why) \in Places
  BY DEF Resting, Step, Marking
<1>3. AfterMark(a) \in Places
  BY <1>2 DEF AfterMark
<1>4. ASSUME NEW m \in Ids \cup {None}
      PROVE  [loop[a] EXCEPT !.at = "mark", !.max = m] \in Places
  BY <1>1
<1>5. ASSUME NEW step \in Places PROVE [loop EXCEPT ![a] = step] \in [Agents -> Places]
  BY <1>1
<1>. QED BY <1>1, <1>2, <1>3, <1>4, <1>5

TaskPlaces == [at : {"none", "woke", "beside", "max", "mark"},
               session : 1..MaxSessions, max : Ids \cup {None}]

LEMMA TaskTypes ==
  ASSUME MemoryTypeOK, NEW a \in Agents
  PROVE  /\ task \in [Agents -> TaskPlaces] /\ task[a] \in TaskPlaces
         /\ NoTask \in TaskPlaces
         /\ \A at \in {"woke", "beside", "max"} : [NoTask EXCEPT !.at = at] \in TaskPlaces
         /\ \A m \in Ids \cup {None} :
              [at |-> "mark", session |-> current[a], max |-> m] \in TaskPlaces
         /\ \A step \in TaskPlaces : [task EXCEPT ![a] = step] \in [Agents -> TaskPlaces]
<1>. USE DEF TaskPlaces
<1>1. task \in [Agents -> TaskPlaces] /\ task[a] \in TaskPlaces
  BY DEF MemoryTypeOK
<1>2. 1 \in 1..MaxSessions
  BY MemoryAssumption
<1>3. /\ NoTask \in TaskPlaces
      /\ \A at \in {"woke", "beside", "max"} : [NoTask EXCEPT !.at = at] \in TaskPlaces
  BY <1>2 DEF NoTask
<1>4. ASSUME NEW m \in Ids \cup {None}
      PROVE  [at |-> "mark", session |-> current[a], max |-> m] \in TaskPlaces
  BY DEF MemoryTypeOK
<1>5. ASSUME NEW step \in TaskPlaces
      PROVE  [task EXCEPT ![a] = step] \in [Agents -> TaskPlaces]
  BY <1>1
<1>. QED BY <1>1, <1>3, <1>4, <1>5

LEMMA BatchType ==
  ASSUME MemoryTypeOK, NEW b \in Batches
  PROVE  b \in Seq(Listed)
<1>1. PICK n \in 0..Batch : b \in [1..n -> {Row(s) : s \in Invalid}]
  BY MemoryAssumption DEF Batches
<1>2. ASSUME NEW s \in Invalid PROVE Row(s) \in Listed
  BY <1>2 DEF Row, Invalid, Listed, MemoryTypeOK
<1>3. b \in [1..n -> Listed]
  BY <1>1, <1>2
<1>4. n \in Nat
  BY MemoryAssumption
<1>. QED BY <1>3, <1>4

LEMMA SessionsOf ==
  ASSUME MemoryTypeOK, NEW a \in Agents
  PROVE  Mine(a) \in Sessions /\ Target(a) \in Sessions
BY DEF MemoryTypeOK, Mine, Target, Sessions

LEMMA TypeLoop ==
  ASSUME MemoryTypeOK, AgentPlaces, NEW a \in Agents, LoopMoves(a)
  PROVE  MemoryTypeOK'
<1>. DEFINE Loop == loop \in [Agents -> Places]
            Opens == /\ opened \in [Agents -> 1..MaxSessions]
                     /\ active \in [Agents -> 1..MaxSessions]
                     /\ current \in [Agents -> 1..MaxSessions]
            Rest == /\ asleep \subseteq Agents
                    /\ endTurns \in [Agents -> 0..TurnLimit]
                    /\ cut \subseteq Sessions
                    /\ mishaps \in 0..MaxMishaps
<1>. SUFFICES Loop' /\ Opens' /\ Rest'
  BY LoopKeeps DEF MemoryTypeOK, Places, historyVars, workerVars
<1>. USE DEF budgetVars, sessionVars
<1>0. Loop /\ Opens /\ Rest
  BY PlaceTypes DEF MemoryTypeOK
<1>1. CASE StartTurn(a)
  BY <1>1, <1>0, PlaceTypes DEF StartTurn, Woken, Goes
<1>2. CASE EndTurn(a)
  <2>1. Loop'
    BY <1>2, PlaceTypes DEF EndTurn, Goes
  <2>2. (endTurns \in [Agents -> 0..TurnLimit])'
    BY <1>2, <1>0, MemoryAssumption DEF EndTurn
  <2>3. Opens'
    BY <1>2, <1>0 DEF EndTurn
  <2>. QED BY <1>2, <1>0, <2>1, <2>2, <2>3 DEF EndTurn
<1>3. CASE Sleep(a)
  BY <1>3, <1>0, PlaceTypes DEF Sleep, FallsAsleep, Goes
<1>4. CASE StartReset(a)
  <2>1. (endTurns \in [Agents -> 0..TurnLimit])'
    BY <1>4, <1>0, MemoryAssumption DEF StartReset
  <2>. QED BY <1>4, <1>0, <2>1, PlaceTypes DEF StartReset, Goes
<1>5. CASE ReadMaxId(a)
  <2>1. PICK m \in Ids \cup {None} :
          loop' = [loop EXCEPT ![a] = IF m = None THEN AfterMark(a)
                                      ELSE [loop[a] EXCEPT !.at = "mark", !.max = m]]
    BY <1>5 DEF ReadMaxId, Goes
  <2>2. Loop'
    BY <2>1, PlaceTypes
  <2>. QED BY <1>5, <1>0, <2>2 DEF ReadMaxId
<1>6. CASE OpenSession(a)
  <2>1. Loop'
    BY <1>6, PlaceTypes DEF OpenSession, Goes
  <2>2. opened[a] + 1 \in 1..MaxSessions
    BY <1>6, <1>0, MemoryAssumption DEF OpenSession, AgentPlaces, PlaceOf
  <2>3. Opens'
    BY <1>6, <1>0, <2>2 DEF OpenSession
  <2>. QED BY <1>6, <1>0, <2>1, <2>3 DEF OpenSession
<1>7. CASE SwitchSession(a)
  BY <1>7, <1>0, PlaceTypes DEF SwitchSession, Goes
<1>8. CASE ItemFails(a)
  <2>1. Loop'
    BY <1>8, PlaceTypes DEF ItemFails, Goes
  <2>2. CutShort(a) \subseteq Sessions
    BY SessionsOf DEF CutShort
  <2>3. mishaps' \in 0..MaxMishaps
    BY <1>8, <1>0, MemoryAssumption DEF ItemFails
  <2>. QED BY <1>8, <1>0, <2>1, <2>2, <2>3 DEF ItemFails
<1>9. CASE SleepReturns(a)
  BY <1>9, <1>0, PlaceTypes, SessionsOf DEF SleepReturns, Goes
<1>. QED
  BY <1>1, <1>2, <1>3, <1>4, <1>5, <1>6, <1>7, <1>8, <1>9 DEF LoopMoves

LEMMA TypeBeside ==
  ASSUME MemoryTypeOK, NEW a \in Agents, BesideMoves(a)
  PROVE  MemoryTypeOK'
<1>. USE DEF budgetVars
<1>1. /\ active' \in [Agents -> 1..MaxSessions] /\ asleep' \subseteq Agents
      /\ killed' \subseteq Agents /\ cut' \subseteq Sessions
  <2>1. /\ active \in [Agents -> 1..MaxSessions] /\ current[a] \in 1..MaxSessions
        /\ asleep \subseteq Agents /\ killed \subseteq Agents
        /\ cut \subseteq Sessions /\ Mine(a) \in Sessions
    BY SessionsOf DEF MemoryTypeOK
  <2>2. active' = active \/ active' = [active EXCEPT ![a] = current[a]]
    BY BesideKeeps
  <2>3. active' \in [Agents -> 1..MaxSessions]
    BY <2>1, <2>2
  <2>4. asleep' \subseteq Agents /\ killed' \subseteq Agents /\ cut' \subseteq Sessions
    BY <2>1, BesideKeeps
  <2>. QED BY <2>3, <2>4
<1>2. mishaps' \in 0..MaxMishaps /\ tasks' \in 0..MaxTasks
  <2>. USE MemoryAssumption DEF MemoryTypeOK
  <2>1. CASE Wake(a) \/ Kill(a)
    BY <2>1 DEF Wake, Kill
  <2>2. CASE TaskStarts(a) \/ TaskFails(a)
    BY <2>2 DEF TaskStarts, TaskFails
  <2>3. CASE TaskSleeps(a) \/ TaskReturns(a) \/ TaskReadsMaxId(a)
    BY <2>3 DEF TaskSleeps, FallsAsleep, TaskReturns, TaskReadsMaxId
  <2>. QED BY <2>1, <2>2, <2>3 DEF BesideMoves
<1>3. task' \in [Agents -> TaskPlaces]
  <2>. USE TaskTypes DEF TaskGoes
  <2>1. CASE Wake(a) \/ Kill(a)
    BY <2>1 DEF Wake, Kill
  <2>2. CASE TaskStarts(a) \/ TaskSleeps(a)
    BY <2>2 DEF TaskStarts, TaskSleeps
  <2>3. CASE TaskReturns(a) \/ TaskFails(a)
    BY <2>3 DEF TaskReturns, TaskFails
  <2>4. CASE TaskReadsMaxId(a)
    <3>1. PICK m \in Ids \cup {None} :
            task' = [task EXCEPT ![a] =
                       IF m = None THEN NoTask
                       ELSE [at |-> "mark", session |-> current[a], max |-> m]]
      BY <2>4 DEF TaskReadsMaxId
    <3>. QED BY <3>1
  <2>. QED BY <2>1, <2>2, <2>3, <2>4 DEF BesideMoves
<1>. QED BY <1>1, <1>2, <1>3, BesideKeeps
     DEF MemoryTypeOK, TaskPlaces, historyVars, workerVars

LEMMA TypeWorker ==
  ASSUME MemoryTypeOK, BatchHolds, WorkerStep \/ TickFails \/ MemoryRestart
  PROVE  MemoryTypeOK'
<1>. USE DEF MemoryTypeOK, historyVars, agentVars, sessionVars, workerVars,
  budgetVars
<1>. DEFINE WorkerStates == [at : {"waiting", "next", "read", "dismiss", "posted", "clear"},
                       batch : Seq(Listed), seen : SUBSET Ids, upTo : Ids \cup {None}]
<1>1. ASSUME NEW b \in Seq(Listed) PROVE NextSession(b) \in WorkerStates
  BY <1>1 DEF NextSession, AtWork, Waiting
<1>2. Waiting \in WorkerStates
  BY DEF Waiting
<1>3. worker.at # "waiting" => This \in Listed /\ Tail(worker.batch) \in Seq(Listed)
  BY TailFacts DEF BatchHolds, This
<1>4. CASE Tick
  BY <1>4, <1>1, BatchType DEF Tick
<1>5. CASE Read
  <2>1. This \in Listed
    BY <1>3, <1>5 DEF Read
  <2>2. New(This) \subseteq Ids
    BY <2>1 DEF New, Listed
  <2>3. This.mark \in Ids
    BY <2>1 DEF Listed
  <2>. QED BY <1>5, <2>2, <2>3 DEF Read
<1>6. CASE Post
  BY <1>6 DEF Post
<1>7. CASE ReadNewMaxId
  BY <1>7 DEF ReadNewMaxId
<1>8. CASE MarkProcessed
  <2>1. NextSession(Tail(worker.batch)) \in WorkerStates
    BY <1>1, <1>3, <1>8 DEF MarkProcessed
  <2>2. This.session \in Sessions /\ worker.upTo \in Ids \cup {None}
    BY <1>3, <1>8 DEF MarkProcessed, Listed
  <2>3. mark' \in [Sessions -> Ids \cup {None}] /\ done' \in [Sessions -> Ids \cup {None}]
    BY <1>8, <2>2 DEF MarkProcessed, Clears
  <2>4. unmarked' \subseteq Ids /\ setBack' \subseteq Ids
    BY <1>8, <2>2 DEF MarkProcessed, Clears
  <2>. QED BY <1>8, <2>1, <2>3, <2>4 DEF MarkProcessed
<1>9. CASE TickFails
  <2>1. mishaps' \in 0..MaxMishaps
    BY <1>9, MemoryAssumption DEF TickFails
  <2>. QED BY <1>9, <1>2, <2>1 DEF TickFails, Sent
<1>10. CASE MemoryRestart
  <2>1. cut' \subseteq Sessions
    <3>1. ASSUME NEW a \in Agents PROVE CutShort(a) \subseteq Sessions
      BY SessionsOf DEF CutShort
    <3>. QED BY <1>10, <3>1 DEF MemoryRestart
  <2>2. /\ loop' \in [Agents -> Places] /\ task' \in [Agents -> TaskPlaces]
        /\ endTurns' \in [Agents -> 0..TurnLimit] /\ mishaps' \in 0..MaxMishaps
    <3>1. Resting \in Places /\ Step("turn") \in Places /\ NoTask \in TaskPlaces
      BY MemoryAssumption
      DEF Resting, Step, NoTask, Places, TaskPlaces
    <3>2. loop' \in [Agents -> Places] /\ task' \in [Agents -> TaskPlaces]
      BY <1>10, <3>1 DEF MemoryRestart
    <3>. QED BY <1>10, <3>2, MemoryAssumption DEF MemoryRestart
  <2>3. worker' \in WorkerStates /\ unmarked' \subseteq Ids
    BY <1>10, <1>2 DEF MemoryRestart, Sent
  <2>. QED BY <1>10, <2>1, <2>2, <2>3 DEF MemoryRestart, Places, TaskPlaces
<1>. QED BY <1>4, <1>5, <1>6, <1>7, <1>8, <1>9, <1>10 DEF WorkerStep

LEMMA TypeStep ==
  ASSUME MemoryTypeOK, AgentPlaces, BatchHolds, [MemoryNext]_memoryVars
  PROVE  MemoryTypeOK'
<1>1. ASSUME NEW a \in Agents, Marks(a) PROVE MemoryTypeOK'
  <2>. USE DEF historyVars, workerVars, budgetVars, sessionVars
  <2>1. CASE Mark(a)
    <3>1. loop' \in [Agents -> Places]
      BY <2>1, PlaceTypes DEF Mark, Goes
    <3>2. loop[a].max \in Ids \cup {None}
      BY DEF MemoryTypeOK
    <3>3. mark' \in [Sessions -> Ids \cup {None}]
      BY <2>1, <3>2, SessionsOf DEF Mark, MemoryTypeOK, Invalidated
    <3>. QED BY <2>1, <3>1, <3>3 DEF Mark, MemoryTypeOK, Places
  <2>2. CASE TaskMarks(a)
    <3>1. task' \in [Agents -> TaskPlaces]
      BY <2>2, TaskTypes DEF TaskMarks, TaskGoes
    <3>2. task[a].max \in Ids \cup {None} /\ <<a, task[a].session>> \in Sessions
      BY DEF MemoryTypeOK, Sessions
    <3>3. mark' \in [Sessions -> Ids \cup {None}]
      BY <2>2, <3>2 DEF TaskMarks, MemoryTypeOK, Invalidated
    <3>. QED BY <2>2, <3>1, <3>3 DEF TaskMarks, MemoryTypeOK, TaskPlaces
  <2>. QED BY <1>1, <2>1, <2>2 DEF Marks
<1>2. ASSUME NEW a \in Agents, Say(a) \/ RunCode(a) PROVE MemoryTypeOK'
  <2>1. lastId + 1 \in Ids /\ lastId' \in 0..MaxRecords
    BY <1>2, Appending, MemoryAssumption DEF MemoryTypeOK, Ids
  <2>2. rows' = [rows EXCEPT ![Target(a)] = @ \cup {lastId + 1}]
    BY <1>2, Appending
  <2>3. rows' \in [Sessions -> SUBSET Ids]
    BY <2>1, <2>2 DEF MemoryTypeOK
  <2>4. shown' \subseteq Ids
    <3>1. shown' = shown \/ shown' = shown \cup {lastId + 1}
      BY <1>2, Appending
    <3>. QED BY <2>1, <3>1 DEF MemoryTypeOK
  <2>5. late' \subseteq Ids
    <3>1. late' = late \/ late' = late \cup {lastId + 1}
      BY <1>2, Appending
    <3>. QED BY <2>1, <3>1 DEF MemoryTypeOK
  <2>. QED BY <1>2, <2>1, <2>3, <2>4, <2>5, Appending
       DEF MemoryTypeOK, agentVars, sessionVars, workerVars
<1>3. CASE UNCHANGED memoryVars
  BY <1>3 DEF MemoryTypeOK, memoryVars, historyVars, agentVars, sessionVars, workerVars, budgetVars
<1>4. ASSUME NEW a \in Agents, AgentMoves(a) PROVE MemoryTypeOK'
  BY <1>4, TypeLoop, TypeBeside DEF AgentMoves
<1>. QED BY <1>1, <1>2, <1>3, <1>4, StepKinds, TypeWorker

-----------------------------------------------------------------------------
(* What the three steps that touch records and marks do to one session.    *)

LEMMA NewRecord ==
  ASSUME MemoryTypeOK, IdsInOrder, NEW a \in Agents, Say(a) \/ RunCode(a)
  PROVE  /\ lastId' = lastId + 1 /\ lastId \in Nat /\ Ids \subseteq Nat
         /\ \A s \in Sessions : rows[s] \subseteq rows'[s]
         /\ \A s \in Sessions : \A r \in rows'[s] :
              r \in rows[s] \/ (s = Target(a) /\ r = lastId + 1)
         /\ \A r \in shown' : r \in shown \/ r = lastId + 1
         /\ shown \subseteq shown' /\ late \subseteq late'
         /\ \A s \in Sessions : \A r \in rows'[s] \cap shown' :
              \/ r \in rows[s] \cap shown
              \/ s = Target(a) /\ r = lastId + 1 /\ loop[a].at = "turn"
<1>1. lastId' = lastId + 1 /\ lastId \in Nat /\ Ids \subseteq Nat
  BY Appending, MemoryAssumption DEF MemoryTypeOK, Ids
<1>2. rows' = [rows EXCEPT ![Target(a)] = @ \cup {lastId + 1}]
  BY Appending
<1>3. \A s \in Sessions : /\ rows[s] \subseteq rows'[s]
                          /\ \A r \in rows'[s] :
                               r \in rows[s] \/ (s = Target(a) /\ r = lastId + 1)
  BY <1>2 DEF MemoryTypeOK
<1>4. shown' = shown \/ (shown' = shown \cup {lastId + 1} /\ loop[a].at = "turn")
  BY Appending
<1>5. late \subseteq late'
  BY Appending
<1>6. ASSUME NEW s \in Sessions, NEW r \in rows'[s] \cap shown'
      PROVE  \/ r \in rows[s] \cap shown
             \/ s = Target(a) /\ r = lastId + 1 /\ loop[a].at = "turn"
  <2>1. r \in rows[s] => r <= lastId /\ r \in Nat
    BY <1>1 DEF IdsInOrder, MemoryTypeOK
  <2>2. r \in shown => r <= lastId /\ r \in Nat
    BY <1>1 DEF IdsInOrder, MemoryTypeOK
  <2>3. lastId + 1 \notin rows[s] /\ lastId + 1 \notin shown
    BY <1>1 DEF IdsInOrder, MemoryTypeOK
  <2>4. r \in rows[s] \/ (s = Target(a) /\ r = lastId + 1)
    BY <1>3
  <2>5. r \in shown \/ (r = lastId + 1 /\ loop[a].at = "turn")
    BY <1>4
  <2>6. CASE r = lastId + 1
    BY <2>3, <2>4, <2>5, <2>6
  <2>7. CASE r # lastId + 1
    BY <2>4, <2>5, <2>7
  <2>. QED BY <2>6, <2>7
<1>. QED BY <1>1, <1>3, <1>4, <1>5, <1>6

LEMMA InvalidatedIs ==
  ASSUME MemoryTypeOK, NEW s0 \in Sessions, NEW id \in rows[s0],
         mark' = Invalidated(s0, id)
  PROVE  /\ \A s \in Sessions : s # s0 => mark'[s] = mark[s]
         /\ \A s \in Sessions : mark[s] <= mark'[s]
         /\ mark'[s0] \in {mark[s0], id} /\ id <= mark'[s0] /\ mark'[s0] # None
<1>1. mark[s0] \in Nat /\ id \in Nat \ {0}
  BY DEF MemoryTypeOK, Ids, None
<1>2. /\ \A s \in Sessions : s # s0 => mark'[s] = mark[s]
      /\ mark'[s0] = IF mark[s0] = None \/ mark[s0] < id THEN id ELSE mark[s0]
  BY DEF MemoryTypeOK, Invalidated
<1>3. /\ mark[s0] <= mark'[s0] /\ id <= mark'[s0] /\ mark'[s0] # None
      /\ mark'[s0] \in {mark[s0], id}
  BY <1>1, <1>2 DEF None
<1>4. ASSUME NEW s \in Sessions PROVE mark[s] <= mark'[s]
  <2>1. mark[s] \in Nat
    BY DEF MemoryTypeOK, Ids, None
  <2>. QED BY <1>2, <1>3, <2>1
<1>. QED BY <1>2, <1>3, <1>4

LEMMA NewMarks ==
  ASSUME MemoryTypeOK, AgentPlaces, NEW a \in Agents, Marks(a)
  PROVE  /\ UNCHANGED <<historyVars, done, workerVars>>
         /\ \A s \in Sessions : mark[s] <= mark'[s]
         /\ \A s \in Sessions : mark'[s] = mark[s] \/ mark'[s] \in rows[s]
<1>1. CASE Mark(a)
  <2>1. loop[a].max \in rows[Mine(a)] /\ Mine(a) \in Sessions
    BY <1>1, SessionsOf DEF AgentPlaces, RowsOf, Mark
  <2>2. mark' = Invalidated(Mine(a), loop[a].max)
    BY <1>1 DEF Mark
  <2>3. UNCHANGED <<historyVars, done, workerVars>>
    BY <1>1 DEF Mark
  <2>. QED BY <2>1, <2>2, <2>3, InvalidatedIs
<1>2. CASE TaskMarks(a)
  <2>1. task[a].max \in rows[<<a, task[a].session>>]
    BY <1>2 DEF AgentPlaces, TaskOf, TaskMarks
  <2>2. <<a, task[a].session>> \in Sessions
    BY DEF MemoryTypeOK, Sessions
  <2>3. mark' = Invalidated(<<a, task[a].session>>, task[a].max)
    BY <1>2 DEF TaskMarks
  <2>4. UNCHANGED <<historyVars, done, workerVars>>
    BY <1>2 DEF TaskMarks
  <2>. QED BY <2>1, <2>2, <2>3, <2>4, InvalidatedIs
<1>. QED BY <1>1, <1>2 DEF Marks

LEMMA NewMark ==
  ASSUME MemoryTypeOK, AgentPlaces, NEW a \in Agents, Mark(a)
  PROVE  /\ \A s \in Sessions : s # Mine(a) => mark'[s] = mark[s]
         /\ \A r \in rows[Mine(a)] \cap shown : r <= mark'[Mine(a)]
<1>1. /\ loop[a].max \in rows[Mine(a)] /\ Mine(a) \in Sessions
      /\ \A r \in rows[Mine(a)] \cap shown : r <= loop[a].max
  BY SessionsOf DEF AgentPlaces, RowsOf, Mark
<1>2. mark' = Invalidated(Mine(a), loop[a].max)
  BY DEF Mark
<1>3. /\ \A s \in Sessions : s # Mine(a) => mark'[s] = mark[s]
      /\ loop[a].max <= mark'[Mine(a)] /\ mark'[Mine(a)] \in {mark[Mine(a)], loop[a].max}
  BY <1>1, <1>2, InvalidatedIs
<1>4. rows[Mine(a)] \subseteq Nat /\ mark[Mine(a)] \in Nat
  BY <1>1 DEF MemoryTypeOK, Ids, None
<1>5. ASSUME NEW r \in rows[Mine(a)] \cap shown PROVE r <= mark'[Mine(a)]
  <2>1. r <= loop[a].max /\ r \in Nat /\ loop[a].max \in Nat
    BY <1>1, <1>4
  <2>. QED BY <1>3, <1>4, <2>1
<1>. QED BY <1>3, <1>5

LEMMA Cleared ==
  ASSUME MemoryTypeOK, BatchHolds, MarkProcessed
  PROVE  /\ worker.at \in {"dismiss", "clear"}
         /\ This.session \in Sessions /\ This = worker.batch[1] /\ This \in Listed
         /\ \A s \in Sessions :
              \/ mark'[s] = mark[s] /\ done'[s] = done[s]
              \/ /\ s = This.session /\ mark[s] = This.mark
                 /\ mark'[s] = None /\ done'[s] = worker.upTo
         /\ \A s \in Sessions : s # This.session => mark'[s] = mark[s] /\ done'[s] = done[s]
         /\ UNCHANGED <<historyVars, agentVars, routed>> /\ setBack \subseteq setBack'
         /\ \A s \in Sessions : \A r \in rows[s] \ setBack' :
              done[s] \in Nat /\ r \in Nat /\ r > done'[s] => r > done[s]
<1>1. This \in Listed /\ This.session \in Sessions
  <2>1. worker.batch \in Seq(Listed) /\ worker.batch # << >>
    BY DEF MarkProcessed, BatchHolds, MemoryTypeOK
  <2>2. This \in Listed
    BY <2>1, TailFacts DEF This
  <2>. QED BY <2>2 DEF Listed
<1>2. CASE ~Unchanged(This)
  <2>1. UNCHANGED <<historyVars, agentVars, routed, mark, done, setBack>>
        /\ worker.at \in {"dismiss", "clear"}
    BY <1>2 DEF MarkProcessed
  <2>. QED BY <1>1, <2>1 DEF This
<1>3. CASE Unchanged(This)
  <2>1. /\ mark' = [mark EXCEPT ![This.session] = None]
        /\ done' = [done EXCEPT ![This.session] = worker.upTo]
        /\ mark[This.session] = This.mark
    BY <1>3 DEF MarkProcessed, Unchanged, Clears
  <2>2. \A s \in Sessions :
           IF s = This.session THEN mark'[s] = None /\ done'[s] = worker.upTo
                               ELSE mark'[s] = mark[s] /\ done'[s] = done[s]
    BY <1>1, <2>1 DEF MemoryTypeOK
  <2>3. UNCHANGED <<historyVars, agentVars, routed>> /\ worker.at \in {"dismiss", "clear"}
    BY DEF MarkProcessed
  <2>4. setBack' = setBack \cup
          {r \in rows[This.session] : worker.upTo < r /\ r <= done[This.session]}
    BY <1>3 DEF MarkProcessed, Clears
  <2>5. ASSUME NEW s \in Sessions, NEW r \in rows[s] \ setBack',
               done[s] \in Nat, r \in Nat, r > done'[s]
        PROVE  r > done[s]
    BY <2>2, <2>4, <2>5
  <2>. QED BY <1>1, <2>1, <2>2, <2>3, <2>4, <2>5 DEF This
<1>. QED BY <1>2, <1>3

-----------------------------------------------------------------------------
(* Ids.                                                                    *)

LEMMA IdsStep ==
  ASSUME MemoryTypeOK, IdsInOrder, AgentPlaces, BatchHolds, WorkerPlaces,
         [MemoryNext]_memoryVars
  PROVE  IdsInOrder'
<1>1. ASSUME NEW a \in Agents, Say(a) \/ RunCode(a) PROVE IdsInOrder'
  <2>1. UNCHANGED <<mark, done>>
    BY <1>1, Appending
  <2>. lastId' = lastId + 1 /\ lastId \in Nat /\ Ids \subseteq Nat
    BY <1>1, NewRecord
  <2>2. ASSUME NEW r \in shown' PROVE r <= lastId'
    <3>1. r \in shown \/ r = lastId + 1
      BY <1>1, NewRecord
    <3>2. r \in shown => r \in Nat /\ r <= lastId
      BY DEF IdsInOrder, MemoryTypeOK
    <3>. QED BY <3>1, <3>2
  <2>3. ASSUME NEW s \in Sessions, NEW r \in rows'[s] PROVE r <= lastId'
    <3>1. r \in rows[s] \/ r = lastId + 1
      BY <1>1, NewRecord
    <3>2. r \in rows[s] => r \in Nat /\ r <= lastId
      BY DEF IdsInOrder, MemoryTypeOK
    <3>. QED BY <3>1, <3>2
  <2>4. ASSUME NEW s \in Sessions, NEW u \in Sessions, NEW r \in rows'[s] \cap rows'[u]
        PROVE  s = u
    <3>1. \A v \in Sessions : lastId + 1 \notin rows[v]
      BY <1>1, NewRecord DEF IdsInOrder, MemoryTypeOK
    <3>. QED BY <1>1, <3>1, NewRecord DEF IdsInOrder
  <2>5. ASSUME NEW s \in Sessions
        PROVE  mark'[s] \in rows'[s] \cup {None} /\ done'[s] \in rows'[s] \cup {None}
    BY <1>1, <2>1, NewRecord DEF IdsInOrder
  <2>. QED BY <2>2, <2>3, <2>4, <2>5 DEF IdsInOrder
<1>2. ASSUME NEW a \in Agents, Marks(a) PROVE IdsInOrder'
  <2>1. UNCHANGED <<rows, shown, lastId, done>>
    BY <1>2, NewMarks DEF historyVars
  <2>. QED BY <1>2, <2>1, NewMarks DEF IdsInOrder
<1>3. CASE MarkProcessed
  <2>1. UNCHANGED <<rows, shown, lastId>>
    BY <1>3, Cleared DEF historyVars
  <2>2. worker.upTo \in rows[This.session]
    BY <1>3, Cleared DEF WorkerPlaces
  <2>. QED BY <1>3, <2>1, <2>2, Cleared DEF IdsInOrder
<1>4. ASSUME UNCHANGED <<historyVars, mark, done>> PROVE IdsInOrder'
  BY <1>4 DEF IdsInOrder, historyVars
<1>5. ASSUME NEW a \in Agents, AgentMoves(a) PROVE IdsInOrder'
  BY <1>4, <1>5, Movements
<1>6. CASE Tick \/ Read \/ Post \/ ReadNewMaxId \/ TickFails
  BY <1>4, <1>6 DEF Tick, Read, Post, ReadNewMaxId, TickFails
<1>7. CASE MemoryRestart
  BY <1>4, <1>7 DEF MemoryRestart
<1>8. CASE UNCHANGED memoryVars
  BY <1>4, <1>8 DEF memoryVars
<1>. QED BY <1>1, <1>2, <1>3, <1>5, <1>6, <1>7, <1>8, StepKinds DEF WorkerStep

-----------------------------------------------------------------------------
(* The places of the agents.                                               *)

LEMMA OtherAgents ==
  ASSUME MemoryTypeOK, NEW a \in Agents, NEW b \in Agents, a # b,
         AgentMoves(b) \/ Marks(b)
  PROVE  /\ loop'[a] = loop[a] /\ opened'[a] = opened[a]
         /\ active'[a] = active[a] /\ current'[a] = current[a]
         /\ a \in asleep' <=> a \in asleep
         /\ a \in killed' <=> a \in killed
         /\ task'[a] = task[a]
         /\ Target(a) \in cut => Target(a) \in cut'
         /\ Mine(a) \in cut => Mine(a) \in cut'
<1>. USE DEF MemoryTypeOK, Goes, TaskGoes, sessionVars
<1>1. CASE Mark(b)
  BY <1>1 DEF Mark, Mine, Target
<1>2. CASE TaskMarks(b)
  BY <1>2 DEF TaskMarks, Mine, Target
<1>3. CASE LoopMoves(b)
  <2>1. CASE StartTurn(b) \/ EndTurn(b) \/ StartReset(b) \/ ReadMaxId(b)
    BY <2>1 DEF StartTurn, Woken, EndTurn, StartReset, ReadMaxId
  <2>2. CASE Sleep(b) \/ SleepReturns(b)
    BY <2>2 DEF Sleep, FallsAsleep, SleepReturns
  <2>3. CASE OpenSession(b) \/ SwitchSession(b) \/ ItemFails(b)
    BY <2>3 DEF OpenSession, SwitchSession, ItemFails
  <2>. QED BY <1>3, <2>1, <2>2, <2>3 DEF LoopMoves
<1>4. CASE BesideMoves(b)
  <2>1. task'[a] = task[a]
    <3>1. CASE Wake(b) \/ Kill(b) \/ TaskStarts(b) \/ TaskSleeps(b)
      BY <3>1 DEF Wake, Kill, TaskStarts, TaskSleeps
    <3>2. CASE TaskReturns(b) \/ TaskReadsMaxId(b) \/ TaskFails(b)
      BY <3>2 DEF TaskReturns, TaskReadsMaxId, TaskFails
    <3>. QED BY <1>4, <3>1, <3>2 DEF BesideMoves
  <2>2. loop'[a] = loop[a] /\ opened'[a] = opened[a] /\ current'[a] = current[a]
    BY <1>4, BesideKeeps
  <2>3. active' = active \/ active' = [active EXCEPT ![b] = current[b]]
    BY <1>4, BesideKeeps
  <2>4. active'[a] = active[a]
    BY <2>3
  <2>5. (a \in asleep' <=> a \in asleep) /\ (a \in killed' <=> a \in killed)
    BY <1>4, BesideKeeps
  <2>6. Target(a) \in cut => Target(a) \in cut'
    BY <1>4, BesideKeeps
  <2>7. Mine(a) \in cut => Mine(a) \in cut'
    BY <1>4, BesideKeeps
  <2>. QED BY <2>1, <2>2, <2>4, <2>5, <2>6, <2>7
<1>. QED BY <1>1, <1>2, <1>3, <1>4 DEF AgentMoves, Marks

LEMMA AfterMarkPlace ==
  ASSUME MemoryTypeOK, NEW a \in Agents, PlaceOf(a), loop[a].at \in {"max", "mark"}
  PROVE  LET after == AfterMark(a) IN
         /\ after.why = "nothing"
         /\ \/ loop[a].why = "turn" /\ after.at = "handled"
            \/ loop[a].why = "sleep" /\ after.at = "resting"
            \/ loop[a].why = "reset" /\ after.at = "opening"
<1>1. loop[a].why \in {"turn", "sleep", "reset"}
  BY DEF PlaceOf, MemoryTypeOK
<1>. QED BY <1>1 DEF AfterMark, Step, Resting

LEMMA PlaceStep ==
  ASSUME MemoryTypeOK, AgentPlaces, [MemoryNext]_memoryVars, NEW a \in Agents
  PROVE  PlaceOf(a)'
<1>. USE DEF PlaceOf, Goes, Step, Marking, Resting, Target
<1>0. PlaceOf(a)
  BY DEF AgentPlaces
<1>1. ASSUME NEW b \in Agents, AgentMoves(b) \/ Marks(b), b # a PROVE PlaceOf(a)'
  BY <1>0, <1>1, OtherAgents
<1>. USE DEF MemoryTypeOK
<1>2. CASE StartTurn(a)
  BY <1>0, <1>2 DEF StartTurn, Woken
<1>3. CASE EndTurn(a)
  <2>1. /\ loop'[a] \in {Step("handled"), Marking("turn")} /\ loop[a].at = "turn"
        /\ UNCHANGED <<opened, current, asleep, cut>>
    BY <1>3 DEF EndTurn
  <2>2. active' = active \/ active'[a] = current[a]
    BY <1>3 DEF EndTurn
  <2>3. /\ active'[a] <= current'[a] /\ current'[a] <= opened'[a]
        /\ active'[a] # current'[a] => Target(a)' \in cut'
    <3>1. active[a] # current[a] => Target(a) \in cut
      BY <1>0, <2>1
    <3>2. active[a] \in Nat /\ current[a] \in Nat /\ opened[a] \in Nat
      OBVIOUS
    <3>3. CASE active' = active
      BY <1>0, <2>1, <3>1, <3>3
    <3>4. CASE active'[a] = current[a]
      BY <1>0, <2>1, <3>1, <3>2, <3>4
    <3>. QED BY <2>2, <3>3, <3>4
  <2>4. loop'[a].why \in {"nothing", "turn"} /\ loop'[a].at \in {"handled", "max"}
        /\ (loop'[a].at = "max" => loop'[a].why # "nothing")
    <3>1. Step("handled").why = "nothing" /\ Step("handled").at = "handled"
      OBVIOUS
    <3>2. Marking("turn").why = "turn" /\ Marking("turn").at = "max"
      OBVIOUS
    <3>. QED BY <2>1, <3>1, <3>2
  <2>. QED BY <2>3, <2>4
<1>4. CASE Sleep(a)
  BY <1>0, <1>4 DEF Sleep, FallsAsleep
<1>5. CASE StartReset(a)
  BY <1>0, <1>5 DEF StartReset, sessionVars
<1>6. CASE ReadMaxId(a)
  <2>1. \/ loop'[a] = AfterMark(a)
        \/ loop'[a].at = "mark" /\ loop'[a].why = loop[a].why
    BY <1>6 DEF ReadMaxId
  <2>2. UNCHANGED <<opened, active, current, asleep, cut>> /\ loop[a].at = "max"
    BY <1>6 DEF ReadMaxId, sessionVars
  <2>3. \/ loop'[a].at = "mark" /\ loop'[a].why = loop[a].why
        \/ loop'[a].why = "nothing" /\ loop'[a].at = "handled" /\ loop[a].why = "turn"
        \/ loop'[a].why = "nothing" /\ loop'[a].at = "resting"
        \/ loop'[a].why = "nothing" /\ loop'[a].at = "opening" /\ loop[a].why = "reset"
    BY <1>0, <2>1, <2>2, AfterMarkPlace
  <2>. QED BY <1>0, <2>2, <2>3
<1>7. CASE OpenSession(a)
  BY <1>0, <1>7 DEF OpenSession
<1>8. CASE SwitchSession(a)
  BY <1>0, <1>8 DEF SwitchSession
<1>9. CASE ItemFails(a)
  BY <1>0, <1>9 DEF ItemFails, CutShort, sessionVars
<1>10. CASE Mark(a)
  <2>1. loop'[a] = AfterMark(a) /\ loop[a].at = "mark" /\ cut' = cut \ {Mine(a)}
    BY <1>10 DEF Mark
  <2>2. UNCHANGED <<opened, active, current, asleep>>
    BY <1>10 DEF Mark, sessionVars
  <2>3. /\ loop'[a].why = "nothing"
        /\ \/ loop'[a].at = "handled" /\ loop[a].why = "turn"
           \/ loop'[a].at = "resting"
           \/ loop'[a].at = "opening" /\ loop[a].why = "reset"
    BY <1>0, <2>1, AfterMarkPlace
  <2>4. active[a] # current[a] => Target(a) # Mine(a)
    BY DEF Mine
  <2>. QED BY <1>0, <2>1, <2>2, <2>3, <2>4
<1>11. CASE UNCHANGED agentVars
  BY <1>0, <1>11 DEF agentVars, sessionVars
<1>12. CASE MemoryRestart
  BY <1>0, <1>12 DEF MemoryRestart
<1>13. ASSUME NEW b \in Agents, Say(b) \/ RunCode(b) PROVE PlaceOf(a)'
  BY <1>11, <1>13, Appending
<1>14. CASE WorkerStep \/ TickFails \/ UNCHANGED memoryVars
  BY <1>11, <1>14, WorkerKeeps DEF memoryVars
<1>15. CASE SleepReturns(a)
  BY <1>0, <1>15 DEF SleepReturns, sessionVars
<1>16. CASE BesideMoves(a)
  <2>1. /\ UNCHANGED <<loop, opened, current>>
        /\ active' = active \/ active' = [active EXCEPT ![a] = current[a]]
        /\ cut \subseteq cut'
    BY <1>16, BesideKeeps
  <2>2. active'[a] = active[a] \/ active'[a] = current[a]
    BY <2>1
  <2>3. active[a] \in Nat /\ current[a] \in Nat /\ opened[a] \in Nat
    OBVIOUS
  <2>4. CASE active'[a] = active[a]
    BY <1>0, <2>1, <2>4
  <2>5. CASE active'[a] = current[a]
    BY <1>0, <2>1, <2>3, <2>5
  <2>. QED BY <2>2, <2>4, <2>5
<1>17. CASE TaskMarks(a)
  BY <1>0, <1>17 DEF TaskMarks, sessionVars
<1>. QED
  BY <1>1, <1>2, <1>3, <1>4, <1>5, <1>6, <1>7, <1>8, <1>9, <1>10, <1>12, <1>13, <1>14,
     <1>15, <1>16, <1>17, StepKinds DEF AgentMoves, LoopMoves, Marks

LEMMA RowsMoves ==
  ASSUME MemoryTypeOK, AgentPlaces, NEW a \in Agents, AgentMoves(a)
  PROVE  RowsOf(a)'
<1>0. RowsOf(a) /\ PlaceOf(a) /\ Mine(a) \in Sessions
  BY SessionsOf DEF AgentPlaces
<1>1. UNCHANGED <<rows, shown, mark, done, setBack>>
  BY Movements DEF historyVars, workerVars
<1>2. ASSUME active'[a] \in {active[a], current[a]}, loop'[a].at \notin {"mark", "opening"}
      PROVE  RowsOf(a)'
  <2>1. active[a] <= active'[a] /\ active[a] \in Nat /\ active'[a] \in Nat
    BY <1>0, <1>2 DEF PlaceOf, MemoryTypeOK
  <2>2. \A n \in 1..MaxSessions : n > active'[a] => rows'[<<a, n>>] = {}
    BY <1>0, <1>1, <2>1 DEF RowsOf
  <2>. QED BY <1>2, <2>2 DEF RowsOf
<1>. USE DEF Goes, Step, Marking, Resting, sessionVars
<1>3. CASE StartTurn(a) \/ EndTurn(a)
  BY <1>2, <1>3 DEF StartTurn, Woken, EndTurn, MemoryTypeOK
<1>4. CASE Sleep(a) \/ SleepReturns(a) \/ StartReset(a)
  BY <1>2, <1>4 DEF Sleep, FallsAsleep, SleepReturns, StartReset, MemoryTypeOK
<1>5. CASE OpenSession(a) \/ SwitchSession(a) \/ ItemFails(a)
  BY <1>2, <1>5 DEF OpenSession, SwitchSession, ItemFails, MemoryTypeOK
<1>6. CASE ReadMaxId(a)
  <2>1. PICK m \in Ids \cup {None} :
          /\ IsMaxId(m, Mine(a))
          /\ loop' = [loop EXCEPT ![a] = IF m = None THEN AfterMark(a)
                                      ELSE [loop[a] EXCEPT !.at = "mark", !.max = m]]
    BY <1>6 DEF ReadMaxId
  <2>2. UNCHANGED <<active, current>> /\ loop[a].at = "max"
    BY <1>6 DEF ReadMaxId
  <2>3. Mine(a)' = Mine(a)
    BY <2>2 DEF Mine
  <2>4. \A n \in 1..MaxSessions : n > active'[a] => rows'[<<a, n>>] = {}
    BY <1>0, <1>1, <2>2 DEF RowsOf
  <2>5. rows[Mine(a)] \subseteq Ids
    BY <1>0 DEF MemoryTypeOK
  <2>6. CASE m = None
    <3>1. rows[Mine(a)] = {}
      BY <2>1, <2>5, <2>6 DEF IsMaxId, None, Ids
    <3>2. loop'[a].at # "mark"
      BY <1>0, <2>1, <2>2, <2>6, AfterMarkPlace DEF MemoryTypeOK
    <3>. QED BY <1>1, <2>3, <2>4, <3>1, <3>2 DEF RowsOf
  <2>7. CASE m # None
    <3>1. loop'[a].at = "mark" /\ loop'[a].max = m
      BY <2>1, <2>7 DEF MemoryTypeOK
    <3>2. m \in rows[Mine(a)] /\ \A r \in rows[Mine(a)] : r <= m
      BY <2>1, <2>7 DEF IsMaxId
    <3>. QED BY <1>1, <2>3, <2>4, <3>1, <3>2 DEF RowsOf
  <2>. QED BY <2>6, <2>7
<1>7. CASE BesideMoves(a)
  <2>1. UNCHANGED <<loop, current>> /\ active'[a] \in {active[a], current[a]}
    BY <1>7, BesideKeeps DEF MemoryTypeOK
  <2>2. active[a] <= active'[a] /\ active[a] \in Nat /\ active'[a] \in Nat
    BY <1>0, <2>1 DEF PlaceOf, MemoryTypeOK
  <2>3. \A n \in 1..MaxSessions : n > active'[a] => rows'[<<a, n>>] = {}
    BY <1>0, <1>1, <2>2 DEF RowsOf
  <2>. QED BY <1>0, <1>1, <2>1, <2>3 DEF RowsOf, Mine
<1>. QED BY <1>3, <1>4, <1>5, <1>6, <1>7 DEF AgentMoves, LoopMoves

LEMMA RowsMarks ==
  ASSUME MemoryTypeOK, AgentPlaces, NEW a \in Agents, NEW b \in Agents, Marks(b),
         UNCHANGED <<active, current>>, loop'[a] = loop[a]
  PROVE  RowsOf(a)'
<1>1. RowsOf(a) /\ Mine(a) \in Sessions /\ Mine(a)' = Mine(a)
  BY SessionsOf DEF AgentPlaces, Mine
<1>2. UNCHANGED <<rows, shown, done, setBack>>
  BY NewMarks DEF historyVars, workerVars
<1>3. ASSUME NEW r \in rows[Mine(a)], r <= mark[Mine(a)] PROVE r <= mark'[Mine(a)]
  <2>1. /\ mark[Mine(a)] <= mark'[Mine(a)]
        /\ mark'[Mine(a)] = mark[Mine(a)] \/ mark'[Mine(a)] \in rows[Mine(a)]
    BY <1>1, NewMarks
  <2>2. rows[Mine(a)] \subseteq Nat /\ mark[Mine(a)] \in Nat
    BY <1>1 DEF MemoryTypeOK, Ids, None
  <2>3. r \in Nat /\ mark'[Mine(a)] \in Nat
    BY <2>1, <2>2
  <2>. QED BY <1>3, <2>1, <2>2, <2>3
<1>. QED BY <1>1, <1>2, <1>3 DEF RowsOf

LEMMA RowsOthers ==
  ASSUME MemoryTypeOK, AgentPlaces, NEW a \in Agents, NEW b \in Agents, a # b,
         AgentMoves(b)
  PROVE  RowsOf(a)'
<1>1. RowsOf(a)
  BY DEF AgentPlaces
<1>2. UNCHANGED <<rows, shown, mark, done, setBack>>
  BY Movements DEF historyVars, workerVars
<1>3. Mine(a)' = Mine(a) /\ loop'[a] = loop[a] /\ active'[a] = active[a]
  BY OtherAgents DEF Mine
<1>. QED BY <1>1, <1>2, <1>3 DEF RowsOf

LEMMA RowsStep ==
  ASSUME MemoryTypeOK, IdsInOrder, AgentPlaces, BatchHolds, WorkerPlaces,
         [MemoryNext]_memoryVars, NEW a \in Agents
  PROVE  RowsOf(a)'
<1>0. RowsOf(a) /\ PlaceOf(a) /\ Mine(a) \in Sessions
  BY SessionsOf DEF AgentPlaces
<1>1. CASE AgentMoves(a)
  BY <1>1, RowsMoves
<1>2. CASE Mark(a)
  <2>1. UNCHANGED <<rows, shown, done>>
    BY <1>2, NewMarks DEF historyVars, Marks
  <2>2. loop'[a] = AfterMark(a) /\ loop[a].at = "mark" /\ UNCHANGED <<active, current>>
    BY <1>2 DEF Mark, Goes, MemoryTypeOK, sessionVars
  <2>3. loop'[a].at # "mark"
    BY <1>0, <2>2, AfterMarkPlace
  <2>4. Mine(a)' = Mine(a)
    BY <2>2 DEF Mine
  <2>5. \A r \in rows[Mine(a)] \cap shown : r <= mark'[Mine(a)]
    BY <1>2, NewMark
  <2>. QED BY <1>0, <2>1, <2>2, <2>3, <2>4, <2>5 DEF RowsOf
<1>3. ASSUME NEW b \in Agents, b # a, AgentMoves(b) PROVE RowsOf(a)'
  BY <1>3, RowsOthers
<1>10. ASSUME NEW b \in Agents, TaskMarks(b) \/ (Mark(b) /\ b # a) PROVE RowsOf(a)'
  <2>1. Marks(b) /\ UNCHANGED <<active, current>> /\ loop'[a] = loop[a]
    BY <1>10 DEF Marks, Mark, TaskMarks, sessionVars, Goes, MemoryTypeOK
  <2>. QED BY <2>1, RowsMarks
<1>4. ASSUME NEW b \in Agents, Say(b) \/ RunCode(b) PROVE RowsOf(a)'
  <2>1. UNCHANGED <<active, current, loop, mark, done, setBack>>
    BY <1>4, Appending DEF agentVars, sessionVars, workerVars
  <2>2. Mine(a)' = Mine(a)
    BY <2>1 DEF Mine
  <2>3. ASSUME NEW n \in 1..MaxSessions, n > active[a] PROVE rows'[<<a, n>>] = {}
    <3>1. <<a, n>> \in Sessions /\ <<a, n>> # Target(b)
      BY <2>3 DEF Sessions, Target, MemoryTypeOK
    <3>. QED BY <1>0, <1>4, <2>3, <3>1, NewRecord DEF RowsOf
  <2>4. ASSUME loop[a].at \in {"mark", "opening"}
        PROVE  \A r \in rows'[Mine(a)] \cap shown' : r \in rows[Mine(a)] \cap shown
    <3>1. Mine(a) = Target(b) => a = b
      BY DEF Mine, Target
    <3>. QED BY <1>0, <1>4, <2>4, <3>1, NewRecord
  <2>5. rows[Mine(a)] \subseteq rows'[Mine(a)]
    BY <1>0, <1>4, NewRecord
  <2>. QED BY <1>0, <2>1, <2>2, <2>3, <2>4, <2>5 DEF RowsOf
<1>5. CASE MarkProcessed
  <2>1. /\ UNCHANGED <<rows, shown, active, current, loop>> /\ Mine(a)' = Mine(a)
        /\ setBack \subseteq setBack'
    BY <1>5, Cleared DEF historyVars, agentVars, sessionVars, Mine
  <2>2. ASSUME loop[a].at = "opening", NEW r \in (rows[Mine(a)] \cap shown) \ setBack'
        PROVE  r <= done'[Mine(a)] \/ r <= mark'[Mine(a)]
    <3>1. r <= done[Mine(a)] \/ r <= mark[Mine(a)]
      BY <1>0, <2>1, <2>2 DEF RowsOf
    <3>2. /\ r \in Nat /\ mark[Mine(a)] \in Nat /\ done[Mine(a)] \in Nat
      BY <1>0, <2>2 DEF MemoryTypeOK, Ids, None
    <3>3. CASE mark'[Mine(a)] = mark[Mine(a)] /\ done'[Mine(a)] = done[Mine(a)]
      BY <3>1, <3>3
    <3>4. CASE /\ Mine(a) = This.session /\ mark[Mine(a)] = This.mark
               /\ done'[Mine(a)] = worker.upTo
      <4>1. worker.upTo >= This.mark /\ worker.upTo \in rows[Mine(a)]
        BY <1>5, <3>4, Cleared DEF WorkerPlaces
      <4>2. worker.upTo \in Nat /\ rows[Mine(a)] \subseteq Nat
        BY <1>0, <4>1 DEF MemoryTypeOK, Ids
      <4>3. r > worker.upTo => r > done[Mine(a)]
        BY <1>0, <1>5, <2>2, <3>2, <3>4, Cleared
      <4>. QED BY <3>1, <3>2, <3>4, <4>1, <4>2, <4>3
    <3>. QED BY <1>0, <1>5, <3>3, <3>4, Cleared
  <2>. QED BY <1>0, <2>1, <2>2 DEF RowsOf
<1>6. ASSUME UNCHANGED <<historyVars, mark, done, setBack, agentVars>> PROVE RowsOf(a)'
  BY <1>0, <1>6 DEF RowsOf, historyVars, agentVars, sessionVars, Mine
<1>7. CASE Tick \/ Read \/ Post \/ ReadNewMaxId \/ TickFails
  BY <1>6, <1>7 DEF Tick, Read, Post, ReadNewMaxId, TickFails
<1>8. CASE UNCHANGED memoryVars
  BY <1>6, <1>8 DEF memoryVars, workerVars
<1>9. CASE MemoryRestart
  <2>1. UNCHANGED <<rows, active>> /\ loop'[a].at \notin {"mark", "opening"}
    BY <1>9 DEF MemoryRestart, historyVars, Resting, Step
  <2>. QED BY <1>0, <2>1 DEF RowsOf
<1>. QED BY <1>1, <1>2, <1>3, <1>4, <1>5, <1>7, <1>8, <1>9,
     <1>10, StepKinds DEF WorkerStep, Marks

LEMMA TaskLoop ==
  ASSUME MemoryTypeOK, AgentPlaces, NEW a \in Agents, LoopMoves(a)
  PROVE  TaskOf(a)'
<1>0. TaskOf(a) /\ PlaceOf(a)
  BY DEF AgentPlaces
<1>1. UNCHANGED <<task, rows, shown>> /\ TaskMarking(a)' = TaskMarking(a)
  BY LoopKeeps DEF historyVars, TaskMarking
<1>2. ~TaskMarking(a) => TaskOf(a)'
  BY <1>1 DEF TaskOf, TaskMarking
<1>3. ASSUME TaskMarking(a), asleep' = asleep, loop'[a].why # "sleep",
             loop'[a].at # "resting" \/ Mine(a)' \in cut'
      PROVE  TaskOf(a)'
  BY <1>0, <1>1, <1>3 DEF TaskOf
<1>. SUFFICES ASSUME TaskMarking(a) PROVE TaskOf(a)'
  BY <1>2
<1>4. a \in asleep /\ loop[a].why # "sleep" /\ ~LockFree(a)
  BY <1>0 DEF TaskOf, LockFree
<1>. USE DEF Goes, Step, Marking, Resting, MemoryTypeOK, sessionVars
<1>5. ~StartTurn(a) /\ ~Sleep(a)
  BY <1>4 DEF StartTurn, Woken, Sleep, FallsAsleep
<1>6. CASE EndTurn(a)
  <2>1. loop'[a] \in {Step("handled"), Marking("turn")} /\ asleep' = asleep
    BY <1>6 DEF EndTurn
  <2>2. /\ Step("handled").at = "handled" /\ Step("handled").why = "nothing"
        /\ Marking("turn").at = "max" /\ Marking("turn").why = "turn"
    OBVIOUS
  <2>. QED BY <1>3, <2>1, <2>2
<1>7. CASE SleepReturns(a)
  <2>1. /\ loop'[a].why = "nothing" /\ asleep' = asleep /\ current' = current
        /\ cut' = cut \cup {Mine(a)}
    BY <1>7 DEF SleepReturns
  <2>2. Mine(a)' \in cut'
    BY <2>1 DEF Mine
  <2>. QED BY <1>3, <2>1, <2>2
<1>8. CASE StartReset(a) \/ OpenSession(a) \/ SwitchSession(a)
  <2>1. /\ loop'[a].at \in {"max", "switching", "turn"} /\ asleep' = asleep
        /\ loop'[a].why \in {"reset", "nothing"}
    BY <1>8 DEF StartReset, OpenSession, SwitchSession
  <2>. QED BY <1>3, <2>1
<1>9. CASE ReadMaxId(a)
  <2>1. /\ loop'[a] = AfterMark(a) \/ (loop'[a].at = "mark" /\ loop'[a].why = loop[a].why)
        /\ loop[a].at = "max" /\ asleep' = asleep
    BY <1>9 DEF ReadMaxId
  <2>2. loop'[a].at # "resting" /\ loop'[a].why # "sleep"
    BY <1>0, <1>4, <2>1, AfterMarkPlace
  <2>. QED BY <1>3, <2>1, <2>2
<1>10. CASE ItemFails(a)
  <2>1. /\ loop[a].at # "resting" /\ asleep' = asleep /\ cut' = cut \cup CutShort(a)
        /\ loop'[a].why = "nothing" /\ Mine(a)' = Mine(a)
    BY <1>10 DEF ItemFails, Mine
  <2>2. Mine(a) \in CutShort(a)
    BY <1>4, <2>1 DEF CutShort
  <2>. QED BY <1>3, <2>1, <2>2
<1>. QED BY <1>5, <1>6, <1>7, <1>8, <1>9, <1>10 DEF LoopMoves

LEMMA TaskBeside ==
  ASSUME MemoryTypeOK, AgentPlaces, NEW a \in Agents, BesideMoves(a)
  PROVE  TaskOf(a)'
<1>0. TaskOf(a)
  BY DEF AgentPlaces
<1>1. ~TaskMarking(a)' => TaskOf(a)'
  BY DEF TaskOf, TaskMarking
<1>2. UNCHANGED <<rows, shown, loop, current>>
  BY BesideKeeps DEF historyVars
<1>. USE DEF TaskGoes, MemoryTypeOK
<1>3. CASE Wake(a) \/ Kill(a)
  BY <1>1, <1>3 DEF Wake, Kill, Woken, LockFree, TaskMarking
<1>4. CASE TaskStarts(a)
  BY <1>1, <1>4 DEF TaskStarts, TaskMarking, NoTask
<1>5. CASE TaskReturns(a) \/ TaskFails(a)
  BY <1>1, <1>5 DEF TaskReturns, TaskFails, TaskMarking, NoTask
<1>6. CASE TaskSleeps(a)
  <2>1. /\ task'[a].at = "max" /\ a \in asleep' /\ loop'[a].why # "sleep"
    BY <1>6 DEF TaskSleeps, FallsAsleep, LockFree, NoTask
  <2>. QED BY <2>1 DEF TaskOf, TaskMarking
<1>7. CASE TaskReadsMaxId(a)
  <2>1. PICK m \in Ids \cup {None} :
          /\ IsMaxId(m, Mine(a))
          /\ task'[a] = IF m = None THEN NoTask
                        ELSE [at |-> "mark", session |-> current[a], max |-> m]
    BY <1>7 DEF TaskReadsMaxId
  <2>2. CASE m = None
    BY <1>1, <2>1, <2>2 DEF TaskMarking, NoTask
  <2>3. CASE m # None
    <3>1. m \in rows[Mine(a)] /\ \A r \in rows[Mine(a)] : r <= m
      BY <2>1, <2>3 DEF IsMaxId
    <3>2. asleep' = asleep /\ a \in asleep /\ loop[a].why # "sleep"
      BY <1>0, <1>7 DEF TaskReadsMaxId, TaskOf, TaskMarking
    <3>3. task'[a] = [at |-> "mark", session |-> current[a], max |-> m]
      BY <2>1, <2>3
    <3>4. /\ task'[a].at = "mark" /\ task'[a].session = current'[a]
          /\ task'[a].max = m /\ Mine(a) = <<a, current[a]>> /\ current' = current
      BY <1>2, <3>3 DEF Mine
    <3>. QED BY <1>2, <3>1, <3>2, <3>4 DEF TaskOf, Mine
  <2>. QED BY <2>2, <2>3
<1>. QED BY <1>3, <1>4, <1>5, <1>6, <1>7 DEF BesideMoves

LEMMA TaskOfStep ==
  ASSUME MemoryTypeOK, IdsInOrder, AgentPlaces, [MemoryNext]_memoryVars, NEW a \in Agents
  PROVE  TaskOf(a)'
<1>0. TaskOf(a) /\ PlaceOf(a) /\ Mine(a) \in Sessions
  BY SessionsOf DEF AgentPlaces
<1>1. CASE AgentMoves(a)
  BY <1>1, TaskLoop, TaskBeside DEF AgentMoves
<1>2. ASSUME NEW b \in Agents, b # a, AgentMoves(b) \/ Marks(b) PROVE TaskOf(a)'
  <2>1. UNCHANGED <<rows, shown>>
    BY <1>2, Movements, NewMarks DEF historyVars
  <2>. QED BY <1>0, <1>2, <2>1, OtherAgents DEF TaskOf, TaskMarking, Mine
<1>3. CASE Mark(a)
  <2>1. /\ loop'[a] = AfterMark(a) /\ loop[a].at = "mark"
        /\ UNCHANGED <<task, asleep, rows, shown, current>>
    BY <1>3 DEF Mark, Goes, MemoryTypeOK, historyVars, sessionVars
  <2>2. loop'[a].why = "nothing" /\ (loop'[a].at = "resting" => loop[a].why = "sleep")
    BY <1>0, <2>1, AfterMarkPlace
  <2>3. task[a].at = "mark" => loop'[a].at # "resting"
    BY <1>0, <2>2 DEF TaskOf, TaskMarking
  <2>. QED BY <1>0, <2>1, <2>2, <2>3 DEF TaskOf, TaskMarking
<1>4. CASE TaskMarks(a)
  BY <1>4 DEF TaskMarks, TaskGoes, NoTask, TaskOf, TaskMarking, MemoryTypeOK
<1>5. ASSUME NEW b \in Agents, Say(b) \/ RunCode(b) PROVE TaskOf(a)'
  <2>1. UNCHANGED <<active, current, loop, task, asleep, cut>> /\ Mine(a)' = Mine(a)
    BY <1>5, Appending DEF agentVars, sessionVars, Mine
  <2>2. task[a].max \in rows[<<a, task[a].session>>] =>
          task[a].max \in rows'[<<a, task[a].session>>]
    <3>1. <<a, task[a].session>> \in Sessions
      BY DEF MemoryTypeOK, Sessions
    <3>. QED BY <1>5, <3>1, NewRecord
  <2>3. ASSUME loop[a].at = "resting", NEW r \in rows'[Mine(a)] \cap shown'
        PROVE  r \in rows[Mine(a)] \cap shown
    <3>1. Mine(a) = Target(b) => a = b
      BY DEF Mine, Target
    <3>. QED BY <1>0, <1>5, <2>3, <3>1, NewRecord
  <2>. QED BY <1>0, <2>1, <2>2, <2>3 DEF TaskOf, TaskMarking
<1>6. CASE WorkerStep \/ TickFails
  <2>1. UNCHANGED <<rows, shown, task, asleep, loop, current, cut>>
    BY <1>6, WorkerKeeps DEF historyVars, agentVars, sessionVars
  <2>. QED BY <1>0, <2>1 DEF TaskOf, TaskMarking, Mine
<1>7. CASE UNCHANGED memoryVars
  <2>1. UNCHANGED <<rows, shown, task, asleep, loop, current, cut>>
    BY <1>7 DEF memoryVars, historyVars, agentVars, sessionVars
  <2>. QED BY <1>0, <2>1 DEF TaskOf, TaskMarking, Mine
<1>8. CASE MemoryRestart
  BY <1>8 DEF MemoryRestart, NoTask, TaskOf, TaskMarking
<1>. QED BY <1>1, <1>2, <1>3, <1>4, <1>5, <1>6, <1>7, <1>8, StepKinds DEF Marks

LEMMA PlacesStep ==
  ASSUME MemoryTypeOK, IdsInOrder, AgentPlaces, BatchHolds, WorkerPlaces,
         [MemoryNext]_memoryVars
  PROVE  AgentPlaces'
BY PlaceStep, RowsStep, TaskOfStep DEF AgentPlaces

-----------------------------------------------------------------------------
(* Nothing is forgotten.                                                   *)

Seen(s, r) == r <= mark[s] \/ StillAt(s) \/ s \in cut

LEMMA SessionAgent ==
  ASSUME MemoryTypeOK, NEW s \in Sessions
  PROVE  /\ s[1] \in Agents /\ s[2] \in 1..MaxSessions /\ s = <<s[1], s[2]>>
         /\ Mine(s[1]) \in Sessions
BY SessionsOf DEF Sessions

LEMMA AnnouncedLoop ==
  ASSUME MemoryTypeOK, AgentPlaces, Announced, NEW a \in Agents, LoopMoves(a),
         NEW s \in Sessions, NEW r \in (rows[s] \cap shown) \ setBack, r > done[s]
  PROVE  Seen(s, r)'
<1>0. /\ Seen(s, r) /\ RowsOf(a) /\ PlaceOf(a) /\ UNCHANGED <<mark, task, killed>>
      /\ s[1] \in Agents /\ Mine(a) \in Sessions
  BY LoopKeeps, SessionAgent, SessionsOf DEF Announced, Seen, AgentPlaces
<1>1. cut \subseteq cut'
  BY DEF LoopMoves, StartTurn, EndTurn, Sleep, FallsAsleep, SleepReturns, StartReset,
    ReadMaxId, OpenSession, SwitchSession, ItemFails
<1>2. CASE r <= mark[s] \/ s \in cut \/ (StillAt(s) /\ s[1] # a)
  <2>1. StillAt(s) /\ s[1] # a => StillAt(s)'
    BY <1>0, OtherAgents DEF StillAt, TaskMarking, Mine, AgentMoves
  <2>. QED BY <1>0, <1>1, <1>2, <2>1 DEF Seen
<1>3. CASE StillAt(s) /\ s = Mine(a)
  <2>1. CASE current' = current /\ loop'[a].at # "resting"
    BY <1>3, <2>1 DEF Seen, StillAt, Mine
  <2>. USE DEF Goes, Step, Marking, MemoryTypeOK, sessionVars
  <2>2. StartTurn(a) => current' = current /\ loop'[a].at # "resting"
    BY DEF StartTurn, Woken
  <2>3. EndTurn(a) => current' = current /\ loop'[a].at # "resting"
    <3>1. Step("handled").at = "handled" /\ Marking("turn").at = "max"
      OBVIOUS
    <3>2. EndTurn(a) => /\ loop'[a] \in {Step("handled"), Marking("turn")}
                        /\ current' = current
      BY DEF EndTurn
    <3>. QED BY <3>1, <3>2
  <2>7. Sleep(a) \/ StartReset(a) => current' = current /\ loop'[a].at # "resting"
    BY DEF Sleep, FallsAsleep, StartReset
  <2>8. SwitchSession(a) => current' = current /\ loop'[a].at # "resting"
    BY DEF SwitchSession
  <2>4. CASE ReadMaxId(a)
    <3>1. PICK m \in Ids \cup {None} :
            /\ IsMaxId(m, Mine(a))
            /\ loop' = [loop EXCEPT ![a] = IF m = None THEN AfterMark(a)
                                        ELSE [loop[a] EXCEPT !.at = "mark", !.max = m]]
      BY <2>4 DEF ReadMaxId
    <3>2. m # None
      <4>1. r \in Ids
        OBVIOUS
      <4>. QED BY <1>3, <3>1, <4>1 DEF IsMaxId, Ids, None
    <3>3. loop'[a] = [loop[a] EXCEPT !.at = "mark", !.max = m]
      BY <3>1, <3>2
    <3>4. loop'[a].at # "resting" /\ current' = current
      BY <2>4, <3>3 DEF ReadMaxId
    <3>. QED BY <2>1, <3>4
  <2>5. CASE OpenSession(a)
    <3>1. r <= done[s] \/ r <= mark[s]
      BY <1>0, <1>3, <2>5 DEF RowsOf, OpenSession
    <3>2. r \in Nat /\ done[s] \in Nat
      BY DEF Ids, None
    <3>. QED BY <1>0, <3>1, <3>2 DEF Seen
  <2>6. CASE ItemFails(a)
    <3>1. /\ loop[a].at # "resting" /\ cut' = cut \cup CutShort(a)
          /\ UNCHANGED <<asleep, killed, current>>
      BY <2>6 DEF ItemFails
    <3>2. CASE a \in asleep \cup killed
      BY <1>3, <3>1, <3>2 DEF CutShort, Seen
    <3>3. CASE a \notin asleep \cup killed
      BY <1>3, <3>1, <3>3 DEF Seen, StillAt, Mine
    <3>. QED BY <3>2, <3>3
  <2>9. CASE SleepReturns(a)
    BY <1>3, <2>9 DEF SleepReturns, Seen
  <2>. QED BY <2>1, <2>2, <2>3, <2>4, <2>5, <2>6, <2>7, <2>8, <2>9 DEF LoopMoves
<1>. QED BY <1>0, <1>2, <1>3 DEF Seen, StillAt, Mine

LEMMA AnnouncedBeside ==
  ASSUME MemoryTypeOK, AgentPlaces, Announced, NEW a \in Agents, BesideMoves(a),
         NEW s \in Sessions, NEW r \in (rows[s] \cap shown) \ setBack, r > done[s]
  PROVE  Seen(s, r)'
<1>0. /\ Seen(s, r) /\ TaskOf(a) /\ UNCHANGED <<mark, loop, current>> /\ cut \subseteq cut'
      /\ s[1] \in Agents
  BY BesideKeeps, SessionAgent DEF Announced, Seen, AgentPlaces
<1>1. CASE r <= mark[s] \/ s \in cut
  BY <1>0, <1>1 DEF Seen
<1>2. CASE StillAt(s) /\ s[1] # a
  <2>1. StillAt(s)'
    BY <1>0, <1>2, OtherAgents DEF StillAt, TaskMarking, Mine, AgentMoves
  <2>. QED BY <2>1 DEF Seen
<1>3. CASE StillAt(s) /\ s[1] = a /\ loop[a].at # "resting"
  BY <1>0, <1>3 DEF Seen, StillAt, Mine
<1>4. CASE StillAt(s) /\ s[1] = a /\ loop[a].at = "resting"
  <2>1. s = Mine(a) /\ Mine(a)' = Mine(a) /\ (TaskMarking(a) \/ a \notin asleep \cup killed)
    BY <1>0, <1>4 DEF StillAt, Mine
  <2>2. TaskMarking(a)' \/ a \notin (asleep \cup killed)' => Seen(s, r)'
    BY <1>0, <1>4, <2>1 DEF Seen, StillAt, Mine
  <2>. USE DEF TaskGoes, MemoryTypeOK
  <2>3. CASE Wake(a) \/ TaskStarts(a)
    BY <1>4, <2>2, <2>3 DEF Wake, TaskStarts, Woken
  <2>4. CASE Kill(a)
    BY <1>4, <2>1, <2>4 DEF Kill, LockFree, Seen
  <2>5. CASE TaskSleeps(a)
    BY <2>2, <2>5 DEF TaskSleeps, NoTask, TaskMarking
  <2>6. CASE TaskReturns(a)
    BY <2>1, <2>2, <2>6 DEF TaskReturns, TaskMarking
  <2>7. CASE TaskReadsMaxId(a)
    <3>1. PICK m \in Ids \cup {None} :
            /\ IsMaxId(m, Mine(a))
            /\ task'[a] = IF m = None THEN NoTask
                          ELSE [at |-> "mark", session |-> current[a], max |-> m]
      BY <2>7 DEF TaskReadsMaxId
    <3>2. r <= m /\ r \in Ids
      BY <2>1, <3>1 DEF IsMaxId
    <3>3. m # None
      BY <3>2 DEF Ids, None
    <3>. QED BY <2>2, <3>1, <3>3 DEF TaskMarking
  <2>8. CASE TaskFails(a)
    BY <2>1, <2>8 DEF TaskFails, Seen
  <2>. QED BY <2>3, <2>4, <2>5, <2>6, <2>7, <2>8 DEF BesideMoves
<1>. QED BY <1>0, <1>1, <1>2, <1>3, <1>4 DEF Seen

LEMMA AnnouncedTask ==
  ASSUME MemoryTypeOK, AgentPlaces, Announced, NEW a \in Agents, TaskMarks(a),
         NEW s \in Sessions, NEW r \in (rows[s] \cap shown) \ setBack, r > done[s]
  PROVE  Seen(s, r)'
<1>0. /\ Seen(s, r) /\ TaskOf(a) /\ UNCHANGED <<loop, current, asleep, killed, cut>>
      /\ task[a].at = "mark" /\ task' = [task EXCEPT ![a] = NoTask]
  BY DEF Announced, Seen, AgentPlaces, TaskMarks, TaskGoes, sessionVars
<1>1. r \in Nat /\ mark[s] \in Nat /\ mark'[s] \in Nat /\ mark[s] <= mark'[s]
  <2>1. r \in Nat /\ mark[s] \in Nat /\ rows[s] \subseteq Nat
    BY DEF MemoryTypeOK, Ids, None
  <2>. QED BY <2>1, NewMarks DEF Marks
<1>2. CASE r <= mark[s] \/ s \in cut
  BY <1>0, <1>1, <1>2 DEF Seen
<1>3. CASE StillAt(s) /\ (s # Mine(a) \/ loop[a].at # "resting")
  BY <1>0, <1>3 DEF Seen, StillAt, TaskMarking, Mine, MemoryTypeOK
<1>4. CASE s = Mine(a) /\ loop[a].at = "resting" /\ s \notin cut
  <2>1. <<a, task[a].session>> = Mine(a) /\ r <= task[a].max
    BY <1>0, <1>4 DEF TaskOf, Mine
  <2>2. task[a].max \in rows[Mine(a)] /\ mark' = Invalidated(Mine(a), task[a].max)
    BY <1>0, <2>1 DEF TaskOf, TaskMarks
  <2>3. task[a].max <= mark'[s]
    BY <1>4, <2>2, InvalidatedIs
  <2>4. task[a].max \in Nat
    BY <1>4, <2>2 DEF MemoryTypeOK, Ids
  <2>. QED BY <1>1, <2>1, <2>3, <2>4 DEF Seen
<1>. QED BY <1>0, <1>2, <1>3, <1>4 DEF Seen

LEMMA AnnouncedRestart ==
  ASSUME MemoryTypeOK, AgentPlaces, Announced, MemoryRestart,
         NEW s \in Sessions, NEW r \in (rows[s] \cap shown) \ setBack, r > done[s]
  PROVE  Seen(s, r)'
<1>. DEFINE a == s[1]
<1>0. /\ Seen(s, r) /\ a \in Agents /\ RowsOf(a) /\ PlaceOf(a) /\ Mine(a) \in Sessions
  BY SessionAgent DEF Announced, Seen, AgentPlaces
<1>1. /\ UNCHANGED <<mark, asleep, killed>> /\ current' = active
      /\ loop'[a] = IF a \in asleep \cup killed THEN Resting ELSE Step("turn")
      /\ cut' = cut \cup UNION {CutShort(b) : b \in asleep \cup killed}
  BY <1>0 DEF MemoryRestart
<1>2. CASE r <= mark[s] \/ s \in cut
  BY <1>1, <1>2 DEF Seen
<1>3. CASE StillAt(s) /\ a \in asleep \cup killed
  <2>1. s \in CutShort(a)
    BY <1>3 DEF StillAt, CutShort
  <2>. QED BY <1>1, <1>3, <2>1 DEF Seen
<1>4. CASE StillAt(s) /\ a \notin asleep \cup killed
  <2>1. active[a] = current[a]
    <3>1. rows[<<a, current[a]>>] # {} /\ current[a] \in 1..MaxSessions
      BY <1>0, <1>4 DEF StillAt, Mine, MemoryTypeOK
    <3>2. ~(current[a] > active[a])
      BY <1>0, <3>1 DEF RowsOf
    <3>3. active[a] <= current[a] /\ active[a] \in Nat /\ current[a] \in Nat
      BY <1>0, <3>1 DEF PlaceOf, MemoryTypeOK
    <3>. QED BY <3>2, <3>3
  <2>2. Mine(a)' = Mine(a)
    BY <1>1, <2>1 DEF Mine
  <2>. QED BY <1>1, <1>4, <2>2 DEF Seen, StillAt, Step, Resting
<1>. QED BY <1>0, <1>2, <1>3, <1>4 DEF Seen

LEMMA AnnouncedStep ==
  ASSUME MemoryTypeOK, IdsInOrder, AgentPlaces, BatchHolds, WorkerPlaces, Announced,
         [MemoryNext]_memoryVars
  PROVE  Announced'
<1>. SUFFICES ASSUME NEW s \in Sessions, NEW r \in (rows'[s] \cap shown') \ setBack',
                     r > done'[s]
              PROVE  Seen(s, r)'
  BY DEF Announced, Seen
<1>0. \A u \in Sessions : \A v \in (rows[u] \cap shown) \ setBack : v > done[u] => Seen(u, v)
  BY DEF Announced, Seen
<1>1. ASSUME NEW a \in Agents, AgentMoves(a) PROVE Seen(s, r)'
  BY <1>1, AnnouncedLoop, AnnouncedBeside, Movements DEF AgentMoves, historyVars, workerVars
<1>2. ASSUME NEW a \in Agents, Mark(a) PROVE Seen(s, r)'
  <2>1. UNCHANGED <<rows, shown, done, setBack>>
    BY <1>2, NewMarks DEF Marks, historyVars, workerVars
  <2>2. CASE s = Mine(a)
    BY <1>2, <2>1, <2>2, NewMark DEF Seen
  <2>3. CASE s # Mine(a)
    <3>1. mark'[s] = mark[s] /\ (s \in cut => s \in cut')
      BY <1>2, <2>3, NewMark DEF Mark
    <3>2. StillAt(s) => s[1] # a
      BY <2>3 DEF StillAt
    <3>3. StillAt(s) => StillAt(s)'
      BY <1>2, <3>2, SessionAgent, OtherAgents DEF StillAt, TaskMarking, Mine, Marks
    <3>. QED BY <1>0, <2>1, <3>1, <3>3 DEF Seen
  <2>. QED BY <2>2, <2>3
<1>3. ASSUME NEW a \in Agents, Say(a) \/ RunCode(a) PROVE Seen(s, r)'
  <2>1. UNCHANGED <<mark, done, current, active, loop, task, asleep, killed, cut, setBack>>
    BY <1>3, Appending DEF agentVars, sessionVars, workerVars
  <2>2. Seen(s, r)' <=> Seen(s, r)
    BY <2>1 DEF Seen, StillAt, TaskMarking, Mine
  <2>3. CASE r \in rows[s] \cap shown
    BY <1>0, <2>1, <2>2, <2>3
  <2>4. CASE s = Target(a) /\ loop[a].at = "turn"
    <3>1. s = Mine(a) \/ s \in cut
      BY <2>4 DEF AgentPlaces, PlaceOf, Target, Mine
    <3>2. s = Mine(a) => StillAt(s)
      BY <2>4 DEF StillAt, Mine
    <3>. QED BY <2>2, <3>1, <3>2 DEF Seen
  <2>. QED BY <1>3, <2>3, <2>4, NewRecord
<1>4. CASE MarkProcessed
  <2>1. /\ UNCHANGED <<rows, shown, cut, current, loop, task, asleep, killed>>
        /\ setBack \subseteq setBack'
    BY <1>4, Cleared DEF historyVars, agentVars, sessionVars
  <2>2. StillAt(s)' <=> StillAt(s)
    BY <2>1 DEF StillAt, TaskMarking, Mine
  <2>3. CASE mark'[s] = mark[s] /\ done'[s] = done[s]
    BY <1>0, <2>1, <2>2, <2>3 DEF Seen
  <2>4. CASE s = This.session /\ mark[s] = This.mark /\ done'[s] = worker.upTo
    <3>1. This.mark \in Ids /\ worker.upTo >= This.mark /\ worker.upTo \in rows[s]
      BY <1>4, <2>4, Cleared DEF WorkerPlaces, Listed
    <3>2. /\ r \in Nat /\ worker.upTo \in Nat /\ mark[s] \in Nat /\ done[s] \in Nat
          /\ mark[s] # None
      <4>1. rows[s] \subseteq Nat /\ done[s] \in Nat
        BY DEF MemoryTypeOK, Ids, None
      <4>2. mark[s] \in Nat /\ mark[s] # None
        BY <2>4, <3>1 DEF Ids, None
      <4>. QED BY <2>1, <3>1, <4>1, <4>2
    <3>3. r > mark[s]
      BY <2>4, <3>1, <3>2
    <3>4. r > done[s]
      BY <1>4, <2>1, <3>2, Cleared
    <3>5. StillAt(s) \/ s \in cut
      BY <1>0, <2>1, <3>2, <3>3, <3>4 DEF Seen
    <3>. QED BY <2>1, <2>2, <3>5 DEF Seen
  <2>. QED BY <1>4, <2>3, <2>4, Cleared
<1>5. ASSUME UNCHANGED <<historyVars, mark, done, setBack, agentVars>> PROVE Seen(s, r)'
  BY <1>0, <1>5 DEF Seen, StillAt, TaskMarking, Mine, historyVars, agentVars, sessionVars
<1>6. CASE Tick \/ Read \/ Post \/ ReadNewMaxId \/ TickFails
  BY <1>5, <1>6 DEF Tick, Read, Post, ReadNewMaxId, TickFails
<1>7. CASE UNCHANGED memoryVars
  BY <1>5, <1>7 DEF memoryVars, workerVars
<1>8. CASE MemoryRestart
  <2>1. UNCHANGED <<rows, shown, done, setBack>>
    BY <1>8 DEF MemoryRestart, historyVars
  <2>. QED BY <1>8, <2>1, AnnouncedRestart
<1>9. ASSUME NEW a \in Agents, TaskMarks(a) PROVE Seen(s, r)'
  BY <1>9, AnnouncedTask, NewMarks DEF Marks, historyVars, workerVars
<1>. QED BY <1>1, <1>2, <1>3, <1>4, <1>6, <1>7, <1>8, <1>9, StepKinds DEF WorkerStep, Marks

-----------------------------------------------------------------------------
(* The worker's batch.                                                     *)

LEMMA ThisListed ==
  ASSUME MemoryTypeOK, BatchHolds, worker.at # "waiting"
  PROVE  /\ This \in Listed /\ This.session \in Sessions
         /\ This.mark \in rows[This.session] /\ This.mark \in Ids
         /\ This.done = done[This.session]
<1>1. worker.batch \in Seq(Listed) /\ worker.batch # << >>
  BY DEF BatchHolds, MemoryTypeOK
<1>2. This \in Listed /\ 1 \in 1..Len(worker.batch) /\ This = worker.batch[1]
  BY <1>1, TailFacts DEF This
<1>3. This.session \in Sessions /\ This.mark \in Ids
  BY <1>2 DEF Listed
<1>. QED BY <1>2, <1>3 DEF BatchHolds

ItemHolds(b, i) ==
  /\ b[i].mark \in rows[b[i].session]
  /\ b[i].done = done[b[i].session]
  /\ \A j \in 1..Len(b) : b[i].session = b[j].session => i = j

LEMMA BatchAgain ==
  ASSUME MemoryTypeOK, BatchHolds, UNCHANGED <<done, worker>>,
         \A s \in Sessions : rows[s] \subseteq rows'[s]
  PROVE  BatchHolds'
<1>1. ASSUME NEW i \in 1..Len(worker.batch)
      PROVE  worker.batch[i].session \in Sessions
  <2>1. worker.batch \in Seq(Listed)
    BY DEF MemoryTypeOK
  <2>2. worker.batch[i] \in Listed
    BY <2>1
  <2>. QED BY <2>2 DEF Listed
<1>. QED BY <1>1 DEF BatchHolds

LEMMA BatchTick ==
  ASSUME MemoryTypeOK, IdsInOrder, Tick
  PROVE  BatchHolds'
<1>1. PICK b \in Batches : IsBatch(b) /\ worker' = NextSession(b)
  BY DEF Tick
<1>2. UNCHANGED <<rows, done>>
  BY DEF Tick, historyVars
<1>3. b \in Seq(Listed)
  BY BatchType
<1>4. worker'.batch = b /\ (worker'.at # "waiting" => b # << >>)
  BY <1>1 DEF NextSession, AtWork, Waiting
<1>5. ASSUME NEW i \in 1..Len(b) PROVE ItemHolds(b, i)
  <2>1. b[i].session \in Invalid /\ b[i] = Row(b[i].session)
    BY <1>1 DEF IsBatch
  <2>2. b[i].mark = mark[b[i].session] /\ b[i].done = done[b[i].session]
    BY <2>1 DEF Row
  <2>3. b[i].mark \in rows[b[i].session]
    BY <2>1, <2>2 DEF Invalid, IdsInOrder
  <2>4. ASSUME NEW j \in 1..Len(b), b[i].session = b[j].session PROVE i = j
    <3>1. i \in Nat /\ j \in Nat
      OBVIOUS
    <3>2. ~(i < j) /\ ~(j < i)
      BY <1>1, <2>4 DEF IsBatch
    <3>. QED BY <3>1, <3>2
  <2>. QED BY <2>2, <2>3, <2>4 DEF ItemHolds
<1>. QED BY <1>2, <1>4, <1>5 DEF BatchHolds, ItemHolds

LEMMA BatchProcessed ==
  ASSUME MemoryTypeOK, BatchHolds, MarkProcessed
  PROVE  BatchHolds'
<1>. DEFINE b == worker.batch
            c == Tail(worker.batch)
<1>1. b \in Seq(Listed) /\ b # << >> /\ This = b[1]
  BY DEF MarkProcessed, BatchHolds, MemoryTypeOK, This
<1>2. /\ worker'.batch = c /\ (worker'.at # "waiting" => c # << >>)
      /\ UNCHANGED rows
  BY DEF MarkProcessed, NextSession, AtWork, Waiting, historyVars
<1>3. ASSUME NEW i \in 1..Len(c)
      PROVE  i + 1 \in 1..Len(b) /\ c[i] = b[i + 1] /\ i + 1 # 1 /\ 1 \in 1..Len(b)
  BY <1>1, TailFacts
<1>4. ASSUME NEW i \in 1..Len(c)
      PROVE  /\ c[i].mark \in rows[c[i].session]
             /\ c[i].done = done'[c[i].session]
  <2>1. c[i].session # This.session
    BY <1>1, <1>3 DEF BatchHolds
  <2>2. c[i].session \in Sessions
    <3>1. c[i] \in Listed
      BY <1>1, <1>3
    <3>. QED BY <3>1 DEF Listed
  <2>3. done'[c[i].session] = done[c[i].session]
    BY <2>1, <2>2, Cleared
  <2>. QED BY <1>3, <2>3 DEF BatchHolds
<1>5. ASSUME NEW i \in 1..Len(c), NEW j \in 1..Len(c), c[i].session = c[j].session
      PROVE  i = j
  <2>1. i + 1 = j + 1
    BY <1>3, <1>5 DEF BatchHolds
  <2>. QED BY <2>1
<1>. QED BY <1>2, <1>4, <1>5 DEF BatchHolds

LEMMA BatchStep ==
  ASSUME MemoryTypeOK, IdsInOrder, AgentPlaces, BatchHolds, [MemoryNext]_memoryVars
  PROVE  BatchHolds'
<1>1. ASSUME UNCHANGED <<rows, done>>, worker'.batch = worker.batch, worker.at # "waiting"
      PROVE  BatchHolds'
  BY <1>1 DEF BatchHolds
<1>2. CASE Read \/ Post \/ ReadNewMaxId
  BY <1>1, <1>2 DEF Read, Post, ReadNewMaxId, historyVars, MemoryTypeOK
<1>3. CASE TickFails \/ MemoryRestart
  <2>1. worker' = Waiting
    BY <1>3 DEF TickFails, MemoryRestart
  <2>. QED BY <2>1 DEF BatchHolds, Waiting
<1>4. ASSUME NEW a \in Agents, AgentMoves(a) \/ Marks(a) PROVE BatchHolds'
  BY <1>4, Movements, NewMarks, BatchAgain DEF historyVars, workerVars
<1>5. ASSUME NEW a \in Agents, Say(a) \/ RunCode(a) PROVE BatchHolds'
  BY <1>5, Appending, NewRecord, BatchAgain DEF workerVars
<1>6. CASE UNCHANGED memoryVars
  BY <1>6, BatchAgain DEF memoryVars, historyVars, workerVars
<1>. QED BY <1>2, <1>3, <1>4, <1>5, <1>6, BatchTick, BatchProcessed, StepKinds DEF WorkerStep

-----------------------------------------------------------------------------
(* What the worker knows of the session at hand.                           *)

LEMMA WorkerAppend ==
  ASSUME MemoryTypeOK, IdsInOrder, BatchHolds, WorkerPlaces,
         NEW a \in Agents, Say(a) \/ RunCode(a)
  PROVE  WorkerPlaces'
<1>0. UNCHANGED worker /\ This' = This
  BY Appending DEF workerVars, This
<1>1. CASE worker.at \in {"waiting", "next"}
  BY <1>0, <1>1 DEF WorkerPlaces
<1>2. CASE worker.at \notin {"waiting", "next"}
  <2>. DEFINE s == This.session
  <2>1. s \in Sessions /\ rows[s] \subseteq rows'[s] /\ This \in Listed
    BY <1>2, ThisListed, NewRecord
  <2>2. New(This) \subseteq New(This)'
    BY <1>0, <2>1 DEF New
  <2>3. ASSUME NEW r \in New(This)' \cap shown'
        PROVE  r \in New(This) \cap shown \/ (s = Target(a) /\ r = lastId + 1)
    <3>1. r \in rows'[s] \cap shown' /\ r > This.done
      BY <1>0, <2>3 DEF New
    <3>. QED BY <2>1, <3>1, NewRecord DEF New
  <2>4. CASE worker.at \in {"read", "posted"}
    <3>1. ASSUME NEW r \in New(This)' \cap shown'
          PROVE  r \in New(This) \cap shown \/ r \in late'
      <4>1. s = Target(a) => Underway(Target(a))
        BY <2>4 DEF Underway, This
      <4>2. s = Target(a) => lastId + 1 \in late'
        BY <4>1, Appending
      <4>. QED BY <2>3, <4>2
    <3>2. late \subseteq late' /\ routed' = routed
      BY Appending, NewRecord DEF workerVars
    <3>. QED BY <1>0, <2>2, <2>4, <3>1, <3>2 DEF WorkerPlaces, Handled
  <2>5. CASE worker.at \in {"dismiss", "clear"}
    <3>1. worker.upTo \in rows[s] /\ worker.upTo <= lastId /\ worker.upTo \in Nat
      BY <2>1, <2>5, NewRecord DEF WorkerPlaces, IdsInOrder, MemoryTypeOK
    <3>2. lastId + 1 > worker.upTo /\ ~(lastId + 1 <= worker.upTo)
      BY <3>1, NewRecord
    <3>3. worker.upTo \in rows'[s]
      BY <2>1, <3>1
    <3>4. late \subseteq late' /\ UNCHANGED <<routed, skipped>>
      BY Appending, NewRecord DEF workerVars
    <3>5. CASE worker.at = "clear"
      BY <1>0, <2>2, <2>3, <3>2, <3>3, <3>4, <3>5 DEF WorkerPlaces, Handled
    <3>6. CASE worker.at = "dismiss"
      <4>1. ASSUME This.session[1] \notin skipped, NEW r \in rows'[s] \cap shown', r > This.done
            PROVE  r > worker.upTo
        <5>1. r \in rows[s] \cap shown \/ r = lastId + 1
          BY <2>1, <4>1, NewRecord
        <5>. QED BY <3>2, <3>6, <4>1, <5>1 DEF WorkerPlaces
      <4>. QED BY <1>0, <3>3, <3>4, <3>6, <4>1 DEF WorkerPlaces
    <3>. QED BY <2>5, <3>5, <3>6
  <2>6. worker.at \in {"read", "posted", "dismiss", "clear"}
    BY <1>2 DEF MemoryTypeOK
  <2>. QED BY <2>4, <2>5, <2>6
<1>. QED BY <1>1, <1>2

LEMMA WorkerStepPlaces ==
  ASSUME MemoryTypeOK, IdsInOrder, BatchHolds, WorkerPlaces,
         WorkerStep \/ TickFails \/ MemoryRestart
  PROVE  WorkerPlaces'
<1>1. ASSUME worker'.at \in {"waiting", "next"}, worker'.seen = {} PROVE WorkerPlaces'
  BY <1>1 DEF WorkerPlaces
<1>2. CASE Tick
  BY <1>1, <1>2 DEF Tick, NextSession, AtWork, Waiting
<1>3. CASE MarkProcessed
  BY <1>1, <1>3 DEF MarkProcessed, NextSession, AtWork, Waiting
<1>4. CASE TickFails \/ MemoryRestart
  BY <1>1, <1>4 DEF TickFails, MemoryRestart, Waiting
<1>5. CASE Read
  <2>1. /\ worker.at = "next" /\ worker.seen = {} /\ UNCHANGED <<rows, shown, skipped>>
        /\ worker' = IF This.session[1] \in skipped \/ New(This) \cap shown = {}
                     THEN [worker EXCEPT !.at = "dismiss", !.upTo = This.mark]
                     ELSE [worker EXCEPT !.at = "read", !.seen = New(This)]
    BY <1>5 DEF Read, WorkerPlaces, historyVars
  <2>2. This.mark \in rows[This.session] /\ This.mark >= This.mark
    BY <2>1, ThisListed DEF Ids
  <2>3. CASE This.session[1] \in skipped \/ New(This) \cap shown = {}
    <3>1. /\ worker'.at = "dismiss" /\ worker'.upTo = This.mark /\ worker'.seen = {}
          /\ worker'.batch = worker.batch
      BY <2>1, <2>3 DEF MemoryTypeOK
    <3>2. This' = This
      BY <3>1 DEF This
    <3>3. \/ This.session[1] \in skipped
          \/ \A r \in rows[This.session] \cap shown : ~(r > This.done)
      BY <2>3 DEF New
    <3>. QED BY <2>1, <2>2, <3>1, <3>2, <3>3 DEF WorkerPlaces
  <2>4. CASE ~(This.session[1] \in skipped \/ New(This) \cap shown = {})
    <3>1. /\ worker'.at = "read" /\ worker'.seen = New(This)
          /\ worker'.batch = worker.batch
      BY <2>1, <2>4 DEF MemoryTypeOK
    <3>2. This' = This /\ New(This)' = New(This)
      BY <2>1, <3>1 DEF This, New
    <3>. QED BY <2>1, <3>1, <3>2 DEF WorkerPlaces
  <2>. QED BY <2>3, <2>4
<1>6. CASE Post
  <2>1. /\ worker.at = "read" /\ UNCHANGED <<rows, shown, late>>
        /\ worker'.at = "posted" /\ worker'.seen = worker.seen
        /\ worker'.batch = worker.batch
        /\ routed' = routed \cup (worker.seen \cap shown)
    BY <1>6 DEF Post, historyVars, MemoryTypeOK
  <2>2. This' = This /\ New(This)' = New(This)
    BY <2>1 DEF This, New
  <2>. QED BY <2>1, <2>2 DEF WorkerPlaces, Handled
<1>7. CASE ReadNewMaxId
  <2>1. PICK m \in Ids : IsMaxId(m, This.session)
                         /\ worker' = [worker EXCEPT !.at = "clear", !.upTo = m]
    BY <1>7 DEF ReadNewMaxId
  <2>2. /\ worker.at = "posted" /\ UNCHANGED <<rows, shown, late, routed>>
        /\ worker'.at = "clear" /\ worker'.seen = worker.seen /\ worker'.upTo = m
        /\ worker'.batch = worker.batch
    BY <1>7, <2>1 DEF ReadNewMaxId, historyVars, MemoryTypeOK
  <2>3. This' = This /\ New(This)' = New(This)
    BY <2>2 DEF This, New
  <2>4. m \in rows[This.session] /\ \A r \in rows[This.session] : r <= m
    BY <2>1 DEF IsMaxId, Ids, None
  <2>5. This.mark <= m /\ This.mark \in Nat /\ m \in Nat
    BY <2>2, <2>4, ThisListed DEF Ids
  <2>6. worker.seen \subseteq New(This) /\ New(This) \subseteq rows[This.session]
    BY <2>2 DEF WorkerPlaces, New
  <2>. QED BY <2>2, <2>3, <2>4, <2>5, <2>6 DEF WorkerPlaces, Handled
<1>. QED BY <1>2, <1>3, <1>4, <1>5, <1>6, <1>7 DEF WorkerStep

LEMMA WorkerPlacesStep ==
  ASSUME MemoryTypeOK, IdsInOrder, AgentPlaces, BatchHolds, WorkerPlaces,
         [MemoryNext]_memoryVars
  PROVE  WorkerPlaces'
<1>1. ASSUME UNCHANGED <<historyVars, worker, routed>> PROVE WorkerPlaces'
  BY <1>1 DEF WorkerPlaces, historyVars, This, New, Handled
<1>2. ASSUME NEW a \in Agents, AgentMoves(a) \/ Marks(a) PROVE WorkerPlaces'
  BY <1>1, <1>2, Movements, NewMarks DEF workerVars
<1>3. CASE UNCHANGED memoryVars
  BY <1>1, <1>3 DEF memoryVars, workerVars
<1>. QED BY <1>2, <1>3, WorkerAppend, WorkerStepPlaces, StepKinds

-----------------------------------------------------------------------------
(* What processed_until passes, and what is sent twice.                    *)

LEMMA Numbers ==
  ASSUME MemoryTypeOK, NEW s \in Sessions
  PROVE  /\ done[s] \in Nat /\ mark[s] \in Nat
         /\ \A r \in rows[s] : r \in Nat /\ r # 0
BY DEF MemoryTypeOK, Ids, None

LEMMA SkippedStep ==
  ASSUME MemoryTypeOK, IdsInOrder, BatchHolds, WorkerPlaces, AgentPlaces,
         SkippedOnlyInWindow, [MemoryNext]_memoryVars
  PROVE  SkippedOnlyInWindow'
<1>1. ASSUME UNCHANGED <<historyVars, done>>, routed \subseteq routed'
      PROVE  SkippedOnlyInWindow'
  BY <1>1 DEF SkippedOnlyInWindow, historyVars
<1>2. ASSUME NEW a \in Agents, AgentMoves(a) \/ Marks(a) PROVE SkippedOnlyInWindow'
  BY <1>1, <1>2, Movements, NewMarks DEF workerVars
<1>3. CASE Tick \/ Read \/ Post \/ ReadNewMaxId \/ TickFails \/ MemoryRestart
        \/ UNCHANGED memoryVars
  BY <1>1, <1>3 DEF Tick, Read, Post, ReadNewMaxId, TickFails, MemoryRestart, memoryVars,
    workerVars
<1>4. ASSUME NEW a \in Agents, Say(a) \/ RunCode(a) PROVE SkippedOnlyInWindow'
  <2>. SUFFICES ASSUME NEW s \in Sessions, s[1] \notin skipped',
                       NEW r \in rows'[s] \cap shown', r <= done'[s]
                PROVE  r \in routed' \cup late'
    BY DEF SkippedOnlyInWindow
  <2>1. UNCHANGED <<skipped, done, routed>>
    BY <1>4, Appending DEF workerVars
  <2>2. done[s] <= lastId
    <3>1. done[s] = 0 \/ done[s] \in rows[s]
      BY DEF IdsInOrder, None
    <3>. QED BY <1>4, <3>1, NewRecord DEF IdsInOrder
  <2>3. r # lastId + 1
    BY <1>4, <2>1, <2>2, Numbers, NewRecord
  <2>4. r \in rows[s] \cap shown
    BY <1>4, <2>3, NewRecord
  <2>. QED BY <1>4, <2>1, <2>4, NewRecord DEF SkippedOnlyInWindow
<1>5. CASE MarkProcessed
  <2>. SUFFICES ASSUME NEW s \in Sessions, s[1] \notin skipped,
                       NEW r \in rows[s] \cap shown, r <= done'[s]
                PROVE  r \in routed \cup late
    BY <1>5, Cleared DEF SkippedOnlyInWindow, historyVars
  <2>1. CASE r <= done[s]
    BY <2>1 DEF SkippedOnlyInWindow
  <2>2. CASE ~(r <= done[s])
    <3>1. s = This.session /\ done'[s] = worker.upTo
      BY <1>5, <2>2, Cleared
    <3>2. This.done = done[s]
      BY <1>5, <3>1, ThisListed DEF MarkProcessed
    <3>3. r \in New(This) \cap shown
      BY <2>2, <3>1, <3>2, Numbers DEF New
    <3>4. r <= worker.upTo /\ worker.upTo \in Nat /\ r \in Nat
      <4>1. worker.upTo \in rows[s]
        BY <1>5, <3>1, Cleared DEF WorkerPlaces
      <4>. QED BY <3>1, <4>1, Numbers
    <3>5. worker.at = "clear"
      <4>1. ~(r > worker.upTo) /\ r > This.done
        BY <3>3, <3>4 DEF New
      <4>. QED BY <1>5, <3>1, <4>1, Cleared DEF WorkerPlaces
    <3>. QED BY <3>3, <3>4, <3>5 DEF WorkerPlaces, Handled
  <2>. QED BY <2>1, <2>2
<1>. QED BY <1>2, <1>3, <1>4, <1>5, StepKinds DEF WorkerStep

LEMMA RoutedStep ==
  ASSUME MemoryTypeOK, IdsInOrder, BatchHolds, WorkerPlaces, AgentPlaces,
         RoutedTwice, [MemoryNext]_memoryVars
  PROVE  RoutedTwice'
<1>1. ASSUME UNCHANGED <<historyVars, done, worker, routed, unmarked, setBack>>
      PROVE  RoutedTwice'
  BY <1>1 DEF RoutedTwice, historyVars, This
<1>2. ASSUME NEW a \in Agents, AgentMoves(a) \/ Marks(a) PROVE RoutedTwice'
  BY <1>1, <1>2, Movements, NewMarks DEF workerVars
<1>3. CASE UNCHANGED memoryVars
  BY <1>1, <1>3 DEF memoryVars, workerVars
<1>4. ASSUME NEW a \in Agents, Say(a) \/ RunCode(a) PROVE RoutedTwice'
  <2>1. UNCHANGED <<done, worker, routed, unmarked, setBack>> /\ This' = This
    BY <1>4, Appending DEF workerVars, This
  <2>2. ASSUME NEW s \in Sessions, NEW r \in rows'[s] \cap shown', r \in routed
        PROVE  r \in rows[s] \cap shown
    <3>1. r \in shown /\ r \in Nat /\ r <= lastId
      <4>1. r \in shown
        BY <2>2 DEF RoutedTwice
      <4>. QED BY <4>1 DEF IdsInOrder, MemoryTypeOK, Ids
    <3>2. r # lastId + 1
      BY <1>4, <3>1, NewRecord
    <3>. QED BY <1>4, <3>2, NewRecord
  <2>3. routed' \subseteq shown'
    BY <1>4, <2>1, NewRecord DEF RoutedTwice
  <2>. QED BY <2>1, <2>2, <2>3 DEF RoutedTwice
<1>5. ASSUME UNCHANGED <<historyVars, done, routed, setBack>>, unmarked \cup Sent \subseteq unmarked'
      PROVE  RoutedTwice'
  BY <1>5 DEF RoutedTwice, historyVars, Sent
<1>6. CASE Tick \/ Read
  <2>1. worker.at \notin {"posted", "clear"}
    BY <1>6 DEF Tick, Read
  <2>. QED BY <1>5, <1>6, <2>1 DEF Tick, Read, Sent
<1>7. CASE TickFails \/ MemoryRestart
  BY <1>5, <1>7 DEF TickFails, MemoryRestart
<1>8. CASE Post
  <2>1. /\ worker.at = "read" /\ UNCHANGED <<rows, shown, done, unmarked, setBack>>
        /\ worker'.at = "posted" /\ worker'.seen = worker.seen /\ This' = This
        /\ routed' = routed \cup (worker.seen \cap shown)
    BY <1>8 DEF Post, historyVars, MemoryTypeOK, This
  <2>2. worker.seen \subseteq rows[This.session] /\ This.session \in Sessions
    BY <1>8, <2>1, ThisListed DEF WorkerPlaces, New
  <2>3. ASSUME NEW s \in Sessions, NEW r \in rows[s] \cap shown, r \in worker.seen
        PROVE  This.session = s
    BY <2>2, <2>3 DEF IdsInOrder
  <2>. QED BY <2>1, <2>3 DEF RoutedTwice
<1>9. CASE ReadNewMaxId
  <2>1. /\ worker.at = "posted" /\ UNCHANGED <<rows, shown, done, unmarked, routed, setBack>>
        /\ worker'.at = "clear" /\ worker'.seen = worker.seen /\ This' = This
    BY <1>9 DEF ReadNewMaxId, historyVars, MemoryTypeOK, This
  <2>. QED BY <2>1 DEF RoutedTwice
<1>10. CASE MarkProcessed
  <2>1. UNCHANGED <<rows, shown, routed>> /\ setBack \subseteq setBack'
    BY <1>10, Cleared DEF historyVars
  <2>2. ASSUME NEW s \in Sessions, NEW r \in rows[s] \cap shown \cap routed, r > done'[s],
               r \notin setBack'
        PROVE  r \in unmarked'
    <3>1. r > done[s] /\ r \notin setBack
      BY <1>10, <2>1, <2>2, Cleared, Numbers
    <3>2. \/ r \in unmarked
          \/ /\ worker.at \in {"posted", "clear"}
             /\ This.session = s /\ r \in worker.seen
      BY <2>2, <3>1 DEF RoutedTwice
    <3>3. CASE Unchanged(This)
      <4>1. r \in unmarked
        <5>1. SUFFICES ASSUME worker.at = "clear", This.session = s, r \in worker.seen
                       PROVE  FALSE
          BY <1>10, <3>2 DEF MarkProcessed
        <5>2. done'[s] = worker.upTo
          BY <1>10, <3>3, <5>1 DEF MarkProcessed, Clears, MemoryTypeOK
        <5>3. r <= worker.upTo /\ worker.upTo \in rows[s]
          BY <5>1 DEF WorkerPlaces
        <5>. QED BY <2>2, <5>2, <5>3, Numbers
      <4>. QED BY <1>10, <3>3, <4>1 DEF MarkProcessed
    <3>4. CASE ~Unchanged(This)
      BY <1>10, <3>2, <3>4 DEF MarkProcessed
    <3>. QED BY <3>3, <3>4
  <2>. QED BY <2>1, <2>2 DEF RoutedTwice
<1>. QED BY <1>2, <1>3, <1>4, <1>6, <1>7, <1>8, <1>9, <1>10, StepKinds DEF WorkerStep

-----------------------------------------------------------------------------
(* The theorems.                                                           *)

LEMMA MemoryInvInit == MemoryInit => MemoryInv
<1>. SUFFICES ASSUME MemoryInit PROVE MemoryInv
  OBVIOUS
<1>1. MemoryTypeOK
  <2>1. << >> \in Seq(Listed)
    OBVIOUS
  <2>. QED BY <2>1, MemoryAssumption DEF MemoryInit, MemoryTypeOK, Resting, NoTask, Waiting
<1>2. IdsInOrder /\ Announced /\ SkippedOnlyInWindow /\ RoutedTwice
  BY DEF MemoryInit, IdsInOrder, Announced, SkippedOnlyInWindow, RoutedTwice
<1>3. AgentPlaces
  BY DEF MemoryInit, AgentPlaces, PlaceOf, RowsOf, TaskOf, TaskMarking, Resting,
     NoTask, Sessions
<1>4. BatchHolds /\ WorkerPlaces
  BY DEF MemoryInit, BatchHolds, WorkerPlaces, Waiting
<1>. QED BY <1>1, <1>2, <1>3, <1>4 DEF MemoryInv

LEMMA MemoryInvStep == MemoryInv /\ [MemoryNext]_memoryVars => MemoryInv'
BY TypeStep, IdsStep, PlacesStep, AnnouncedStep, BatchStep, WorkerPlacesStep, SkippedStep,
   RoutedStep DEF MemoryInv

(* The inductive invariant holds in every behavior of the memory worker.   *)
THEOREM MemoryInvariant == MemorySpec => []MemoryInv
BY MemoryInvInit, MemoryInvStep, PTL DEF MemorySpec

(* memoryWorker.ts, agent.ts: every variable keeps its type.               *)
THEOREM MemoryTypeCorrect == MemorySpec => []MemoryTypeOK
BY MemoryInvariant, PTL DEF MemoryInv

(* sessionsRepository.ts, invalidate() and markProcessed(): a session with *)
(* a record that processed_until has not passed is marked, or its agent or *)
(* a task for it will mark it, unless the agent was seen to stop without   *)
(* the mark (agentSystem.ts:583, 592, a kill, a failure or a crash).       *)
THEOREM NoRecordForgotten == MemorySpec => []NothingUnannounced
<1>1. MemoryInv => NothingUnannounced
  <2>. SUFFICES ASSUME MemoryInv, NEW s \in Sessions, NewShown(s) # {}, mark[s] = None
                PROVE  StillAt(s) \/ s \in cut
    BY DEF NothingUnannounced
  <2>1. PICK r \in (rows[s] \cap shown) \ setBack : r > done[s]
    BY DEF NewShown
  <2>2. ~(r <= mark[s])
    BY Numbers DEF MemoryInv, None
  <2>. QED BY <2>1, <2>2 DEF MemoryInv, Announced
<1>. QED BY <1>1, MemoryInvariant, PTL

(* memoryWorker.ts:135-175: what processed_until passes was in a           *)
(* transcript or was said between the read and the second maxId().         *)
THEOREM WindowIsTheOnlyGap == MemorySpec => []SkippedOnlyInWindow
BY MemoryInvariant, PTL DEF MemoryInv

(* memoryWorker.ts:168-177: a transcript repeats a record only if the mark *)
(* was not cleared after the first, or processed_until went back.          *)
THEOREM SentTwiceOnlyIfUnmarked == MemorySpec => AgainOnlyIfUnmarked
<1>1. MemoryInv /\ [MemoryNext]_memoryVars =>
        [Post => worker.seen \cap shown \cap routed \subseteq unmarked \cup setBack]_memoryVars
  <2>. SUFFICES ASSUME MemoryInv, Post, NEW r \in worker.seen \cap shown \cap routed
                PROVE  r \in unmarked \cup setBack
    OBVIOUS
  <2>1. worker.at = "read"
    BY DEF Post
  <2>2. r \in rows[This.session] /\ r > done[This.session] /\ This.session \in Sessions
    BY <2>1, ThisListed DEF MemoryInv, WorkerPlaces, New
  <2>. QED BY <2>1, <2>2 DEF MemoryInv, RoutedTwice
<1>. QED BY <1>1, MemoryInvariant, PTL DEF MemorySpec, AgainOnlyIfUnmarked
=============================================================================
