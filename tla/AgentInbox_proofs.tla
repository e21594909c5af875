-------------------------- MODULE AgentInbox_proofs ---------------------------
(***************************************************************************)
(* Proofs about the items of an agent's inbox, for any number of callers   *)
(* and crashes: in which order they are handled and how often, that none   *)
(* is left when the agent sleeps, and that accepted ones last.  They are   *)
(* about an agent that is restored once at a time (OneEntry): entry 1.     *)
(***************************************************************************)
EXTENDS AgentSystem_proofs

Busy == {"taken", "recorded", "open", "computed", "handled", "idling", "scheduling", "answering"}
Queue == ent[1].queue
Current == ent[1].current
Newest == Queue[Len(Queue)]

(* Of two copies of items, those of the same id apart, one holds only      *)
(* parts that were posted before all the parts of the other.               *)
Before(a, b) == \A s \in a.parts, t \in b.parts : stamp[s] < stamp[t]
Ordered(a, b) == a.id = b.id \/ Before(a, b) \/ Before(b, a)

\* The copies in memory, and the rows but that of a merged message.
Queued == {Queue[k] : k \in DOMAIN Queue} \ {RestoreItem}
Taken == IF pc[1] \in Busy THEN {Current} \ {RestoreItem} ELSE {}
Noted == UNION {held[x] : x \in Actors}
Copies == Queued \cup Taken \cup Noted
Kept == {r \in rows : pc[r.id] # "mergeDelete"}

QueueLaws ==
  /\ \A i, j \in DOMAIN Queue : i < j => Before(Queue[i], Queue[j])
  /\ pc[1] \in Busy => /\ Current = RestoreItem \/ Fits(Current)
                       /\ \A i \in DOMAIN Queue : Before(Current, Queue[i])
  /\ pc[1] = "waiting" => Queue = << >>
  /\ \A x \in Actors : pc[x] \in {"replaying", "queueing"} => pc[1] = "off" /\ Queue = <<RestoreItem>>

RowLaws ==
  /\ \A a, b \in rows : Ordered(a, b)
  /\ \A a, b \in Kept \cup Copies : Ordered(a, b)
  /\ \A r \in rows : \/ pc[r.id] \in {"enqueueing", "mergeDelete"}
                     \/ Queue = << >> \/ Newest = RestoreItem
                     \/ r.id = Newest.id \/ Before(r, Newest)

PostFits(x) ==
  /\ \A s \in Sources : stamp[s] <= stamp[x]
  /\ \A r \in rows : x \in r.parts => r = Item(x)
  /\ \A i \in Copies : i.id # x /\ (pc[x] = "enqueueing" => x \notin i.parts)

PostLaws ==
  /\ \A x \in Sources : pc[x] \in {"enqueueing", "mergeDelete"} => PostFits(x)
  /\ \A x \in Actors : /\ held[x] # {} => pc[x] \in {"queueing", "mergeDelete", "mergeUpsert"}
                       /\ pc[x] = "queueing" => rows \subseteq held[x]
                       /\ pc[x] \in {"mergeDelete", "mergeUpsert"} =>
                            \A m \in held[x] : Queue = << >> \/ Newest = m

-----------------------------------------------------------------------------
(* The steps that move items.                                              *)

InboxSteps == {"replaying", "queueing", "enqueueing", "mergeDelete", "mergeUpsert"}
SamePosts(actors) ==
  \A y \in actors : pc[y] \in InboxSteps \/ pc'[y] \in InboxSteps => pc'[y] = pc[y]

Quiet ==
  /\ rows' \subseteq rows /\ UNCHANGED <<held, stamp, times, created>> /\ SameQueues(ent'[1], ent[1])
  /\ SamePosts(Actors)
  /\ \/ pc'[1] = pc[1]
     \/ /\ pc[1] = "off" /\ pc'[1] = "next"
        /\ \A y \in Actors : pc[y] \notin {"replaying", "queueing"}

Works ==
  /\ UNCHANGED <<rows, held, stamp, created>> /\ SameQueues(ent'[1], ent[1])
  /\ SamePosts(Actors)
  /\ pc[1] \in Busy /\ pc'[1] \in Busy \ {"taken"}
  /\ times' = [s \in Sources |-> IF pc[1] = "taken" /\ s \in Current.parts THEN times[s] + 1
                                 ELSE times[s]]

MovesItems ==
  \/ \E x \in Tasks : \/ RestoreRegister(x) /\ created' # created
                      \/ ReplayRead(x) \/ ReplayQueue(x) \/ InsertRow(x) \/ Enqueue(x)
                      \/ EnqueueMerged(x) \/ MergeDelete(x) \/ MergeUpsert(x) \/ Drain(x)
  \/ LoopNext(1) \/ Answer(1)
  \/ Restart

LEMMA InboxMoves ==
  ASSUME TypeInv, LocksFit, Roles, OneEntry, Next
  PROVE  Quiet \/ Works \/ MovesItems
<1>0. /\ pc \in [Actors -> Steps] /\ times \in [Sources -> Nat]
      /\ Tasks \subseteq Actors /\ Entries \subseteq Actors /\ Tasks \cap Entries = {}
      /\ 1 \in Entries /\ Pill \in Tasks
      /\ \A e \in Entries : pc[e] # "off" => e = 1
  BY Kinds, AtTheEntry DEF TypeInv, PlacesTyped, FlagsTyped
<1>k. CASE ChangesQueues
  <2>1. \A e \in Entries : LoopNext(e) \/ Answer(e) => e = 1 BY <1>0 DEF LoopNext, Answer
  <2> QED BY <1>k, <2>1 DEF ChangesQueues, MovesItems
<1> SUFFICES ASSUME KeepsQueues PROVE Quiet \/ Works \/ MovesItems
  BY <1>k, EntrySteps
<1>s. SameQueues(ent'[1], ent[1]) BY <1>0 DEF KeepsQueues
<1>g. ASSUME NEW x \in Actors, NEW step, Goes(x, step), x # 1, pc[x] \notin InboxSteps, step \notin InboxSteps
      PROVE  SamePosts(Actors) /\ pc'[1] = pc[1]
  BY <1>0, <1>g DEF Goes, SamePosts
<1>t. ASSUME NEW x \in Tasks PROVE x \in Actors /\ x # 1
  BY <1>0, <1>t
<1>1. ASSUME NEW x \in Tasks, Resolving(x) \/ Steer(x) \/ KillLoaded(x) \/ KillUnloaded(x)
      PROVE  Quiet
  <2>1. \E step \in {"rejected", "resolved", "restoring", "waking", "killing", "killWrite"} : Goes(x, step)
    BY <1>1 DEF Resolving, ResolveLoaded, RestoreRead, Steer, KillLoaded, KillUnloaded
  <2>2. pc[x] = "idle"
    BY <1>1 DEF Resolving, ResolveLoaded, RestoreRead, Steer, KillLoaded, KillUnloaded
  <2>3. SamePosts(Actors) /\ pc'[1] = pc[1] BY <1>g, <1>t, <2>1, <2>2 DEF InboxSteps
  <2>4. UNCHANGED <<rows, held, stamp, times, created>>
    BY <1>1 DEF Resolving, ResolveLoaded, RestoreRead, Steer, KillLoaded, KillUnloaded, durableVars,
                noted, ghostVars
  <2> QED BY <1>s, <2>3, <2>4 DEF Quiet
<1>2. CASE PillDue \/ PillFires \/ PillHandled
  <2>1. \E step \in {"due", "idle", "resolved", "killing", "done", "killWrite"} : Goes(Pill, step)
    BY <1>2 DEF PillDue, PillFires, PillHandled
  <2>2. pc[Pill] \in {"idle", "due", "posted"} BY <1>2 DEF PillDue, PillFires, PillHandled
  <2>3. SamePosts(Actors) /\ pc'[1] = pc[1] BY <1>0, <1>g, <1>t, <2>1, <2>2 DEF InboxSteps
  <2>4. UNCHANGED <<rows, held, stamp, times, created>>
    BY <1>2 DEF PillDue, PillFires, PillHandled, durableVars, noted, ghostVars
  <2> QED BY <1>s, <2>3, <2>4 DEF Quiet
<1>3. ASSUME NEW x \in Tasks, TaskStep(x), ~MovesItems
      PROVE  Quiet
  <2>1. CASE RestoreRegister(x)
    <3>1. created' = created BY <1>3, <2>1 DEF MovesItems
    <3>2. Goes(x, "rejected") /\ pc[x] = "restoring" /\ UNCHANGED <<rows, held, stamp, times>>
      <4>1. created \in Nat BY DEF TypeInv, PlacesTyped
      <4> QED BY <2>1, <3>1, <4>1 DEF RestoreRegister, durableVars, ghostVars
    <3>3. SamePosts(Actors) /\ pc'[1] = pc[1] BY <1>g, <1>t, <3>2 DEF InboxSteps
    <3> QED BY <1>s, <3>1, <3>2, <3>3 DEF Quiet
  <2>2. CASE EnterLock(x) \/ WakeAndInsert(x) \/ StartTask(x) \/ EndTask(x) \/ MarkDead(x)
             \/ KillWrite(x) \/ KillClear(x)
    <3>1. /\ pc[x] \in {"resolved", "waking", "executing", "executed", "killing", "killWrite", "killClear"}
          /\ \E step \in {"waking", "inserting", "executed", "handled", "done", "draining", "killClear"} :
               Goes(x, step)
      BY <2>2 DEF EnterLock, WakeAndInsert, StartTask, EndTask, MarkDead, KillWrite, KillClear
    <3>2. SamePosts(Actors) /\ pc'[1] = pc[1] BY <1>g, <1>t, <3>1 DEF InboxSteps
    <3>3. rows' \subseteq rows /\ UNCHANGED <<held, stamp, times, created>>
      BY <2>2 DEF EnterLock, WakeAndInsert, StartTask, EndTask, MarkDead, KillWrite, KillClear,
                  durableVars, noted, ghostVars
    <3> QED BY <1>s, <3>2, <3>3 DEF Quiet
  <2>3. CASE WakeOnly(x)
    <3>1. /\ pc[x] = "waking" /\ Granted(x) /\ at[x] = 1
          /\ UNCHANGED <<rows, held, stamp, times, created>>
      BY <1>t, <2>3, AtTheEntry DEF WakeOnly, Locking, ghostVars
    <3>2. \A y \in Actors : pc[y] \notin {"replaying", "queueing"}
      BY <1>t, <3>1, AloneUnderLock DEF Locking, Asking
    <3>3. \E step \in {"done", "executing"} :
            pc' = Started(1, [pc EXCEPT ![x] = step]) \/ pc' = [pc EXCEPT ![x] = step]
      BY <2>3, <3>1 DEF WakeOnly
    <3>4. SamePosts(Actors) /\ (pc'[1] = pc[1] \/ (pc[1] = "off" /\ pc'[1] = "next"))
      BY <1>0, <1>t, <3>1, <3>3 DEF Started, SamePosts, InboxSteps
    <3> QED BY <1>s, <3>1, <3>2, <3>4 DEF Quiet
  <2> QED BY <1>3, <2>1, <2>2, <2>3 DEF TaskStep, MovesItems
<1>4. ASSUME NEW e \in Entries, LoopStep(e), ~MovesItems
      PROVE  Works
  <2>0. e = 1 BY <1>0, <1>4 DEF LoopStep, LoopNext, HandleRestore, Record, OpenTurn, CloseTurn,
                                FinishTurn, FailTurn, InTurn, Answer
  <2>1. pc[1] \in Busy /\ \E step \in Busy \ {"taken"} : Goes(1, step)
    BY <1>4, <2>0 DEF LoopStep, HandleRestore, Record, OpenTurn, CloseTurn, FinishTurn, FailTurn,
                      InTurn, MovesItems, Busy
  <2>2. UNCHANGED <<rows, held, stamp, created>>
    BY <1>4, <2>0 DEF LoopStep, HandleRestore, Record, OpenTurn, CloseTurn, FinishTurn, FailTurn,
                      MovesItems, durableVars, noted
  <2>3. SamePosts(Actors) /\ pc'[1] \in Busy \ {"taken"}
    BY <1>0, <2>1 DEF Goes, SamePosts, Busy, InboxSteps
  <2>4. times' = [s \in Sources |-> IF pc[1] = "taken" /\ s \in Current.parts THEN times[s] + 1
                                    ELSE times[s]]
    <3>1. CASE Record(1) BY <3>1 DEF Record, Current
    <3>2. CASE ~Record(1)
      <4>1. UNCHANGED times
        BY <1>4, <2>0, <3>2 DEF LoopStep, HandleRestore, OpenTurn, CloseTurn, FinishTurn, FailTurn,
                                MovesItems, ghostVars
      <4>2. pc[1] = "taken" => Current.parts = {}
        BY <1>4, <2>0, <3>2 DEF LoopStep, HandleRestore, OpenTurn, CloseTurn, FinishTurn, FailTurn,
                                InTurn, MovesItems, Current, RestoreItem
      <4> QED BY <1>0, <4>1, <4>2
    <3> QED BY <3>1, <3>2
  <2> QED BY <1>s, <2>1, <2>2, <2>3, <2>4 DEF Works
<1>5. ASSUME NEW x \in Actors, SleepStep(x)
      PROVE  Quiet \/ Works
  <2>1. UNCHANGED <<rows, held, stamp, times, created>>
    BY <1>5 DEF SleepStep, SleepRequest, FallAsleep, SchedulePoisonPill, durableVars, noted, ghostVars
  <2>2. /\ pc[x] \in {"handled", "idling", "scheduling"}
        /\ \E step \in {"idling", "scheduling", AfterSleep(x)} : Goes(x, step)
    BY <1>5 DEF SleepStep, SleepRequest, FallAsleep, SchedulePoisonPill, WantsSleep
  <2>3. CASE x = 1
    <3>1. pc[1] \in Busy \ {"taken"} /\ pc'[1] \in Busy \ {"taken"} /\ SamePosts(Actors)
      BY <1>0, <2>2, <2>3 DEF Goes, AfterSleep, SamePosts, InboxSteps, Busy
    <3>2. times' = [s \in Sources |-> IF pc[1] = "taken" /\ s \in Current.parts THEN times[s] + 1
                                      ELSE times[s]]
      BY <1>0, <2>1, <3>1
    <3> QED BY <1>s, <2>1, <3>1, <3>2 DEF Works
  <2>4. CASE x # 1
    <3>1. SamePosts(Actors) /\ pc'[1] = pc[1]
      BY <1>g, <2>2, <2>4 DEF AfterSleep, InboxSteps
    <3> QED BY <1>s, <2>1, <3>1 DEF Quiet
  <2> QED BY <2>3, <2>4
<1> QED BY <1>1, <1>2, <1>3, <1>4, <1>5 DEF Next, MovesItems

-----------------------------------------------------------------------------
(* Items and their order.                                                  *)

LEMMA ItemsKnown ==
  ASSUME TypeInv
  PROVE  /\ \A s \in Stamped : s \in Sources /\ stamp[s] \in Nat
         /\ \A s \in Sources : stamp[s] \in Nat
         /\ \A s, t \in Stamped : stamp[s] = stamp[t] => s = t
         /\ \A r \in rows : r \in Items /\ Fits(r)
         /\ \A x \in Actors : \A r \in held[x] : r \in Items /\ Fits(r)
         /\ Queue \in Seq(QueueItems) /\ Current \in QueueItems \cup {NoItem}
         /\ \A k \in DOMAIN Queue : Queue[k] = RestoreItem \/ (Fits(Queue[k]) /\ Queue[k] \in Items)
         /\ \A k \in DOMAIN Queue : Queue[k].parts \subseteq Stamped
         /\ Current.parts \subseteq Stamped
         /\ \A s \in Sources : Item(s) \in Items /\ Item(s) # RestoreItem
<1>1. Cardinality(Sources) \in Nat /\ \A s \in Sources : s # Restore
  BY Kinds, FS_CardinalityType
<1>2. \A s \in Sources : stamp[s] \in Nat BY <1>1 DEF TypeInv, StampsTyped
<1>3. 1 \in Entries BY Kinds
<1>4. ent[1] \in EntryRecords /\ EntryFits(ent[1])
  BY <1>3 DEF TypeInv, EntriesTyped, RowsTyped, ItemsFit
<1>5. Queue \in Seq(QueueItems) /\ Current \in QueueItems \cup {NoItem}
  BY <1>4 DEF EntryRecords, Queue, Current
<1>6. ASSUME NEW k \in DOMAIN Queue
      PROVE  (Queue[k] = RestoreItem \/ (Fits(Queue[k]) /\ Queue[k] \in Items)) /\ Queue[k].parts \subseteq Stamped
  <2>1. Queue[k] \in QueueItems BY <1>5
  <2>2. Queue[k] = RestoreItem \/ Fits(Queue[k]) BY <1>4, <1>6 DEF EntryFits, Queue
  <2> QED BY <2>1, <2>2 DEF QueueItems, RestoreItem, Fits
<1>7. Current.parts \subseteq Stamped
  BY <1>4 DEF EntryFits, Current, NoItem, RestoreItem, Fits
<1>8. \A s \in Sources : Item(s) \in Items /\ Item(s) # RestoreItem
  BY <1>1 DEF Item, Items, RestoreItem
<1> QED BY <1>2, <1>5, <1>6, <1>7, <1>8 DEF TypeInv, StampsTyped, StampsFit, Stamped, RowsTyped, ItemsFit, RowsFit

LEMMA CopiesKnown ==
  ASSUME TypeInv, QueueLaws
  PROVE  \A i \in Copies : i \in Items /\ Fits(i)
<1>1. \A i \in Queued \cup Noted : i \in Items /\ Fits(i) BY ItemsKnown DEF Queued, Noted
<1>2. ASSUME NEW i \in Taken PROVE i \in Items /\ Fits(i)
  <2>1. pc[1] \in Busy /\ i = Current /\ i # RestoreItem BY DEF Taken
  <2>2. Fits(i) BY <2>1 DEF QueueLaws
  <2>3. i # NoItem BY <2>2 DEF Fits, NoItem
  <2> QED BY <2>1, <2>2, <2>3, ItemsKnown DEF QueueItems
<1> QED BY <1>1, <1>2 DEF Copies

LEMMA BeforeStays ==
  ASSUME TypeInv, Next
  PROVE  /\ \A a, b : a.parts \subseteq Stamped /\ b.parts \subseteq Stamped /\ Before(a, b) => Before(a, b)'
         /\ \A a, b : Fits(a) /\ Fits(b) /\ Ordered(a, b) => Ordered(a, b)'
<1>1. \A s \in Stamped : stamp'[s] = stamp[s] BY StampsKept
<1>2. ASSUME NEW a, NEW b, a.parts \subseteq Stamped, b.parts \subseteq Stamped, Before(a, b)
      PROVE  Before(a, b)'
  BY <1>1, <1>2 DEF Before
<1>3. ASSUME NEW a, NEW b, Fits(a), Fits(b), Ordered(a, b)
      PROVE  Ordered(a, b)'
  BY <1>2, <1>3 DEF Ordered, Fits
<1> QED BY <1>2, <1>3

(* Stamps decide: of two ordered items the one with the older id comes     *)
(* first, and items before each other share no part.                       *)
LEMMA OlderIdFirst ==
  ASSUME TypeInv, NEW a, NEW b, Fits(a), Fits(b), Ordered(a, b), stamp[a.id] < stamp[b.id]
  PROVE  Before(a, b)
<1>1. stamp[a.id] \in Nat /\ stamp[b.id] \in Nat BY ItemsKnown DEF Fits
<1>2. Before(b, a) => stamp[b.id] < stamp[a.id] BY DEF Before, Fits
<1> QED BY <1>1, <1>2 DEF Ordered

LEMMA SharesNone ==
  ASSUME TypeInv, NEW a, NEW b, a.parts \subseteq Stamped, Before(a, b)
  PROVE  \A s \in a.parts : s \notin b.parts
BY ItemsKnown DEF Before

\* What is put behind one item.
LEMMA Behind ==
  ASSUME NEW S, NEW first \in S, NEW q \in Seq(S)
  PROVE  /\ <<first>> \o q \in Seq(S)
         /\ DOMAIN (<<first>> \o q) = 1..(Len(q) + 1) /\ Len(<<first>> \o q) = Len(q) + 1
         /\ (<<first>> \o q)[1] = first
         /\ \A k \in 2..(Len(q) + 1) : (<<first>> \o q)[k] = q[k - 1] /\ k - 1 \in DOMAIN q
<1>1. <<first>> \in Seq(S) /\ Len(<<first>>) = 1 /\ <<first>>[1] = first OBVIOUS
<1>2. Len(q) \in Nat /\ DOMAIN q = 1..Len(q) OBVIOUS
<1>3. /\ <<first>> \o q \in Seq(S) /\ Len(<<first>> \o q) = 1 + Len(q)
      /\ \A k \in 1..(1 + Len(q)) : (<<first>> \o q)[k] = IF k <= 1 THEN <<first>>[k] ELSE q[k - 1]
  BY <1>1, ConcatProperties
<1>4. DOMAIN (<<first>> \o q) = 1..Len(<<first>> \o q) BY <1>3
<1> QED BY <1>1, <1>2, <1>3, <1>4

-----------------------------------------------------------------------------
(* The queue: each item in it was posted before the ones behind it, and    *)
(* the one the loop has taken before all of them.                          *)

InboxLaws == QueueLaws /\ RowLaws /\ PostLaws

LEMMA QueueLawsNext ==
  ASSUME NEW q, NEW c, q = Queue', c = Current',
         \A i, j \in DOMAIN q : i < j => Before(q[i], q[j])',
         pc'[1] \in Busy => (c = RestoreItem \/ Fits(c)') /\ \A i \in DOMAIN q : Before(c, q[i])',
         pc'[1] = "waiting" => q = << >>,
         \A x \in Actors : pc'[x] \in {"replaying", "queueing"} => pc'[1] = "off" /\ q = <<RestoreItem>>
  PROVE  QueueLaws'
BY DEF QueueLaws, Before, Fits, Stamped

\* Rows that are queued behind the restore item.
QueuesRows(q, items) ==
  /\ q \in Seq(QueueItems) /\ q # << >> /\ q[1] = RestoreItem /\ 1 \in DOMAIN q
  /\ \A k \in DOMAIN q \ {1} : q[k] \in items
  /\ \A i \in items : \E k \in DOMAIN q \ {1} : q[k] = i
  /\ \A i, j \in DOMAIN q : i < j => Before(q[i], q[j])

LEMMA SortedQueue ==
  ASSUME TypeInv, NEW items \in SUBSET Items, RowsFit(items), \A a, b \in items : Ordered(a, b),
         NEW q, q = <<RestoreItem>> \o ByStamp(items)
  PROVE  QueuesRows(q, items)
<1>1. PICK s : s = ByStamp(items) OBVIOUS
<1>2. /\ s \in Seq(items) /\ \A i \in items : \E k \in DOMAIN s : s[k] = i
      /\ \A k, l \in DOMAIN s : k < l => stamp[s[k].id] < stamp[s[l].id]
  BY <1>1, RowsSorted DEF TypeInv, StampsTyped
<1>3. s \in Seq(QueueItems) /\ RestoreItem \in QueueItems
  BY <1>2 DEF QueueItems
<1>4. /\ q \in Seq(QueueItems) /\ q[1] = RestoreItem
      /\ DOMAIN q = 1..(Len(s) + 1) /\ Len(s) \in Nat /\ DOMAIN s = 1..Len(s)
      /\ \A k \in 2..(Len(s) + 1) : q[k] = s[k - 1] /\ k - 1 \in DOMAIN s
  BY <1>1, <1>3, Behind
<1>5. \A k \in DOMAIN q \ {1} : k \in 2..(Len(s) + 1) BY <1>4
<1>6. \A k \in DOMAIN q \ {1} : q[k] \in items BY <1>2, <1>4, <1>5
<1>7. ASSUME NEW i \in items PROVE \E k \in DOMAIN q \ {1} : q[k] = i
  <2>1. PICK k \in DOMAIN s : s[k] = i BY <1>2
  <2>2. k + 1 \in DOMAIN q \ {1} /\ (k + 1) - 1 = k BY <1>4
  <2> QED BY <1>4, <1>5, <2>1, <2>2
<1>8. ASSUME NEW i \in DOMAIN q, NEW j \in DOMAIN q, i < j PROVE Before(q[i], q[j])
  <2>1. CASE i = 1 BY <1>4, <2>1 DEF Before, RestoreItem
  <2>2. CASE i # 1
    <3>1. i \in 2..(Len(s) + 1) /\ j \in 2..(Len(s) + 1) BY <1>4, <1>8, <2>2
    <3>2. stamp[q[i].id] < stamp[q[j].id]
      <4>1. i - 1 < j - 1 BY <1>8, <3>1
      <4> QED BY <1>2, <1>4, <3>1, <4>1
    <3>3. q[i] \in items /\ q[j] \in items BY <1>6, <3>1, <1>4, <1>8
    <3>4. Fits(q[i]) /\ Fits(q[j]) /\ Ordered(q[i], q[j]) BY <3>3 DEF RowsFit
    <3> QED BY <3>2, <3>4, OlderIdFirst
  <2> QED BY <2>1, <2>2
<1> QED BY <1>4, <1>6, <1>7, <1>8 DEF QueuesRows

\* Steps that leave the queue and the item the loop has taken alone.
LEMMA QueueStays ==
  ASSUME TypeInv, QueueLaws, Next, SameQueues(ent'[1], ent[1]),
         pc'[1] \in Busy => pc[1] \in Busy,
         pc'[1] = "waiting" => pc[1] = "waiting",
         \A x \in Actors : pc'[x] \in {"replaying", "queueing"} =>
           pc[x] \in {"replaying", "queueing"} /\ pc'[1] = pc[1]
  PROVE  QueueLaws'
<1>1. PICK q, c : q = Queue /\ c = Current OBVIOUS
<1>2. q = Queue' /\ c = Current' BY <1>1 DEF SameQueues, Queue, Current
<1>3. \A i \in DOMAIN q : q[i].parts \subseteq Stamped BY <1>1, ItemsKnown
<1>4. c.parts \subseteq Stamped BY <1>1, ItemsKnown
<1>5. \A i, j \in DOMAIN q : i < j => Before(q[i], q[j])'
  BY <1>1, <1>3, BeforeStays DEF QueueLaws
<1>6. \A i \in DOMAIN q : Before(c, q[i]) => Before(c, q[i])'
  BY <1>1, <1>3, <1>4, BeforeStays
<1>7. Fits(c) => Fits(c)'
  BY StampsKept, FitsOn
<1>8. pc'[1] \in Busy => (c = RestoreItem \/ Fits(c)') /\ \A i \in DOMAIN q : Before(c, q[i])'
  BY <1>1, <1>6, <1>7 DEF QueueLaws
<1>9. pc'[1] = "waiting" => q = << >> BY <1>1 DEF QueueLaws
<1>10. \A x \in Actors : pc'[x] \in {"replaying", "queueing"} => pc'[1] = "off" /\ q = <<RestoreItem>>
  BY <1>1 DEF QueueLaws
<1> QED BY <1>2, <1>5, <1>8, <1>9, <1>10, QueueLawsNext

\* Nobody else is about to put items in the queue.
LEMMA AloneAtInbox ==
  ASSUME TypeInv, LocksFit, OneEntry, NEW x \in Actors, pc[x] \in Locking \ Asking
  PROVE  /\ at[x] = 1 /\ created = 1
         /\ \A y \in Actors \ {x} : pc[y] \notin InboxSteps /\ pc[y] \notin Locking \ Asking
BY AloneUnderLock DEF Locking, Asking, InboxSteps

LEMMA StartPlaces ==
  ASSUME TypeInv, NEW x \in Tasks, NEW step \in Steps, pc' = Started(1, [pc EXCEPT ![x] = step])
  PROVE  /\ pc'[x] = step /\ pc'[1] = (IF pc[1] = "off" THEN "next" ELSE pc[1])
         /\ \A y \in Actors \ {x, 1} : pc'[y] = pc[y]
<1>1. pc \in [Actors -> Steps] /\ 1 \in Actors /\ x \in Actors /\ x # 1
  BY Kinds DEF TypeInv, PlacesTyped
<1> QED BY <1>1 DEF Started

LEMMA EnqueuePlaces ==
  ASSUME TypeInv, OneEntry, NEW x \in Tasks, Enqueue(x)
  PROVE  /\ at[x] = 1 /\ pc'[x] = "posted"
         /\ pc'[1] = (IF pc[1] = "waiting" THEN "taken" ELSE IF pc[1] = "off" THEN "next" ELSE pc[1])
         /\ \A y \in Actors \ {x, 1} : pc'[y] = pc[y]
<1>1. pc \in [Actors -> Steps] /\ 1 \in Actors /\ x \in Actors /\ x # 1
  BY Kinds DEF TypeInv, PlacesTyped
<1>2. at[x] = 1 BY <1>1, AtTheEntry DEF Enqueue, Locking
<1>3. PICK p : /\ p = [pc EXCEPT ![x] = "posted", ![1] = IF @ = "waiting" THEN "taken" ELSE @]
               /\ pc' = Started(1, p)
  BY <1>2 DEF Enqueue
<1>4. /\ p[x] = "posted" /\ p[1] = (IF pc[1] = "waiting" THEN "taken" ELSE pc[1])
      /\ \A y \in Actors \ {x, 1} : p[y] = pc[y]
      /\ p \in [Actors -> Steps \cup {"taken", "posted"}]
  BY <1>1, <1>3
<1>5. /\ pc'[1] = (IF p[1] = "off" THEN "next" ELSE p[1])
      /\ \A y \in Actors \ {1} : pc'[y] = p[y]
  BY <1>1, <1>3, <1>4 DEF Started
<1> QED BY <1>1, <1>2, <1>4, <1>5

LEMMA RegisterOnce ==
  ASSUME TypeInv, OneEntry, NEW x \in Tasks, RestoreRegister(x), created' # created, OneEntry'
  PROVE  /\ created = 0 /\ created' = 1 /\ pc[1] = "off" /\ pc'[1] = "off"
         /\ pc[x] = "restoring" /\ pc'[x] = "replaying" /\ \A y \in Actors \ {x} : pc'[y] = pc[y]
         /\ Queue' = <<RestoreItem>> /\ Current' = NoItem
         /\ UNCHANGED <<rows, held, stamp, times, outcome, life, restarts>>
<1>1. /\ pc \in [Actors -> Steps] /\ 1 \in Actors /\ x \in Actors /\ x # 1 /\ 1 \in Entries
  BY Kinds DEF TypeInv, PlacesTyped
<1>2. created \in {0, 1} /\ created' = created + 1 BY AtTheEntry, RegisterEffect
<1>3. created = 0 /\ created' = 1 BY <1>2 DEF OneEntry
<1>4. pc[1] = "off" BY <1>1, <1>3, AtTheEntry
<1>5. Goes(x, "replaying") BY RegisterEffect
<1>6. Queue' = <<RestoreItem>> /\ Current' = NoItem BY <1>3, RegisterEffect DEF Queue, Current
<1>7. pc[x] = "restoring" /\ UNCHANGED <<rows, held, stamp, times, outcome, life, restarts>>
  BY DEF RestoreRegister, durableVars, ghostVars
<1> QED BY <1>1, <1>3, <1>4, <1>5, <1>6, <1>7 DEF Goes

LEMMA RestartPlaces ==
  ASSUME Restart
  PROVE  /\ \A y \in Tasks : pc'[y] \in Ended \cup {"idle"}
         /\ pc'[1] \in {"next", "off"} /\ (pc'[1] = "next" <=> map' = 1)
         /\ \A y \in Actors : held'[y] = {}
         /\ UNCHANGED <<life, stamp, phase, times, outcome>> /\ restarts' = restarts + 1
         /\ created' = map' /\ map' = (IF life = "active" THEN 1 ELSE 0)
<1>1. Tasks \subseteq Actors /\ Tasks \cap Entries = {} /\ 1 \in Entries /\ Entries \subseteq Actors
  BY Kinds
<1>2. \A y \in Tasks : pc'[y] \in Ended \cup {"idle"} BY <1>1 DEF Restart, Ended
<1>3. pc'[1] = (IF 1 = map' THEN "next" ELSE "off") BY <1>1 DEF Restart
<1>4. \A y \in Actors : held'[y] = {} BY DEF Restart
<1>5. /\ UNCHANGED <<life, stamp, phase, times, outcome>> /\ restarts' = restarts + 1
      /\ created' = map' /\ map' = (IF life = "active" THEN 1 ELSE 0)
  BY DEF Restart, ghostVars
<1> QED BY <1>2, <1>3, <1>4, <1>5

\* x posts the newest of all items.
LEMMA NewestPost ==
  ASSUME TypeInv, QueueLaws, PostLaws, NEW x \in Sources, pc[x] = "enqueueing"
  PROVE  /\ x \in Stamped
         /\ \A s \in Stamped : s # x => stamp[s] < stamp[x]
         /\ \A i \in Copies : Before(i, Item(x))
         /\ \A k \in DOMAIN Queue : Before(Queue[k], Item(x))
         /\ pc[1] \in Busy => Before(Current, Item(x))
<1>1. PostFits(x) BY DEF PostLaws
<1>2. x \in Stamped BY DEF TypeInv, StampsTyped, StampsFit, Inserted, Stamped
<1>3. \A s \in Stamped : s # x => stamp[s] < stamp[x]
  BY <1>1, <1>2, ItemsKnown DEF PostFits, Stamped
<1>4. \A i \in Copies : Before(i, Item(x))
  BY <1>1, <1>3, CopiesKnown DEF PostFits, Before, Item, Fits
<1>5. Before(RestoreItem, Item(x)) BY DEF RestoreItem, Before
<1> QED BY <1>2, <1>3, <1>4, <1>5 DEF Copies, Queued, Taken

(* A message is merged into the newest item of the queue: what was before  *)
(* that item is before the merged one, and x is newer than all of it.      *)
LEMMA Merging ==
  ASSUME TypeInv, OneEntry, QueueLaws, PostLaws, NEW x \in Tasks, EnqueueMerged(x)
  PROVE  /\ x \in Sources /\ pc[x] = "enqueueing" /\ at[x] = 1 /\ Queue \in Seq(QueueItems)
         /\ Len(Queue) \in DOMAIN Queue /\ Newest \in Queued
         /\ \E merged \in Items :
              /\ merged.id = Newest.id /\ merged.parts = Newest.parts \cup {x}
              /\ Fits(merged)
              /\ Queue' = [Queue EXCEPT ![Len(Queue)] = merged] /\ Current' = Current
              /\ held' = [held EXCEPT ![x] = {merged}]
              /\ \A i : Before(i, Newest) /\ Before(i, Item(x)) => Before(i, merged)
         /\ Goes(x, "mergeDelete") /\ UNCHANGED <<rows, stamp, times, outcome, created, restarts>>
<1>1. pc[x] = "enqueueing" /\ at[x] = 1 /\ x \in Sources
  BY Kinds, AtTheEntry, EnqueueMergedEffect DEF EnqueueMerged, Locking
<1>3. MergedInto(1, x) BY <1>1, EnqueueMergedEffect
<1>4. PICK q, last, merged :
             /\ q \in Seq(QueueItems) /\ last \in Items /\ merged \in Items
             /\ q = Queue /\ Len(q) \in DOMAIN q /\ last = q[Len(q)]
             /\ merged.id = last.id /\ merged.parts = last.parts \cup {x}
             /\ Queue' = [q EXCEPT ![Len(q)] = merged]
             /\ held' = [held EXCEPT ![x] = {merged}]
  BY <1>3 DEF MergedInto, Queue
<1>5. Newest = last /\ Current' = Current
  BY <1>1, <1>4, EnqueueMergedEffect DEF Newest, Current
<1>6. last # RestoreItem BY <1>4, Kinds DEF Items, RestoreItem
<1>7. last \in Queued BY <1>4, <1>6 DEF Queued
<1>8. Fits(last) /\ x \in Stamped BY <1>1, <1>7, CopiesKnown, NewestPost DEF Copies
<1>10. Fits(merged) BY <1>4, <1>8 DEF Fits
<1>11. \A i : Before(i, last) /\ Before(i, Item(x)) => Before(i, merged)
  BY <1>4 DEF Before, Item
<1>12. Goes(x, "mergeDelete") /\ UNCHANGED <<rows, stamp, times, outcome, created, restarts>>
  BY DEF EnqueueMerged, durableVars, ghostVars
<1> QED BY <1>1, <1>4, <1>5, <1>7, <1>10, <1>11, <1>12

LEMMA QueueLawsKept ==
  ASSUME TypeInv, LocksFit, Roles, OneEntry, InboxLaws, Next, OneEntry'
  PROVE  QueueLaws'
<1>0. /\ pc \in [Actors -> Steps] /\ 1 \in Entries /\ 1 \in Actors
      /\ Tasks \subseteq Actors /\ Entries \subseteq Actors /\ Tasks \cap Entries = {}
      /\ \A x \in Actors : pc[x] \in Locking => at[x] = 1 /\ created = 1
      /\ QueueLaws /\ RowLaws /\ PostLaws
      /\ Before(RestoreItem, RestoreItem)'
  BY Kinds, AtTheEntry DEF TypeInv, PlacesTyped, InboxLaws, RestoreItem, Before
<1>i. \A e \in Entries : pc[e] \notin InboxSteps /\ pc'[e] \notin InboxSteps
  <2>1. TypeInv' => \A e \in Entries : pc'[e] \in LoopSteps BY DEF TypeInv, PlacesTyped, Placed
  <2>2. PlacesTyped' BY PlacesKept
  <2> QED BY <2>2 DEF TypeInv, PlacesTyped, Placed, LoopSteps, InboxSteps
<1>s. \A k \in DOMAIN Queue : Queue[k].parts \subseteq Stamped BY ItemsKnown
<1> USE DEF Busy
<1>1. CASE Quiet
  BY <1>0, <1>1, QueueStays DEF Quiet, SamePosts, InboxSteps
<1>2. CASE Works
  <2>1. \A x \in Actors : pc[x] \notin {"replaying", "queueing"} BY <1>0, <1>2 DEF Works, QueueLaws
  <2> QED BY <1>0, <1>2, <2>1, QueueStays DEF Works, SamePosts, InboxSteps
<1>3. ASSUME NEW x \in Tasks, RestoreRegister(x), created' # created
      PROVE  QueueLaws'
  <2>1. PICK q : q = <<RestoreItem>> OBVIOUS
  <2>2. \A i, j \in DOMAIN q : ~(i < j) BY <2>1
  <2> QED BY <1>3, <2>1, <2>2, RegisterOnce, QueueLawsNext
<1>4. ASSUME NEW x \in Tasks, ReplayRead(x) \/ InsertRow(x) \/ MergeDelete(x)
      PROVE  QueueLaws'
  <2>1. PICK step \in {"queueing", "enqueueing", "mergeUpsert"} :
               Goes(x, step) /\ (step = "queueing" => pc[x] = "replaying")
    BY <1>4 DEF ReplayRead, InsertRow, MergeDelete
  <2>2. UNCHANGED ent BY <1>4 DEF ReplayRead, InsertRow, MergeDelete
  <2> QED BY <1>0, <2>1, <2>2, QueueStays DEF Goes, SameQueues
<1>5. ASSUME NEW x \in Tasks, MergeUpsert(x)
      PROVE  QueueLaws'
  <2>1. /\ pc[x] \in Locking \ Asking /\ at[x] = 1 /\ ent' = Unlocked(ent, x)
        /\ pc' = Started(1, [pc EXCEPT ![x] = "posted"])
    BY <1>0, <1>5 DEF MergeUpsert, Locking, Asking
  <2>2. SameQueues(ent'[1], ent[1])
    BY <1>0, <2>1, Unlocking DEF TypeInv, EntriesTyped, SameBut, SameQueues
  <2>3. "posted" \in Steps BY DEF Steps, TaskSteps, Ended
  <2>4. /\ pc'[x] = "posted" /\ (pc'[1] = pc[1] \/ pc'[1] = "next")
        /\ \A y \in Actors \ {x, 1} : pc'[y] = pc[y]
    BY <2>1, <2>3, StartPlaces
  <2>5. \A y \in Actors : pc'[y] \notin {"replaying", "queueing"}
    <3>1. \A y \in Actors \ {x} : pc[y] \notin InboxSteps BY <1>0, <2>1, AloneAtInbox
    <3>2. pc'[1] \notin InboxSteps BY <1>0, <1>i
    <3> QED BY <2>4, <3>1, <3>2 DEF InboxSteps
  <2> QED BY <1>0, <2>2, <2>4, <2>5, QueueStays
<1>6. ASSUME NEW x \in Tasks, Drain(x)
      PROVE  QueueLaws'
  <2>1. /\ pc[x] \in Locking \ Asking /\ at[x] = 1 /\ Goes(x, "done")
    BY <1>0, <1>6 DEF Drain, Locking, Asking
  <2>2. PICK q, c : q = << >> /\ c = Current OBVIOUS
  <2>3. q = Queue' /\ c = Current' BY <1>6, <2>1, <2>2, DrainEffect DEF Queue, Current
  <2>4. \A y \in Actors : pc'[y] \notin {"replaying", "queueing"}
    BY <1>0, <2>1, AloneAtInbox DEF Goes, InboxSteps
  <2>5. pc'[1] = pc[1] BY <1>0, <2>1 DEF Goes
  <2>6. Fits(c) => Fits(c)' BY StampsKept, FitsOn
  <2>7. \A i, j \in DOMAIN q : i < j => Before(q[i], q[j])' BY <2>2
  <2>8. pc'[1] \in Busy => (c = RestoreItem \/ Fits(c)') /\ \A i \in DOMAIN q : Before(c, q[i])'
    BY <1>0, <2>2, <2>5, <2>6 DEF QueueLaws
  <2>9. pc'[1] = "waiting" => q = << >> BY <2>2
  <2> QED BY <2>3, <2>4, <2>7, <2>8, <2>9, QueueLawsNext
<1>7. CASE Answer(1)
  <2>1. Goes(1, "next") BY <1>7 DEF Answer
  <2>2. PICK q, c : q = Queue /\ c = NoItem OBVIOUS
  <2>3. q = Queue' /\ c = Current'
    <3>1. ent'[1].queue = ent[1].queue /\ ent'[1].current = NoItem BY <1>0, <1>7, AnswerEffect
    <3> QED BY <2>2, <3>1 DEF Queue, Current
  <2>4. \A i, j \in DOMAIN q : i < j => Before(q[i], q[j])'
    BY <1>0, <1>s, <2>2, BeforeStays DEF QueueLaws
  <2>5. pc'[1] = "next" /\ \A y \in Actors \ {1} : pc'[y] = pc[y] BY <1>0, <2>1 DEF Goes
  <2>6. \A y \in Actors : pc'[y] \notin {"replaying", "queueing"}
    BY <1>0, <1>7, <2>5 DEF QueueLaws, Answer
  <2> QED BY <2>3, <2>4, <2>5, <2>6, QueueLawsNext
<1>8. ASSUME NEW x \in Tasks, ReplayQueue(x)
      PROVE  QueueLaws'
  <2>1. /\ pc[x] = "queueing" /\ pc[x] \in Locking \ Asking /\ at[x] = 1 /\ UNCHANGED stamp
        /\ pc' = Started(1, [pc EXCEPT ![x] = "resolved"])
    BY <1>0, <1>8 DEF ReplayQueue, Locking, Asking
  <2>2. PICK items : items = held[x] \ StaleInFlight(held[x]) OBVIOUS
  <2>3. PICK q, c : q = <<RestoreItem>> \o ByStamp(items) /\ c = Current OBVIOUS
  <2>4. q = Queue' /\ c = Current'
    <3>1. /\ ent'[1].queue = ent[1].queue \o ByStamp(items)
          /\ ent'[1].current = ent[1].current
      BY <1>8, <2>1, <2>2, ReplayEffect
    <3>2. ent[1].queue = <<RestoreItem>> BY <1>0, <2>1 DEF QueueLaws, Queue
    <3> QED BY <2>3, <3>1, <3>2 DEF Queue, Current
  <2>5. items \in SUBSET Items /\ RowsFit(items) /\ items \subseteq Copies
    BY <1>0, <1>8, <2>2, ReplayEffect, RowsLess DEF Copies, Noted
  <2>6. \A i, j \in DOMAIN q : i < j => Before(q[i], q[j])
    <3>1. \A a, b \in items : Ordered(a, b) BY <1>0, <2>5 DEF RowLaws
    <3>2. QueuesRows(q, items) BY <2>3, <2>5, <3>1, SortedQueue
    <3> QED BY <3>2 DEF QueuesRows
  <2>7. \A i, j \in DOMAIN q : i < j => Before(q[i], q[j])'
    BY <2>1, <2>6 DEF Before
  <2>8. pc[1] = "off" /\ pc'[1] = "next" /\ \A y \in Actors : pc'[y] \notin {"replaying", "queueing"}
    <3>1. pc[1] = "off" BY <1>0, <2>1 DEF QueueLaws
    <3>2. \A y \in Actors \ {x} : pc[y] \notin {"replaying", "queueing"}
      BY <1>0, <2>1, AloneAtInbox DEF InboxSteps
    <3>3. pc'[x] = "resolved" /\ pc'[1] = "next" /\ \A y \in Actors \ {x, 1} : pc'[y] = pc[y]
      BY <2>1, <3>1, StartPlaces DEF Steps, TaskSteps
    <3> QED BY <3>1, <3>2, <3>3
  <2> QED BY <2>4, <2>7, <2>8, QueueLawsNext
<1>9. CASE Restart
  <2>1. PICK q, c : q = Queue' /\ c = Current' OBVIOUS
  <2>2. \A i, j \in DOMAIN q : i < j => Before(q[i], q[j])
    <3>1. CASE map' # 1 BY <1>0, <1>9, <2>1, <3>1, RestartEffect DEF Queue
    <3>2. CASE map' = 1
      <4>1. q = <<RestoreItem>> \o ByStamp(rows') BY <1>0, <1>9, <2>1, <3>2, RestartEffect DEF Queue
      <4>2. rows' \subseteq rows /\ rows' \in SUBSET Items /\ RowsFit(rows')
        BY <1>9, RestartEffect
      <4>3. PICK items : items = rows' OBVIOUS
      <4>4. \A a, b \in items : Ordered(a, b) BY <1>0, <4>2, <4>3 DEF RowLaws
      <4>5. items \in SUBSET Items /\ RowsFit(items) BY <4>2, <4>3
      <4>6. QueuesRows(q, items) BY <4>1, <4>3, <4>4, <4>5, SortedQueue
      <4> QED BY <4>6 DEF QueuesRows
    <3> QED BY <3>1, <3>2
  <2>3. \A i, j \in DOMAIN q : i < j => Before(q[i], q[j])'
    BY <1>9, <2>2 DEF Restart, Before
  <2>4. pc'[1] \in {"next", "off"} /\ \A y \in Actors : pc'[y] \notin {"replaying", "queueing"}
    BY <1>i, <1>9, RestartPlaces DEF Ended, Actors, InboxSteps
  <2> QED BY <2>1, <2>3, <2>4, QueueLawsNext
<1>10. CASE LoopNext(1)
  <2>1. \A y \in Actors : pc[y] \notin {"replaying", "queueing"} BY <1>0, <1>10 DEF LoopNext, QueueLaws
  <2>2. CASE Queue = << >>
    <3>1. UNCHANGED ent /\ Goes(1, "waiting") BY <1>0, <1>10, <2>2 DEF LoopNext, Queue
    <3>2. PICK q, c : q = << >> /\ c = Current' OBVIOUS
    <3>3. q = Queue' BY <2>2, <3>1, <3>2 DEF Queue
    <3>4. pc'[1] = "waiting" /\ \A y \in Actors : pc'[y] \notin {"replaying", "queueing"}
      BY <1>0, <2>1, <3>1 DEF Goes
    <3>5. \A i, j \in DOMAIN q : i < j => Before(q[i], q[j])' BY <3>2
    <3> QED BY <3>2, <3>3, <3>4, <3>5, QueueLawsNext
  <2>3. CASE Queue # << >>
    <3>1. PICK old : old = Queue OBVIOUS
    <3>2. PICK q, c : q = Tail(old) /\ c = old[1] OBVIOUS
    <3>3. q = Queue' /\ c = Current' /\ Goes(1, "taken") /\ old \in Seq(QueueItems) /\ old # << >>
      BY <1>0, <1>10, <2>3, <3>1, <3>2, LoopNextEffect DEF Queue, Current
    <3>4. /\ Len(old) \in Nat \ {0} /\ DOMAIN old = 1..Len(old) /\ DOMAIN q = 1..(Len(old) - 1)
          /\ \A k \in DOMAIN q : q[k] = old[k + 1] /\ k + 1 \in DOMAIN old
      BY <3>2, <3>3
    <3>5. \A i, j \in DOMAIN old : i < j => Before(old[i], old[j])'
      BY <1>0, <1>s, <3>1, BeforeStays DEF QueueLaws
    <3>6. ASSUME NEW i \in DOMAIN q, NEW j \in DOMAIN q, i < j PROVE Before(q[i], q[j])'
      <4>1. i + 1 < j + 1 /\ i + 1 \in DOMAIN old /\ j + 1 \in DOMAIN old BY <3>4, <3>6
      <4>2. PICK a, b : a = old[i + 1] /\ b = old[j + 1] OBVIOUS
      <4> QED BY <3>4, <3>5, <4>1
    <3>7. \A i \in DOMAIN q : Before(c, q[i])'
      <4>1. \A i \in DOMAIN q : 1 < i + 1 /\ 1 \in DOMAIN old /\ i + 1 \in DOMAIN old BY <3>4
      <4> QED BY <3>2, <3>4, <3>5, <4>1
    <3>8. c = RestoreItem \/ Fits(c)'
      <4>1. c = RestoreItem \/ Fits(c) BY <3>1, <3>2, <3>4, ItemsKnown
      <4> QED BY <4>1, StampsKept, FitsOn
    <3>9. pc'[1] = "taken" /\ \A y \in Actors : pc'[y] \notin {"replaying", "queueing"}
      BY <1>0, <2>1, <3>3 DEF Goes
    <3> QED BY <3>3, <3>6, <3>7, <3>8, <3>9, QueueLawsNext
  <2> QED BY <2>2, <2>3
<1>11. ASSUME NEW x \in Tasks, Enqueue(x)
      PROVE  QueueLaws'
  <2>0. /\ pc[x] = "enqueueing" /\ pc[x] \in Locking \ Asking /\ x \in Sources /\ UNCHANGED stamp
    BY <1>11, EnqueueEffect DEF Enqueue, Locking, Asking, durableVars
  <2>1. \A y \in Actors : pc'[y] \notin {"replaying", "queueing"}
    BY <1>0, <1>i, <1>11, <2>0, AloneAtInbox, EnqueuePlaces DEF InboxSteps
  <2>2. PICK item, old : item = Item(x) /\ old = Queue OBVIOUS
  <2>3. PICK q, c : q = Queue' /\ c = Current' OBVIOUS
  <2>4. \A i, j \in DOMAIN old : i < j => Before(old[i], old[j])'
    BY <1>0, <2>0, <2>2 DEF QueueLaws, Before
  <2>a. PICK cur : cur = Current OBVIOUS
  <2>5. (\A i \in DOMAIN old : Before(old[i], item)') /\ (pc[1] \in Busy => Before(cur, item)')
    <3>1. (\A i \in DOMAIN old : Before(old[i], item)) /\ (pc[1] \in Busy => Before(cur, item))
      BY <1>0, <2>0, <2>2, <2>a, NewestPost
    <3> QED BY <2>0, <3>1 DEF Before
  <2>6. Fits(item)'
    <3>1. Fits(item) BY <1>0, <2>0, <2>2, NewestPost DEF Fits, Item
    <3> QED BY <3>1, StampsKept, FitsOn
  <2>7. CASE pc[1] = "waiting"
    <3>1. q = << >> /\ c = item /\ pc'[1] = "taken"
      BY <1>0, <1>11, <2>2, <2>3, <2>7, EnqueueEffect, EnqueuePlaces DEF Queue, Current, QueueLaws
    <3> QED BY <2>1, <2>3, <2>6, <3>1, QueueLawsNext
  <2>8. CASE pc[1] # "waiting"
    <3>1. q = Append(old, item) /\ c = cur /\ (pc'[1] = pc[1] \/ pc'[1] = "next")
      BY <1>0, <1>11, <2>2, <2>3, <2>8, <2>a, EnqueueEffect, EnqueuePlaces DEF Queue, Current
    <3>2. /\ old \in Seq(QueueItems) /\ Len(old) \in Nat /\ DOMAIN old = 1..Len(old)
          /\ DOMAIN q = 1..(Len(old) + 1) /\ q[Len(old) + 1] = item
          /\ \A k \in DOMAIN old : q[k] = old[k]
      BY <2>2, <3>1, ItemsKnown
    <3>3. ASSUME NEW i \in DOMAIN q, NEW j \in DOMAIN q, i < j PROVE Before(q[i], q[j])'
      <4>1. i \in DOMAIN old BY <3>2, <3>3
      <4>2. CASE j \in DOMAIN old BY <2>4, <3>2, <3>3, <4>1, <4>2
      <4>3. CASE j \notin DOMAIN old
        <5>1. j = Len(old) + 1 BY <3>2, <4>3
        <5> QED BY <2>5, <3>2, <4>1, <5>1
      <4> QED BY <4>2, <4>3
    <3>4. pc'[1] \in Busy => (c = RestoreItem \/ Fits(c)') /\ \A i \in DOMAIN q : Before(c, q[i])'
      <4>1. SUFFICES ASSUME pc[1] \in Busy
                     PROVE  (c = RestoreItem \/ Fits(c)') /\ \A i \in DOMAIN q : Before(c, q[i])'
        BY <3>1
      <4>2. c = RestoreItem \/ Fits(c)' BY <1>0, <2>a, <3>1, <4>1, StampsKept, FitsOn DEF QueueLaws
      <4>3. \A i \in DOMAIN old : Before(c, old[i])'
        BY <1>0, <2>0, <2>2, <2>a, <3>1, <4>1 DEF QueueLaws, Before
      <4>4. Before(c, item)' BY <2>5, <3>1, <4>1
      <4>5. \A i \in DOMAIN q : i \in DOMAIN old \/ i = Len(old) + 1 BY <3>2
      <4> QED BY <3>2, <4>2, <4>3, <4>4, <4>5
    <3>5. pc'[1] # "waiting" BY <2>8, <3>1
    <3> QED BY <2>1, <2>3, <3>3, <3>4, <3>5, QueueLawsNext
  <2> QED BY <2>7, <2>8
<1>12. ASSUME NEW x \in Tasks, EnqueueMerged(x)
       PROVE  QueueLaws'
  <2>1. PICK old, cur : old = Queue /\ cur = Current OBVIOUS
  <2>2. PICK merged \in Items : /\ Fits(merged)
                               /\ Queue' = [old EXCEPT ![Len(old)] = merged] /\ Current' = cur
                               /\ \A i : Before(i, Newest) /\ Before(i, Item(x)) => Before(i, merged)
    BY <1>0, <1>12, <2>1, Merging
  <2>3. /\ x \in Sources /\ pc[x] = "enqueueing" /\ Goes(x, "mergeDelete") /\ UNCHANGED stamp
        /\ old \in Seq(QueueItems) /\ Len(old) \in DOMAIN old /\ Newest = old[Len(old)]
    BY <1>0, <1>12, <2>1, Merging DEF Newest
  <2>4. PICK q : q = Queue' OBVIOUS
  <2>5. /\ Len(old) \in Nat /\ DOMAIN q = DOMAIN old /\ DOMAIN old = 1..Len(old)
        /\ q[Len(old)] = merged /\ \A k \in DOMAIN old \ {Len(old)} : q[k] = old[k]
    BY <2>2, <2>3, <2>4
  <2>6. ASSUME NEW i \in DOMAIN q, NEW j \in DOMAIN q, i < j PROVE Before(q[i], q[j])
    <3>1. i \in DOMAIN old \ {Len(old)} BY <2>5, <2>6
    <3>2. CASE j = Len(old)
      <4>1. Before(old[i], Newest) BY <1>0, <2>1, <2>3, <2>5, <2>6, <3>1, <3>2 DEF QueueLaws
      <4>2. Before(old[i], Item(x)) BY <1>0, <2>1, <2>3, <3>1, NewestPost
      <4> QED BY <2>2, <2>5, <3>1, <3>2, <4>1, <4>2
    <3>3. CASE j # Len(old)
      <4>1. Before(old[i], old[j]) BY <1>0, <2>1, <2>5, <2>6 DEF QueueLaws
      <4> QED BY <2>5, <2>6, <3>1, <3>3, <4>1
    <3> QED BY <3>2, <3>3
  <2>7. \A i, j \in DOMAIN q : i < j => Before(q[i], q[j])'
    BY <2>3, <2>6 DEF Before
  <2>8. pc[1] \in Busy => (cur = RestoreItem \/ Fits(cur)) /\ \A i \in DOMAIN q : Before(cur, q[i])
    <3>1. SUFFICES ASSUME pc[1] \in Busy
                   PROVE  (cur = RestoreItem \/ Fits(cur)) /\ \A i \in DOMAIN q : Before(cur, q[i])
      OBVIOUS
    <3>2. cur = RestoreItem \/ Fits(cur) BY <1>0, <2>1, <3>1 DEF QueueLaws
    <3>3. \A i \in DOMAIN old : Before(cur, old[i]) BY <1>0, <2>1, <3>1 DEF QueueLaws
    <3>4. Before(cur, merged) BY <1>0, <2>1, <2>2, <2>3, <3>1, <3>3, NewestPost
    <3> QED BY <2>5, <3>2, <3>3, <3>4
  <2>9. pc'[1] = pc[1] /\ \A y \in Actors \ {x} : pc'[y] = pc[y] BY <1>0, <2>3 DEF Goes
  <2>10. pc'[1] \in Busy => (cur = RestoreItem \/ Fits(cur)') /\ \A i \in DOMAIN q : Before(cur, q[i])'
    <3>1. \A i \in DOMAIN q : Before(cur, q[i]) => Before(cur, q[i])' BY <2>3 DEF Before
    <3>2. Fits(cur) => Fits(cur)' BY StampsKept, FitsOn
    <3> QED BY <2>8, <2>9, <3>1, <3>2
  <2>11. pc[x] \in Locking \ Asking BY <2>3 DEF Locking, Asking
  <2>12. \A y \in Actors : pc'[y] \notin {"replaying", "queueing"}
    <3>1. \A y \in Actors \ {x} : pc'[y] \notin {"replaying", "queueing"}
      BY <1>0, <2>9, <2>11, AloneAtInbox DEF InboxSteps
    <3>2. pc'[x] = "mergeDelete" BY <1>0, <2>3 DEF Goes
    <3> QED BY <3>1, <3>2
  <2>13. pc'[1] = "waiting" => q = << >>
    <3>1. pc[1] = "waiting" => old = << >> BY <1>0, <2>1 DEF QueueLaws
    <3> QED BY <2>5, <2>9, <3>1
  <2> QED BY <2>2, <2>4, <2>7, <2>10, <2>12, <2>13, QueueLawsNext
<1>13. CASE MovesItems
  BY <1>3, <1>4, <1>5, <1>6, <1>7, <1>8, <1>9, <1>10, <1>11, <1>12, <1>13 DEF MovesItems
<1> QED BY <1>1, <1>2, <1>13, InboxMoves

-----------------------------------------------------------------------------
(* The rows, and the copies of them in memory.                             *)

LEMMA OrderStays ==
  ASSUME TypeInv, QueueLaws, RowLaws, Next
  PROVE  /\ \A a, b \in rows : Ordered(a, b)'
         /\ \A a, b \in Kept \cup Copies : Ordered(a, b)'
<1>1. \A r \in rows : Fits(r) BY ItemsKnown
<1>2. \A i \in Kept \cup Copies : Fits(i) BY <1>1, CopiesKnown DEF Kept
<1> QED BY <1>1, <1>2, BeforeStays DEF RowLaws

LEMMA RowLawsNext ==
  ASSUME NEW items, items = rows', NEW bodies, bodies = Kept' \cup Copies', NEW q, q = Queue',
         \A a, b \in items : Ordered(a, b)',
         \A a, b \in bodies : Ordered(a, b)',
         \A r \in items : \/ pc'[r.id] \in {"enqueueing", "mergeDelete"}
                          \/ q = << >> \/ q[Len(q)] = RestoreItem
                          \/ r.id = q[Len(q)].id \/ Before(r, q[Len(q)])'
  PROVE  RowLaws'
BY DEF RowLaws, Ordered, Before, Newest

\* Nothing new is written, read or queued.
LEMMA NothingNew ==
  ASSUME TypeInv, QueueLaws, RowLaws, Next,
         rows' \subseteq rows, Kept' \cup Copies' \subseteq Kept \cup Copies,
         Queue' = << >> \/ (Queue # << >> /\ Newest' = Newest),
         \A r \in rows' : pc[r.id] \in {"enqueueing", "mergeDelete"} => pc'[r.id] = pc[r.id]
  PROVE  RowLaws'
<1>1. PICK items, bodies, q : items = rows' /\ bodies = Kept' \cup Copies' /\ q = Queue' OBVIOUS
<1>2. (\A a, b \in items : Ordered(a, b)') /\ (\A a, b \in bodies : Ordered(a, b)')
  BY <1>1, OrderStays
<1>3. ASSUME NEW r \in items, pc'[r.id] \notin {"enqueueing", "mergeDelete"}, q # << >>
      PROVE  q[Len(q)] = RestoreItem \/ r.id = q[Len(q)].id \/ Before(r, q[Len(q)])'
  <2>1. PICK last : last = Newest OBVIOUS
  <2>2. q[Len(q)] = last /\ Queue # << >> BY <1>1, <1>3, <2>1 DEF Newest
  <2>3. r \in rows /\ Fits(r) BY <1>1, ItemsKnown
  <2>4. last = RestoreItem \/ r.id = last.id \/ Before(r, last)
    BY <1>1, <1>3, <2>1, <2>2, <2>3 DEF RowLaws
  <2>5. last.parts \subseteq Stamped
    <3>1. Queue \in Seq(QueueItems) /\ Queue # << >> BY <2>2, ItemsKnown
    <3>2. Len(Queue) \in DOMAIN Queue BY <3>1
    <3> QED BY <2>1, <3>2, ItemsKnown DEF Newest
  <2>6. Before(r, last) => Before(r, last)' BY <2>3, <2>5, BeforeStays DEF Fits
  <2> QED BY <2>2, <2>4, <2>6
<1> QED BY <1>1, <1>2, <1>3, RowLawsNext

\* What a step makes of the copies.
LEMMA SameCopies ==
  ASSUME SameQueues(ent'[1], ent[1]), pc'[1] \in Busy => pc[1] \in Busy
  PROVE  /\ Queue' = Queue /\ Current' = Current /\ Newest' = Newest
         /\ Queued' = Queued /\ Taken' \subseteq Taken
BY DEF SameQueues, Queue, Current, Newest, Queued, Taken

LEMMA KeptLess ==
  ASSUME rows' \subseteq rows, \A r \in rows' : pc[r.id] = "mergeDelete" => pc'[r.id] = "mergeDelete"
  PROVE  Kept' \subseteq Kept
BY DEF Kept

\* Who is alone at the inbox is the only one that may note rows.
LEMMA AloneNotes ==
  ASSUME TypeInv, LocksFit, OneEntry, PostLaws, NEW x \in Actors, pc[x] \in Locking \ Asking
  PROVE  /\ \A y \in Actors \ {x} : held[y] = {}
         /\ \A y \in Actors \ {x} : pc[y] \notin {"queueing", "enqueueing", "mergeDelete", "mergeUpsert"}
         /\ Noted = held[x]
         /\ pc[x] # "mergeDelete" => Kept = rows
<1>1. \A y \in Actors \ {x} : pc[y] \notin InboxSteps BY AloneAtInbox
<1>2. \A y \in Actors \ {x} : held[y] = {} BY <1>1 DEF PostLaws, InboxSteps
<1>3. Noted = held[x] BY <1>2 DEF Noted
<1>4. \A r \in rows : r.id \in Actors BY Kinds, ItemsKnown DEF Fits, Stamped
<1>5. pc[x] # "mergeDelete" => Kept = rows BY <1>1, <1>4 DEF Kept, InboxSteps
<1> QED BY <1>1, <1>2, <1>3, <1>5 DEF InboxSteps

\* A row that is written is newer than all items.
LEMMA InsertedNewest ==
  ASSUME TypeInv, NEW x \in Sources, InsertRow(x)
  PROVE  /\ x \notin Stamped /\ \A s \in Sources : stamp'[s] <= stamp'[x]
         /\ \A i : Fits(i) => Before(i, Item(x))'
<1>1. /\ stamp \in [Sources -> 0..Cardinality(Sources)] /\ Cardinality(Sources) \in Nat
      /\ \A s \in Sources : stamp[s] <= Cardinality(Stamped) /\ stamp[s] \in Nat
      /\ Cardinality(Stamped) \in Nat
      /\ stamp[x] = 0
  <2>1. IsFiniteSet(Sources) /\ Stamped \subseteq Sources BY Kinds DEF Stamped
  <2>2. Cardinality(Sources) \in Nat /\ Cardinality(Stamped) \in Nat
    BY <2>1, FS_Subset, FS_CardinalityType
  <2>3. stamp[x] = 0 BY DEF TypeInv, StampsTyped, StampsFit, InsertRow, Unposted
  <2> QED BY <2>2, <2>3, ItemsKnown DEF TypeInv, StampsTyped, StampsFit
<1>2. stamp' = [stamp EXCEPT ![x] = 1 + Cardinality(Stamped)]
  <2>1. {s \in Sources : stamp[s] > 0} = Stamped BY <1>1 DEF Stamped
  <2> QED BY <2>1 DEF InsertRow
<1>3. stamp'[x] = 1 + Cardinality(Stamped) /\ \A s \in Sources \ {x} : stamp'[s] = stamp[s]
  BY <1>1, <1>2
<1>4. \A s \in Sources \ {x} : stamp'[s] < stamp'[x] BY <1>1, <1>3
<1>5. x \notin Stamped BY <1>1 DEF Stamped
<1>6. ASSUME NEW i, Fits(i) PROVE Before(i, Item(x))'
  <2>1. \A s \in i.parts : s \in Sources \ {x} BY <1>5, <1>6 DEF Fits, Stamped
  <2>2. \A s \in i.parts, t \in {x} : stamp'[s] < stamp'[t] BY <1>4, <2>1
  <2>3. Item(x).parts = {x} BY DEF Item
  <2> QED BY <2>2, <2>3 DEF Before, Item
<1>7. \A s \in Sources : stamp'[s] <= stamp'[x] BY <1>1, <1>3, <1>4
<1> QED BY <1>5, <1>6, <1>7

\* The loop takes the first item of the queue, or is done with one.
LEMMA LoopTakes ==
  ASSUME TypeInv, LoopNext(1) \/ Answer(1)
  PROVE  /\ UNCHANGED <<held, stamp>> /\ rows' \subseteq rows
         /\ \A y \in Actors \ {1} : pc'[y] = pc[y]
         /\ Queued' \cup Taken' \subseteq Queued
         /\ Queue' = << >> \/ (Queue # << >> /\ Newest' = Newest)
<1>0. pc \in [Actors -> Steps] /\ 1 \in Entries /\ 1 \in Actors
  BY Kinds DEF TypeInv, PlacesTyped
<1>1. /\ UNCHANGED <<held, stamp>> /\ rows' \subseteq rows
      /\ \A y \in Actors \ {1} : pc'[y] = pc[y]
  <2>1. \E step : Goes(1, step) BY DEF LoopNext, Answer
  <2>2. UNCHANGED <<held, stamp>> /\ rows' \subseteq rows BY DEF LoopNext, Answer, durableVars, noted
  <2> QED BY <1>0, <2>1, <2>2 DEF Goes
<1>2. CASE Answer(1)
  <2>1. Queue' = Queue /\ pc'[1] = "next"
    BY <1>0, <1>2, AnswerEffect DEF Queue, Answer, Goes
  <2> QED BY <1>1, <2>1 DEF Queued, Taken, Newest, Busy
<1>3. CASE LoopNext(1) /\ Queue = << >>
  <2>1. UNCHANGED ent /\ pc'[1] = "waiting" BY <1>0, <1>3 DEF LoopNext, Queue, Goes
  <2> QED BY <1>1, <1>3, <2>1 DEF Queue, Queued, Taken, Newest, Busy
<1>4. CASE LoopNext(1) /\ Queue # << >>
  <2>1. PICK old, q : old = Queue /\ q = Queue' OBVIOUS
  <2>2. /\ q = Tail(old) /\ old \in Seq(QueueItems) /\ old # << >>
        /\ Current' = old[1] /\ pc'[1] = "taken"
    BY <1>0, <1>4, <2>1, LoopNextEffect DEF Queue, Current, Goes
  <2>3. /\ Len(old) \in Nat \ {0} /\ DOMAIN old = 1..Len(old)
        /\ DOMAIN q = 1..(Len(old) - 1) /\ Len(q) = Len(old) - 1
        /\ \A k \in DOMAIN q : q[k] = old[k + 1] /\ k + 1 \in DOMAIN old
    BY <2>2
  <2>4. Queued' \subseteq Queued BY <2>1, <2>3 DEF Queued
  <2>5. Taken' \subseteq Queued BY <2>1, <2>2, <2>3 DEF Queued, Taken
  <2>6. q # << >> => Len(q) \in DOMAIN q /\ Len(q) + 1 = Len(old) BY <2>2, <2>3
  <2>7. q = << >> \/ q[Len(q)] = old[Len(old)] BY <2>3, <2>6
  <2> QED BY <1>1, <1>4, <2>1, <2>4, <2>5, <2>7 DEF Newest
<1> QED BY <1>2, <1>3, <1>4

LEMMA RowLawsKept ==
  ASSUME TypeInv, LocksFit, Roles, OneEntry, InboxLaws, Next, OneEntry'
  PROVE  RowLaws'
<1>0. /\ pc \in [Actors -> Steps] /\ held \in [Actors -> SUBSET Items]
      /\ 1 \in Entries /\ 1 \in Actors
      /\ Tasks \subseteq Actors /\ Entries \subseteq Actors /\ Tasks \cap Entries = {} /\ Sources \subseteq Tasks
      /\ \A x \in Actors : pc[x] \in Locking => at[x] = 1 /\ created = 1
      /\ QueueLaws /\ RowLaws /\ PostLaws
  BY Kinds, AtTheEntry DEF TypeInv, PlacesTyped, RowsTyped, InboxLaws
<1>f. (\A r \in rows : Fits(r)) /\ (\A i \in Kept \cup Copies : Fits(i))
  BY <1>0, ItemsKnown, CopiesKnown DEF Kept
<1>n. \A r \in rows : r.id \in Sources /\ r.id \in Actors /\ r.id # 1 BY <1>0, <1>f DEF Fits, Stamped
<1>o. (\A a, b \in rows : Ordered(a, b)') /\ (\A a, b \in Kept \cup Copies : Ordered(a, b)')
  BY <1>0, OrderStays
<1>c. Copies = Queued \cup Taken \cup Noted /\ Copies' = Queued' \cup Taken' \cup Noted'
  BY DEF Copies
<1>1. CASE Quiet \/ Works
  <2>1. SameQueues(ent'[1], ent[1]) /\ (pc'[1] \in Busy => pc[1] \in Busy) /\ UNCHANGED held
    BY <1>1 DEF Quiet, Works, Busy
  <2>2. Copies' \subseteq Copies /\ Queue' = Queue /\ Newest' = Newest
    BY <1>c, <2>1, SameCopies DEF Noted
  <2>3. rows' \subseteq rows BY <1>1 DEF Quiet, Works
  <2>4. \A r \in rows' : pc[r.id] \in {"enqueueing", "mergeDelete"} => pc'[r.id] = pc[r.id]
    BY <1>n, <1>1, <2>3 DEF Quiet, Works, SamePosts, InboxSteps
  <2>5. Kept' \subseteq Kept BY <2>3, <2>4, KeptLess
  <2> QED BY <1>0, <2>2, <2>3, <2>4, <2>5, NothingNew
<1>2. CASE LoopNext(1) \/ Answer(1)
  <2>1. /\ UNCHANGED held /\ rows' \subseteq rows /\ \A r \in rows' : pc'[r.id] = pc[r.id]
        /\ Queued' \cup Taken' \subseteq Queued
        /\ Queue' = << >> \/ (Queue # << >> /\ Newest' = Newest)
    BY <1>n, <1>2, LoopTakes
  <2>2. Copies' \subseteq Copies BY <1>c, <2>1 DEF Noted
  <2>3. Kept' \subseteq Kept BY <2>1, KeptLess
  <2> QED BY <1>0, <2>1, <2>2, <2>3, NothingNew
<1>3. ASSUME NEW x \in Tasks, RestoreRegister(x), created' # created
      PROVE  RowLaws'
  <2>1. Queue' = <<RestoreItem>> /\ pc'[1] = "off" /\ UNCHANGED <<rows, held>>
        /\ pc[x] = "restoring" /\ \A y \in Actors \ {x} : pc'[y] = pc[y]
    BY <1>3, RegisterOnce
  <2>2. Queued' = {} /\ Taken' = {} BY <2>1 DEF Queued, Taken, Busy
  <2>3. Copies' \subseteq Copies BY <1>c, <2>1, <2>2 DEF Noted
  <2>4. \A r \in rows' : pc[r.id] \in {"enqueueing", "mergeDelete"} => pc'[r.id] = pc[r.id]
    BY <1>n, <2>1
  <2>5. Kept' \subseteq Kept BY <2>1, <2>4, KeptLess
  <2>6. PICK items, bodies, q : items = rows' /\ bodies = Kept' \cup Copies' /\ q = Queue' OBVIOUS
  <2>7. q[Len(q)] = RestoreItem BY <2>1, <2>6
  <2> QED BY <1>o, <2>1, <2>3, <2>5, <2>6, <2>7, RowLawsNext
<1>4. ASSUME NEW x \in Tasks, Drain(x)
      PROVE  RowLaws'
  <2>1. rows' = {} /\ UNCHANGED held /\ Goes(x, "done") /\ at[x] = 1
    BY <1>0, <1>4 DEF Drain, noted, Locking
  <2>2. Queue' = << >> /\ Current' = Current BY <1>4, <2>1, DrainEffect DEF Queue, Current
  <2>3. pc'[1] = pc[1] BY <1>0, <2>1 DEF Goes
  <2>4. Queued' = {} /\ Taken' = Taken BY <2>2, <2>3 DEF Queued, Taken
  <2>5. Copies' \subseteq Copies BY <1>c, <2>1, <2>4 DEF Noted
  <2>6. Kept' = {} BY <2>1 DEF Kept
  <2> QED BY <1>0, <2>1, <2>2, <2>5, <2>6, NothingNew
<1>5. ASSUME NEW x \in Tasks, ReplayRead(x)
      PROVE  RowLaws'
  <2>1. /\ pc[x] = "replaying" /\ pc[x] \in Locking \ Asking /\ UNCHANGED <<rows, ent>>
        /\ held' = [held EXCEPT ![x] = rows] /\ Goes(x, "queueing")
    BY <1>5 DEF ReplayRead, Locking, Asking, durableVars
  <2>2. SameQueues(ent'[1], ent[1]) /\ pc'[1] = pc[1] BY <1>0, <2>1 DEF Goes, SameQueues
  <2>3. Queue' = Queue /\ Newest' = Newest /\ Queued' = Queued /\ Taken' \subseteq Taken
    BY <2>2, SameCopies
  <2>4. Noted' \subseteq Noted \cup rows BY <1>0, <2>1 DEF Noted
  <2>5. Kept = rows BY <1>0, <2>1, AloneNotes
  <2>6. \A r \in rows : pc[r.id] \notin {"enqueueing", "mergeDelete"}
    BY <1>0, <1>n, <2>1, AloneNotes
  <2>7. Kept' \subseteq rows BY <2>1 DEF Kept
  <2> QED BY <1>0, <1>c, <2>1, <2>3, <2>4, <2>5, <2>6, <2>7, NothingNew
<1>6. ASSUME NEW x \in Tasks, MergeDelete(x)
      PROVE  RowLaws'
  <2>1. /\ pc[x] = "mergeDelete" /\ UNCHANGED <<held, ent>> /\ Goes(x, "mergeUpsert")
        /\ rows' = {r \in rows : r.id # x}
    BY <1>6 DEF MergeDelete, noted
  <2>2. SameQueues(ent'[1], ent[1]) /\ pc'[1] = pc[1] BY <1>0, <2>1 DEF Goes, SameQueues
  <2>3. Queue' = Queue /\ Newest' = Newest /\ Copies' \subseteq Copies
    BY <1>c, <2>1, <2>2, SameCopies DEF Noted
  <2>4. \A r \in rows' : pc'[r.id] = pc[r.id] BY <1>0, <1>n, <2>1 DEF Goes
  <2>5. Kept' \subseteq Kept BY <2>1, <2>4, KeptLess
  <2> QED BY <1>0, <2>1, <2>3, <2>4, <2>5, NothingNew
<1>7. ASSUME NEW x \in Tasks, ReplayQueue(x)
      PROVE  RowLaws'
  <2>1. /\ pc[x] = "queueing" /\ pc[x] \in Locking \ Asking /\ at[x] = 1 /\ UNCHANGED stamp
        /\ pc' = Started(1, [pc EXCEPT ![x] = "resolved"])
        /\ rows' = {r \in rows : r.id \notin {i.id : i \in StaleInFlight(held[x])}}
        /\ held' = [held EXCEPT ![x] = {}]
    <3>1. pc[x] = "queueing" BY <1>7 DEF ReplayQueue
    <3>2. pc[x] \in Locking \ Asking /\ at[x] = 1 BY <1>0, <3>1 DEF Locking, Asking
    <3> QED BY <1>7, <3>1, <3>2 DEF ReplayQueue
  <2>2. PICK items : items = held[x] \ StaleInFlight(held[x]) OBVIOUS
  <2>3. PICK q : q = <<RestoreItem>> \o ByStamp(items) OBVIOUS
  <2>4. q = Queue'
    <3>1. ent'[1].queue = ent[1].queue \o ByStamp(items)
      BY <1>7, <2>1, <2>2, ReplayEffect
    <3>2. ent[1].queue = <<RestoreItem>> BY <1>0, <2>1 DEF QueueLaws, Queue
    <3> QED BY <2>3, <3>1, <3>2 DEF Queue
  <2>5. items \in SUBSET Items /\ RowsFit(items) /\ items \subseteq held[x] /\ held[x] \subseteq Copies
    BY <1>0, <1>7, <2>2, ReplayEffect, RowsLess DEF Copies, Noted
  <2>6. /\ q \in Seq(QueueItems) /\ q # << >> /\ q[1] = RestoreItem
        /\ \A k \in DOMAIN q \ {1} : q[k] \in items
        /\ \A i \in items : \E k \in DOMAIN q \ {1} : q[k] = i
        /\ \A i, j \in DOMAIN q : i < j => Before(q[i], q[j])
    <3>1. \A a, b \in items : Ordered(a, b) BY <1>0, <2>5 DEF RowLaws
    <3>2. QueuesRows(q, items) BY <2>3, <2>5, <3>1, SortedQueue
    <3> QED BY <3>2 DEF QueuesRows
  <2>7. pc[1] = "off" /\ pc'[1] = "next" BY <1>0, <2>1, StartPlaces DEF QueueLaws, Steps, TaskSteps
  <2>8. Queued' \subseteq items /\ Taken' = {}
    BY <2>4, <2>6, <2>7 DEF Queued, Taken, Busy
  <2>9. Noted' \subseteq Noted BY <1>0, <2>1 DEF Noted
  <2>10. Copies' \subseteq Copies BY <1>c, <2>5, <2>8, <2>9
  <2>11. Kept = rows BY <1>0, <2>1, AloneNotes
  <2>12. rows' \subseteq rows /\ Kept' \subseteq Kept BY <2>1, <2>11 DEF Kept
  <2>13. rows' \subseteq items
    <3>1. rows \subseteq held[x] BY <1>0, <2>1 DEF PostLaws
    <3> QED BY <2>1, <2>2, <3>1
  <2>14. ASSUME NEW r \in rows' PROVE r.id = q[Len(q)].id \/ Before(r, q[Len(q)])'
    <3>1. PICK k \in DOMAIN q : q[k] = r BY <2>6, <2>13
    <3>2. Len(q) \in DOMAIN q /\ (k < Len(q) \/ k = Len(q)) BY <2>6
    <3>3. r.id = q[Len(q)].id \/ Before(r, q[Len(q)]) BY <2>6, <3>1, <3>2
    <3> QED BY <2>1, <3>3 DEF Before
  <2>15. PICK its, bodies : its = rows' /\ bodies = Kept' \cup Copies' OBVIOUS
  <2>16. (\A a, b \in its : Ordered(a, b)') /\ (\A a, b \in bodies : Ordered(a, b)')
    BY <1>o, <2>10, <2>12, <2>15
  <2> QED BY <2>4, <2>14, <2>15, <2>16, RowLawsNext
<1>8. CASE Restart
  <2>1. /\ rows' \subseteq rows /\ rows' \in SUBSET Items /\ RowsFit(rows') /\ Noted' = {}
        /\ pc'[1] \in {"next", "off"} /\ UNCHANGED stamp
    BY <1>8, RestartEffect, RestartPlaces DEF Noted
  <2>2. PICK q, items : q = Queue' /\ items = rows' OBVIOUS
  <2>3. Taken' = {} BY <2>1 DEF Taken, Busy
  <2>4. (\A a, b \in items : Ordered(a, b)') /\ (\A a, b \in items : Ordered(a, b))
    BY <1>0, <1>o, <2>1, <2>2 DEF RowLaws
  <2>5. /\ Queued' \subseteq items
        /\ \A r \in items : q = << >> \/ r.id = q[Len(q)].id \/ Before(r, q[Len(q)])
    <3>1. CASE map' # 1
      <4>1. q = << >> BY <1>0, <1>8, <2>2, <3>1, RestartEffect DEF Queue
      <4> QED BY <2>2, <4>1 DEF Queued
    <3>2. CASE map' = 1
      <4>1. q = <<RestoreItem>> \o ByStamp(items)
        BY <1>0, <1>8, <2>2, <3>2, RestartEffect DEF Queue
      <4>2. /\ q \in Seq(QueueItems) /\ q # << >> /\ q[1] = RestoreItem
            /\ \A k \in DOMAIN q \ {1} : q[k] \in items
            /\ \A i \in items : \E k \in DOMAIN q \ {1} : q[k] = i
            /\ \A i, j \in DOMAIN q : i < j => Before(q[i], q[j])
        <5>1. items \in SUBSET Items /\ RowsFit(items) BY <2>1, <2>2
        <5>2. \A a, b \in items : Ordered(a, b) BY <2>4
        <5>3. QueuesRows(q, items) BY <4>1, <5>1, <5>2, SortedQueue
        <5> QED BY <5>3 DEF QueuesRows
      <4>3. Queued' \subseteq items BY <2>2, <4>2 DEF Queued
      <4>4. ASSUME NEW r \in items PROVE r.id = q[Len(q)].id \/ Before(r, q[Len(q)])
        <5>1. PICK k \in DOMAIN q : q[k] = r BY <4>2
        <5>2. Len(q) \in DOMAIN q /\ (k < Len(q) \/ k = Len(q)) BY <4>2
        <5> QED BY <4>2, <5>1, <5>2
      <4> QED BY <4>3, <4>4
    <3> QED BY <3>1, <3>2
  <2>6. \A r \in items : q = << >> \/ r.id = q[Len(q)].id \/ Before(r, q[Len(q)])'
    BY <2>1, <2>5 DEF Before
  <2>7. PICK bodies : bodies = Kept' \cup Copies' OBVIOUS
  <2>8. bodies \subseteq items BY <1>c, <2>1, <2>2, <2>3, <2>5, <2>7 DEF Kept
  <2> QED BY <2>2, <2>4, <2>6, <2>7, <2>8, RowLawsNext
<1>9. ASSUME NEW x \in Tasks, InsertRow(x)
      PROVE  RowLaws'
  <2>1. /\ pc[x] = "inserting" /\ pc[x] \in Locking \ Asking /\ x \in Sources
        /\ UNCHANGED <<held, ent>> /\ Goes(x, "enqueueing") /\ rows' = rows \cup {Item(x)}
    BY <1>0, <1>9 DEF InsertRow, Locking, Asking, noted, TypeInv, PlacesTyped, Placed, Posting
  <2>2. SameQueues(ent'[1], ent[1]) /\ pc'[1] = pc[1] BY <1>0, <2>1 DEF Goes, SameQueues
  <2>3. Queue' = Queue /\ Newest' = Newest /\ Copies' \subseteq Copies
    BY <1>c, <2>1, <2>2, SameCopies DEF Noted
  <2>4. PICK item : item = Item(x) OBVIOUS
  <2>5. \A i : Fits(i) => Before(i, item)' BY <1>9, <2>1, <2>4, InsertedNewest
  <2>6. Kept' \subseteq rows \cup {item} /\ rows = Kept
    BY <1>0, <2>1, <2>4, AloneNotes DEF Kept
  <2>7. PICK items, bodies, q : items = rows' /\ bodies = Kept' \cup Copies' /\ q = Queue' OBVIOUS
  <2>8. \A a, b \in items : Ordered(a, b)'
    BY <1>f, <1>o, <2>1, <2>4, <2>5, <2>7 DEF Ordered
  <2>9. \A a, b \in bodies : Ordered(a, b)'
    BY <1>f, <1>o, <2>3, <2>4, <2>5, <2>6, <2>7 DEF Ordered
  <2>10. ASSUME NEW r \in items
         PROVE  \/ pc'[r.id] \in {"enqueueing", "mergeDelete"}
                \/ q = << >> \/ q[Len(q)] = RestoreItem
                \/ r.id = q[Len(q)].id \/ Before(r, q[Len(q)])'
    <3>1. CASE r = item
      <4>1. pc'[r.id] = "enqueueing" BY <1>0, <2>1, <2>4, <3>1 DEF Item, Goes
      <4> QED BY <4>1
    <3>2. CASE r \in rows
      <4>1. PICK last : last = q[Len(q)] OBVIOUS
      <4>2. pc[r.id] \notin {"enqueueing", "mergeDelete"}
        BY <1>0, <1>n, <2>1, <3>2, AloneNotes
      <4>3. q = << >> \/ last = RestoreItem \/ r.id = last.id \/ Before(r, last)
        BY <1>0, <2>3, <2>7, <3>2, <4>1, <4>2 DEF RowLaws, Newest
      <4>4. q # << >> => last.parts \subseteq Stamped
        <5>1. q \in Seq(QueueItems) /\ q = Queue BY <2>3, <2>7, ItemsKnown
        <5>2. q # << >> => Len(q) \in DOMAIN q BY <5>1
        <5> QED BY <4>1, <5>1, <5>2, ItemsKnown
      <4>5. q # << >> /\ Before(r, last) => Before(r, last)'
        BY <1>f, <3>2, <4>4, BeforeStays DEF Fits
      <4> QED BY <4>1, <4>3, <4>5
    <3> QED BY <2>1, <2>4, <2>7, <3>1, <3>2
  <2> QED BY <2>7, <2>8, <2>9, <2>10, RowLawsNext
<1>10. ASSUME NEW x \in Tasks, Enqueue(x)
      PROVE  RowLaws'
  <2>1. /\ pc[x] = "enqueueing" /\ pc[x] \in Locking \ Asking /\ x \in Sources
        /\ UNCHANGED <<rows, held, stamp>>
    BY <1>10, EnqueueEffect DEF Enqueue, Locking, Asking, durableVars, noted
  <2>2. PICK item : item = Item(x) OBVIOUS
  <2>3. (\A i \in Copies : Before(i, item)) /\ \A s \in Stamped : s # x => stamp[s] < stamp[x]
    BY <1>0, <2>1, <2>2, NewestPost
  <2>4. \A r \in rows : r = item \/ Before(r, item)
    <3>1. \A r \in rows : x \in r.parts => r = item BY <1>0, <2>1, <2>2 DEF PostLaws, PostFits
    <3>2. \A r \in rows : x \notin r.parts => Before(r, item)
      BY <1>f, <2>2, <2>3 DEF Before, Fits, Item
    <3> QED BY <3>1, <3>2
  <2>5. Queued' \subseteq Queued \cup {item} /\ Taken' \subseteq Taken \cup {item}
        /\ (Queue' = << >> \/ Newest' = item)
    <3>1. PICK old, q : old = Queue /\ q = Queue' OBVIOUS
    <3>2. CASE pc[1] = "waiting"
      <4>1. q = << >> /\ Current' = item
        BY <1>0, <1>10, <2>2, <3>1, <3>2, EnqueueEffect, EnqueuePlaces DEF Queue, Current, QueueLaws
      <4> QED BY <3>1, <4>1 DEF Queued, Taken
    <3>3. CASE pc[1] # "waiting"
      <4>1. /\ q = Append(old, item) /\ Current' = Current
            /\ (pc'[1] = pc[1] \/ pc'[1] = "next") /\ old \in Seq(QueueItems)
        BY <1>0, <1>10, <2>2, <3>1, <3>3, EnqueueEffect, EnqueuePlaces, ItemsKnown DEF Queue, Current
      <4>2. /\ Len(old) \in Nat /\ DOMAIN old = 1..Len(old) /\ Len(q) = Len(old) + 1
            /\ DOMAIN q = 1..(Len(old) + 1) /\ q[Len(old) + 1] = item
            /\ \A k \in DOMAIN old : q[k] = old[k]
        BY <4>1
      <4>3. \A k \in DOMAIN q : k \in DOMAIN old \/ k = Len(old) + 1 BY <4>2
      <4>4. Queued' \subseteq Queued \cup {item} BY <3>1, <4>2, <4>3 DEF Queued
      <4>5. Taken' \subseteq Taken BY <4>1 DEF Taken, Busy
      <4>6. Newest' = item BY <3>1, <4>2 DEF Newest
      <4> QED BY <4>4, <4>5, <4>6
    <3> QED BY <3>2, <3>3
  <2>6. Copies' \subseteq Copies \cup {item} BY <1>c, <2>1, <2>5 DEF Noted
  <2>7. Kept' \subseteq rows /\ Kept = rows BY <1>0, <2>1, AloneNotes DEF Kept
  <2>8. PICK items, bodies, q : items = rows' /\ bodies = Kept' \cup Copies' /\ q = Queue' OBVIOUS
  <2>9. \A i : Before(i, item) => Before(i, item)' BY <2>1 DEF Before
  <2>10. \A a, b \in items : Ordered(a, b)' BY <1>o, <2>1, <2>8
  <2>11. \A a, b \in bodies : Ordered(a, b)'
    <3>1. \A a \in bodies : a = item \/ (a \in Kept \cup Copies /\ Before(a, item)')
      BY <2>3, <2>4, <2>6, <2>7, <2>8, <2>9
    <3> QED BY <1>o, <3>1 DEF Ordered
  <2>12. \A r \in items : q = << >> \/ r.id = q[Len(q)].id \/ Before(r, q[Len(q)])'
    <3>1. q = << >> \/ q[Len(q)] = item BY <2>5, <2>8 DEF Newest
    <3> QED BY <2>1, <2>4, <2>8, <2>9, <3>1
  <2> QED BY <2>8, <2>10, <2>11, <2>12, RowLawsNext
<1>11. ASSUME NEW x \in Tasks, EnqueueMerged(x)
       PROVE  RowLaws'
  <2>1. PICK old, last : old = Queue /\ last = Newest OBVIOUS
  <2>2. /\ pc[x] = "enqueueing" /\ pc[x] \in Locking \ Asking /\ x \in Sources /\ Goes(x, "mergeDelete")
        /\ old \in Seq(QueueItems) /\ Len(old) \in DOMAIN old /\ last \in Queued /\ last = old[Len(old)]
        /\ UNCHANGED <<rows, stamp>>
    BY <1>0, <1>11, <2>1, Merging DEF Locking, Asking, Newest
  <2>3. PICK merged \in Items :
          /\ merged.id = last.id /\ merged.parts = last.parts \cup {x}
          /\ Queue' = [old EXCEPT ![Len(old)] = merged] /\ Current' = Current
          /\ held' = [held EXCEPT ![x] = {merged}]
          /\ \A i : Before(i, last) /\ Before(i, Item(x)) => Before(i, merged)
    BY <1>0, <1>11, <2>1, Merging
  <2>4. /\ (\A i \in Copies : Before(i, Item(x))) /\ \A s \in Stamped : s # x => stamp[s] < stamp[x]
        /\ \A r \in rows : x \in r.parts => r = Item(x)
    BY <1>0, <2>2, NewestPost DEF PostLaws, PostFits
  <2>5. PICK items, bodies, q : items = rows' /\ bodies = Kept' \cup Copies' /\ q = Queue' OBVIOUS
  <2>6. /\ Len(old) \in Nat /\ DOMAIN old = 1..Len(old) /\ DOMAIN q = DOMAIN old /\ Len(q) = Len(old)
        /\ q # << >> /\ q[Len(q)] = merged /\ \A k \in DOMAIN old \ {Len(old)} : q[k] = old[k]
    BY <2>2, <2>3, <2>5
  <2>7. \A y \in Actors \ {x} : pc'[y] = pc[y] /\ pc[y] \notin {"enqueueing", "mergeDelete"}
    BY <1>0, <2>2, AloneNotes DEF Goes
  <2>8. pc'[x] = "mergeDelete" /\ pc'[1] = pc[1] BY <1>0, <2>2 DEF Goes
  <2>9. held[x] = {} /\ Noted = {} /\ Noted' = {merged}
    <3>1. held[x] = {} BY <1>0, <2>2 DEF PostLaws
    <3> QED BY <1>0, <2>2, <2>3, <3>1, AloneNotes DEF Noted
  <2>10. Queued' \subseteq ({old[k] : k \in DOMAIN old \ {Len(old)}} \ {RestoreItem}) \cup {merged}
         /\ Taken' = Taken
    <3>1. Queued' \subseteq ({old[k] : k \in DOMAIN old \ {Len(old)}} \ {RestoreItem}) \cup {merged}
      BY <2>5, <2>6 DEF Queued
    <3> QED BY <2>3, <2>8, <3>1 DEF Taken
(* What is kept beside the merged item is before it.                       *)
  <2>11. \A k \in DOMAIN old \ {Len(old)} : Before(old[k], last)
    BY <1>0, <2>1, <2>2, <2>6 DEF QueueLaws
  <2>12. \A i \in Taken : Before(i, last)
    BY <1>0, <2>1, <2>2 DEF QueueLaws, Taken
  <2>13. \A i \in Kept' \cup Copies' :
           i = merged \/ (i \in Kept \cup Copies /\ (i.id = merged.id \/ Before(i, merged)))
    <3>1. ASSUME NEW i \in Queued' \cup Taken', i # merged
          PROVE  i \in Copies /\ Before(i, merged)
      <4>1. i \in Copies BY <2>1, <2>10, <3>1 DEF Copies, Queued
      <4>2. Before(i, last) BY <2>10, <2>11, <2>12, <3>1
      <4> QED BY <2>3, <2>4, <4>1, <4>2
    <3>2. ASSUME NEW i \in Kept' PROVE i \in Kept /\ (i.id = merged.id \/ Before(i, merged))
      <4>1. i \in rows /\ i.id # x BY <2>2, <2>8 DEF Kept
      <4>2. i \in Kept /\ pc[i.id] \notin {"enqueueing", "mergeDelete"}
        BY <1>n, <2>7, <4>1 DEF Kept
      <4>3. i.id = last.id \/ Before(i, last)
        <5>1. last # RestoreItem /\ Queue # << >> BY <2>1, <2>2 DEF Queued
        <5> QED BY <1>0, <2>1, <4>1, <4>2, <5>1 DEF RowLaws
      <4>4. Before(i, Item(x))
        <5>1. x \notin i.parts BY <2>4, <4>1 DEF Item
        <5> QED BY <1>f, <2>4, <4>1, <5>1 DEF Before, Item, Fits
      <4> QED BY <2>3, <4>2, <4>3, <4>4
    <3> QED BY <1>c, <2>9, <3>1, <3>2
  <2>14. \A i : Before(i, merged) => Before(i, merged)' BY <2>2 DEF Before
  <2>15. \A a, b \in bodies : Ordered(a, b)'
    <3>1. \A i \in bodies :
            i = merged \/ (i \in Kept \cup Copies /\ (i.id = merged.id \/ Before(i, merged)'))
      BY <2>5, <2>13, <2>14
    <3> QED BY <1>o, <3>1 DEF Ordered
  <2>16. \A a, b \in items : Ordered(a, b)' BY <1>o, <2>2, <2>5
  <2>17. ASSUME NEW r \in items
         PROVE  pc'[r.id] \in {"enqueueing", "mergeDelete"} \/ r.id = q[Len(q)].id \/ Before(r, q[Len(q)])'
    <3>1. CASE r.id = x BY <2>8, <3>1
    <3>2. CASE r.id # x
      <4>1. r \in Kept' BY <1>n, <2>2, <2>5, <2>7, <3>2 DEF Kept
      <4>2. r = merged \/ r.id = merged.id \/ Before(r, merged) BY <2>13, <4>1
      <4> QED BY <2>6, <2>14, <4>2
    <3> QED BY <3>1, <3>2
  <2> QED BY <2>5, <2>15, <2>16, <2>17, RowLawsNext
<1>12. ASSUME NEW x \in Tasks, MergeUpsert(x)
       PROVE  RowLaws'
  <2>1. /\ pc[x] = "mergeUpsert" /\ pc[x] \in Locking \ Asking /\ at[x] = 1
        /\ rows' = {r \in rows : \A m \in held[x] : r.id # m.id} \cup held[x]
        /\ ent' = Unlocked(ent, x) /\ pc' = Started(1, [pc EXCEPT ![x] = "posted"])
        /\ held' = [held EXCEPT ![x] = {}]
    <3>1. pc[x] = "mergeUpsert" BY <1>12 DEF MergeUpsert
    <3>2. pc[x] \in Locking \ Asking /\ at[x] = 1 BY <1>0, <3>1 DEF Locking, Asking
    <3> QED BY <1>12, <3>1, <3>2 DEF MergeUpsert
  <2>2. SameQueues(ent'[1], ent[1])
    BY <1>0, <2>1, Unlocking DEF TypeInv, EntriesTyped, SameBut, SameQueues
  <2>3. pc'[1] \in Busy => pc[1] \in Busy
    BY <2>1, StartPlaces DEF Steps, TaskSteps, Ended, Busy
  <2>4. Queue' = Queue /\ Newest' = Newest /\ Queued' = Queued /\ Taken' \subseteq Taken
    BY <2>2, <2>3, SameCopies
  <2>5. Noted' \subseteq Noted /\ held[x] \subseteq Noted BY <1>0, <2>1 DEF Noted
  <2>6. rows = Kept /\ \A y \in Actors : pc[y] \notin {"enqueueing", "mergeDelete"}
    BY <1>0, <2>1, AloneNotes
  <2>7. rows' \subseteq Kept \cup Copies BY <1>c, <2>1, <2>5, <2>6
  <2>8. PICK items, bodies, q : items = rows' /\ bodies = Kept' \cup Copies' /\ q = Queue' OBVIOUS
  <2>9. bodies \subseteq Kept \cup Copies BY <1>c, <2>4, <2>5, <2>7, <2>8 DEF Kept
  <2>10. (\A a, b \in items : Ordered(a, b)') /\ \A a, b \in bodies : Ordered(a, b)'
    BY <1>o, <2>7, <2>8, <2>9
  <2>11. PICK last : last = q[Len(q)] OBVIOUS
  <2>12. q # << >> => last.parts \subseteq Stamped
    <3>1. q \in Seq(QueueItems) /\ q = Queue BY <2>4, <2>8, ItemsKnown
    <3>2. q # << >> => Len(q) \in DOMAIN q BY <3>1
    <3> QED BY <2>11, <3>1, <3>2, ItemsKnown
  <2>13. ASSUME NEW r \in items
         PROVE  q = << >> \/ last = RestoreItem \/ r.id = last.id \/ Before(r, last)'
    <3>1. CASE r \in held[x]
      <4>1. q = << >> \/ last = r BY <1>0, <2>1, <2>4, <2>8, <2>11, <3>1 DEF PostLaws, Newest
      <4> QED BY <4>1
    <3>2. CASE r \notin held[x]
      <4>1. r \in rows /\ Fits(r) /\ r.id \in Actors BY <1>f, <1>n, <2>1, <2>8, <3>2
      <4>2. q = << >> \/ last = RestoreItem \/ r.id = last.id \/ Before(r, last)
        BY <1>0, <2>4, <2>6, <2>8, <2>11, <4>1 DEF RowLaws, Newest
      <4>3. q # << >> /\ Before(r, last) => Before(r, last)'
        BY <2>12, <4>1, BeforeStays DEF Fits
      <4> QED BY <4>2, <4>3
    <3> QED BY <3>1, <3>2
  <2> QED BY <2>8, <2>10, <2>11, <2>13, RowLawsNext
<1>13. CASE MovesItems
  BY <1>2, <1>3, <1>4, <1>5, <1>6, <1>7, <1>8, <1>9, <1>10, <1>11, <1>12, <1>13 DEF MovesItems
<1> QED BY <1>1, <1>13, InboxMoves

LEMMA PostLawsKept ==
  ASSUME TypeInv, LocksFit, Roles, OneEntry, InboxLaws, Next, OneEntry'
  PROVE  PostLaws'
<1>0. /\ pc \in [Actors -> Steps] /\ held \in [Actors -> SUBSET Items]
      /\ 1 \in Entries /\ 1 \in Actors
      /\ Tasks \subseteq Actors /\ Entries \subseteq Actors /\ Tasks \cap Entries = {} /\ Sources \subseteq Tasks
      /\ \A x \in Actors : pc[x] \in Locking => at[x] = 1 /\ created = 1
      /\ QueueLaws /\ RowLaws /\ PostLaws
  BY Kinds, AtTheEntry DEF TypeInv, PlacesTyped, RowsTyped, InboxLaws
<1>i. pc[1] \notin InboxSteps /\ pc'[1] \notin InboxSteps
  <2>1. PlacesTyped' BY PlacesKept
  <2> QED BY <1>0, <2>1 DEF TypeInv, PlacesTyped, Placed, LoopSteps, InboxSteps
<1>c. Copies = Queued \cup Taken \cup Noted /\ Copies' = Queued' \cup Taken' \cup Noted'
  BY DEF Copies
(* Nothing new is written, read or queued, and no post gets on.            *)
<1>l. ASSUME rows' \subseteq rows, Copies' \subseteq Copies, UNCHANGED <<held, stamp>>, SamePosts(Actors),
             Queue' = << >> \/ (Queue # << >> /\ Newest' = Newest)
      PROVE  PostLaws'
  <2>1. ASSUME NEW x \in Sources, pc'[x] \in {"enqueueing", "mergeDelete"} PROVE PostFits(x)'
    <3>1. pc'[x] = pc[x] BY <1>0, <1>l, <2>1 DEF SamePosts, InboxSteps
    <3>2. PostFits(x) BY <1>0, <2>1, <3>1 DEF PostLaws
    <3> QED BY <1>l, <3>1, <3>2 DEF PostFits
  <2>2. ASSUME NEW x \in Actors
        PROVE  /\ held'[x] # {} => pc'[x] \in {"queueing", "mergeDelete", "mergeUpsert"}
               /\ pc'[x] = "queueing" => rows' \subseteq held'[x]
               /\ pc'[x] \in {"mergeDelete", "mergeUpsert"} =>
                    \A m \in held'[x] : Queue' = << >> \/ Newest' = m
    BY <1>0, <1>l DEF PostLaws, SamePosts, InboxSteps
  <2> QED BY <2>1, <2>2 DEF PostLaws
(* One is alone at the inbox and the others have noted nothing.            *)
<1>a. ASSUME NEW x \in Tasks, pc[x] \in Locking \ Asking, \A y \in Actors \ {x, 1} : pc'[y] = pc[y],
             \A y \in Actors \ {x} : held'[y] = held[y],
             pc'[x] \in {"enqueueing", "mergeDelete"} => x \in Sources /\ PostFits(x)',
             held'[x] # {} => pc'[x] \in {"queueing", "mergeDelete", "mergeUpsert"},
             pc'[x] = "queueing" => rows' \subseteq held'[x],
             pc'[x] \in {"mergeDelete", "mergeUpsert"} =>
               \A m \in held'[x] : Queue' = << >> \/ Newest' = m
      PROVE  PostLaws'
  <2>1. \A y \in Actors \ {x} : held'[y] = {}
    BY <1>0, <1>a, AloneNotes
  <2>2. \A y \in Actors \ {x} : pc'[y] \notin {"queueing", "enqueueing", "mergeDelete", "mergeUpsert"}
    BY <1>0, <1>a, <1>i, AloneNotes DEF InboxSteps
  <2> QED BY <1>0, <1>a, <2>1, <2>2 DEF PostLaws
<1>1. CASE Quiet \/ Works
  <2>1. SameQueues(ent'[1], ent[1]) /\ (pc'[1] \in Busy => pc[1] \in Busy) /\ UNCHANGED held
    BY <1>1 DEF Quiet, Works, Busy
  <2>2. Copies' \subseteq Copies /\ Queue' = Queue /\ Newest' = Newest
    BY <1>c, <2>1, SameCopies DEF Noted
  <2>3. rows' \subseteq rows /\ UNCHANGED stamp /\ SamePosts(Actors) BY <1>1 DEF Quiet, Works
  <2> QED BY <1>l, <2>1, <2>2, <2>3
<1>2. CASE LoopNext(1) \/ Answer(1)
  <2>1. Copies' \subseteq Copies BY <1>2, <1>c, LoopTakes DEF Noted
  <2>2. SamePosts(Actors) BY <1>2, <1>i, LoopTakes DEF SamePosts
  <2> QED BY <1>2, <1>l, <2>1, <2>2, LoopTakes
<1>3. ASSUME NEW x \in Tasks, RestoreRegister(x), created' # created
      PROVE  PostLaws'
  <2>1. /\ created = 0 /\ UNCHANGED held /\ pc'[x] = "replaying"
        /\ \A y \in Actors \ {x} : pc'[y] = pc[y]
    BY <1>3, RegisterOnce
  <2>2. \A y \in Actors : pc[y] \notin Locking BY <1>0, <2>1
  <2>3. \A y \in Actors : held'[y] = {} BY <1>0, <2>1, <2>2 DEF PostLaws, Locking
  <2>4. \A y \in Actors : pc'[y] \notin {"queueing", "enqueueing", "mergeDelete", "mergeUpsert"}
    BY <2>1, <2>2 DEF Locking
  <2> QED BY <1>0, <2>3, <2>4 DEF PostLaws
<1>4. CASE Restart
  <2>1. \A y \in Actors : held'[y] = {} BY <1>4, RestartPlaces
  <2>2. \A y \in Actors : pc'[y] \notin {"queueing", "enqueueing", "mergeDelete", "mergeUpsert"}
    BY <1>0, <1>4 DEF Restart, Ended
  <2> QED BY <1>0, <2>1, <2>2 DEF PostLaws
<1>5. ASSUME NEW x \in Tasks, Drain(x) \/ Enqueue(x)
      PROVE  PostLaws'
  <2>1. pc[x] \in Locking \ Asking /\ pc[x] \in {"draining", "enqueueing"} /\ UNCHANGED held
    BY <1>5 DEF Drain, Enqueue, Locking, Asking, noted
  <2>2. pc'[x] \in {"done", "posted"} /\ \A y \in Actors \ {x, 1} : pc'[y] = pc[y]
    BY <1>0, <1>5, EnqueuePlaces DEF Drain, Goes
  <2>3. held'[x] = {} BY <1>0, <2>1 DEF PostLaws
  <2> QED BY <1>a, <2>1, <2>2, <2>3
<1>6. ASSUME NEW x \in Tasks, ReplayRead(x)
      PROVE  PostLaws'
  <2>1. /\ pc[x] = "replaying" /\ pc[x] \in Locking \ Asking /\ UNCHANGED rows
        /\ held' = [held EXCEPT ![x] = rows] /\ Goes(x, "queueing")
    BY <1>6 DEF ReplayRead, Locking, Asking, durableVars
  <2>2. pc'[x] = "queueing" /\ \A y \in Actors \ {x} : pc'[y] = pc[y] BY <1>0, <2>1 DEF Goes
  <2>3. held'[x] = rows' /\ \A y \in Actors \ {x} : held'[y] = held[y] BY <1>0, <2>1
  <2> QED BY <1>a, <2>1, <2>2, <2>3
<1>7. ASSUME NEW x \in Tasks, ReplayQueue(x) \/ MergeUpsert(x)
      PROVE  PostLaws'
  <2>1. /\ pc[x] \in {"queueing", "mergeUpsert"} /\ at[x] = 1
    BY <1>0, <1>7 DEF ReplayQueue, MergeUpsert, Locking
  <2>2. /\ pc' = Started(1, [pc EXCEPT ![x] = "resolved"]) \/ pc' = Started(1, [pc EXCEPT ![x] = "posted"])
        /\ held' = [held EXCEPT ![x] = {}]
    BY <1>7, <2>1 DEF ReplayQueue, MergeUpsert
  <2>3. pc'[x] \in {"resolved", "posted"} /\ \A y \in Actors \ {x, 1} : pc'[y] = pc[y]
    BY <2>2, StartPlaces DEF Steps, TaskSteps, Ended
  <2>4. held'[x] = {} /\ \A y \in Actors \ {x} : held'[y] = held[y] BY <1>0, <2>2
  <2>5. pc[x] \in Locking \ Asking BY <2>1 DEF Locking, Asking
  <2> QED BY <1>a, <2>3, <2>4, <2>5
<1>8. ASSUME NEW x \in Tasks, InsertRow(x)
      PROVE  PostLaws'
  <2>1. /\ pc[x] = "inserting" /\ pc[x] \in Locking \ Asking /\ x \in Sources
        /\ UNCHANGED <<held, ent>> /\ Goes(x, "enqueueing") /\ rows' = rows \cup {Item(x)}
    BY <1>0, <1>8 DEF InsertRow, Locking, Asking, noted, TypeInv, PlacesTyped, Placed, Posting
  <2>2. pc'[x] = "enqueueing" /\ \A y \in Actors \ {x} : pc'[y] = pc[y] BY <1>0, <2>1 DEF Goes
  <2>3. held'[x] = {} BY <1>0, <2>1 DEF PostLaws
  <2>4. Copies' \subseteq Copies
    <3>1. SameQueues(ent'[1], ent[1]) /\ pc'[1] = pc[1] BY <1>0, <2>1, <2>2 DEF SameQueues
    <3> QED BY <1>c, <2>1, <3>1, SameCopies DEF Noted
  <2>5. x \notin Stamped /\ \A s \in Sources : stamp'[s] <= stamp'[x] BY <1>8, <2>1, InsertedNewest
  <2>6. (\A r \in rows : x \notin r.parts) /\ \A i \in Copies : i.id # x /\ x \notin i.parts
    BY <1>0, <2>5, ItemsKnown, CopiesKnown DEF Fits
  <2>7. PostFits(x)' BY <2>1, <2>4, <2>5, <2>6 DEF PostFits
  <2> QED BY <1>a, <2>1, <2>2, <2>3, <2>7
<1>9. ASSUME NEW x \in Tasks, EnqueueMerged(x)
      PROVE  PostLaws'
  <2>1. PICK old, last : old = Queue /\ last = Newest OBVIOUS
  <2>2. /\ pc[x] = "enqueueing" /\ pc[x] \in Locking \ Asking /\ x \in Sources /\ Goes(x, "mergeDelete")
        /\ old \in Seq(QueueItems) /\ Len(old) \in DOMAIN old /\ last \in Queued /\ last = old[Len(old)]
        /\ UNCHANGED <<rows, stamp>>
    BY <1>0, <1>9, <2>1, Merging DEF Locking, Asking, Newest
  <2>3. PICK merged \in Items :
          /\ merged.id = last.id
          /\ Queue' = [old EXCEPT ![Len(old)] = merged] /\ Current' = Current
          /\ held' = [held EXCEPT ![x] = {merged}]
    BY <1>0, <1>9, <2>1, Merging
  <2>4. pc'[x] = "mergeDelete" /\ \A y \in Actors \ {x} : pc'[y] = pc[y] BY <1>0, <2>2 DEF Goes
  <2>5. held'[x] = {merged} /\ \A y \in Actors \ {x} : held'[y] = held[y] BY <1>0, <2>3
  <2>6. Newest' = merged BY <2>2, <2>3 DEF Newest
  <2>7. Noted' \subseteq Noted \cup {merged} BY <2>5 DEF Noted
  <2>8. Queued' \subseteq Queued \cup {merged} /\ Taken' = Taken
    <3>1. PICK q : q = Queue' OBVIOUS
    <3>2. /\ Len(old) \in Nat /\ DOMAIN q = DOMAIN old /\ q[Len(old)] = merged
          /\ \A k \in DOMAIN old \ {Len(old)} : q[k] = old[k]
      BY <2>2, <2>3, <3>1
    <3> QED BY <1>0, <2>1, <2>3, <2>4, <3>1, <3>2 DEF Queued, Taken
  <2>9. Copies' \subseteq Copies \cup {merged} BY <1>c, <2>7, <2>8
  <2>10. PostFits(x) BY <1>0, <2>2 DEF PostLaws
  <2>11. last.id # x BY <2>2, <2>10 DEF PostFits, Copies
  <2>12. PostFits(x)' BY <2>2, <2>3, <2>4, <2>9, <2>10, <2>11 DEF PostFits
  <2> QED BY <1>a, <2>2, <2>4, <2>5, <2>6, <2>12
<1>10. ASSUME NEW x \in Tasks, MergeDelete(x)
       PROVE  PostLaws'
  <2>1. /\ pc[x] = "mergeDelete" /\ pc[x] \in Locking \ Asking /\ UNCHANGED <<held, ent>>
        /\ Goes(x, "mergeUpsert")
    BY <1>10 DEF MergeDelete, noted, Locking, Asking
  <2>2. pc'[x] = "mergeUpsert" /\ \A y \in Actors \ {x} : pc'[y] = pc[y] BY <1>0, <2>1 DEF Goes
  <2>3. Queue' = Queue /\ Newest' = Newest BY <2>1 DEF Queue, Newest
  <2>4. \A m \in held[x] : Queue = << >> \/ Newest = m BY <1>0, <2>1 DEF PostLaws
  <2> QED BY <1>a, <2>1, <2>2, <2>3, <2>4
<1>11. CASE MovesItems
  BY <1>2, <1>3, <1>4, <1>5, <1>6, <1>7, <1>8, <1>9, <1>10, <1>11 DEF MovesItems
<1> QED BY <1>1, <1>11, InboxMoves

LEMMA InboxInit ==
  ASSUME Init
  PROVE  InboxLaws
<1>0. 1 \in Entries /\ 1 \notin Tasks /\ 1 \in Actors BY Kinds
<1>1. pc[1] = "off" /\ \A x \in Actors : pc[x] \in {"idle", "off"} /\ held[x] = {} BY <1>0 DEF Init
<1>2. rows = {} BY DEF Init
<1>3. Queue = << >> BY <1>0 DEF Init, Queue, NoEntry
<1>4. Sources \subseteq Actors BY Kinds
<1>5. Copies = {} BY <1>1, <1>3 DEF Copies, Queued, Taken, Noted, Busy
<1>6. QueueLaws BY <1>1, <1>3 DEF QueueLaws, Busy
<1>7. RowLaws BY <1>2, <1>5 DEF RowLaws, Kept
<1>8. PostLaws BY <1>1, <1>4 DEF PostLaws
<1> QED BY <1>6, <1>7, <1>8 DEF InboxLaws

LEMMA InboxStays ==
  ASSUME TypeInv, LocksFit, Roles, OneEntry, InboxLaws, [Next]_vars, OneEntry'
  PROVE  InboxLaws'
<1>1. CASE Next BY <1>1, QueueLawsKept, RowLawsKept, PostLawsKept DEF InboxLaws
<1>2. CASE UNCHANGED vars
  <2>1. UNCHANGED <<rows, stamp, ent, pc, held>> BY <1>2 DEF vars, durableVars, noted
  <2>2. UNCHANGED <<Queue, Current, Newest, Queued, Taken, Noted, Kept>>
    BY <2>1 DEF Queue, Current, Newest, Queued, Taken, Noted, Kept
  <2>3. UNCHANGED <<Copies, Stamped>> BY <2>1, <2>2 DEF Copies, Stamped
  <2>4. \A a, b : Before(a, b) => Before(a, b)' BY <2>1 DEF Before
  <2>5. \A a, b : Ordered(a, b) => Ordered(a, b)' BY <2>4 DEF Ordered
  <2>6. QueueLaws'
    <3>1. QueueLaws BY DEF InboxLaws
    <3>2. Fits(Current) => Fits(Current)' BY <2>2, <2>3 DEF Fits
    <3> QED BY <2>1, <2>2, <2>4, <3>1, <3>2 DEF QueueLaws, Before
  <2>7. RowLaws'
    <3>1. RowLaws BY DEF InboxLaws
    <3> QED BY <2>1, <2>2, <2>3, <3>1 DEF RowLaws, Ordered, Before
  <2>8. PostLaws'
    <3>1. PostLaws BY DEF InboxLaws
    <3> QED BY <2>1, <2>2, <2>3, <3>1 DEF PostLaws, PostFits
  <2> QED BY <2>6, <2>7, <2>8 DEF InboxLaws
<1> QED BY <1>1, <1>2

LEMMA InboxLawsHold ==
  Spec /\ []OneEntry => [](TypeInv /\ LocksFit /\ Roles /\ PillFits /\ InboxLaws)
<1>1. Init => InboxLaws BY InboxInit
<1>2. TypeInv /\ LocksFit /\ Roles /\ OneEntry /\ InboxLaws /\ [Next]_vars /\ OneEntry' => InboxLaws'
  BY InboxStays
<1> QED BY <1>1, <1>2, PillFitsHolds, PTL DEF Spec

-----------------------------------------------------------------------------
(* How often an item is handled.  A part is due while the loop has still   *)
(* to record it; one that is due, or may be queued again by a boot, has    *)
(* been recorded at most once per restart before.                          *)

DueItems == Queued \cup (IF pc[1] = "taken" THEN {Current} \ {RestoreItem} ELSE {})
Due(s) == \E i \in DueItems : s \in i.parts

Counted ==
  \A s \in Sources :
    /\ times[s] <= 1 + restarts
    /\ Due(s) \/ pc[1] = "off" => times[s] <= restarts
    /\ stamp[s] = 0 \/ pc[s] = "enqueueing" => times[s] = 0

LEMMA TimesSteps ==
  ASSUME TypeInv, Next
  PROVE  /\ MovesItems => UNCHANGED times
         /\ restarts' = restarts \/ Restart
         /\ restarts \in Nat /\ restarts' \in Nat
         /\ \A s \in Sources : times[s] \in Nat /\ (outcome[s] = "rejected" => outcome'[s] = "rejected")
<1>0. outcome \in [Sources -> {"pending", "resolved", "rejected"}] /\ times \in [Sources -> Nat]
      /\ restarts \in 0..MaxRestarts
  BY DEF TypeInv, FlagsTyped
<1>1. MovesItems => UNCHANGED times
  <2>1. ASSUME NEW x \in Tasks, RestoreRegister(x) \/ ReplayRead(x) \/ ReplayQueue(x) \/ InsertRow(x)
        PROVE  UNCHANGED times
    BY <2>1 DEF RestoreRegister, ReplayRead, ReplayQueue, InsertRow, ghostVars
  <2>2. ASSUME NEW x \in Tasks, Enqueue(x) \/ EnqueueMerged(x)
        PROVE  UNCHANGED times
    BY <2>2 DEF Enqueue, EnqueueMerged, ghostVars
  <2>3. ASSUME NEW x \in Tasks, MergeDelete(x) \/ MergeUpsert(x) \/ Drain(x)
        PROVE  UNCHANGED times
    BY <2>3 DEF MergeDelete, MergeUpsert, Drain, ghostVars
  <2>4. LoopNext(1) \/ Answer(1) \/ Restart => UNCHANGED times
    BY DEF LoopNext, Answer, Restart, ghostVars
  <2> QED BY <2>1, <2>2, <2>3, <2>4 DEF MovesItems
<1>2. restarts' = restarts \/ Restart
  <2>1. ASSUME NEW x \in Tasks, TaskStep(x) PROVE restarts' = restarts
    BY <2>1 DEF TaskStep, RestoreRegister, ReplayRead, ReplayQueue, EnterLock, WakeAndInsert, WakeOnly,
                InsertRow, Enqueue, EnqueueMerged, MergeDelete, MergeUpsert, StartTask, EndTask,
                MarkDead, Drain, KillWrite, KillClear
  <2>2. ASSUME NEW e \in Entries, LoopStep(e) PROVE restarts' = restarts
    BY <2>2 DEF LoopStep, LoopNext, HandleRestore, Record, OpenTurn, CloseTurn, FinishTurn, FailTurn, Answer
  <2>3. ASSUME NEW x \in Actors, SleepStep(x) PROVE restarts' = restarts
    BY <2>3 DEF SleepStep, SleepRequest, FallAsleep, SchedulePoisonPill
  <2>4. ASSUME NEW x \in Tasks, Resolving(x) \/ Steer(x) \/ KillLoaded(x) \/ KillUnloaded(x)
        PROVE restarts' = restarts
    BY <2>4 DEF Resolving, ResolveLoaded, RestoreRead, Steer, KillLoaded, KillUnloaded
  <2>5. PillDue \/ PillFires \/ PillHandled => restarts' = restarts
    BY DEF PillDue, PillFires, PillHandled
  <2> QED BY <2>1, <2>2, <2>3, <2>4, <2>5 DEF Next
<1>3. \/ UNCHANGED outcome
      \/ \E parts : outcome' = Rejected(parts) \/ outcome' = Resolved(parts)
  <2>1. ASSUME NEW x \in Tasks, TaskStep(x)
        PROVE  UNCHANGED outcome \/ \E parts : outcome' = Rejected(parts)
    BY <2>1 DEF TaskStep, RestoreRegister, ReplayRead, ReplayQueue, EnterLock, WakeAndInsert, WakeOnly,
                InsertRow, Enqueue, EnqueueMerged, MergeDelete, MergeUpsert, StartTask, EndTask,
                MarkDead, Drain, KillWrite, KillClear, ghostVars
  <2>2. ASSUME NEW e \in Entries, LoopStep(e)
        PROVE  UNCHANGED outcome \/ \E parts : outcome' = Rejected(parts) \/ outcome' = Resolved(parts)
    BY <2>2 DEF LoopStep, LoopNext, HandleRestore, Record, OpenTurn, CloseTurn, FinishTurn, FailTurn, Answer,
                ghostVars
  <2>3. ASSUME NEW x \in Actors, SleepStep(x) PROVE UNCHANGED outcome
    BY <2>3 DEF SleepStep, SleepRequest, FallAsleep, SchedulePoisonPill, ghostVars
  <2>4. ASSUME NEW x \in Tasks, Resolving(x) \/ Steer(x) \/ KillLoaded(x) \/ KillUnloaded(x)
        PROVE UNCHANGED outcome
    BY <2>4 DEF Resolving, ResolveLoaded, RestoreRead, Steer, KillLoaded, KillUnloaded, ghostVars
  <2>5. PillDue \/ PillFires \/ PillHandled \/ Restart => UNCHANGED outcome
    BY DEF PillDue, PillFires, PillHandled, Restart, ghostVars
  <2> QED BY <2>1, <2>2, <2>3, <2>4, <2>5 DEF Next
<1>4. ASSUME NEW s \in Sources, outcome[s] = "rejected" PROVE outcome'[s] = "rejected"
  BY <1>3, <1>4 DEF Rejected, Resolved
<1>5. restarts \in Nat /\ restarts' \in Nat
  BY <1>0, <1>2, AgentSystemAssumption DEF Restart
<1> QED BY <1>0, <1>1, <1>2, <1>4, <1>5

\* The parts of what the loop has still to record.
LEMMA DueKnown ==
  ASSUME TypeInv, QueueLaws
  PROVE  /\ \A i \in DueItems : Fits(i)
         /\ DueItems \subseteq Copies
         /\ \A s : Due(s) => s \in Stamped
         /\ pc[1] \in Busy \ {"taken"} => \A s : Due(s) => s \notin Current.parts
         /\ pc[1] = "taken" => \A s \in Current.parts : Due(s)
<1>1. DueItems \subseteq Copies BY DEF DueItems, Copies, Taken, Busy
<1>2. \A i \in DueItems : Fits(i) BY <1>1, CopiesKnown
<1>3. \A s : Due(s) => s \in Stamped BY <1>2 DEF Due, Fits
<1>4. ASSUME pc[1] \in Busy \ {"taken"}, NEW s, Due(s) PROVE s \notin Current.parts
  <2>1. PICK k \in DOMAIN Queue : s \in Queue[k].parts BY <1>4 DEF Due, DueItems, Queued
  <2>2. Before(Current, Queue[k]) BY <1>4, <2>1 DEF QueueLaws
  <2> QED BY <2>1, <2>2, SharesNone, ItemsKnown
<1>5. ASSUME pc[1] = "taken", NEW s \in Current.parts PROVE Due(s)
  <2>1. Current # RestoreItem BY <1>5 DEF RestoreItem
  <2> QED BY <1>5, <2>1 DEF Due, DueItems
<1> QED BY <1>1, <1>2, <1>3, <1>4, <1>5

\* Steps that leave what is due.
LEMMA DueStays ==
  ASSUME SameQueues(ent'[1], ent[1]), pc'[1] = "taken" <=> pc[1] = "taken"
  PROVE  DueItems' = DueItems
BY DEF SameQueues, DueItems, Queued, Queue, Current

LEMMA DueAtLoop ==
  ASSUME TypeInv, LoopNext(1) \/ Answer(1)
  PROVE  DueItems' = DueItems
<1>0. pc \in [Actors -> Steps] /\ 1 \in Entries /\ 1 \in Actors
  BY Kinds DEF TypeInv, PlacesTyped
<1>1. CASE Answer(1)
  <2>1. Queue' = Queue /\ pc'[1] = "next" /\ pc[1] = "answering"
    BY <1>0, <1>1, AnswerEffect DEF Queue, Answer, Goes
  <2> QED BY <2>1 DEF DueItems, Queued
<1>2. CASE LoopNext(1) /\ Queue = << >>
  <2>1. UNCHANGED ent /\ pc'[1] = "waiting" /\ pc[1] = "next" BY <1>0, <1>2 DEF LoopNext, Queue, Goes
  <2> QED BY <2>1 DEF Queue, DueItems, Queued
<1>3. CASE LoopNext(1) /\ Queue # << >>
  <2>1. PICK old, q, c : old = Queue /\ q = Queue' /\ c = Current' OBVIOUS
  <2>2. /\ q = Tail(old) /\ old \in Seq(QueueItems) /\ old # << >>
        /\ c = old[1] /\ pc'[1] = "taken" /\ pc[1] = "next"
    BY <1>0, <1>3, <2>1, LoopNextEffect DEF Queue, Current, Goes, LoopNext
  <2>3. /\ Len(old) \in Nat \ {0} /\ DOMAIN old = 1..Len(old)
        /\ DOMAIN q = 1..(Len(old) - 1)
        /\ \A k \in DOMAIN q : q[k] = old[k + 1]
    BY <2>2
  <2>4. {old[k] : k \in DOMAIN old} = {q[k] : k \in DOMAIN q} \cup {c}
    <3>1. ASSUME NEW k \in DOMAIN q PROVE q[k] \in {old[j] : j \in DOMAIN old}
      <4>1. k + 1 \in DOMAIN old BY <2>3
      <4> QED BY <2>3, <4>1
    <3>2. ASSUME NEW k \in DOMAIN old, k # 1 PROVE old[k] \in {q[j] : j \in DOMAIN q}
      <4>1. k - 1 \in DOMAIN q /\ (k - 1) + 1 = k BY <2>3, <3>2
      <4> QED BY <2>3, <4>1
    <3>3. 1 \in DOMAIN old BY <2>3
    <3> QED BY <2>2, <3>1, <3>2, <3>3
  <2>5. DueItems = {old[k] : k \in DOMAIN old} \ {RestoreItem}
    BY <2>1, <2>2 DEF DueItems, Queued
  <2>6. DueItems' = ({q[k] : k \in DOMAIN q} \ {RestoreItem}) \cup ({c} \ {RestoreItem})
    BY <2>1, <2>2 DEF DueItems, Queued
  <2> QED BY <2>4, <2>5, <2>6
<1> QED BY <1>1, <1>2, <1>3

LEMMA DueEnqueued ==
  ASSUME TypeInv, OneEntry, QueueLaws, NEW x \in Tasks, Enqueue(x)
  PROVE  /\ DueItems' = DueItems \cup {Item(x)}
         /\ pc'[1] \in Busy \ {"taken"} => pc[1] = pc'[1] /\ Current' = Current
<1>0. /\ at[x] = 1 /\ x \in Sources
      /\ pc'[1] = (IF pc[1] = "waiting" THEN "taken" ELSE IF pc[1] = "off" THEN "next" ELSE pc[1])
  BY EnqueueEffect, EnqueuePlaces
<1>1. PICK item, old, q, c : item = Item(x) /\ old = Queue /\ q = Queue' /\ c = Current' OBVIOUS
<1>2. item # RestoreItem BY <1>0, <1>1, ItemsKnown
<1>3. CASE pc[1] = "waiting"
  <2>1. old = << >> /\ q = << >> /\ c = item /\ pc'[1] = "taken"
    BY <1>0, <1>1, <1>3, EnqueueEffect DEF Queue, Current, QueueLaws
  <2> QED BY <1>1, <1>2, <1>3, <2>1 DEF DueItems, Queued
<1>4. CASE pc[1] # "waiting"
  <2>1. q = Append(old, item) /\ c = Current /\ old \in Seq(QueueItems)
    BY <1>0, <1>1, <1>4, EnqueueEffect, ItemsKnown DEF Queue, Current
  <2>2. {q[k] : k \in DOMAIN q} = {old[k] : k \in DOMAIN old} \cup {item}
    <3>1. /\ Len(old) \in Nat /\ DOMAIN old = 1..Len(old) /\ DOMAIN q = 1..(Len(old) + 1)
          /\ q[Len(old) + 1] = item /\ \A k \in DOMAIN old : q[k] = old[k]
      BY <2>1
    <3>2. DOMAIN q = DOMAIN old \cup {Len(old) + 1} BY <3>1
    <3> QED BY <3>1, <3>2
  <2>3. Queued' = Queued \cup {item} BY <1>1, <1>2, <2>2 DEF Queued
  <2>4. (pc'[1] = "taken" <=> pc[1] = "taken") /\ (pc'[1] \in Busy => pc[1] = pc'[1])
    BY <1>0, <1>4 DEF Busy
  <2> QED BY <1>1, <2>1, <2>3, <2>4 DEF DueItems
<1> QED BY <1>3, <1>4 DEF Busy

LEMMA DueMerged ==
  ASSUME TypeInv, OneEntry, QueueLaws, PostLaws, NEW x \in Tasks, EnqueueMerged(x)
  PROVE  /\ \A s : Due(s)' <=> Due(s) \/ s = x
         /\ \A m \in held'[x] : \A s \in m.parts : Due(s)'
         /\ pc'[1] = pc[1] /\ Current' = Current
<1>0. pc \in [Actors -> Steps] /\ 1 \in Entries /\ 1 \in Actors /\ x \in Actors /\ x # 1
      /\ held \in [Actors -> SUBSET Items]
  BY Kinds DEF TypeInv, PlacesTyped, RowsTyped
<1>1. PICK old, last : old = Queue /\ last = Newest OBVIOUS
<1>2. /\ old \in Seq(QueueItems) /\ Len(old) \in DOMAIN old /\ last \in Queued /\ last = old[Len(old)]
      /\ Goes(x, "mergeDelete")
  BY <1>1, Merging DEF Newest
<1>3. PICK merged \in Items :
        /\ merged.id = last.id /\ merged.parts = last.parts \cup {x} /\ Fits(merged)
        /\ Queue' = [old EXCEPT ![Len(old)] = merged] /\ Current' = Current
        /\ held' = [held EXCEPT ![x] = {merged}]
  BY <1>1, Merging
<1>4. PICK q : q = Queue' OBVIOUS
<1>5. /\ DOMAIN q = DOMAIN old /\ q[Len(old)] = merged /\ Len(old) \in DOMAIN q
      /\ \A k \in DOMAIN old \ {Len(old)} : q[k] = old[k]
  BY <1>2, <1>3, <1>4
<1>6. merged # RestoreItem /\ last # RestoreItem
  <2>1. merged.id # Restore BY <1>3, Kinds DEF Fits, Stamped
  <2> QED BY <1>2, <2>1 DEF RestoreItem, Queued
<1>7. pc'[1] = pc[1] BY <1>0, <1>2 DEF Goes
<1>8. Queued' = ({old[k] : k \in DOMAIN old \ {Len(old)}} \ {RestoreItem}) \cup {merged}
  BY <1>4, <1>5, <1>6 DEF Queued
<1>9. Queued = ({old[k] : k \in DOMAIN old \ {Len(old)}} \ {RestoreItem}) \cup {last}
  BY <1>1, <1>2, <1>6 DEF Queued
<1>10. PICK rest : /\ DueItems' = rest \cup {merged} /\ DueItems = rest \cup {last}
  <2>1. PICK first : first = (IF pc[1] = "taken" THEN {Current} \ {RestoreItem} ELSE {}) OBVIOUS
  <2>2. DueItems' = Queued' \cup first BY <1>3, <1>7, <2>1 DEF DueItems
  <2>3. DueItems = Queued \cup first BY <2>1 DEF DueItems
  <2>4. PICK others : others = {old[k] : k \in DOMAIN old \ {Len(old)}} \ {RestoreItem} OBVIOUS
  <2>5. /\ DueItems' = (others \cup first) \cup {merged}
        /\ DueItems = (others \cup first) \cup {last}
    BY <1>8, <1>9, <2>2, <2>3, <2>4
  <2> QED BY <2>5
<1>11. \A s : Due(s)' <=> Due(s) \/ s = x BY <1>3, <1>10 DEF Due
<1>12. \A m \in held'[x] : \A s \in m.parts : Due(s)'
  <2>1. held'[x] = {merged} BY <1>0, <1>3
  <2> QED BY <1>10, <2>1 DEF Due
<1> QED BY <1>3, <1>7, <1>11, <1>12

LEMMA DueReplayed ==
  ASSUME TypeInv, LocksFit, OneEntry, InboxLaws, NEW x \in Tasks, ReplayQueue(x)
  PROVE  /\ rows' \subseteq DueItems' /\ rows' \subseteq rows
         /\ pc[1] = "off" /\ pc'[1] = "next" /\ pc'[x] = "resolved"
         /\ \A y \in Actors \ {x, 1} : pc'[y] = pc[y]
<1>0. /\ QueueLaws /\ RowLaws /\ PostLaws /\ held \in [Actors -> SUBSET Items] /\ x \in Actors
      /\ pc[x] = "queueing" /\ at[x] = 1 /\ pc' = Started(1, [pc EXCEPT ![x] = "resolved"])
      /\ rows' = {r \in rows : r.id \notin {i.id : i \in StaleInFlight(held[x])}}
  <2>1. pc[x] = "queueing" /\ x \in Actors BY Kinds DEF ReplayQueue
  <2>2. at[x] = 1 BY <2>1, AtTheEntry DEF Locking
  <2> QED BY <2>1, <2>2 DEF ReplayQueue, InboxLaws, TypeInv, RowsTyped
<1>1. PICK items : items = held[x] \ StaleInFlight(held[x]) OBVIOUS
<1>2. PICK q : q = <<RestoreItem>> \o ByStamp(items) OBVIOUS
<1>3. q = Queue' BY <1>0, <1>1, <1>2, ReplayEffect DEF Queue, QueueLaws
<1>4. items \in SUBSET Items /\ RowsFit(items) /\ items \subseteq Copies
  BY <1>0, <1>1, ReplayEffect, RowsLess DEF Copies, Noted
<1>5. QueuesRows(q, items)
  <2>1. \A a, b \in items : Ordered(a, b) BY <1>0, <1>4 DEF RowLaws
  <2> QED BY <1>2, <1>4, <2>1, SortedQueue
<1>6. pc[1] = "off" /\ pc'[1] = "next" /\ pc'[x] = "resolved" /\ \A y \in Actors \ {x, 1} : pc'[y] = pc[y]
  BY <1>0, StartPlaces DEF QueueLaws, Steps, TaskSteps
<1>7. rows' \subseteq items
  <2>1. rows \subseteq held[x] BY <1>0 DEF PostLaws
  <2> QED BY <1>0, <1>1, <2>1
<1>8. \A i \in items : i # RestoreItem BY <1>4, Kinds DEF Items, RestoreItem
<1>9. items \subseteq DueItems' BY <1>3, <1>5, <1>8 DEF QueuesRows, DueItems, Queued
<1> QED BY <1>0, <1>6, <1>7, <1>9

LEMMA DueRestarted ==
  ASSUME TypeInv, InboxLaws, Restart
  PROVE  map' = 1 => rows' \subseteq DueItems'
<1>1. rows' \subseteq rows /\ rows' \in SUBSET Items /\ RowsFit(rows') /\ 1 \in Entries
  BY RestartEffect, Kinds
<1>2. PICK q, items : q = Queue' /\ items = rows' OBVIOUS
<1>3. SUFFICES ASSUME map' = 1 PROVE items \subseteq DueItems' BY <1>2
<1>4. q = <<RestoreItem>> \o ByStamp(items) BY <1>1, <1>2, <1>3, RestartEffect DEF Queue
<1>5. items \in SUBSET Items /\ RowsFit(items) /\ \A a, b \in items : Ordered(a, b)
  BY <1>1, <1>2 DEF InboxLaws, RowLaws
<1>6. QueuesRows(q, items) BY <1>4, <1>5, SortedQueue
<1>7. \A i \in items : i # RestoreItem BY <1>5, Kinds DEF Items, RestoreItem
<1> QED BY <1>2, <1>6, <1>7 DEF QueuesRows, DueItems, Queued

LEMMA CountedKept ==
  ASSUME TypeInv, LocksFit, Roles, OneEntry, InboxLaws, Counted, Next, OneEntry'
  PROVE  Counted'
<1>0. /\ pc \in [Actors -> Steps] /\ times \in [Sources -> Nat] /\ 1 \in Entries /\ 1 \in Actors
      /\ Tasks \subseteq Actors /\ Tasks \cap Entries = {} /\ Sources \subseteq Tasks
      /\ \A x \in Actors : pc[x] \in Locking => at[x] = 1 /\ created = 1
      /\ QueueLaws /\ RowLaws /\ PostLaws
  BY Kinds, AtTheEntry DEF TypeInv, PlacesTyped, FlagsTyped, InboxLaws
<1>r. /\ restarts \in Nat /\ restarts' \in Nat /\ (restarts' = restarts \/ Restart)
      /\ \A s \in Sources : times[s] \in Nat
  BY TimesSteps
<1>s. \A s \in Sources : stamp'[s] = 0 => stamp[s] = 0 BY StampsKept DEF Stamped
(* Nothing is recorded, and what gets due was not recorded since the boot. *)
<1>l. ASSUME UNCHANGED times, restarts' = restarts,
             \A s \in Sources : Due(s)' \/ pc'[1] = "off" => Due(s) \/ pc[1] = "off" \/ times[s] = 0,
             \A s \in Sources : pc'[s] = "enqueueing" => pc[s] = "enqueueing" \/ stamp[s] = 0
      PROVE  Counted'
  <2>1. ASSUME NEW s \in Sources
        PROVE  /\ times'[s] <= 1 + restarts'
               /\ Due(s)' \/ pc'[1] = "off" => times'[s] <= restarts'
               /\ stamp'[s] = 0 \/ pc'[s] = "enqueueing" => times'[s] = 0
    BY <1>l, <1>r, <1>s, <2>1 DEF Counted
  <2> QED BY <2>1 DEF Counted
<1>1. CASE Quiet /\ ~Restart
  <2>1. (pc'[1] = "taken" <=> pc[1] = "taken") /\ (pc'[1] = "off" => pc[1] = "off")
    BY <1>1 DEF Quiet
  <2>2. DueItems' = DueItems BY <1>1, <2>1, DueStays DEF Quiet
  <2>3. \A s \in Sources : pc'[s] = "enqueueing" => pc[s] = "enqueueing"
    BY <1>0, <1>1 DEF Quiet, SamePosts, InboxSteps
  <2>4. \A s \in Sources : Due(s)' => Due(s) BY <2>2 DEF Due
  <2> QED BY <1>1, <1>r, <1>l, <2>1, <2>3, <2>4 DEF Quiet
<1>2. CASE Works /\ ~Restart
  <2>1. DueItems' \subseteq DueItems /\ pc'[1] \in Busy \ {"taken"} /\ pc[1] \in Busy
    BY <1>2 DEF Works, DueItems, Queued, Queue, SameQueues
  <2>2. \A s \in Sources : pc'[s] = "enqueueing" => pc[s] = "enqueueing"
    BY <1>0, <1>2 DEF Works, SamePosts, InboxSteps
  <2>3. \A s \in Sources : times'[s] = IF pc[1] = "taken" /\ s \in Current.parts THEN times[s] + 1 ELSE times[s]
    BY <1>2 DEF Works
  <2>4. ASSUME NEW s \in Sources, pc[1] = "taken", s \in Current.parts
        PROVE  ~Due(s)' /\ stamp'[s] # 0 /\ pc'[s] # "enqueueing" /\ times'[s] <= 1 + restarts'
    <3>1. \A k \in DOMAIN Queue : s \notin Queue[k].parts
      BY <1>0, <2>4, SharesNone, ItemsKnown DEF QueueLaws, Busy
    <3>2. Queue' = Queue BY <1>2 DEF Works, SameQueues, Queue
    <3>3. ~Due(s)' BY <2>1, <3>1, <3>2 DEF Due, DueItems, Queued
    <3>4. s \in Stamped BY <2>4, ItemsKnown
    <3>5. stamp'[s] # 0 BY <1>s, <3>4 DEF Stamped
    <3>6. pc[s] # "enqueueing"
      <4>1. Current # RestoreItem BY <2>4 DEF RestoreItem
      <4>2. Current \in Copies BY <2>4, <4>1 DEF Copies, Taken, Busy
      <4> QED BY <1>0, <2>4, <4>2 DEF PostLaws, PostFits
    <3>7. times[s] <= restarts BY <1>0, <2>4, DueKnown DEF Counted
    <3> QED BY <1>2, <1>r, <2>2, <2>3, <2>4, <3>3, <3>5, <3>6, <3>7
  <2>5. ASSUME NEW s \in Sources, ~(pc[1] = "taken" /\ s \in Current.parts)
        PROVE  /\ times'[s] <= 1 + restarts'
               /\ Due(s)' => times'[s] <= restarts'
               /\ stamp'[s] = 0 \/ pc'[s] = "enqueueing" => times'[s] = 0
    <3>1. Due(s)' => Due(s) BY <2>1 DEF Due
    <3> QED BY <1>2, <1>r, <1>s, <2>2, <2>3, <2>5, <3>1 DEF Counted
  <2>6. pc'[1] # "off" BY <2>1 DEF Busy
  <2> QED BY <2>4, <2>5, <2>6 DEF Counted
<1>3. ASSUME NEW x \in Tasks, RestoreRegister(x), created' # created
      PROVE  Counted'
  <2>1. /\ Queue' = <<RestoreItem>> /\ pc[1] = "off" /\ pc'[1] = "off"
        /\ pc'[x] = "replaying" /\ \A y \in Actors \ {x} : pc'[y] = pc[y] /\ UNCHANGED <<times, restarts>>
    BY <1>3, RegisterOnce
  <2> QED BY <1>0, <1>l, <2>1
<1>4. ASSUME NEW x \in Tasks, ReplayRead(x) \/ InsertRow(x) \/ MergeDelete(x) \/ MergeUpsert(x)
      PROVE  Counted'
  <2>1. UNCHANGED <<times, restarts>>
    BY <1>4 DEF ReplayRead, InsertRow, MergeDelete, MergeUpsert, ghostVars
  <2>2. /\ at[x] = 1
        /\ SameQueues(ent'[1], ent[1])
        /\ \/ \E step \in {"queueing", "enqueueing", "mergeUpsert"} : Goes(x, step)
           \/ pc' = Started(1, [pc EXCEPT ![x] = "posted"])
    <3>1. at[x] = 1 BY <1>0, <1>4 DEF ReplayRead, InsertRow, MergeDelete, MergeUpsert, Locking
    <3>2. CASE MergeUpsert(x)
      <4>1. ent' = Unlocked(ent, x) BY <3>2 DEF MergeUpsert
      <4>2. SameQueues(ent'[1], ent[1])
        BY <1>0, <3>1, <4>1, Unlocking DEF TypeInv, EntriesTyped, SameBut, SameQueues
      <4> QED BY <3>1, <3>2, <4>2 DEF MergeUpsert
    <3>3. CASE ~MergeUpsert(x)
      BY <1>4, <3>1, <3>3 DEF ReplayRead, InsertRow, MergeDelete, SameQueues
    <3> QED BY <3>2, <3>3
  <2>3. /\ \A y \in Actors \ {x, 1} : pc'[y] = pc[y]
        /\ pc'[1] = pc[1] \/ (pc[1] = "off" /\ pc'[1] = "next")
    BY <1>0, <2>2, StartPlaces DEF Goes, Steps, TaskSteps, Ended
  <2>4. DueItems' = DueItems BY <2>2, <2>3, DueStays
  <2>5. pc'[x] = "enqueueing" /\ x \in Sources => stamp[x] = 0
    <3>1. pc'[x] = "enqueueing" => pc[x] = "inserting"
      BY <1>0, <1>4 DEF ReplayRead, InsertRow, MergeDelete, MergeUpsert, Goes, Started
    <3> QED BY <3>1 DEF TypeInv, StampsTyped, StampsFit, Unposted
  <2>6. \A s \in Sources : Due(s)' => Due(s) BY <2>4 DEF Due
  <2>7. \A s \in Sources : pc'[s] = "enqueueing" => pc[s] = "enqueueing" \/ stamp[s] = 0
    BY <1>0, <2>3, <2>5
  <2> QED BY <1>l, <2>1, <2>3, <2>6, <2>7
<1>5. ASSUME NEW x \in Tasks, ReplayQueue(x)
      PROVE  Counted'
  <2>1. pc[1] = "off" /\ pc'[1] = "next" /\ pc'[x] = "resolved" /\ \A y \in Actors \ {x, 1} : pc'[y] = pc[y]
    BY <1>5, DueReplayed
  <2>2. UNCHANGED <<times, restarts>> BY <1>5 DEF ReplayQueue, ghostVars
  <2> QED BY <1>0, <1>l, <2>1, <2>2
<1>6. ASSUME NEW x \in Tasks, Enqueue(x)
      PROVE  Counted'
  <2>1. DueItems' = DueItems \cup {Item(x)} BY <1>0, <1>6, DueEnqueued
  <2>2. /\ \A y \in Actors \ {x, 1} : pc'[y] = pc[y]
        /\ pc'[x] = "posted" /\ (pc'[1] = "off" => pc[1] = "off")
    BY <1>6, EnqueuePlaces
  <2>3. pc[x] = "enqueueing" /\ UNCHANGED <<times, restarts>> /\ x \in Sources
    BY <1>6, EnqueueEffect DEF Enqueue, ghostVars
  <2>4. \A s \in Sources : Due(s)' => Due(s) \/ s = x BY <2>1 DEF Due, Item
  <2>5. times[x] = 0 BY <2>3 DEF Counted
  <2>6. \A s \in Sources : pc'[s] = "enqueueing" => pc[s] = "enqueueing" BY <1>0, <2>2
  <2> QED BY <1>l, <2>2, <2>3, <2>4, <2>5, <2>6
<1>7. ASSUME NEW x \in Tasks, EnqueueMerged(x)
      PROVE  Counted'
  <2>1. (\A s : Due(s)' <=> Due(s) \/ s = x) /\ pc'[1] = pc[1] BY <1>0, <1>7, DueMerged
  <2>2. pc[x] = "enqueueing" /\ x \in Sources /\ Goes(x, "mergeDelete") /\ UNCHANGED <<times, restarts>>
    BY <1>0, <1>7, Merging
  <2>3. times[x] = 0 BY <2>2 DEF Counted
  <2>4. \A s \in Sources : pc'[s] = "enqueueing" => pc[s] = "enqueueing" BY <1>0, <2>2 DEF Goes
  <2> QED BY <1>l, <2>1, <2>2, <2>3, <2>4
<1>8. ASSUME NEW x \in Tasks, Drain(x)
      PROVE  Counted'
  <2>1. /\ at[x] = 1 /\ Goes(x, "done") /\ UNCHANGED <<times, restarts>>
    BY <1>0, <1>8 DEF Drain, Locking
  <2>2. Queue' = << >> /\ Current' = Current BY <1>8, <2>1, DrainEffect DEF Queue, Current
  <2>3. pc'[1] = pc[1] /\ \A s \in Sources : pc'[s] = "enqueueing" => pc[s] = "enqueueing"
    BY <1>0, <2>1 DEF Goes
  <2>4. DueItems' \subseteq DueItems BY <2>2, <2>3 DEF DueItems, Queued
  <2>5. \A s \in Sources : Due(s)' => Due(s) BY <2>4 DEF Due
  <2> QED BY <1>l, <2>1, <2>3, <2>5
<1>9. CASE LoopNext(1) \/ Answer(1)
  <2>1. DueItems' = DueItems BY <1>9, DueAtLoop
  <2>2. \A s \in Sources : Due(s)' => Due(s) BY <2>1 DEF Due
  <2>3. UNCHANGED <<times, restarts>> BY <1>9 DEF LoopNext, Answer, ghostVars
  <2>4. pc'[1] # "off" /\ \A s \in Sources : pc'[s] = "enqueueing" => pc[s] = "enqueueing"
    <3>1. \E step \in {"waiting", "taken", "next"} : Goes(1, step) BY <1>9 DEF LoopNext, Answer
    <3> QED BY <1>0, <3>1 DEF Goes
  <2> QED BY <1>l, <2>2, <2>3, <2>4
<1>10. CASE Restart
  <2>1. UNCHANGED <<stamp, times>> /\ restarts' = restarts + 1 BY <1>10, RestartPlaces
  <2>2. \A s \in Sources : pc'[s] # "enqueueing" BY <1>0, <1>10, RestartPlaces DEF Ended
  <2>3. \A s \in Sources : times[s] <= 1 + restarts /\ (stamp[s] = 0 => times[s] = 0) BY DEF Counted
  <2>4. ASSUME NEW s \in Sources
        PROVE  /\ times'[s] <= 1 + restarts'
               /\ times'[s] <= restarts'
               /\ stamp'[s] = 0 \/ pc'[s] = "enqueueing" => times'[s] = 0
    BY <1>r, <2>1, <2>2, <2>3
  <2> QED BY <2>4 DEF Counted
<1>11. CASE MovesItems
  BY <1>3, <1>4, <1>5, <1>6, <1>7, <1>8, <1>9, <1>10, <1>11 DEF MovesItems
<1> QED BY <1>1, <1>2, <1>10, <1>11, InboxMoves

LEMMA CountedStays ==
  ASSUME TypeInv, LocksFit, Roles, OneEntry, InboxLaws, Counted, [Next]_vars, OneEntry'
  PROVE  Counted'
<1>1. CASE Next BY <1>1, CountedKept
<1>2. CASE UNCHANGED vars
  <2>1. UNCHANGED <<stamp, ent, pc, times, restarts>> BY <1>2 DEF vars, durableVars, ghostVars
  <2>2. UNCHANGED DueItems BY <2>1 DEF DueItems, Queued, Queue, Current
  <2>3. \A s : Due(s)' <=> Due(s) BY <2>2 DEF Due
  <2> QED BY <2>1, <2>3 DEF Counted
<1> QED BY <1>1, <1>2

LEMMA CountedHolds ==
  Spec /\ []OneEntry => [](TypeInv /\ LocksFit /\ Roles /\ PillFits /\ InboxLaws /\ Counted)
<1>1. Init => Counted
  <2> SUFFICES ASSUME Init PROVE Counted OBVIOUS
  <2>1. times = [s \in Sources |-> 0] /\ restarts = 0 BY DEF Init
  <2> QED BY <2>1 DEF Counted
<1>2. TypeInv /\ LocksFit /\ Roles /\ OneEntry /\ InboxLaws /\ Counted /\ [Next]_vars /\ OneEntry' => Counted'
  BY CountedStays
<1> QED BY <1>1, <1>2, InboxLawsHold, PTL DEF Spec

(* Only a restart makes the agent handle an item again, once per restart,  *)
(* for any number of posters and crashes.  The hypothesis: two restores do *)
(* not overlap, so that one entry is made between two restarts.            *)
THEOREM ItemsHandledOnce == Spec /\ [](created <= 1) => []HandledOncePerRun
<1>1. Counted => HandledOncePerRun BY DEF Counted, HandledOncePerRun
<1> QED BY <1>1, CountedHolds, PTL DEF OneEntry

-----------------------------------------------------------------------------
(* In which order items are handled.  Whatever is in the inbox table of an *)
(* agent that is loaded has been handled, or is due, or is being posted.   *)

Unloaded == created = 0 \/ \E x \in Actors : pc[x] \in {"replaying", "queueing"}
Cared(s) == Handled(s) \/ Due(s)

RowsCared == \A r \in rows : \A s \in r.parts : Cared(s) \/ pc[s] = "enqueueing"
MergesCared ==
  \A x \in Actors : pc[x] \in {"mergeDelete", "mergeUpsert"} =>
    \A m \in held[x] : \A s \in m.parts : Cared(s)
LiveRows ==
  /\ pc[1] \in Busy \ {"taken"} => \A s \in Current.parts : times[s] > 0
  /\ ~Killed => (Unloaded \/ RowsCared) /\ MergesCared

LEMMA HandledStays ==
  ASSUME TypeInv, Next, Quiet \/ Works \/ MovesItems
  PROVE  \A s \in Sources : /\ Handled(s) => Handled(s)'
                            /\ times[s] > 0 => times'[s] > 0
<1>1. times \in [Sources -> Nat] BY DEF TypeInv, FlagsTyped
<1>2. \A s \in Sources : times'[s] \in {times[s], times[s] + 1}
  BY <1>1, TimesSteps DEF Quiet, Works
<1> QED BY <1>1, <1>2, TimesSteps DEF Handled

\* What keeps the rows cared for: nothing due is forgotten, and what is
\* written or no longer being posted is due.
LEMMA RowsStayCared ==
  ASSUME TypeInv, QueueLaws, Next, Quiet \/ Works \/ MovesItems, RowsCared,
         \A s \in Sources : Due(s) => Cared(s)',
         \A r \in rows' \ rows : \A s \in r.parts : Cared(s)' \/ pc'[s] = "enqueueing",
         \A s \in Sources : pc[s] = "enqueueing" => pc'[s] = "enqueueing" \/ Cared(s)'
  PROVE  RowsCared'
<1>1. ASSUME NEW r \in rows, NEW s \in r.parts PROVE Cared(s)' \/ pc'[s] = "enqueueing"
  <2>1. s \in Sources BY <1>1, ItemsKnown DEF Fits, Stamped
  <2>2. Cared(s) \/ pc[s] = "enqueueing" BY <1>1 DEF RowsCared
  <2>3. Cared(s) => Cared(s)' BY <2>1, HandledStays DEF Cared
  <2> QED BY <2>1, <2>2, <2>3
<1> QED BY <1>1 DEF RowsCared

LEMMA MergesStayCared ==
  ASSUME TypeInv, QueueLaws, Next, Quiet \/ Works \/ MovesItems, MergesCared,
         \A s \in Sources : Due(s) => Cared(s)',
         \A x \in Actors : pc'[x] \in {"mergeDelete", "mergeUpsert"} =>
           \/ pc[x] \in {"mergeDelete", "mergeUpsert"} /\ held'[x] = held[x]
           \/ \A m \in held'[x] : \A s \in m.parts : Cared(s)'
  PROVE  MergesCared'
<1>1. ASSUME NEW x \in Actors, pc[x] \in {"mergeDelete", "mergeUpsert"}, NEW m \in held[x], NEW s \in m.parts
      PROVE  Cared(s)'
  <2>1. s \in Sources BY <1>1, ItemsKnown DEF Fits, Stamped
  <2>2. Cared(s) BY <1>1 DEF MergesCared
  <2> QED BY <2>1, <2>2, HandledStays DEF Cared
<1> QED BY <1>1 DEF MergesCared

(* Who is alone at the inbox finds the agent loaded.                       *)
LEMMA AloneLoaded ==
  ASSUME TypeInv, LocksFit, OneEntry, PostLaws, NEW x \in Actors, pc[x] \in Locking \ Asking
  PROVE  /\ pc[x] \notin {"replaying", "queueing"} => ~Unloaded
         /\ \A y \in Actors \ {x} : pc[y] \notin InboxSteps
BY AloneAtInbox DEF Unloaded, InboxSteps

(* Steps at the inbox leave the item that the loop handles.                *)
LEMMA CurrentStays ==
  ASSUME TypeInv, LocksFit, Roles, OneEntry, InboxLaws, Next, OneEntry', MovesItems
  PROVE  pc'[1] \in Busy \ {"taken"} => pc[1] = pc'[1] /\ Current' = Current
<1>0. /\ pc \in [Actors -> Steps] /\ 1 \in Actors /\ 1 \in Entries
      /\ Tasks \subseteq Actors /\ Tasks \cap Entries = {} /\ QueueLaws /\ PostLaws
      /\ \A x \in Actors : pc[x] \in Locking => at[x] = 1 /\ created = 1
  BY Kinds, AtTheEntry DEF TypeInv, PlacesTyped, InboxLaws
<1>1. ASSUME NEW x \in Tasks, RestoreRegister(x), created' # created
      PROVE  pc'[1] \notin Busy
  BY <1>1, RegisterOnce DEF Busy
<1>2. ASSUME NEW x \in Tasks, ReplayRead(x) \/ InsertRow(x) \/ MergeDelete(x)
      PROVE  pc'[1] = pc[1] /\ Current' = Current
  <2>1. (\E step : Goes(x, step)) /\ UNCHANGED ent BY <1>2 DEF ReplayRead, InsertRow, MergeDelete
  <2> QED BY <1>0, <2>1 DEF Goes, Current
<1>3. ASSUME NEW x \in Tasks, MergeUpsert(x)
      PROVE  pc'[1] \in Busy => pc'[1] = pc[1] /\ Current' = Current
  <2>1. pc[x] = "mergeUpsert" BY <1>3 DEF MergeUpsert
  <2>2. at[x] = 1 BY <1>0, <2>1 DEF Locking
  <2>3. ent' = Unlocked(ent, x) /\ pc' = Started(1, [pc EXCEPT ![x] = "posted"])
    BY <1>3, <2>2 DEF MergeUpsert
  <2>4. Current' = Current
    BY <1>0, <2>2, <2>3, Unlocking DEF TypeInv, EntriesTyped, SameBut, Current
  <2> QED BY <2>3, <2>4, StartPlaces DEF Steps, TaskSteps, Ended, Busy
<1>4. ASSUME NEW x \in Tasks, ReplayQueue(x)
      PROVE  pc'[1] \notin Busy
  BY <1>4, DueReplayed DEF Busy
<1>5. ASSUME NEW x \in Tasks, Drain(x)
      PROVE  pc'[1] = pc[1] /\ Current' = Current
  <2>1. at[x] = 1 /\ Goes(x, "done") BY <1>0, <1>5 DEF Drain, Locking
  <2> QED BY <1>0, <1>5, <2>1, DrainEffect DEF Goes, Current
<1>6. CASE LoopNext(1) \/ Answer(1)
  <2>1. \E step \in {"waiting", "taken", "next"} : Goes(1, step) BY <1>6 DEF LoopNext, Answer
  <2>2. pc'[1] \notin Busy \ {"taken"} BY <1>0, <2>1 DEF Goes, Busy
  <2> QED BY <2>2
<1>7. CASE Restart
  <2>1. pc'[1] \notin Busy BY <1>7, RestartPlaces DEF Busy
  <2> QED BY <2>1
<1> QED BY <1>0, <1>1, <1>2, <1>3, <1>4, <1>5, <1>6, <1>7, DueEnqueued, DueMerged DEF MovesItems

LEMMA CurrentHandled ==
  ASSUME TypeInv, LocksFit, Roles, OneEntry, InboxLaws, LiveRows, Next, OneEntry'
  PROVE  pc'[1] \in Busy \ {"taken"} => \A s \in Current'.parts : times'[s] > 0
<1>k. \A s \in Current.parts : s \in Sources /\ times[s] \in Nat
  BY ItemsKnown, TimesSteps DEF Stamped
<1>l. ASSUME UNCHANGED times, pc'[1] \in Busy \ {"taken"} => pc[1] = pc'[1] /\ Current' = Current
      PROVE  pc'[1] \in Busy \ {"taken"} => \A s \in Current'.parts : times'[s] > 0
  BY <1>l DEF LiveRows
<1>1. CASE Quiet
  BY <1>1, <1>l DEF Quiet, SameQueues, Current, Busy
<1>2. CASE Works
  <2>1. Current' = Current /\ pc[1] \in Busy BY <1>2 DEF Works, SameQueues, Current
  <2>2. \A s \in Current.parts : times'[s] = IF pc[1] = "taken" THEN times[s] + 1 ELSE times[s]
    BY <1>2, <1>k DEF Works
  <2> QED BY <1>k, <2>1, <2>2 DEF LiveRows
<1>3. CASE MovesItems
  <2>1. UNCHANGED times BY <1>3, TimesSteps
  <2> QED BY <1>3, <1>l, <2>1, CurrentStays
<1> QED BY <1>1, <1>2, <1>3, InboxMoves

LEMMA LiveRowsKept ==
  ASSUME TypeInv, LocksFit, Roles, OneEntry, InboxLaws, LiveRows, Next, OneEntry', ~Killed'
  PROVE  (Unloaded' \/ RowsCared') /\ MergesCared'
<1>0. /\ pc \in [Actors -> Steps] /\ held \in [Actors -> SUBSET Items] /\ 1 \in Actors /\ 1 \in Entries
      /\ Tasks \subseteq Actors /\ Tasks \cap Entries = {} /\ Sources \subseteq Tasks
      /\ QueueLaws /\ RowLaws /\ PostLaws
      /\ \A x \in Actors : pc[x] \in Locking => at[x] = 1 /\ created = 1
  BY Kinds, AtTheEntry DEF TypeInv, PlacesTyped, RowsTyped, InboxLaws
<1>q. Quiet \/ Works \/ MovesItems BY InboxMoves
<1>v. (Unloaded \/ RowsCared) /\ MergesCared BY KillersStay DEF LiveRows
<1>i. pc'[1] \notin InboxSteps
  <2>1. PlacesTyped' BY PlacesKept
  <2> QED BY <1>0, <2>1 DEF PlacesTyped, Placed, LoopSteps, InboxSteps
<1>h. \A s \in Sources : Handled(s) => Handled(s)' BY <1>q, HandledStays
(* Rows go, and what was due stays due or is recorded.                     *)
<1>l. ASSUME rows' \subseteq rows, UNCHANGED <<held, created>>, SamePosts(Actors),
             \A s \in Sources : Due(s) => Cared(s)'
      PROVE  (Unloaded' \/ RowsCared') /\ MergesCared'
  <2>1. Unloaded => Unloaded' BY <1>0, <1>l DEF Unloaded, SamePosts, InboxSteps
  <2>2. \A s \in Sources : pc[s] = "enqueueing" => pc'[s] = "enqueueing"
    BY <1>0, <1>l DEF SamePosts, InboxSteps
  <2>3. RowsCared => RowsCared' BY <1>0, <1>l, <1>q, <2>2, RowsStayCared
  <2>4. \A x \in Actors : pc'[x] \in {"mergeDelete", "mergeUpsert"} =>
          pc[x] \in {"mergeDelete", "mergeUpsert"} /\ held'[x] = held[x]
    BY <1>0, <1>l DEF SamePosts, InboxSteps
  <2>5. MergesCared' BY <1>0, <1>l, <1>q, <1>v, <2>4, MergesStayCared
  <2> QED BY <1>v, <2>1, <2>3, <2>5
(* One is alone at the inbox.                                              *)
<1>a. ASSUME NEW x \in Tasks, pc[x] \in Locking \ Asking, pc[x] \notin {"replaying", "queueing"},
             \A y \in Actors \ {x, 1} : pc'[y] = pc[y],
             \A s \in Sources : Due(s) => Cared(s)',
             \A r \in rows' \ rows : \A s \in r.parts : Cared(s)' \/ pc'[s] = "enqueueing",
             x \in Sources /\ pc[x] = "enqueueing" => pc'[x] = "enqueueing" \/ Cared(x)',
             pc'[x] \in {"mergeDelete", "mergeUpsert"} =>
               \A m \in held'[x] : \A s \in m.parts : Cared(s)'
      PROVE  (Unloaded' \/ RowsCared') /\ MergesCared'
  <2>0. x \in Actors /\ \A y \in Actors \ {x} : pc[y] \notin InboxSteps
    BY <1>0, <1>a, AloneAtInbox
  <2>1. ~Unloaded BY <1>0, <1>a, <2>0, AloneLoaded
  <2>2. \A s \in Sources : pc[s] = "enqueueing" => pc'[s] = "enqueueing" \/ Cared(s)'
    BY <1>0, <1>a, <2>0 DEF InboxSteps
  <2>3. RowsCared' BY <1>0, <1>a, <1>q, <1>v, <2>1, <2>2, RowsStayCared
  <2>4. \A y \in Actors : pc'[y] \in {"mergeDelete", "mergeUpsert"} => y = x
    BY <1>0, <1>a, <1>i, <2>0 DEF InboxSteps
  <2> QED BY <1>a, <2>3, <2>4 DEF MergesCared
<1>d. DueItems' = DueItems => \A s \in Sources : Due(s) => Cared(s)'
  BY DEF Due, Cared
<1>1. CASE Quiet
  <2>1. (pc'[1] = "taken" <=> pc[1] = "taken") BY <1>1 DEF Quiet
  <2>2. DueItems' = DueItems BY <1>1, <2>1, DueStays DEF Quiet
  <2> QED BY <1>1, <1>l, <1>d, <2>2 DEF Quiet
<1>2. CASE Works
  <2>1. ASSUME NEW s \in Sources, Due(s) PROVE Cared(s)'
    <3>1. CASE pc[1] = "taken" /\ s \in Current.parts
      <4>1. times'[s] = times[s] + 1 BY <1>2, <3>1 DEF Works
      <4>2. times[s] \in Nat BY TimesSteps
      <4>3. times'[s] > 0 BY <4>1, <4>2
      <4> QED BY <4>3 DEF Cared, Handled
    <3>2. CASE ~(pc[1] = "taken" /\ s \in Current.parts)
      <4>1. \E i \in Queued : s \in i.parts BY <2>1, <3>2 DEF Due, DueItems
      <4>2. Queued' = Queued BY <1>2 DEF Works, SameQueues, Queued, Queue
      <4> QED BY <4>1, <4>2 DEF Cared, Due, DueItems
    <3> QED BY <3>1, <3>2
  <2> QED BY <1>2, <1>l, <2>1 DEF Works
<1>3. ASSUME NEW x \in Tasks, RestoreRegister(x), created' # created
      PROVE  (Unloaded' \/ RowsCared') /\ MergesCared'
  <2>1. created = 0 /\ pc'[x] = "replaying" /\ \A y \in Actors \ {x} : pc'[y] = pc[y]
    BY <1>3, RegisterOnce
  <2>2. \A y \in Actors : pc[y] \notin {"mergeDelete", "mergeUpsert"} BY <1>0, <2>1 DEF Locking
  <2>3. \A y \in Actors : pc'[y] \notin {"mergeDelete", "mergeUpsert"} BY <2>1, <2>2
  <2> QED BY <1>0, <2>1, <2>3 DEF Unloaded, MergesCared
<1>4. ASSUME NEW x \in Tasks, ReplayRead(x)
      PROVE  (Unloaded' \/ RowsCared') /\ MergesCared'
  <2>1. pc[x] = "replaying" /\ pc[x] \in Locking \ Asking /\ Goes(x, "queueing")
    BY <1>4 DEF ReplayRead, Locking, Asking
  <2>2. pc'[x] = "queueing" /\ \A y \in Actors \ {x} : pc'[y] = pc[y] BY <1>0, <2>1 DEF Goes
  <2>3. \A y \in Actors : pc'[y] \notin {"mergeDelete", "mergeUpsert"}
    BY <1>0, <2>1, <2>2, AloneNotes
  <2> QED BY <1>0, <2>2, <2>3 DEF Unloaded, MergesCared
<1>5. ASSUME NEW x \in Tasks, InsertRow(x)
      PROVE  (Unloaded' \/ RowsCared') /\ MergesCared'
  <2>1. /\ pc[x] = "inserting" /\ pc[x] \in Locking \ Asking /\ UNCHANGED ent /\ Goes(x, "enqueueing")
        /\ rows' = rows \cup {Item(x)}
    BY <1>5 DEF InsertRow, Locking, Asking
  <2>2. pc'[x] = "enqueueing" /\ \A y \in Actors \ {x} : pc'[y] = pc[y] BY <1>0, <2>1 DEF Goes
  <2>3. DueItems' = DueItems
    BY <1>0, <2>1, <2>2, DueStays DEF SameQueues
  <2>4. \A r \in rows' \ rows : \A s \in r.parts : s = x BY <2>1 DEF Item
  <2> QED BY <1>a, <1>d, <2>1, <2>2, <2>3, <2>4
<1>6. ASSUME NEW x \in Tasks, MergeDelete(x)
      PROVE  (Unloaded' \/ RowsCared') /\ MergesCared'
  <2>1. /\ pc[x] = "mergeDelete" /\ pc[x] \in Locking \ Asking /\ UNCHANGED <<ent, held>>
        /\ Goes(x, "mergeUpsert") /\ rows' = {r \in rows : r.id # x}
    BY <1>6 DEF MergeDelete, Locking, Asking, noted
  <2>2. pc'[x] = "mergeUpsert" /\ \A y \in Actors \ {x} : pc'[y] = pc[y] BY <1>0, <2>1 DEF Goes
  <2>3. DueItems' = DueItems
    BY <1>0, <2>1, <2>2, DueStays DEF SameQueues
  <2>4. \A m \in held'[x] : \A s \in m.parts : Cared(s)'
    <3>1. ASSUME NEW m \in held[x], NEW s \in m.parts PROVE Cared(s)'
      <4>1. s \in Sources /\ Cared(s)
        BY <1>0, <1>v, <2>1, <3>1, ItemsKnown DEF MergesCared, Fits, Stamped
      <4> QED BY <1>d, <1>h, <2>3, <4>1 DEF Cared
    <3> QED BY <2>1, <3>1
  <2>5. rows' \ rows = {} BY <2>1
  <2> QED BY <1>a, <1>d, <2>1, <2>2, <2>3, <2>4, <2>5
<1>7. ASSUME NEW x \in Tasks, MergeUpsert(x)
      PROVE  (Unloaded' \/ RowsCared') /\ MergesCared'
  <2>1. pc[x] = "mergeUpsert" /\ pc[x] \in Locking \ Asking BY <1>7 DEF MergeUpsert, Locking, Asking
  <2>2. at[x] = 1 BY <1>0, <2>1
  <2>3. /\ ent' = Unlocked(ent, x) /\ pc' = Started(1, [pc EXCEPT ![x] = "posted"])
        /\ rows' = {r \in rows : \A m \in held[x] : r.id # m.id} \cup held[x]
    BY <1>7, <2>2 DEF MergeUpsert
  <2>4. /\ pc'[x] = "posted" /\ pc'[1] = (IF pc[1] = "off" THEN "next" ELSE pc[1])
        /\ \A y \in Actors \ {x, 1} : pc'[y] = pc[y]
    BY <2>3, StartPlaces DEF Steps, TaskSteps, Ended
  <2>5. SameQueues(ent'[1], ent[1])
    BY <1>0, <2>2, <2>3, Unlocking DEF TypeInv, EntriesTyped, SameBut, SameQueues
  <2>6. DueItems' = DueItems BY <2>4, <2>5, DueStays
  <2>7. ASSUME NEW r \in rows' \ rows, NEW s \in r.parts PROVE Cared(s)'
    <3>1. r \in held[x] BY <2>3, <2>7
    <3>2. s \in Sources /\ Cared(s)
      BY <1>0, <1>v, <2>1, <2>7, <3>1, ItemsKnown DEF MergesCared, Fits, Stamped
    <3> QED BY <1>d, <1>h, <2>6, <3>2 DEF Cared
  <2> QED BY <1>a, <1>d, <2>1, <2>4, <2>6, <2>7
<1>8. ASSUME NEW x \in Tasks, ReplayQueue(x)
      PROVE  (Unloaded' \/ RowsCared') /\ MergesCared'
  <2>1. pc[x] = "queueing" /\ pc[x] \in Locking \ Asking BY <1>8 DEF ReplayQueue, Locking, Asking
  <2>2. /\ rows' \subseteq DueItems' /\ pc'[1] = "next" /\ pc'[x] = "resolved"
        /\ \A y \in Actors \ {x, 1} : pc'[y] = pc[y]
    BY <1>8, DueReplayed
  <2>3. \A y \in Actors \ {x} : pc[y] \notin {"mergeDelete", "mergeUpsert"}
    BY <1>0, <2>1, AloneNotes
  <2>4. \A y \in Actors : pc'[y] \notin {"mergeDelete", "mergeUpsert"} BY <2>2, <2>3
  <2>5. RowsCared' BY <2>2 DEF RowsCared, Cared, Due
  <2> QED BY <2>4, <2>5 DEF MergesCared
<1>9. ASSUME NEW x \in Tasks, Enqueue(x)
      PROVE  (Unloaded' \/ RowsCared') /\ MergesCared'
  <2>1. pc[x] = "enqueueing" /\ pc[x] \in Locking \ Asking /\ UNCHANGED rows
    BY <1>9 DEF Enqueue, Locking, Asking, durableVars
  <2>2. pc'[x] = "posted" /\ \A y \in Actors \ {x, 1} : pc'[y] = pc[y] BY <1>9, EnqueuePlaces
  <2>3. DueItems' = DueItems \cup {Item(x)} BY <1>0, <1>9, DueEnqueued
  <2>4. (\A s \in Sources : Due(s) => Cared(s)') /\ Cared(x)'
    <3>1. PICK item : item = Item(x) OBVIOUS
    <3>2. DueItems' = DueItems \cup {item} /\ x \in item.parts BY <2>3, <3>1 DEF Item
    <3> QED BY <3>2 DEF Due, Cared
  <2> QED BY <1>a, <2>1, <2>2, <2>4
<1>10. ASSUME NEW x \in Tasks, EnqueueMerged(x)
       PROVE  (Unloaded' \/ RowsCared') /\ MergesCared'
  <2>1. /\ pc[x] = "enqueueing" /\ pc[x] \in Locking \ Asking /\ UNCHANGED rows /\ Goes(x, "mergeDelete")
    BY <1>0, <1>10, Merging DEF Locking, Asking
  <2>2. pc'[x] = "mergeDelete" /\ \A y \in Actors \ {x} : pc'[y] = pc[y] BY <1>0, <2>1 DEF Goes
  <2>3. /\ \A s : Due(s)' <=> Due(s) \/ s = x
        /\ \A m \in held'[x] : \A s \in m.parts : Due(s)'
    BY <1>0, <1>10, DueMerged
  <2>4. /\ \A s \in Sources : Due(s) => Cared(s)'
        /\ Cared(x)' /\ \A m \in held'[x] : \A s \in m.parts : Cared(s)'
    BY <2>3 DEF Cared
  <2> QED BY <1>a, <2>1, <2>2, <2>4
<1>11. ASSUME NEW x \in Tasks, Drain(x)
       PROVE  FALSE
  <2>1. pc[x] = "draining" /\ Goes(x, "done") BY <1>11 DEF Drain
  <2>2. x \in Killers \cup {Pill} BY <2>1 DEF Roles, RoleFits
  <2>3. pc'[x] = "done" BY <1>0, <2>1 DEF Goes
  <2> QED BY <2>2, <2>3 DEF Killed
<1>12. CASE LoopNext(1) \/ Answer(1)
  <2>1. DueItems' = DueItems BY <1>12, DueAtLoop
  <2>2. /\ UNCHANGED <<held, created>> /\ rows' \subseteq rows
        /\ \A y \in Actors \ {1} : pc'[y] = pc[y]
    BY <1>12, LoopTakes DEF LoopNext, Answer
  <2>3. SamePosts(Actors)
    <3>1. pc[1] \notin InboxSteps
      BY <1>0 DEF TypeInv, PlacesTyped, Placed, LoopSteps, InboxSteps
    <3> QED BY <1>i, <2>2, <3>1 DEF SamePosts
  <2> QED BY <1>d, <1>l, <2>1, <2>2, <2>3
<1>13. CASE Restart
  <2>1. /\ \A y \in Tasks : pc'[y] \in Ended \cup {"idle"}
        /\ created' = map' /\ map' \in {0, 1}
    BY <1>13, RestartPlaces
  <2>2. \A y \in Actors : pc'[y] \notin {"mergeDelete", "mergeUpsert"}
    BY <1>13 DEF Restart, Ended
  <2>3. map' = 1 => RowsCared'
    BY <1>0, <1>13, DueRestarted DEF RowsCared, Cared, Due, InboxLaws
  <2> QED BY <2>1, <2>2, <2>3 DEF Unloaded, MergesCared
<1>14. CASE MovesItems
  BY <1>3, <1>4, <1>5, <1>6, <1>7, <1>8, <1>9, <1>10, <1>11, <1>12, <1>13, <1>14 DEF MovesItems
<1> QED BY <1>1, <1>2, <1>14, <1>q

LEMMA LiveRowsStay ==
  ASSUME TypeInv, LocksFit, Roles, OneEntry, InboxLaws, LiveRows, [Next]_vars, OneEntry'
  PROVE  LiveRows'
<1>1. CASE Next BY <1>1, CurrentHandled, LiveRowsKept DEF LiveRows
<1>2. CASE UNCHANGED vars
  <2>1. UNCHANGED <<rows, stamp, ent, pc, held, times, outcome, created>>
    BY <1>2 DEF vars, durableVars, noted, ghostVars
  <2>2. UNCHANGED <<DueItems, Current, Unloaded, Killed>>
    BY <2>1 DEF DueItems, Queued, Queue, Current, Unloaded, Killed
  <2>3. \A s : Cared(s) => Cared(s)' BY <2>1, <2>2 DEF Cared, Due, Handled
  <2> QED BY <2>1, <2>2, <2>3 DEF LiveRows, RowsCared, MergesCared
<1> QED BY <1>1, <1>2

LEMMA LiveRowsHold ==
  Spec /\ []OneEntry => [](TypeInv /\ LocksFit /\ Roles /\ PillFits /\ InboxLaws /\ LiveRows)
<1>1. Init => LiveRows
  <2> SUFFICES ASSUME Init PROVE LiveRows OBVIOUS
  <2>1. 1 \in Entries /\ 1 \notin Tasks /\ 1 \in Actors BY Kinds
  <2>2. rows = {} /\ \A x \in Actors : pc[x] \in {"idle", "off"} BY DEF Init
  <2>3. pc[1] = "off" BY <2>1 DEF Init
  <2> QED BY <2>2, <2>3 DEF LiveRows, Busy, RowsCared, MergesCared
<1>2. TypeInv /\ LocksFit /\ Roles /\ OneEntry /\ InboxLaws /\ LiveRows /\ [Next]_vars /\ OneEntry' => LiveRows'
  BY LiveRowsStay
<1> QED BY <1>1, <1>2, InboxLawsHold, PTL DEF Spec

(* The loop records the oldest item of the inbox table that was not        *)
(* handled: an older one is in the item it has taken or was posted before. *)
LEMMA OldestFirst ==
  ASSUME TypeInv, LocksFit, Roles, OneEntry, InboxLaws, LiveRows, Next, OneEntry',
         NEW s \in Sources, NEW t \in Sources, InRows(s), stamp[s] < stamp[t],
         times[t] = 0, times'[t] > 0, ~Killed
  PROVE  Handled(s) \/ times'[s] > 0
<1>0. QueueLaws /\ PostLaws /\ times \in [Sources -> Nat] BY DEF InboxLaws, TypeInv, FlagsTyped
<1>1. ~(UNCHANGED times) OBVIOUS
<1>2. Works BY <1>1, InboxMoves, TimesSteps DEF Quiet
<1>3. times'[t] = IF pc[1] = "taken" /\ t \in Current.parts THEN times[t] + 1 ELSE times[t]
  BY <1>2 DEF Works
<1>4. pc[1] = "taken" /\ t \in Current.parts BY <1>3
<1>5. ~Unloaded
  <2>1. created = 1 BY <1>4, AtTheEntry
  <2> QED BY <1>0, <1>4, <2>1 DEF Unloaded, QueueLaws
<1>6. Cared(s) \/ pc[s] = "enqueueing" BY <1>5 DEF LiveRows, RowsCared, InRows
<1>7. stamp[s] \in Nat /\ stamp[t] \in Nat BY ItemsKnown
<1>8. pc[s] # "enqueueing"
  <2>1. pc[s] = "enqueueing" => stamp[t] <= stamp[s] BY <1>0 DEF PostLaws, PostFits
  <2> QED BY <1>7, <2>1
<1>9. CASE Due(s)
  <2>1. CASE s \in Current.parts
    <3>1. times'[s] = times[s] + 1 BY <1>2, <1>4, <2>1 DEF Works
    <3> QED BY <1>0, <3>1
  <2>2. CASE s \notin Current.parts
    <3>1. PICK k \in DOMAIN Queue : s \in Queue[k].parts
      BY <1>9, <2>2 DEF Due, DueItems, Queued
    <3>2. Before(Current, Queue[k]) BY <1>0, <1>4 DEF QueueLaws, Busy
    <3>3. stamp[t] < stamp[s] BY <1>4, <3>1, <3>2 DEF Before
    <3> QED BY <1>7, <3>3
  <2> QED BY <2>1, <2>2
<1> QED BY <1>6, <1>8, <1>9 DEF Cared

(* Items are handled in the order they were posted, across crashes and     *)
(* restores: none is handled for the first time before an older one that   *)
(* is in the inbox table.  The hypothesis: two restores do not overlap.    *)
THEOREM ItemsHandledInOrder == Spec /\ [](created <= 1) => HandledInOrder
<1> DEFINE InOrder(s, t) ==
      /\ InRows(s) /\ stamp[s] < stamp[t]
      /\ times[t] = 0 /\ times'[t] > 0 /\ ~Killed
      => Handled(s) \/ times'[s] > 0
<1>1. TypeInv /\ LocksFit /\ Roles /\ OneEntry /\ InboxLaws /\ LiveRows /\ [Next]_vars /\ OneEntry'
      => [\A s, t \in Sources : InOrder(s, t)]_vars
  <2> SUFFICES ASSUME TypeInv, LocksFit, Roles, OneEntry, InboxLaws, LiveRows, Next, OneEntry',
                      NEW s \in Sources, NEW t \in Sources
               PROVE  InOrder(s, t)
    OBVIOUS
  <2> QED BY OldestFirst
<1> QED BY <1>1, LiveRowsHold, PTL DEF Spec, OneEntry, HandledInOrder

-----------------------------------------------------------------------------
(* Falling asleep.  Without tasks that run code beside the loop only the   *)
(* loop lets the agent fall asleep, behind an item it has handled and in   *)
(* front of an empty queue.                                                *)

LEMMA LifeSteps ==
  ASSUME TypeInv, LocksFit, Roles, OneEntry, PillFits, Next, Runners = {}, ~Killed'
  PROVE  /\ rows' \subseteq rows \/ life' = "active"
         /\ life' \in {life, "active"} \/ FallAsleep(1)
<1>0. /\ pc \in [Actors -> Steps] /\ Killers \cup {Pill} \subseteq Tasks /\ Tasks \subseteq Actors
      /\ \A x \in Killers \cup {Pill} : pc'[x] \notin Killing
  BY Kinds DEF TypeInv, PlacesTyped, Tasks, Killed, Killing
<1>k. /\ created = 1 => ent[1].state = life
      /\ \A x \in Actors : StepFits(pc[x], seen[x])
  BY KillersStay DEF PillFits
<1>1. ASSUME NEW x \in Tasks, Resolving(x) \/ Steer(x) \/ KillLoaded(x) \/ KillUnloaded(x)
      PROVE  UNCHANGED <<rows, life>>
  BY <1>1 DEF Resolving, ResolveLoaded, RestoreRead, Steer, KillLoaded, KillUnloaded, durableVars
<1>2. CASE PillDue \/ PillFires \/ PillHandled
  <2>1. UNCHANGED <<rows, life>> BY <1>2 DEF PillDue, PillFires, PillHandled, durableVars
  <2> QED BY <2>1
<1>3. ASSUME NEW x \in Tasks, TaskStep(x)
      PROVE  /\ rows' \subseteq rows \/ life' = "active"
             /\ life' \in {life, "active"}
  <2>0. x \in Actors BY <1>0
  <2>1. CASE InsertRow(x) \/ MergeUpsert(x)
    <3>1. UNCHANGED life /\ pc[x] \in {"inserting", "mergeUpsert"}
      BY <2>1 DEF InsertRow, MergeUpsert
    <3>2. life = "active" BY <1>k, <2>0, <3>1 DEF StepFits
    <3> QED BY <3>1, <3>2
  <2>2. CASE MarkDead(x)
    <3>1. x \in Killers \cup {Pill} BY <1>3, <2>2 DEF MarkDead, Roles, RoleFits
    <3>2. Goes(x, "done") \/ Goes(x, "draining") BY <2>2 DEF MarkDead
    <3>3. pc'[x] \in Killing BY <1>0, <2>0, <3>2 DEF Goes, Killing
    <3> QED BY <1>0, <3>1, <3>3
  <2>3. CASE KillWrite(x)
    <3>1. x \in Killers \cup {Pill} BY <1>3, <2>3 DEF KillWrite, Roles, RoleFits
    <3>2. Goes(x, "killClear") BY <2>3 DEF KillWrite
    <3>3. pc'[x] \in Killing BY <1>0, <2>0, <3>2 DEF Goes, Killing
    <3> QED BY <1>0, <3>1, <3>3
  <2>4. CASE WakeAndInsert(x) \/ WakeOnly(x)
    BY <2>4 DEF WakeAndInsert, WakeOnly, WokenIfSleeping
  <2>5. CASE RestoreRegister(x) \/ ReplayRead(x) \/ EnterLock(x) \/ Enqueue(x) \/ EnqueueMerged(x)
             \/ StartTask(x) \/ EndTask(x)
    <3>1. UNCHANGED <<rows, life>>
      BY <2>5 DEF RestoreRegister, ReplayRead, EnterLock, Enqueue, EnqueueMerged, StartTask, EndTask,
                  durableVars
    <3> QED BY <3>1
  <2>6. CASE ReplayQueue(x) \/ MergeDelete(x) \/ Drain(x) \/ KillClear(x)
    <3>1. UNCHANGED life /\ rows' \subseteq rows
      BY <2>6 DEF ReplayQueue, MergeDelete, Drain, KillClear
    <3> QED BY <3>1
  <2> QED BY <1>3, <2>1, <2>2, <2>3, <2>4, <2>5, <2>6 DEF TaskStep
<1>4. ASSUME NEW e \in Entries, LoopStep(e)
      PROVE  rows' \subseteq rows /\ life' = life
  <2>1. e = 1 /\ created = 1
    <3>1. pc[e] # "off" BY <1>4 DEF LoopStep, LoopNext, HandleRestore, Record, OpenTurn, CloseTurn,
                                    FinishTurn, FailTurn, InTurn, Answer
    <3> QED BY <3>1, AtTheEntry
  <2>2. rows' \subseteq rows /\ life' \in {life, ent[1].state}
    BY <1>4, <2>1 DEF LoopStep, LoopNext, HandleRestore, Record, OpenTurn, CloseTurn, FinishTurn, FailTurn,
                      Answer, durableVars
  <2> QED BY <1>k, <2>1, <2>2
<1>5. ASSUME NEW x \in Actors, SleepStep(x)
      PROVE  rows' = rows /\ (life' = life \/ FallAsleep(1))
  <2>1. pc[x] \in {"handled", "idling", "scheduling"}
    BY <1>5 DEF SleepStep, SleepRequest, FallAsleep, SchedulePoisonPill, WantsSleep
  <2>2. x \notin Tasks BY <2>1 DEF Roles, RoleFits
  <2>3. x = 1 BY <2>1, <2>2, AtTheEntry DEF Actors
  <2> QED BY <1>5, <2>3 DEF SleepStep, SleepRequest, FallAsleep, SchedulePoisonPill, durableVars
<1>6. CASE Restart
  <2>1. rows' \subseteq rows /\ life' = life BY <1>6 DEF Restart
  <2> QED BY <2>1
<1> QED BY <1>1, <1>2, <1>3, <1>4, <1>5, <1>6 DEF Next

(* The loop falls asleep: nobody posts, and nothing is due.                *)
LEMMA RowsHandledAsleep ==
  ASSUME TypeInv, LocksFit, Roles, OneEntry, InboxLaws, LiveRows, ~Killed, FallAsleep(1), life' # life
  PROVE  \A r \in rows : \A s \in r.parts : Handled(s)
<1>0. pc[1] = "idling" /\ Granted(1) /\ 1 \in Actors /\ Tasks \cap Entries = {} /\ 1 \in Entries
  BY Kinds DEF FallAsleep
<1>1. at[1] = 1 /\ created = 1 /\ \A y \in Actors \ {1} : pc[y] \notin Locking \ Asking
  BY <1>0, AloneUnderLock DEF Locking
<1>2. Queue = << >> BY <1>1 DEF FallAsleep, StaysAwake, Queue
<1>3. ~Unloaded
  <2>1. \A y \in Actors : pc[y] \notin {"replaying", "queueing"}
    BY <1>0, <1>1 DEF Locking, Asking
  <2> QED BY <1>1, <2>1 DEF Unloaded
<1>4. \A s : ~Due(s) BY <1>0, <1>2 DEF Due, DueItems, Queued
<1>5. ASSUME NEW r \in rows, NEW s \in r.parts PROVE Handled(s)
  <2>1. s \in Sources BY <1>5, ItemsKnown DEF Fits, Stamped
  <2>2. pc[s] # "enqueueing" BY <1>0, <1>1, <2>1, Kinds DEF Locking, Asking
  <2> QED BY <1>3, <1>4, <1>5, <2>2 DEF LiveRows, RowsCared, Cared
<1> QED BY <1>5

LEMMA SleepsStays ==
  ASSUME Runners = {}, TypeInv, LocksFit, Roles, OneEntry, PillFits, InboxLaws, LiveRows,
         SleepsOnlyWhenDone, [Next]_vars, OneEntry'
  PROVE  SleepsOnlyWhenDone'
<1>1. CASE UNCHANGED vars
  BY <1>1 DEF vars, durableVars, ghostVars, SleepsOnlyWhenDone, Killed, Handled
<1>2. CASE Next
  <2>1. SUFFICES ASSUME ~Killed', life' = "sleeping", NEW r \in rows', NEW s \in r.parts
                 PROVE  Handled(s)'
    BY DEF SleepsOnlyWhenDone
  <2>2. ~Killed BY <1>2, <2>1, KillersStay
  <2>3. rows' \subseteq rows /\ (life = "sleeping" \/ (FallAsleep(1) /\ life' # life))
    BY <1>2, <2>1, LifeSteps
  <2>4. Handled(s) /\ s \in Sources
    <3>1. s \in Sources BY <2>1, <2>3, ItemsKnown DEF Fits, Stamped
    <3>2. CASE life = "sleeping" BY <2>1, <2>2, <2>3, <3>1, <3>2 DEF SleepsOnlyWhenDone
    <3>3. CASE life # "sleeping" BY <2>1, <2>2, <2>3, <3>1, <3>3, RowsHandledAsleep
    <3> QED BY <3>2, <3>3
  <2> QED BY <1>2, <2>4, InboxMoves, HandledStays
<1> QED BY <1>1, <1>2

(* An agent whose record says it sleeps, which a boot does not load, has   *)
(* no row left but of items that were handled: "active --> sleeping: inbox *)
(* drained" (subagent-dead-state.md).  The hypotheses: two restores do not *)
(* overlap, and no task runs code beside the loop; one that woke the agent *)
(* lets it fall asleep beside an item the loop has taken.                  *)
THEOREM SleepsWhenDone ==
  ASSUME Runners = {}
  PROVE  Spec /\ [](created <= 1) => []SleepsOnlyWhenDone
<1>1. Init => SleepsOnlyWhenDone BY DEF Init, SleepsOnlyWhenDone
<1>2. TypeInv /\ LocksFit /\ Roles /\ OneEntry /\ PillFits /\ InboxLaws /\ LiveRows
      /\ SleepsOnlyWhenDone /\ [Next]_vars /\ OneEntry' => SleepsOnlyWhenDone'
  BY SleepsStays
<1> QED BY <1>1, <1>2, LiveRowsHold, PTL DEF Spec, OneEntry

-----------------------------------------------------------------------------
(* Accepted items last: a part whose post was accepted has a row or has    *)
(* been handled.  What a step takes from the inbox table is a row the loop *)
(* has handled, one that a merge writes again, or one taken to be in       *)
(* flight.                                                                 *)

InMemory == Queued \cup Taken

PostsLast ==
  \A s \in Sources : /\ pc[s] = "enqueueing" => InRows(s)
                     /\ pc[s] = "posted" => InRows(s) \/ Handled(s) \/ s \in mistaken
MemoryLasts == \A i \in InMemory : \E r \in rows : r.id = i.id
RowsCovered == \A i \in Copies : \A r \in rows : r.id = i.id => r.parts \subseteq i.parts
ReadsLast == \A x \in Actors : pc[x] = "queueing" => held[x] \subseteq rows
MergesLast ==
  \A x \in Actors : pc[x] \in {"mergeDelete", "mergeUpsert"} =>
    /\ \E m \in held[x] : x \in m.parts
    /\ \A m \in held[x] : \A i \in InMemory : i.id = m.id => i = m

LEMMA RowsGo ==
  ASSUME TypeInv, LocksFit, Roles, OneEntry, Next, ~Killed'
  PROVE  ((Quiet \/ Works) /\ rows' = rows) \/ MovesItems
<1>0. /\ pc \in [Actors -> Steps] /\ Killers \cup {Pill} \subseteq Tasks /\ Tasks \subseteq Actors
      /\ \A x \in Killers \cup {Pill} : pc'[x] \notin Killing
  BY Kinds DEF TypeInv, PlacesTyped, Tasks, Killed, Killing
<1>1. ASSUME NEW x \in Tasks, Resolving(x) \/ Steer(x) \/ KillLoaded(x) \/ KillUnloaded(x)
      PROVE  rows' = rows
  BY <1>1 DEF Resolving, ResolveLoaded, RestoreRead, Steer, KillLoaded, KillUnloaded, durableVars
<1>2. ASSUME PillDue \/ PillFires \/ PillHandled
      PROVE  rows' = rows
  BY <1>2 DEF PillDue, PillFires, PillHandled, durableVars
<1>3. ASSUME NEW x \in Tasks, TaskStep(x)
      PROVE  rows' = rows \/ MovesItems
  <2>1. CASE KillClear(x)
    <3>1. x \in Killers \cup {Pill} BY <1>3, <2>1 DEF KillClear, Roles, RoleFits
    <3>2. Goes(x, "done") BY <2>1 DEF KillClear
    <3>3. pc'[x] \in Killing BY <1>0, <3>1, <3>2 DEF Goes, Killing
    <3> QED BY <1>0, <3>1, <3>3
  <2>2. CASE ReplayQueue(x) \/ InsertRow(x) \/ MergeDelete(x) \/ MergeUpsert(x) \/ Drain(x)
    BY <1>3, <2>2 DEF MovesItems
  <2>3. CASE RestoreRegister(x) \/ ReplayRead(x) \/ EnterLock(x) \/ WakeAndInsert(x) \/ WakeOnly(x)
             \/ Enqueue(x) \/ EnqueueMerged(x) \/ StartTask(x) \/ EndTask(x)
             \/ MarkDead(x) \/ KillWrite(x)
    BY <2>3 DEF RestoreRegister, ReplayRead, EnterLock, WakeAndInsert, WakeOnly, Enqueue, EnqueueMerged,
                StartTask, EndTask, MarkDead, KillWrite, durableVars
  <2> QED BY <1>3, <2>1, <2>2, <2>3 DEF TaskStep
<1>4. ASSUME NEW e \in Entries, LoopStep(e)
      PROVE  rows' = rows \/ MovesItems
  <2>1. CASE Answer(e)
    <3>1. pc[e] # "off" BY <2>1 DEF Answer
    <3>2. e = 1 BY <3>1, AtTheEntry
    <3> QED BY <2>1, <3>2 DEF MovesItems
  <2> QED BY <1>4, <2>1 DEF LoopStep, LoopNext, HandleRestore, Record, OpenTurn, CloseTurn, FinishTurn,
                            FailTurn, durableVars
<1>5. ASSUME NEW x \in Actors, SleepStep(x)
      PROVE  rows' = rows
  BY <1>5 DEF SleepStep, SleepRequest, FallAsleep, SchedulePoisonPill, durableVars
<1>6. CASE Restart
  BY <1>6 DEF MovesItems
<1>7. rows' = rows \/ MovesItems
  BY <1>1, <1>2, <1>3, <1>4, <1>5, <1>6 DEF Next
<1> QED BY <1>7, InboxMoves

LEMMA MemoryReplayed ==
  ASSUME TypeInv, LocksFit, OneEntry, InboxLaws, NEW x \in Tasks, ReplayQueue(x)
  PROVE  InMemory' \subseteq held[x] \ StaleInFlight(held[x])
<1>0. /\ QueueLaws /\ RowLaws /\ x \in Actors /\ pc[x] = "queueing" /\ at[x] = 1
  <2>1. pc[x] = "queueing" /\ x \in Actors BY Kinds DEF ReplayQueue
  <2>2. at[x] = 1 BY <2>1, AtTheEntry DEF Locking
  <2> QED BY <2>1, <2>2 DEF InboxLaws
<1>1. PICK items : items = held[x] \ StaleInFlight(held[x]) OBVIOUS
<1>2. PICK q : q = <<RestoreItem>> \o ByStamp(items) OBVIOUS
<1>3. q = Queue' BY <1>0, <1>1, <1>2, ReplayEffect DEF Queue, QueueLaws
<1>4. items \in SUBSET Items /\ RowsFit(items) /\ items \subseteq Copies
  BY <1>0, <1>1, ReplayEffect, RowsLess DEF Copies, Noted
<1>5. QueuesRows(q, items)
  <2>1. \A a, b \in items : Ordered(a, b) BY <1>0, <1>4 DEF RowLaws
  <2> QED BY <1>2, <1>4, <2>1, SortedQueue
<1>6. Taken' = {} BY DueReplayed DEF Taken, Busy
<1>7. Queued' \subseteq items BY <1>3, <1>5 DEF QueuesRows, Queued
<1> QED BY <1>1, <1>6, <1>7 DEF InMemory

LEMMA MemoryRestarted ==
  ASSUME TypeInv, InboxLaws, Restart
  PROVE  InMemory' \subseteq rows'
<1>1. rows' \subseteq rows /\ rows' \in SUBSET Items /\ RowsFit(rows') /\ 1 \in Entries
  BY RestartEffect, Kinds
<1>2. PICK q, items : q = Queue' /\ items = rows' OBVIOUS
<1>3. Taken' = {} BY RestartPlaces DEF Taken, Busy
<1>4. CASE map' = 1
  <2>1. q = <<RestoreItem>> \o ByStamp(items) BY <1>1, <1>2, <1>4, RestartEffect DEF Queue
  <2>2. items \in SUBSET Items /\ RowsFit(items) /\ \A a, b \in items : Ordered(a, b)
    BY <1>1, <1>2 DEF InboxLaws, RowLaws
  <2>3. QueuesRows(q, items) BY <2>1, <2>2, SortedQueue
  <2>4. Queued' \subseteq items BY <1>2, <2>3 DEF QueuesRows, Queued
  <2> QED BY <1>2, <1>3, <2>4 DEF InMemory
<1>5. CASE map' # 1
  <2>1. q = << >> BY <1>1, <1>2, <1>5, RestartEffect DEF Queue
  <2>2. Queued' = {} BY <1>2, <2>1 DEF Queued
  <2> QED BY <1>3, <2>2 DEF InMemory
<1> QED BY <1>4, <1>5

LEMMA MemoryEnqueued ==
  ASSUME TypeInv, OneEntry, QueueLaws, NEW x \in Tasks, Enqueue(x)
  PROVE  InMemory' \subseteq InMemory \cup {Item(x)}
<1>0. /\ at[x] = 1 /\ x \in Sources
      /\ pc'[1] = (IF pc[1] = "waiting" THEN "taken" ELSE IF pc[1] = "off" THEN "next" ELSE pc[1])
  BY EnqueueEffect, EnqueuePlaces
<1>1. PICK item, old, q, c : item = Item(x) /\ old = Queue /\ q = Queue' /\ c = Current' OBVIOUS
<1>3. CASE pc[1] = "waiting"
  <2>1. q = << >> /\ c = item
    BY <1>0, <1>1, <1>3, EnqueueEffect DEF Queue, Current, QueueLaws
  <2>2. Queued' = {} /\ Taken' \subseteq {item} BY <1>1, <2>1 DEF Queued, Taken
  <2> QED BY <1>1, <2>2 DEF InMemory
<1>4. CASE pc[1] # "waiting"
  <2>1. q = Append(old, item) /\ c = Current /\ old \in Seq(QueueItems)
    BY <1>0, <1>1, <1>4, EnqueueEffect, ItemsKnown DEF Queue, Current
  <2>2. ASSUME NEW k \in DOMAIN q PROVE q[k] = item \/ (k \in DOMAIN old /\ q[k] = old[k])
    BY <2>1, <2>2
  <2>3. Queued' \subseteq Queued \cup {item} BY <1>1, <2>2 DEF Queued
  <2>4. Taken' \subseteq Taken BY <1>0, <1>1, <1>4, <2>1 DEF Taken, Busy
  <2> QED BY <1>1, <2>3, <2>4 DEF InMemory
<1> QED BY <1>3, <1>4

\* Of the items in memory only the newest has its id.
LEMMA MemoryMerged ==
  ASSUME TypeInv, OneEntry, QueueLaws, PostLaws, NEW x \in Tasks, EnqueueMerged(x)
  PROVE  /\ Newest \in Queued /\ x \in Sources /\ UNCHANGED rows
         /\ \E merged \in Items :
              /\ merged.id = Newest.id /\ merged.parts = Newest.parts \cup {x}
              /\ held' = [held EXCEPT ![x] = {merged}]
              /\ \A i \in InMemory' : i = merged \/ (i \in InMemory /\ i.id # merged.id)
<1>0. pc \in [Actors -> Steps] /\ 1 \in Actors /\ x \in Actors /\ x # 1
  BY Kinds DEF TypeInv, PlacesTyped
<1>1. PICK old, last : old = Queue /\ last = Newest OBVIOUS
<1>2. /\ old \in Seq(QueueItems) /\ Len(old) \in DOMAIN old /\ last \in Queued /\ last = old[Len(old)]
      /\ Goes(x, "mergeDelete") /\ x \in Sources /\ UNCHANGED rows
  BY <1>1, Merging DEF Newest
<1>3. PICK merged \in Items :
        /\ merged.id = last.id /\ merged.parts = last.parts \cup {x}
        /\ Queue' = [old EXCEPT ![Len(old)] = merged] /\ Current' = Current
        /\ held' = [held EXCEPT ![x] = {merged}]
  BY <1>1, Merging
<1>4. PICK q : q = Queue' OBVIOUS
<1>5. /\ Len(old) \in Nat /\ DOMAIN old = 1..Len(old) /\ DOMAIN q = DOMAIN old /\ q[Len(old)] = merged
      /\ \A k \in DOMAIN old \ {Len(old)} : q[k] = old[k]
  BY <1>2, <1>3, <1>4
<1>6. pc'[1] = pc[1] BY <1>0, <1>2 DEF Goes
<1>7. Fits(last) BY <1>2, CopiesKnown DEF Copies
<1>8. ASSUME NEW i, Fits(i), Before(i, last) PROVE i.id # last.id
  <2>1. stamp[i.id] < stamp[last.id] BY <1>7, <1>8 DEF Before, Fits
  <2>2. stamp[i.id] \in Nat BY <1>8, ItemsKnown DEF Fits
  <2> QED BY <2>1, <2>2
<1>9. ASSUME NEW i \in Queued', i # merged PROVE i \in InMemory /\ i.id # merged.id
  <2>1. PICK k \in DOMAIN q : i = q[k] /\ i # RestoreItem BY <1>4, <1>9 DEF Queued
  <2>2. k \in DOMAIN old /\ k < Len(old) /\ i = old[k] BY <1>5, <1>9, <2>1
  <2>3. Before(i, last) BY <1>1, <1>2, <2>2 DEF QueueLaws
  <2>4. i \in Queued BY <1>1, <2>1, <2>2 DEF Queued
  <2>5. Fits(i) BY <2>4, CopiesKnown DEF Copies
  <2> QED BY <1>3, <1>8, <2>3, <2>4, <2>5 DEF InMemory
<1>10. ASSUME NEW i \in Taken' PROVE i \in InMemory /\ i.id # merged.id
  <2>1. i \in Taken /\ i = Current /\ pc[1] \in Busy BY <1>3, <1>6, <1>10 DEF Taken
  <2>2. Before(i, last) BY <1>1, <1>2, <2>1 DEF QueueLaws
  <2>3. Fits(i) BY <2>1, CopiesKnown DEF Copies
  <2> QED BY <1>3, <1>8, <2>1, <2>2, <2>3 DEF InMemory
<1>11. \A i \in InMemory' : i = merged \/ (i \in InMemory /\ i.id # merged.id)
  BY <1>9, <1>10 DEF InMemory
<1> QED BY <1>1, <1>2, <1>3, <1>11

LEMMA MemoryStays ==
  ASSUME TypeInv, LocksFit, Roles, OneEntry, InboxLaws, Next, OneEntry',
         \/ Quiet \/ Works \/ LoopNext(1) \/ Answer(1)
         \/ \E x \in Tasks : \/ RestoreRegister(x) /\ created' # created
                             \/ ReplayRead(x) \/ InsertRow(x) \/ MergeDelete(x) \/ MergeUpsert(x)
  PROVE  InMemory' \subseteq InMemory
<1>0. /\ pc \in [Actors -> Steps] /\ 1 \in Entries /\ 1 \in Actors
      /\ Tasks \subseteq Actors /\ Tasks \cap Entries = {}
      /\ \A x \in Actors : pc[x] \in Locking => at[x] = 1 /\ created = 1
  BY Kinds, AtTheEntry DEF TypeInv, PlacesTyped
<1>1. CASE Quiet \/ Works
  <2>1. SameQueues(ent'[1], ent[1]) /\ (pc'[1] \in Busy => pc[1] \in Busy)
    BY <1>1 DEF Quiet, Works, Busy
  <2> QED BY <2>1, SameCopies DEF InMemory
<1>2. CASE LoopNext(1) \/ Answer(1)
  BY <1>2, LoopTakes DEF InMemory
<1>3. ASSUME NEW x \in Tasks, RestoreRegister(x), created' # created
      PROVE  InMemory' = {}
  <2>1. Queue' = <<RestoreItem>> /\ pc'[1] = "off" BY <1>3, RegisterOnce
  <2>2. Queued' = {} /\ Taken' = {} BY <2>1 DEF Queued, Taken, Busy
  <2> QED BY <2>2 DEF InMemory
<1>4. ASSUME NEW x \in Tasks, ReplayRead(x) \/ InsertRow(x) \/ MergeDelete(x)
      PROVE  InMemory' \subseteq InMemory
  <2>1. (\E step : Goes(x, step)) /\ UNCHANGED ent BY <1>4 DEF ReplayRead, InsertRow, MergeDelete
  <2>2. SameQueues(ent'[1], ent[1]) /\ pc'[1] = pc[1] BY <1>0, <2>1 DEF Goes, SameQueues
  <2> QED BY <2>2, SameCopies DEF InMemory
<1>5. ASSUME NEW x \in Tasks, MergeUpsert(x)
      PROVE  InMemory' \subseteq InMemory
  <2>1. pc[x] = "mergeUpsert" BY <1>5 DEF MergeUpsert
  <2>2. at[x] = 1 BY <1>0, <2>1 DEF Locking
  <2>3. ent' = Unlocked(ent, x) /\ pc' = Started(1, [pc EXCEPT ![x] = "posted"])
    BY <1>5, <2>2 DEF MergeUpsert
  <2>4. SameQueues(ent'[1], ent[1])
    BY <1>0, <2>2, <2>3, Unlocking DEF TypeInv, EntriesTyped, SameBut, SameQueues
  <2>5. pc'[1] \in Busy => pc[1] \in Busy
    BY <2>3, StartPlaces DEF Steps, TaskSteps, Ended, Busy
  <2> QED BY <2>4, <2>5, SameCopies DEF InMemory
<1> QED BY <1>1, <1>2, <1>3, <1>4, <1>5

(* Who is newly at the row it has inserted, or has its post accepted.      *)
LEMMA PostSteps ==
  ASSUME TypeInv, LocksFit, Roles, OneEntry, InboxLaws, Next, OneEntry', NEW s \in Sources
  PROVE  /\ pc'[s] = "enqueueing" => pc[s] = "enqueueing" \/ InsertRow(s)
         /\ pc'[s] = "posted" => pc[s] = "posted" \/ Enqueue(s) \/ MergeUpsert(s)
<1>0. /\ pc \in [Actors -> Steps] /\ s \in Tasks /\ s \in Actors /\ s # 1
      /\ Tasks \subseteq Actors /\ Tasks \cap Entries = {} /\ 1 \in Entries
      /\ \A x \in Actors : pc[x] \in Locking => at[x] = 1 /\ created = 1
  BY Kinds, AtTheEntry DEF TypeInv, PlacesTyped
<1>1. CASE Quiet \/ Works
  <2>1. SamePosts(Actors) BY <1>1 DEF Quiet, Works
  <2>2. ASSUME NEW x \in Tasks, InsertRow(x) PROVE FALSE
    <3>1. pc[x] = "inserting" /\ pc'[x] = "enqueueing" BY <1>0, <2>2 DEF InsertRow, Goes
    <3> QED BY <1>0, <2>1, <3>1 DEF SamePosts, InboxSteps
  <2>3. pc'[s] = "posted" => pc[s] \in Inserted
    BY <2>2, StampSteps DEF StampsStay, Inserted
  <2> QED BY <1>0, <2>1, <2>3 DEF SamePosts, InboxSteps, Inserted
<1>2. ASSUME NEW x \in Tasks, \/ RestoreRegister(x) /\ created' # created
                              \/ ReplayRead(x) \/ InsertRow(x) \/ EnqueueMerged(x) \/ MergeDelete(x) \/ Drain(x)
      PROVE  pc'[s] = pc[s] \/ (s = x /\ pc'[s] # "posted" /\ (pc'[s] = "enqueueing" => InsertRow(s)))
  <2>1. \/ RestoreRegister(x) /\ pc'[x] = "replaying" /\ \A y \in Actors \ {x} : pc'[y] = pc[y]
        \/ InsertRow(x) /\ Goes(x, "enqueueing")
        \/ Goes(x, "queueing") \/ Goes(x, "mergeDelete") \/ Goes(x, "mergeUpsert") \/ Goes(x, "done")
    BY <1>2, RegisterOnce DEF ReplayRead, InsertRow, EnqueueMerged, MergeDelete, Drain
  <2> QED BY <1>0, <2>1 DEF Goes
<1>3. ASSUME NEW x \in Tasks, ReplayQueue(x)
      PROVE  pc'[s] = pc[s] \/ (s = x /\ pc'[s] = "resolved")
  BY <1>0, <1>3, DueReplayed
<1>4. ASSUME NEW x \in Tasks, Enqueue(x)
      PROVE  pc'[s] = pc[s] \/ (s = x /\ pc'[s] = "posted")
  BY <1>0, <1>4, EnqueuePlaces
<1>5. ASSUME NEW x \in Tasks, MergeUpsert(x)
      PROVE  pc'[s] = pc[s] \/ (s = x /\ pc'[s] = "posted")
  <2>1. pc[x] = "mergeUpsert" BY <1>5 DEF MergeUpsert
  <2>2. at[x] = 1 BY <1>0, <2>1 DEF Locking
  <2>3. pc' = Started(1, [pc EXCEPT ![x] = "posted"])
    BY <1>5, <2>2 DEF MergeUpsert
  <2> QED BY <1>0, <2>3, StartPlaces DEF Steps, TaskSteps, Ended
<1>6. CASE LoopNext(1) \/ Answer(1)
  BY <1>0, <1>6, LoopTakes
<1>7. CASE Restart
  BY <1>0, <1>7 DEF Restart, Ended
<1>8. CASE MovesItems
  BY <1>2, <1>3, <1>4, <1>5, <1>6, <1>7, <1>8 DEF MovesItems
<1> QED BY <1>1, <1>8, InboxMoves

(* Crashes apart, a part whose row goes was handled, or is written again,  *)
(* or is of a message that is being merged.                                *)
LEMMA RowsDropped ==
  ASSUME TypeInv, LocksFit, Roles, OneEntry, PillFits, InboxLaws, LiveRows, SleepsOnlyWhenDone, RowsCovered,
         Next, OneEntry', ~Killed', ~Restart, NEW r \in rows, r \notin rows', NEW s \in r.parts
  PROVE  Handled(s) \/ InRows(s)' \/ MergeDelete(s)
<1>0. /\ pc \in [Actors -> Steps] /\ Tasks \subseteq Actors /\ ~Killed /\ s \in Sources /\ Fits(r)
      /\ r.id \in Sources
  BY Kinds, KillersStay, ItemsKnown DEF TypeInv, PlacesTyped, Fits, Stamped
<1>1. CASE Answer(1)
  <2>1. pc[1] = "answering" /\ r.id = Current.id BY <1>1 DEF Answer, Current
  <2>2. Current # RestoreItem BY <1>0, <2>1, Kinds DEF RestoreItem
  <2>3. Current \in Copies BY <2>1, <2>2 DEF Copies, Taken, Busy
  <2>4. s \in Current.parts BY <2>1, <2>3 DEF RowsCovered
  <2> QED BY <2>1, <2>4 DEF LiveRows, Busy, Handled
<1>2. ASSUME NEW x \in Tasks, ReplayQueue(x)
      PROVE  Handled(s)
  <2>1. pc[x] = "queueing" /\ x \in Actors BY <1>0, <1>2 DEF ReplayQueue
  <2>2. life = "sleeping" BY <1>0, <2>1 DEF PillFits, StepFits
  <2> QED BY <1>0, <2>2 DEF SleepsOnlyWhenDone
<1>3. ASSUME NEW x \in Tasks, MergeDelete(x)
      PROVE  MergeDelete(s)
  <2>1. pc[x] = "mergeDelete" /\ r.id = x BY <1>3 DEF MergeDelete
  <2>2. r = Item(x) BY <1>0, <2>1 DEF InboxLaws, PostLaws, PostFits, Fits
  <2>3. s = x BY <2>2 DEF Item
  <2> QED BY <1>3, <2>3
<1>4. ASSUME NEW x \in Tasks, MergeUpsert(x)
      PROVE  InRows(s)'
  <2>1. PICK m \in held[x] : r.id = m.id BY <1>4 DEF MergeUpsert
  <2>2. m \in Copies BY <1>0, <2>1 DEF Copies, Noted
  <2>3. s \in m.parts BY <2>1, <2>2 DEF RowsCovered
  <2>4. m \in rows' BY <1>4 DEF MergeUpsert
  <2> QED BY <2>3, <2>4 DEF InRows
<1>5. ASSUME NEW x \in Tasks, Drain(x)
      PROVE  FALSE
  <2>1. pc[x] = "draining" /\ Goes(x, "done") BY <1>5 DEF Drain
  <2>2. x \in Killers \cup {Pill} BY <2>1 DEF Roles, RoleFits
  <2>3. pc'[x] = "done" BY <1>0, <2>1 DEF Goes
  <2> QED BY <2>2, <2>3 DEF Killed
<1>6. ASSUME NEW x \in Tasks, \/ RestoreRegister(x) \/ ReplayRead(x) \/ InsertRow(x) \/ Enqueue(x)
                              \/ EnqueueMerged(x)
      PROVE  FALSE
  <2>1. rows \subseteq rows'
    BY <1>6 DEF RestoreRegister, ReplayRead, InsertRow, Enqueue, EnqueueMerged, durableVars
  <2> QED BY <2>1
<1>7. CASE LoopNext(1)
  BY <1>7 DEF LoopNext, durableVars
<1>8. CASE MovesItems
  BY <1>1, <1>2, <1>3, <1>4, <1>5, <1>6, <1>7, <1>8 DEF MovesItems
<1> QED BY <1>8, RowsGo

LEMMA MistakenGrows ==
  ASSUME Next
  PROVE  mistaken \subseteq mistaken'
<1>0. ObservesDrop => mistaken \subseteq mistaken' BY DEF ObservesDrop
<1>1. ASSUME NEW x \in Tasks, TaskStep(x) PROVE mistaken' = mistaken \/ ObservesDrop
  BY <1>1 DEF TaskStep, RestoreRegister, ReplayRead, ReplayQueue, EnterLock, WakeAndInsert, WakeOnly,
              InsertRow, Enqueue, EnqueueMerged, MergeDelete, MergeUpsert, StartTask, EndTask,
              MarkDead, Drain, KillWrite, KillClear, ghostVars
<1>2. ASSUME NEW e \in Entries, LoopStep(e) PROVE mistaken' = mistaken
  BY <1>2 DEF LoopStep, LoopNext, HandleRestore, Record, OpenTurn, CloseTurn, FinishTurn, FailTurn, Answer,
              ghostVars
<1>3. ASSUME NEW x \in Actors, SleepStep(x) PROVE mistaken' = mistaken
  BY <1>3 DEF SleepStep, SleepRequest, FallAsleep, SchedulePoisonPill, ghostVars
<1>4. ASSUME NEW x \in Tasks, Resolving(x) \/ Steer(x) \/ KillLoaded(x) \/ KillUnloaded(x)
      PROVE  mistaken' = mistaken
  BY <1>4 DEF Resolving, ResolveLoaded, RestoreRead, Steer, KillLoaded, KillUnloaded, ghostVars
<1>5. PillDue \/ PillFires \/ PillHandled => mistaken' = mistaken
  BY DEF PillDue, PillFires, PillHandled, ghostVars
<1>6. Restart => ObservesDrop BY DEF Restart
<1> QED BY <1>0, <1>1, <1>2, <1>3, <1>4, <1>5, <1>6 DEF Next

LEMMA PostsLastKept ==
  ASSUME TypeInv, LocksFit, Roles, OneEntry, PillFits, InboxLaws, LiveRows, SleepsOnlyWhenDone, RowsCovered,
         PostsLast, MergesLast, Next, OneEntry', ~Killed',
         Restart => \A r \in rows \ rows' : \A s \in r.parts :
                      pc[s] = "posted" => Handled(s) \/ s \in mistaken'
  PROVE  PostsLast'
<1>0. /\ pc \in [Actors -> Steps] /\ held \in [Actors -> SUBSET Items] /\ Sources \subseteq Tasks
      /\ Tasks \subseteq Actors /\ PostLaws
  BY Kinds DEF TypeInv, PlacesTyped, RowsTyped, InboxLaws
<1>h. \A s \in Sources : Handled(s) => Handled(s)' BY InboxMoves, HandledStays
<1>m. mistaken \subseteq mistaken' BY MistakenGrows
<1>r. ASSUME NEW s \in Sources, InRows(s), ~Restart, ~MergeDelete(s)
      PROVE  InRows(s)' \/ Handled(s)
  <2>1. PICK r \in rows : s \in r.parts BY <1>r DEF InRows
  <2>2. CASE r \in rows' BY <2>1, <2>2 DEF InRows
  <2>3. CASE r \notin rows' BY <1>r, <2>1, <2>3, RowsDropped
  <2> QED BY <2>2, <2>3
<1>1. ASSUME NEW s \in Sources, pc'[s] = "enqueueing"
      PROVE  InRows(s)'
  <2>1. CASE InsertRow(s)
    <3>1. Item(s) \in rows' BY <2>1 DEF InsertRow
    <3> QED BY <3>1 DEF InRows, Item
  <2>2. CASE pc[s] = "enqueueing"
    <3>1. PICK r \in rows : s \in r.parts BY <2>2 DEF PostsLast, InRows
    <3>2. r = Item(s) BY <1>0, <2>2, <3>1 DEF PostLaws, PostFits
    <3>3. \A i \in Copies : i.id # s BY <1>0, <2>2 DEF PostLaws, PostFits
    <3>4. ~Restart BY <1>0, <1>1, RestartPlaces DEF Ended
    <3>5. pc[s] \in Locking \ Asking /\ s \in Actors BY <1>0, <2>2 DEF Locking, Asking
    <3>6. \A x \in Actors \ {s} : pc[x] \notin {"queueing", "mergeDelete", "mergeUpsert"}
      BY <1>0, <3>5, AloneNotes
    <3>7. r \in rows'
      <4>1. \A x \in Tasks : ~(ReplayQueue(x) \/ MergeDelete(x) \/ MergeUpsert(x))
        BY <1>0, <2>2, <3>6 DEF ReplayQueue, MergeDelete, MergeUpsert
      <4>2. \A x \in Tasks : ~Drain(x)
        <5>1. \A x \in Tasks : Drain(x) => x # s /\ pc[x] = "draining" BY <2>2 DEF Drain
        <5>2. \A y \in Actors \ {s} : pc[y] \notin Locking \ Asking BY <3>5, AloneAtInbox
        <5> QED BY <1>0, <5>1, <5>2 DEF Locking, Asking
      <4>3. ASSUME Answer(1) PROVE r \in rows'
        <5>1. pc[1] = "answering" /\ rows' = {q \in rows : q.id # Current.id} BY <4>3 DEF Answer, Current
        <5>2. Current # RestoreItem => Current \in Copies BY <5>1 DEF Copies, Taken, Busy
        <5>3. Restore # s BY Kinds
        <5>4. Current.id # s BY <3>3, <5>2, <5>3 DEF RestoreItem
        <5> QED BY <3>2, <5>1, <5>4 DEF Item
      <4>4. LoopNext(1) => rows' = rows BY DEF LoopNext, durableVars
      <4>5. \A x \in Tasks : RestoreRegister(x) \/ ReplayRead(x) \/ InsertRow(x) \/ Enqueue(x)
                             \/ EnqueueMerged(x) => rows \subseteq rows'
        BY DEF RestoreRegister, ReplayRead, InsertRow, Enqueue, EnqueueMerged, durableVars
      <4> QED BY <3>4, <4>1, <4>2, <4>3, <4>4, <4>5, RowsGo DEF MovesItems
    <3> QED BY <3>1, <3>7 DEF InRows
  <2> QED BY <1>1, <2>1, <2>2, PostSteps
<1>2. ASSUME NEW s \in Sources, pc'[s] = "posted"
      PROVE  InRows(s)' \/ Handled(s)' \/ s \in mistaken'
  <2>1. CASE pc[s] = "posted"
    <3>1. CASE Restart
      <4>1. InRows(s) \/ Handled(s) \/ s \in mistaken BY <2>1 DEF PostsLast
      <4>2. CASE Handled(s) \/ s \in mistaken BY <1>h, <1>m, <4>2
      <4>3. ASSUME NEW r \in rows, s \in r.parts PROVE InRows(s)' \/ Handled(s)' \/ s \in mistaken'
        <5>1. CASE r \in rows' BY <4>3, <5>1 DEF InRows
        <5>2. CASE r \notin rows' BY <1>h, <2>1, <3>1, <4>3, <5>2
        <5> QED BY <5>1, <5>2
      <4> QED BY <4>1, <4>2, <4>3 DEF InRows
    <3>2. CASE ~Restart
      <4>1. ~MergeDelete(s) BY <2>1 DEF MergeDelete
      <4> QED BY <1>h, <1>m, <1>r, <2>1, <3>2, <4>1 DEF PostsLast
    <3> QED BY <3>1, <3>2
  <2>2. CASE Enqueue(s)
    <3>1. pc[s] = "enqueueing" /\ UNCHANGED rows BY <2>2 DEF Enqueue, durableVars
    <3> QED BY <3>1 DEF PostsLast, InRows
  <2>3. CASE MergeUpsert(s)
    <3>1. pc[s] = "mergeUpsert" /\ held[s] \subseteq rows' BY <2>3 DEF MergeUpsert
    <3>2. \E m \in held[s] : s \in m.parts BY <1>0, <3>1 DEF MergesLast
    <3> QED BY <3>1, <3>2 DEF InRows
  <2> QED BY <1>2, <2>1, <2>2, <2>3, PostSteps
<1> QED BY <1>1, <1>2 DEF PostsLast

\* What is taken to be in flight is the oldest of the items.
LEMMA Oldest ==
  ASSUME TypeInv, NEW items \in SUBSET Items, RowsFit(items)
  PROVE  \A i \in StaleInFlight(items) :
           i \in items /\ PendingPhase /\ \A j \in items : stamp[i.id] <= stamp[j.id]
<1>1. SUFFICES ASSUME items # {}, PendingPhase
               PROVE  /\ ByStamp(items)[1] \in items
                      /\ \A j \in items : stamp[ByStamp(items)[1].id] <= stamp[j.id]
  BY DEF StaleInFlight
<1>2. PICK s : s = ByStamp(items) OBVIOUS
<1>3. /\ s \in Seq(items) /\ \A i \in items : \E k \in DOMAIN s : s[k] = i
      /\ \A k, l \in DOMAIN s : k < l => stamp[s[k].id] < stamp[s[l].id]
  BY <1>2, RowsSorted DEF TypeInv, StampsTyped
<1>4. DOMAIN s = 1..Len(s) /\ Len(s) \in Nat BY <1>3
<1>5. 1 \in DOMAIN s
  <2>1. DOMAIN s # {} BY <1>1, <1>3
  <2> QED BY <1>4, <2>1
<1>6. \A i \in items : stamp[i.id] \in Nat BY ItemsKnown DEF RowsFit, Fits
<1>7. s[1] \in items BY <1>3, <1>5
<1>8. ASSUME NEW j \in items PROVE stamp[s[1].id] <= stamp[j.id]
  <2>1. PICK k \in DOMAIN s : s[k] = j BY <1>3
  <2>2. k = 1 \/ stamp[s[1].id] < stamp[j.id] BY <1>3, <1>4, <1>5, <2>1
  <2> QED BY <1>6, <1>7, <2>1, <2>2
<1> QED BY <1>2, <1>7, <1>8

LEMMA MemoryLastsKept ==
  ASSUME TypeInv, LocksFit, Roles, OneEntry, InboxLaws, PostsLast, MemoryLasts, ReadsLast, Next, OneEntry', ~Killed'
  PROVE  MemoryLasts'
<1>0. /\ pc \in [Actors -> Steps] /\ held \in [Actors -> SUBSET Items] /\ Sources \subseteq Tasks
      /\ Tasks \subseteq Actors /\ QueueLaws /\ PostLaws
      /\ \A r \in rows : Fits(r) /\ r.id \in Sources
      /\ \A i \in InMemory : i \in Copies /\ Fits(i) /\ i.id \in Sources
  BY Kinds, ItemsKnown, CopiesKnown DEF TypeInv, PlacesTyped, RowsTyped, InboxLaws, Fits, Stamped, InMemory, Copies
<1>l. ASSUME InMemory' \subseteq InMemory, rows \subseteq rows' PROVE MemoryLasts'
  BY <1>l DEF MemoryLasts
<1>1. CASE (Quiet \/ Works) /\ rows' = rows
  BY <1>1, <1>l, MemoryStays
<1>2. ASSUME NEW x \in Tasks, (RestoreRegister(x) /\ created' # created) \/ ReplayRead(x) \/ InsertRow(x)
      PROVE  MemoryLasts'
  <2>1. rows \subseteq rows' BY <1>2 DEF RestoreRegister, ReplayRead, InsertRow, durableVars
  <2> QED BY <1>2, <1>l, <2>1, MemoryStays
<1>3. ASSUME NEW x \in Tasks, MergeDelete(x)
      PROVE  MemoryLasts'
  <2>1. pc[x] = "mergeDelete" /\ rows' = {r \in rows : r.id # x} BY <1>3 DEF MergeDelete
  <2>2. x \in Sources BY <1>0, <2>1 DEF TypeInv, PlacesTyped, Placed, Posting
  <2>3. \A i \in InMemory : i.id # x BY <1>0, <2>1, <2>2 DEF PostLaws, PostFits
  <2> QED BY <1>3, <2>1, <2>3, MemoryStays DEF MemoryLasts
<1>4. ASSUME NEW x \in Tasks, MergeUpsert(x)
      PROVE  MemoryLasts'
  <2>1. rows' = {r \in rows : \A m \in held[x] : r.id # m.id} \cup held[x] BY <1>4 DEF MergeUpsert
  <2>2. ASSUME NEW i \in InMemory PROVE \E r \in rows' : r.id = i.id
    <3>1. PICK r \in rows : r.id = i.id BY <2>2 DEF MemoryLasts
    <3> QED BY <2>1, <3>1
  <2> QED BY <1>4, <2>2, MemoryStays DEF MemoryLasts
<1>5. CASE LoopNext(1)
  <2>1. rows' = rows BY <1>5 DEF LoopNext, durableVars
  <2> QED BY <1>5, <1>l, <2>1, MemoryStays
<1>6. CASE Answer(1)
  <2>1. pc[1] = "answering" /\ rows' = {r \in rows : r.id # Current.id} BY <1>6 DEF Answer, Current
  <2>2. ASSUME NEW i \in Queued PROVE i.id # Current.id
    <3>0. Fits(i) /\ i.id \in Sources BY <1>0 DEF InMemory
    <3>1. CASE Current = RestoreItem BY <3>0, <3>1, Kinds DEF RestoreItem
    <3>2. CASE Current # RestoreItem
      <4>1. Fits(Current) /\ Before(Current, i) BY <1>0, <2>1, <2>2, <3>2 DEF QueueLaws, Queued, Busy
      <4>2. stamp[Current.id] < stamp[i.id] BY <3>0, <4>1 DEF Before, Fits
      <4>3. stamp[i.id] \in Nat BY <3>0, ItemsKnown
      <4> QED BY <4>2, <4>3
    <3> QED BY <3>1, <3>2
  <2>3. InMemory' \subseteq Queued BY <1>6, LoopTakes DEF InMemory
  <2>4. ASSUME NEW i \in Queued PROVE \E r \in rows' : r.id = i.id
    <3>1. PICK r \in rows : r.id = i.id BY <2>4 DEF MemoryLasts, InMemory
    <3> QED BY <2>1, <2>2, <3>1
  <2> QED BY <2>3, <2>4 DEF MemoryLasts
<1>7. ASSUME NEW x \in Tasks, ReplayQueue(x)
      PROVE  MemoryLasts'
  <2>1. /\ pc[x] = "queueing"
        /\ rows' = {r \in rows : r.id \notin {i.id : i \in StaleInFlight(held[x])}}
    BY <1>7 DEF ReplayQueue
  <2>2. held[x] \in SUBSET Items /\ RowsFit(held[x]) /\ held[x] \subseteq rows
    BY <1>0, <1>7, <2>1, ReplayEffect DEF ReadsLast
  <2>3. \A i \in held[x] \ StaleInFlight(held[x]) : i \in rows'
    BY <2>1, <2>2, Oldest DEF RowsFit
  <2> QED BY <1>7, <2>3, MemoryReplayed DEF MemoryLasts
<1>8. ASSUME NEW x \in Tasks, Enqueue(x)
      PROVE  MemoryLasts'
  <2>1. pc[x] = "enqueueing" /\ UNCHANGED rows BY <1>8 DEF Enqueue, durableVars
  <2>2. x \in Sources BY <1>0, <2>1 DEF TypeInv, PlacesTyped, Placed, Posting
  <2>3. PICK r \in rows : x \in r.parts BY <2>1, <2>2 DEF PostsLast, InRows
  <2>4. r = Item(x) BY <1>0, <2>1, <2>2, <2>3 DEF PostLaws, PostFits
  <2> QED BY <1>0, <1>8, <2>1, <2>4, MemoryEnqueued DEF MemoryLasts
<1>9. ASSUME NEW x \in Tasks, EnqueueMerged(x)
      PROVE  MemoryLasts'
  <2>1. PICK merged \in Items :
          /\ merged.id = Newest.id /\ Newest \in Queued /\ UNCHANGED rows
          /\ \A i \in InMemory' : i = merged \/ (i \in InMemory /\ i.id # merged.id)
    BY <1>0, <1>9, MemoryMerged
  <2> QED BY <2>1 DEF MemoryLasts, InMemory
<1>10. ASSUME NEW x \in Tasks, Drain(x)
       PROVE  FALSE
  <2>1. pc[x] = "draining" /\ Goes(x, "done") BY <1>10 DEF Drain
  <2>2. x \in Killers \cup {Pill} BY <2>1 DEF Roles, RoleFits
  <2>3. pc'[x] = "done" BY <1>0, <2>1 DEF Goes
  <2> QED BY <2>2, <2>3 DEF Killed
<1>11. CASE Restart
  BY <1>11, MemoryRestarted DEF MemoryLasts
<1>12. CASE MovesItems
  BY <1>2, <1>3, <1>4, <1>5, <1>6, <1>7, <1>8, <1>9, <1>10, <1>11, <1>12 DEF MovesItems
<1> QED BY <1>1, <1>12, RowsGo

(* Who replays rows or merges a message is alone at it, but for the loop.  *)
LEMMA NoteSteps ==
  ASSUME TypeInv, LocksFit, Roles, OneEntry, InboxLaws, Next, OneEntry', ~Killed', NEW y \in Actors
  PROVE  /\ pc'[y] = "queueing" =>
              \/ ReplayRead(y)
              \/ pc[y] = "queueing" /\ held'[y] = held[y] /\ rows' = rows
         /\ pc'[y] \in {"mergeDelete", "mergeUpsert"} =>
              \/ EnqueueMerged(y)
              \/ /\ pc[y] \in {"mergeDelete", "mergeUpsert"} /\ held'[y] = held[y]
                 /\ Quiet \/ Works \/ LoopNext(1) \/ Answer(1) \/ MergeDelete(y)
<1>0. /\ pc \in [Actors -> Steps] /\ held \in [Actors -> SUBSET Items]
      /\ 1 \in Entries /\ 1 \in Actors
      /\ Tasks \subseteq Actors /\ Tasks \cap Entries = {}
      /\ \A x \in Actors : pc[x] \in Locking => at[x] = 1 /\ created = 1
      /\ QueueLaws /\ PostLaws
  BY Kinds, AtTheEntry DEF TypeInv, PlacesTyped, RowsTyped, InboxLaws
<1>i. pc'[1] \notin InboxSteps
  <2>1. PlacesTyped' BY PlacesKept
  <2> QED BY <1>0, <2>1 DEF PlacesTyped, Placed, LoopSteps, InboxSteps
<1> DEFINE Noting == {"queueing", "mergeDelete", "mergeUpsert"}
<1>a. ASSUME NEW x \in Tasks, pc[x] \in Locking \ Asking, \A z \in Actors \ {x, 1} : pc'[z] = pc[z], y # x
      PROVE  pc'[y] \notin Noting
  <2>1. y # 1 => pc[y] \notin Noting BY <1>0, <1>a, AloneNotes
  <2> QED BY <1>a, <1>i, <2>1 DEF InboxSteps
<1>1. CASE (Quiet \/ Works) /\ rows' = rows
  BY <1>1 DEF Quiet, Works, SamePosts, InboxSteps
<1>2. CASE LoopNext(1) \/ Answer(1)
  <2>1. pc[1] \in {"next", "answering"} BY <1>2 DEF LoopNext, Answer
  <2>2. pc[y] # "queueing" BY <1>0, <2>1 DEF QueueLaws
  <2>3. y # 1 => pc'[y] = pc[y] /\ held'[y] = held[y] BY <1>2, LoopTakes
  <2> QED BY <1>2, <1>i, <2>2, <2>3 DEF InboxSteps
<1>3. ASSUME NEW x \in Tasks, RestoreRegister(x), created' # created
      PROVE  pc'[y] \notin Noting
  <2>1. created = 0 /\ pc'[x] = "replaying" /\ (y # x => pc'[y] = pc[y]) BY <1>3, RegisterOnce
  <2>2. pc[y] \notin Noting BY <1>0, <2>1 DEF Locking
  <2> QED BY <2>1, <2>2
<1>4. ASSUME NEW x \in Tasks, ReplayRead(x)
      PROVE  pc'[y] \notin Noting \/ (y = x /\ pc'[y] = "queueing")
  <2>1. pc[x] = "replaying" /\ pc[x] \in Locking \ Asking /\ Goes(x, "queueing")
    BY <1>4 DEF ReplayRead, Locking, Asking
  <2>2. pc'[x] = "queueing" /\ \A z \in Actors \ {x, 1} : pc'[z] = pc[z] BY <1>0, <2>1 DEF Goes
  <2> QED BY <1>a, <2>1, <2>2
<1>5. ASSUME NEW x \in Tasks, EnqueueMerged(x)
      PROVE  pc'[y] \notin Noting \/ (y = x /\ pc'[y] = "mergeDelete")
  <2>1. pc[x] = "enqueueing" /\ pc[x] \in Locking \ Asking /\ Goes(x, "mergeDelete")
    BY <1>5 DEF EnqueueMerged, Locking, Asking
  <2>2. pc'[x] = "mergeDelete" /\ \A z \in Actors \ {x, 1} : pc'[z] = pc[z] BY <1>0, <2>1 DEF Goes
  <2> QED BY <1>a, <2>1, <2>2
<1>6. ASSUME NEW x \in Tasks, MergeDelete(x)
      PROVE  \/ pc'[y] \notin Noting
             \/ y = x /\ pc'[y] = "mergeUpsert" /\ pc[y] = "mergeDelete" /\ held'[y] = held[y]
  <2>1. pc[x] = "mergeDelete" /\ pc[x] \in Locking \ Asking /\ Goes(x, "mergeUpsert") /\ UNCHANGED held
    BY <1>6 DEF MergeDelete, Locking, Asking, noted
  <2>2. pc'[x] = "mergeUpsert" /\ \A z \in Actors \ {x, 1} : pc'[z] = pc[z] BY <1>0, <2>1 DEF Goes
  <2> QED BY <1>a, <2>1, <2>2
<1>7. ASSUME NEW x \in Tasks, InsertRow(x) \/ Drain(x)
      PROVE  pc'[y] \notin Noting
  <2>1. /\ pc[x] \in {"inserting", "draining"} /\ pc[x] \in Locking \ Asking
        /\ Goes(x, "enqueueing") \/ Goes(x, "done")
    BY <1>7 DEF InsertRow, Drain, Locking, Asking
  <2>2. pc'[x] \notin Noting /\ \A z \in Actors \ {x, 1} : pc'[z] = pc[z] BY <1>0, <2>1 DEF Goes
  <2> QED BY <1>a, <2>1, <2>2
<1>8. ASSUME NEW x \in Tasks, ReplayQueue(x) \/ MergeUpsert(x) \/ Enqueue(x)
      PROVE  pc'[y] \notin Noting
  <2>1. /\ pc[x] \in {"queueing", "mergeUpsert", "enqueueing"} /\ pc[x] \in Locking \ Asking /\ at[x] = 1
    BY <1>0, <1>8 DEF ReplayQueue, MergeUpsert, Enqueue, Locking, Asking
  <2>2. \/ Enqueue(x)
        \/ pc' = Started(1, [pc EXCEPT ![x] = "resolved"]) \/ pc' = Started(1, [pc EXCEPT ![x] = "posted"])
    BY <1>8, <2>1 DEF ReplayQueue, MergeUpsert
  <2>3. pc'[x] \in {"resolved", "posted"} /\ \A z \in Actors \ {x, 1} : pc'[z] = pc[z]
    BY <2>2, EnqueuePlaces, StartPlaces DEF Steps, TaskSteps, Ended
  <2> QED BY <1>a, <2>1, <2>3
<1>9. CASE Restart
  <2>1. pc'[y] \in Ended \cup {"idle", "next", "off"} BY <1>9 DEF Restart, Ended
  <2>2. pc'[y] \notin Noting BY <2>1 DEF Ended
  <2> QED BY <2>2
<1>10. CASE MovesItems
  BY <1>2, <1>3, <1>4, <1>5, <1>6, <1>7, <1>8, <1>9, <1>10 DEF MovesItems
<1> QED BY <1>1, <1>10, RowsGo

LEMMA ReadsLastKept ==
  ASSUME TypeInv, LocksFit, Roles, OneEntry, InboxLaws, ReadsLast, Next, OneEntry', ~Killed'
  PROVE  ReadsLast'
<1>0. held \in [Actors -> SUBSET Items] BY DEF TypeInv, RowsTyped
<1>1. SUFFICES ASSUME NEW y \in Actors, pc'[y] = "queueing" PROVE held'[y] \subseteq rows'
  BY DEF ReadsLast
<1>2. CASE ReplayRead(y)
  BY <1>0, <1>2 DEF ReplayRead, durableVars
<1>3. CASE pc[y] = "queueing" /\ held'[y] = held[y] /\ rows' = rows
  BY <1>3 DEF ReadsLast
<1> QED BY <1>1, <1>2, <1>3, NoteSteps

LEMMA MergesLastKept ==
  ASSUME TypeInv, LocksFit, Roles, OneEntry, InboxLaws, MergesLast, Next, OneEntry', ~Killed'
  PROVE  MergesLast'
<1>0. held \in [Actors -> SUBSET Items] /\ Tasks \subseteq Actors /\ Sources \subseteq Tasks /\ QueueLaws /\ PostLaws
  BY Kinds DEF TypeInv, RowsTyped, InboxLaws
<1>1. SUFFICES ASSUME NEW y \in Actors, pc'[y] \in {"mergeDelete", "mergeUpsert"}
               PROVE  /\ \E m \in held'[y] : y \in m.parts
                      /\ \A m \in held'[y] : \A i \in InMemory' : i.id = m.id => i = m
  BY DEF MergesLast
<1>2. CASE EnqueueMerged(y)
  <2>1. pc[y] = "enqueueing" BY <1>2 DEF EnqueueMerged
  <2>2. y \in Tasks BY <1>0, <2>1 DEF TypeInv, PlacesTyped, Placed, Posting
  <2>3. PICK merged \in Items :
          /\ merged.parts = Newest.parts \cup {y} /\ held' = [held EXCEPT ![y] = {merged}]
          /\ \A i \in InMemory' : i = merged \/ (i \in InMemory /\ i.id # merged.id)
    BY <1>0, <1>2, <2>2, MemoryMerged
  <2>4. held'[y] = {merged} /\ y \in merged.parts BY <1>0, <2>3
  <2> QED BY <2>3, <2>4
<1>3. CASE /\ pc[y] \in {"mergeDelete", "mergeUpsert"} /\ held'[y] = held[y]
           /\ Quiet \/ Works \/ LoopNext(1) \/ Answer(1) \/ MergeDelete(y)
  <2>1. y \in Tasks BY <1>0, <1>3 DEF TypeInv, PlacesTyped, Placed, Posting
  <2>2. InMemory' \subseteq InMemory BY <1>3, <2>1, MemoryStays
  <2> QED BY <1>3, <2>2 DEF MergesLast
<1> QED BY <1>1, <1>2, <1>3, NoteSteps

LEMMA RowsCoveredKept ==
  ASSUME TypeInv, LocksFit, Roles, OneEntry, InboxLaws, RowsCovered, MergesLast, Next, OneEntry', ~Killed'
  PROVE  RowsCovered'
<1>0. /\ pc \in [Actors -> Steps] /\ held \in [Actors -> SUBSET Items] /\ Sources \subseteq Tasks
      /\ Tasks \subseteq Actors /\ QueueLaws /\ PostLaws
      /\ \A r \in rows : Fits(r)
      /\ \A a, b \in rows : a.id = b.id => a = b
      /\ \A i \in Copies : Fits(i)
  BY Kinds, ItemsKnown, CopiesKnown DEF TypeInv, PlacesTyped, RowsTyped, InboxLaws, ItemsFit, RowsFit
<1>c. Copies = InMemory \cup Noted /\ Copies' = InMemory' \cup Noted' BY DEF Copies, InMemory
<1>l. ASSUME Copies' \subseteq Copies, rows' \subseteq rows PROVE RowsCovered'
  BY <1>l DEF RowsCovered
<1>1. CASE (Quiet \/ Works) /\ rows' = rows
  <2>1. Noted' = Noted BY <1>1 DEF Quiet, Works, Noted
  <2> QED BY <1>1, <1>c, <1>l, <2>1, MemoryStays
<1>2. ASSUME NEW x \in Tasks, (RestoreRegister(x) /\ created' # created) \/ MergeDelete(x)
      PROVE  RowsCovered'
  <2>1. rows' \subseteq rows /\ UNCHANGED held BY <1>2 DEF RestoreRegister, MergeDelete, durableVars, noted
  <2>2. Noted' = Noted BY <2>1 DEF Noted
  <2> QED BY <1>2, <1>c, <1>l, <2>1, <2>2, MemoryStays
<1>3. CASE LoopNext(1) \/ Answer(1)
  <2>1. rows' \subseteq rows /\ UNCHANGED held BY <1>3, LoopTakes
  <2>2. Noted' = Noted BY <2>1 DEF Noted
  <2> QED BY <1>3, <1>c, <1>l, <2>1, <2>2, MemoryStays
<1>4. ASSUME NEW x \in Tasks, ReplayRead(x)
      PROVE  RowsCovered'
  <2>1. rows' = rows /\ held' = [held EXCEPT ![x] = rows] BY <1>4 DEF ReplayRead, durableVars
  <2>2. Noted' \subseteq Noted \cup rows BY <1>0, <2>1 DEF Noted
  <2>3. InMemory' \subseteq InMemory BY <1>4, MemoryStays
  <2>4. Copies' \subseteq Copies \cup rows BY <1>c, <2>2, <2>3
  <2> QED BY <1>0, <2>1, <2>4 DEF RowsCovered
<1>5. ASSUME NEW x \in Tasks, ReplayQueue(x)
      PROVE  RowsCovered'
  <2>1. rows' \subseteq rows /\ held' = [held EXCEPT ![x] = {}] BY <1>5 DEF ReplayQueue
  <2>2. Noted' \subseteq Noted BY <1>0, <2>1 DEF Noted
  <2>3. InMemory' \subseteq Noted BY <1>0, <1>5, MemoryReplayed DEF Noted
  <2> QED BY <1>c, <1>l, <2>1, <2>2, <2>3
<1>6. ASSUME NEW x \in Tasks, InsertRow(x)
      PROVE  RowsCovered'
  <2>1. rows' = rows \cup {Item(x)} /\ UNCHANGED held /\ pc[x] = "inserting" BY <1>6 DEF InsertRow, noted
  <2>2. x \in Sources BY <1>0, <2>1 DEF TypeInv, PlacesTyped, Placed, Posting
  <2>3. Noted' = Noted BY <2>1 DEF Noted
  <2>4. Copies' \subseteq Copies BY <1>6, <1>c, <2>3, MemoryStays
  <2>5. \A i \in Copies : i.id # x BY <1>0, <1>6, <2>2, InsertedNewest DEF Fits
  <2> QED BY <2>1, <2>4, <2>5 DEF RowsCovered, Item
<1>7. ASSUME NEW x \in Tasks, Enqueue(x)
      PROVE  RowsCovered'
  <2>1. pc[x] = "enqueueing" /\ rows' = rows /\ UNCHANGED held BY <1>7 DEF Enqueue, durableVars, noted
  <2>2. x \in Sources BY <1>0, <2>1 DEF TypeInv, PlacesTyped, Placed, Posting
  <2>3. Noted' = Noted BY <2>1 DEF Noted
  <2>4. Copies' \subseteq Copies \cup {Item(x)} BY <1>0, <1>7, <1>c, <2>3, MemoryEnqueued
  <2>5. \A r \in rows : r.id = x => r = Item(x)
    BY <1>0, <2>1, <2>2 DEF PostLaws, PostFits, Fits
  <2> QED BY <2>1, <2>4, <2>5 DEF RowsCovered, Item
<1>8. ASSUME NEW x \in Tasks, EnqueueMerged(x)
      PROVE  RowsCovered'
  <2>1. PICK merged \in Items :
          /\ Newest \in Queued /\ rows' = rows
          /\ merged.id = Newest.id /\ merged.parts = Newest.parts \cup {x}
          /\ held' = [held EXCEPT ![x] = {merged}]
          /\ \A i \in InMemory' : i = merged \/ (i \in InMemory /\ i.id # merged.id)
    BY <1>0, <1>8, MemoryMerged
  <2>2. Noted' \subseteq Noted \cup {merged} BY <1>0, <2>1 DEF Noted
  <2>3. Copies' \subseteq Copies \cup {merged} BY <1>c, <2>1, <2>2
  <2>4. \A r \in rows : r.id = merged.id => r.parts \subseteq merged.parts
    BY <1>c, <2>1 DEF RowsCovered, InMemory
  <2> QED BY <2>1, <2>3, <2>4 DEF RowsCovered
<1>9. ASSUME NEW x \in Tasks, MergeUpsert(x)
      PROVE  RowsCovered'
  <2>1. /\ pc[x] = "mergeUpsert" /\ pc[x] \in Locking \ Asking /\ rows' \subseteq rows \cup held[x]
        /\ held' = [held EXCEPT ![x] = {}]
    BY <1>9 DEF MergeUpsert, Locking, Asking
  <2>2. \A y \in Actors \ {x} : held[y] = {} BY <1>0, <2>1, AloneNotes
  <2>3. Noted' = {} BY <1>0, <2>1, <2>2 DEF Noted
  <2>4. Copies' \subseteq InMemory BY <1>9, <1>c, <2>3, MemoryStays
  <2>5. \A i \in InMemory : \A r \in held[x] : r.id = i.id => i = r BY <1>0, <2>1 DEF MergesLast
  <2> QED BY <1>c, <2>1, <2>4, <2>5 DEF RowsCovered
<1>10. ASSUME NEW x \in Tasks, Drain(x)
       PROVE  RowsCovered'
  BY <1>10 DEF Drain, RowsCovered
<1>11. CASE Restart
  <2>1. rows' \subseteq rows BY <1>11 DEF Restart
  <2>2. Noted' = {} BY <1>11, RestartPlaces DEF Noted
  <2>3. Copies' \subseteq rows' BY <1>11, <1>c, <2>2, MemoryRestarted
  <2> QED BY <1>0, <2>1, <2>3 DEF RowsCovered
<1>12. CASE MovesItems
  BY <1>2, <1>3, <1>4, <1>5, <1>6, <1>7, <1>8, <1>9, <1>10, <1>11, <1>12 DEF MovesItems
<1> QED BY <1>1, <1>12, RowsGo

(* The history of an agent that was not restarted yet shows the unfinished *)
(* execution of a turn only while the loop runs its code: what a boot then *)
(* takes to be in flight is what the loop was handling.                    *)

FirstRun ==
  /\ pc[1] \in InTurn => Current # RestoreItem
  /\ restarts = 0 /\ "turn" \in phase => pc[1] = "open"

LEMMA TurnSteps ==
  ASSUME Runners = {}, TypeInv, LocksFit, Roles, OneEntry, Next
  PROVE  \/ Record(1) \/ HandleRestore(1) \/ OpenTurn(1) \/ CloseTurn(1)
         \/ FinishTurn(1) \/ FailTurn(1) \/ Restart
         \/ UNCHANGED phase /\ (pc'[1] = pc[1] \/ (pc[1] # "open" /\ pc'[1] \notin InTurn))
<1>0. /\ pc \in [Actors -> Steps] /\ Tasks \subseteq Actors /\ Tasks \cap Entries = {}
      /\ 1 \in Entries /\ 1 \in Actors /\ Pill \in Tasks
      /\ \A x \in Actors : pc[x] \in Locking \cup {"resolved"} => at[x] = 1
  BY Kinds, AtTheEntry DEF TypeInv, PlacesTyped
<1> DEFINE Calm == UNCHANGED phase /\ (pc'[1] = pc[1] \/ (pc[1] # "open" /\ pc'[1] \notin InTurn))
<1>g. ASSUME NEW x \in Tasks, NEW step, UNCHANGED phase, Goes(x, step) PROVE Calm
  BY <1>0, <1>g DEF Goes
<1>s. ASSUME NEW x \in Tasks, NEW step \in Steps, UNCHANGED phase, pc' = Started(1, [pc EXCEPT ![x] = step])
      PROVE  Calm
  BY <1>s, StartPlaces DEF InTurn
<1>1. ASSUME NEW x \in Tasks, Resolving(x) \/ Steer(x) \/ KillLoaded(x) \/ KillUnloaded(x)
      PROVE  Calm
  <2>1. UNCHANGED phase /\ \E step : Goes(x, step)
    BY <1>1 DEF Resolving, ResolveLoaded, RestoreRead, Steer, KillLoaded, KillUnloaded, durableVars
  <2> QED BY <1>g, <2>1
<1>2. ASSUME PillDue \/ PillFires \/ PillHandled
      PROVE  Calm
  <2>1. UNCHANGED phase /\ \E step : Goes(Pill, step)
    BY <1>2 DEF PillDue, PillFires, PillHandled, durableVars
  <2> QED BY <1>0, <1>g, <2>1
<1>3. ASSUME NEW x \in Tasks, TaskStep(x)
      PROVE  Calm
  <2>0. x \in Actors BY <1>0
  <2>1. CASE RestoreRegister(x) \/ ReplayRead(x) \/ EnterLock(x) \/ WakeAndInsert(x) \/ InsertRow(x)
             \/ EnqueueMerged(x) \/ MergeDelete(x) \/ MarkDead(x) \/ Drain(x) \/ KillWrite(x) \/ KillClear(x)
    <3>1. UNCHANGED phase /\ \E step : Goes(x, step)
      BY <2>1 DEF RestoreRegister, ReplayRead, EnterLock, WakeAndInsert, InsertRow, EnqueueMerged, MergeDelete,
                  MarkDead, Drain, KillWrite, KillClear, durableVars
    <3> QED BY <1>g, <3>1
  <2>2. CASE ReplayQueue(x) \/ MergeUpsert(x)
    <3>1. pc[x] \in {"queueing", "mergeUpsert"} /\ UNCHANGED phase BY <2>2 DEF ReplayQueue, MergeUpsert
    <3>2. at[x] = 1 BY <1>0, <2>0, <3>1 DEF Locking
    <3>3. \E step \in Steps : pc' = Started(1, [pc EXCEPT ![x] = step])
      BY <2>2, <3>2 DEF ReplayQueue, MergeUpsert, Steps, TaskSteps, Ended
    <3> QED BY <1>s, <3>1, <3>3
  <2>3. CASE WakeOnly(x)
    <3>1. pc[x] = "waking" /\ UNCHANGED phase BY <2>3 DEF WakeOnly
    <3>2. at[x] = 1 BY <1>0, <2>0, <3>1 DEF Locking
    <3>3. \/ pc' = Started(1, [pc EXCEPT ![x] = "done"])
          \/ Goes(x, "executing")
      BY <2>3, <3>2 DEF WakeOnly, Goes
    <3>4. "done" \in Steps BY DEF Steps, TaskSteps, Ended
    <3> QED BY <1>g, <1>s, <3>1, <3>3, <3>4
  <2>4. CASE Enqueue(x)
    <3>1. UNCHANGED phase BY <2>4 DEF Enqueue, durableVars
    <3> QED BY <2>4, <3>1, EnqueuePlaces DEF InTurn
  <2>5. CASE StartTask(x) \/ EndTask(x)
    <3>1. pc[x] \in {"executing", "executed"} BY <2>5 DEF StartTask, EndTask
    <3> QED BY <1>3, <3>1 DEF Roles, RoleFits
  <2> QED BY <1>3, <2>1, <2>2, <2>3, <2>4, <2>5 DEF TaskStep
<1>4. ASSUME NEW e \in Entries, LoopStep(e)
      PROVE  \/ Record(1) \/ HandleRestore(1) \/ OpenTurn(1) \/ CloseTurn(1)
             \/ FinishTurn(1) \/ FailTurn(1) \/ Calm
  <2>1. e = 1
    <3>1. pc[e] # "off" BY <1>4 DEF LoopStep, LoopNext, HandleRestore, Record, OpenTurn, CloseTurn,
                                    FinishTurn, FailTurn, InTurn, Answer
    <3> QED BY <3>1, AtTheEntry
  <2>2. CASE LoopNext(1) \/ Answer(1)
    <3>1. UNCHANGED phase /\ pc[1] # "open"
          /\ \E step \in {"waiting", "taken", "next"} : Goes(1, step)
      BY <2>2 DEF LoopNext, Answer, durableVars
    <3> QED BY <1>0, <3>1 DEF Goes, InTurn
  <2> QED BY <1>4, <2>1, <2>2 DEF LoopStep
<1>5. ASSUME NEW x \in Actors, SleepStep(x)
      PROVE  Calm
  <2>1. /\ UNCHANGED phase /\ pc[x] # "open"
        /\ \E step \in {"answering", "done", "idling", "scheduling"} : Goes(x, step)
    BY <1>5 DEF SleepStep, SleepRequest, WantsSleep, FallAsleep, SchedulePoisonPill, AfterSleep, durableVars
  <2> QED BY <1>0, <2>1 DEF Goes, InTurn
<1> QED BY <1>1, <1>2, <1>3, <1>4, <1>5 DEF Next

LEMMA FirstRunKept ==
  ASSUME Runners = {}, TypeInv, LocksFit, Roles, OneEntry, InboxLaws, FirstRun, Next, OneEntry'
  PROVE  FirstRun'
<1>0. pc \in [Actors -> Steps] /\ 1 \in Actors /\ restarts \in Nat
  BY Kinds, TimesSteps DEF TypeInv, PlacesTyped
<1>1. CASE Restart
  <2>1. restarts' = restarts + 1 /\ pc'[1] \in {"next", "off"} BY <1>1, RestartPlaces
  <2> QED BY <1>0, <2>1 DEF FirstRun, InTurn
<1>2. CASE Record(1) /\ ~Restart
  <2>1. /\ pc[1] = "taken" /\ pc'[1] = "recorded" /\ Current # RestoreItem /\ Current' = Current
        /\ UNCHANGED <<phase, restarts>>
    BY <1>0, <1>2 DEF Record, Goes, Current, durableVars
  <2> QED BY <2>1 DEF FirstRun
<1>3. CASE HandleRestore(1) /\ ~Restart
  <2>1. /\ pc[1] = "taken" /\ pc'[1] = "handled" /\ phase' \in AfterRestore /\ UNCHANGED restarts
    BY <1>0, <1>3 DEF HandleRestore, Goes
  <2>2. phase' \subseteq phase BY <2>1 DEF AfterRestore
  <2> QED BY <2>1, <2>2 DEF FirstRun, InTurn
<1>4. CASE (OpenTurn(1) \/ CloseTurn(1)) /\ ~Restart
  <2>1. /\ pc[1] \in InTurn /\ UNCHANGED restarts /\ Current' = Current
        /\ \/ pc[1] = "recorded" /\ pc'[1] = "open"
           \/ pc[1] = "open" /\ phase' = phase \ {"turn"} /\ pc'[1] = "computed"
    BY <1>0, <1>4 DEF OpenTurn, CloseTurn, Goes, Current, InTurn
  <2> QED BY <2>1 DEF FirstRun
<1>6. CASE (FinishTurn(1) \/ FailTurn(1)) /\ ~Restart
  <2>1. phase' = PhaseLeft(1) /\ pc'[1] \in {"handled", "answering"} /\ UNCHANGED restarts
    BY <1>0, <1>6 DEF FinishTurn, FailTurn, Goes
  <2>2. "turn" \in phase' => "turn" \in phase /\ pc[1] # "open" BY <2>1 DEF PhaseLeft
  <2> QED BY <2>1, <2>2 DEF FirstRun, InTurn
<1>5. CASE /\ UNCHANGED phase /\ ~Restart
           /\ pc'[1] = pc[1] \/ (pc[1] # "open" /\ pc'[1] \notin InTurn)
  <2>1. restarts' = restarts BY <1>5, TimesSteps
  <2>2. pc'[1] = pc[1] /\ pc[1] \in InTurn => Current' = Current
    <3>1. CASE Quiet \/ Works BY <3>1 DEF Quiet, Works, SameQueues, Current
    <3>2. CASE MovesItems BY <3>2, CurrentStays DEF InTurn, Busy
    <3> QED BY <3>1, <3>2, InboxMoves
  <2>3. pc[1] = "open" => pc'[1] = "open" BY <1>5
  <2> QED BY <1>5, <2>1, <2>2, <2>3 DEF FirstRun
<1> QED BY <1>1, <1>2, <1>3, <1>4, <1>5, <1>6, TurnSteps

(* The row that the boot after the first crash drops for the execution of  *)
(* a turn is of parts that the loop has recorded: the item in the loop is  *)
(* older than what is due.                                                 *)
LEMMA FirstBootDrops ==
  ASSUME TypeInv, OneEntry, InboxLaws, LiveRows, MemoryLasts, FirstRun, Restart, restarts = 0, ~Killed,
         NEW r \in rows, r \notin rows', NEW s \in r.parts, pc[s] = "posted"
  PROVE  Handled(s) \/ s \in mistaken'
<1>0. /\ QueueLaws /\ RowLaws /\ PostLaws /\ rows \in SUBSET Items /\ RowsFit(rows)
      /\ Fits(r) /\ s \in Sources /\ r.id \in Sources
      /\ \A q \in Stamped : stamp[q] \in Nat
  BY ItemsKnown DEF InboxLaws, TypeInv, RowsTyped, ItemsFit, Fits, Stamped
<1>1. r \in StaleInFlight(rows) BY RestartEffect
<1>m. PendingPhase BY <1>1 DEF StaleInFlight
<1>d. "turn" \notin phase => s \in mistaken' BY <1>m DEF Restart, ObservesDrop
<1>2. \A q \in rows : stamp[r.id] <= stamp[q.id] BY <1>0, <1>1, Oldest
<1>t. SUFFICES ASSUME "turn" \in phase PROVE Handled(s)
  BY <1>d
<1>3. pc[1] = "open" /\ Current # RestoreItem BY <1>t DEF FirstRun, InTurn
<1>4. Current \in InMemory /\ Fits(Current) BY <1>0, <1>3 DEF InMemory, Taken, Busy, QueueLaws
<1>5. stamp[r.id] <= stamp[Current.id] BY <1>2, <1>4 DEF MemoryLasts
<1>6. ~Unloaded
  <2>1. created = 1 BY <1>3, AtTheEntry
  <2> QED BY <1>0, <1>3, <2>1 DEF Unloaded, QueueLaws
<1>7. SUFFICES ASSUME Due(s) PROVE FALSE
  BY <1>6 DEF LiveRows, RowsCared, Cared
<1>8. PICK i \in Queued : s \in i.parts BY <1>3, <1>7 DEF Due, DueItems
<1>9. Before(Current, i) /\ Fits(i) /\ i \in Copies
  BY <1>0, <1>3, <1>8, CopiesKnown DEF QueueLaws, Queued, Busy, Copies
<1>10. r \in Kept
  <2>1. pc[r.id] = "mergeDelete" => r = Item(r.id) BY <1>0 DEF PostLaws, PostFits, Fits
  <2>2. r = Item(r.id) => s = r.id BY DEF Item
  <2> QED BY <2>1, <2>2 DEF Kept
<1>11. r.id = i.id
  <2>1. Ordered(r, i) BY <1>0, <1>9, <1>10 DEF RowLaws
  <2>2. ~Before(r, i) /\ ~Before(i, r) BY <1>0, <1>8, <1>9, SharesNone DEF Fits
  <2> QED BY <2>1, <2>2 DEF Ordered
<1>12. stamp[Current.id] < stamp[i.id] BY <1>4, <1>9 DEF Before, Fits
<1> QED BY <1>0, <1>4, <1>5, <1>9, <1>11, <1>12 DEF Fits

Lasting == ~Killed => PostsLast /\ MemoryLasts /\ RowsCovered /\ ReadsLast /\ MergesLast

LEMMA LastingStays ==
  ASSUME Runners = {}, TypeInv, LocksFit, Roles, OneEntry, PillFits, InboxLaws, LiveRows, SleepsOnlyWhenDone,
         FirstRun, Lasting, [Next]_vars, OneEntry', restarts' <= 1
  PROVE  FirstRun' /\ Lasting'
<1>1. CASE UNCHANGED vars
  <2>1. UNCHANGED <<rows, phase, ent, pc, held, times, outcome, mistaken, restarts>>
    BY <1>1 DEF vars, durableVars, noted, ghostVars
  <2>2. UNCHANGED <<Current, Copies, InMemory, Killed>>
    BY <2>1 DEF Current, Copies, InMemory, Queued, Queue, Taken, Noted, Killed
  <2>3. FirstRun' BY <2>1, <2>2 DEF FirstRun
  <2>4. /\ PostsLast => PostsLast'
        /\ MemoryLasts => MemoryLasts'
        /\ RowsCovered => RowsCovered'
        /\ ReadsLast => ReadsLast'
        /\ MergesLast => MergesLast'
    BY <2>1, <2>2 DEF PostsLast, InRows, Handled, MemoryLasts, RowsCovered, ReadsLast, MergesLast
  <2> QED BY <2>2, <2>3, <2>4 DEF Lasting
<1>2. CASE Next
  <2>1. FirstRun' BY <1>2, FirstRunKept
  <2>2. SUFFICES ASSUME ~Killed'
                 PROVE  PostsLast' /\ MemoryLasts' /\ RowsCovered' /\ ReadsLast' /\ MergesLast'
    BY <2>1 DEF Lasting
  <2>3. ~Killed BY <1>2, <2>2, KillersStay
  <2>4. PostsLast /\ MemoryLasts /\ RowsCovered /\ ReadsLast /\ MergesLast BY <2>3 DEF Lasting
  <2>5. Restart => \A r \in rows \ rows' : \A s \in r.parts :
                     pc[s] = "posted" => Handled(s) \/ s \in mistaken'
    <3>1. SUFFICES ASSUME Restart, NEW r \in rows, r \notin rows', NEW s \in r.parts, pc[s] = "posted"
                   PROVE  Handled(s) \/ s \in mistaken'
      OBVIOUS
    <3>2. restarts = 0
      <4>1. restarts \in Nat BY <1>2, TimesSteps
      <4>2. restarts' = restarts + 1 BY <3>1, RestartPlaces
      <4> QED BY <4>1, <4>2
    <3> QED BY <2>3, <2>4, <3>1, <3>2, FirstBootDrops
  <2>6. PostsLast' BY <1>2, <2>2, <2>4, <2>5, PostsLastKept
  <2>7. MemoryLasts' /\ RowsCovered' /\ ReadsLast' /\ MergesLast'
    BY <1>2, <2>2, <2>4, MemoryLastsKept, RowsCoveredKept, ReadsLastKept, MergesLastKept
  <2> QED BY <2>6, <2>7
<1> QED BY <1>1, <1>2

LEMMA LastingInit ==
  ASSUME Init
  PROVE  FirstRun /\ Lasting
<1>0. 1 \in Actors /\ 1 \notin Tasks /\ Sources \subseteq Tasks /\ Tasks \subseteq Actors /\ 1 \in Entries BY Kinds
<1>1. /\ pc[1] = "off" /\ rows = {} /\ phase = {} /\ ent[1] = NoEntry
      /\ \A x \in Actors : pc[x] \in {"idle", "off"} /\ held[x] = {}
  BY <1>0 DEF Init
<1>2. InMemory = {} /\ Copies = {}
  BY <1>1 DEF InMemory, Copies, Queued, Queue, NoEntry, Taken, Busy, Noted
<1>3. FirstRun BY <1>1 DEF FirstRun, InTurn
<1> QED BY <1>0, <1>1, <1>2, <1>3 DEF Lasting, PostsLast, MemoryLasts, RowsCovered, ReadsLast, MergesLast

(* "items survive process restarts" (engine-agent.md:141), for the first   *)
(* crash: an accepted item is in the inbox table or was handled, unless    *)
(* the agent was killed or the boot dropped its row though the history     *)
(* showed no turn in progress, only an execution that an aborted or failed *)
(* one had left open.  The hypotheses: two restores do not overlap, the    *)
(* process crashes once, no task runs code beside the loop.  After a       *)
(* second crash the code loses items without an abort: a boot drops the    *)
(* oldest row once more for an execution it has dropped a row for already. *)
THEOREM AcceptedItemsLast ==
  ASSUME Runners = {}
  PROVE  Spec /\ [](created <= 1 /\ restarts <= 1) => []NoAcceptedItemLost
<1>1. Init => FirstRun /\ Lasting BY LastingInit
<1>2. TypeInv /\ LocksFit /\ Roles /\ OneEntry /\ PillFits /\ InboxLaws /\ LiveRows /\ SleepsOnlyWhenDone
      /\ FirstRun /\ Lasting /\ [Next]_vars /\ OneEntry' /\ (restarts <= 1)' => FirstRun' /\ Lasting'
  BY LastingStays
<1>3. Lasting => NoAcceptedItemLost
  BY DEF Lasting, PostsLast, NoAcceptedItemLost, Accepted, Sources
<1> QED BY <1>1, <1>2, <1>3, LiveRowsHold, SleepsWhenDone, PTL DEF Spec, OneEntry
=============================================================================
