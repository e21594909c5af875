------------------------- MODULE AgentSystem_proofs --------------------------
(***************************************************************************)
(* Proofs about the lifecycle of an agent, for any number of callers,      *)
(* entries and crashes: the types, that an entry's lock lets one in, and   *)
(* that the poison pill waits only for an agent that sleeps.               *)
(***************************************************************************)
EXTENDS AgentSystem, SequenceTheorems, FiniteSetTheorems, TLAPS

-----------------------------------------------------------------------------
(* The order of items.  A finite set whose members have different stamps   *)
(* is sorted by counting, for each of them, those that are not newer.      *)

Upto(items, i) == {j \in items : stamp[j.id] <= stamp[i.id]}

LEMMA SortedByStamp ==
  ASSUME NEW items, IsFiniteSet(items), \A i \in items : stamp[i.id] \in Nat,
         \A i, j \in items : stamp[i.id] = stamp[j.id] => i = j
  PROVE  /\ ByStamp(items) \in Seq(items)
         /\ \A i \in items : \E k \in DOMAIN ByStamp(items) : ByStamp(items)[k] = i
         /\ \A k, l \in DOMAIN ByStamp(items) :
              k < l => stamp[ByStamp(items)[k].id] < stamp[ByStamp(items)[l].id]
<1> DEFINE n == Cardinality(items)
           rank == [i \in items |-> Cardinality(Upto(items, i))]
           Sorted(q) == \A k, l \in DOMAIN q : k < l => stamp[q[k].id] < stamp[q[l].id]
<1>1. n \in Nat /\ IsFiniteSet(1..n) /\ Cardinality(1..n) = n
  <2>1. n \in Nat BY FS_CardinalityType
  <2> HIDE DEF n
  <2>2. IsFiniteSet(1..n) /\ Cardinality(1..n) = IF 1 > n THEN 0 ELSE n - 1 + 1
    BY <2>1, FS_Interval
  <2> QED BY <2>1, <2>2
<1>2. ASSUME NEW i \in items
      PROVE  /\ i \in Upto(items, i) /\ IsFiniteSet(Upto(items, i))
             /\ rank[i] \in 1..n
  <2>1. i \in Upto(items, i) /\ Upto(items, i) \in SUBSET items
    BY DEF Upto
  <2>2. IsFiniteSet(Upto(items, i)) /\ Cardinality(Upto(items, i)) <= n
    BY <2>1, FS_Subset
  <2>3. Cardinality(Upto(items, i)) \in Nat /\ Cardinality(Upto(items, i)) # 0
    BY <2>1, <2>2, FS_CardinalityType, FS_EmptySet
  <2> QED BY <1>1, <2>1, <2>2, <2>3
<1>3. ASSUME NEW i \in items, NEW j \in items, stamp[i.id] < stamp[j.id]
      PROVE  rank[i] < rank[j]
  <2>1. Upto(items, i) \in SUBSET Upto(items, j) /\ j \notin Upto(items, i)
    BY <1>3 DEF Upto
  <2>2. Cardinality(Upto(items, i)) <= Cardinality(Upto(items, j))
    BY <1>2, <2>1, FS_Subset
  <2>3. Cardinality(Upto(items, i)) # Cardinality(Upto(items, j))
    BY <1>2, <2>1, FS_Subset
  <2>4. rank[i] \in Nat /\ rank[j] \in Nat BY <1>2
  <2> QED BY <2>2, <2>3, <2>4
<1>4. \A i, j \in items : stamp[i.id] < stamp[j.id] \/ stamp[j.id] < stamp[i.id] \/ i = j
  OBVIOUS
<1>5. \A i, j \in items : rank[i] = rank[j] => i = j
  <2> SUFFICES ASSUME NEW i \in items, NEW j \in items, rank[i] = rank[j]  PROVE i = j
    OBVIOUS
  <2>1. rank[i] \in Nat /\ rank[j] \in Nat BY <1>2
  <2> HIDE DEF rank
  <2> QED BY <1>3, <1>4, <2>1
<1>6. rank \in Injection(items, 1..n)
  <2>1. rank \in [items -> 1..n] BY <1>2
  <2> HIDE DEF rank, n
  <2> QED BY <1>5, <2>1 DEF Injection, IsInjective
<1>7. rank \in Surjection(items, 1..n)
  <2> HIDE DEF rank
  <2> QED BY <1>1, <1>6, FS_Injection
<1>8. PICK q \in [1..n -> items] : \A k \in 1..n : rank[q[k]] = k
  <2>1. \A k \in 1..n : \E i \in items : rank[i] = k
    BY <1>7 DEF Surjection
  <2> HIDE DEF rank, n
  <2>2. [k \in 1..n |-> CHOOSE i \in items : rank[i] = k] \in [1..n -> items]
    BY <2>1
  <2>3. \A k \in 1..n : rank[CHOOSE i \in items : rank[i] = k] = k
    BY <2>1
  <2> QED BY <2>2, <2>3
<1>9. q \in SetToSeqs(items) /\ Sorted(q)
  <2> HIDE DEF rank
  <2>1. \A k, l \in 1..n : k # l => q[k] # q[l] BY <1>8
  <2>2. ASSUME NEW k \in 1..n, NEW l \in 1..n, k < l
        PROVE  stamp[q[k].id] < stamp[q[l].id]
    <3>1. q[k] \in items /\ q[l] \in items /\ rank[q[k]] = k /\ rank[q[l]] = l
      BY <1>8
    <3>2. k \in Nat /\ l \in Nat BY <1>1
    <3> HIDE DEF n
    <3> QED BY <1>3, <1>4, <2>2, <3>1, <3>2
  <2>3. q \in SetToSeqs(items)
    BY <2>1 DEF SetToSeqs
  <2>4. DOMAIN q = 1..n OBVIOUS
  <2> QED BY <2>2, <2>3, <2>4
<1>10. ByStamp(items) \in SetToSeqs(items) /\ Sorted(ByStamp(items))
  BY <1>9 DEF ByStamp
<1>11. ByStamp(items) \in [1..n -> items]
       /\ \A k, l \in 1..n : k # l => ByStamp(items)[k] # ByStamp(items)[l]
  BY <1>10 DEF SetToSeqs
<1>12. ByStamp(items) \in Injection(1..n, items)
  <2> HIDE DEF n
  <2> QED BY <1>11 DEF Injection, IsInjective
<1>13. ByStamp(items) \in Surjection(1..n, items)
  <2> HIDE DEF rank
  <2> QED BY <1>1, <1>12, FS_Injection
<1>14. ByStamp(items) \in Seq(items)
  <2> HIDE DEF n
  <2> QED BY <1>1, <1>11, SeqDef
<1> QED BY <1>10, <1>11, <1>13, <1>14 DEF Surjection
-----------------------------------------------------------------------------
(* Types.  A task or a loop that has captured an entry has captured one    *)
(* that was made; an item has a stamp once it is anywhere, no two of them  *)
(* the same; rows have different ids.                                      *)

Locking == {"replaying", "queueing", "waking", "inserting", "enqueueing", "mergeDelete",
            "mergeUpsert", "idling", "scheduling", "killing", "draining"}
Posting == {"inserting", "enqueueing", "mergeDelete", "mergeUpsert", "posted"}
Inserted == {"enqueueing", "mergeDelete", "mergeUpsert", "posted"}
Unposted == {"idle", "due", "restoring", "replaying", "queueing", "resolved", "waking",
             "inserting"}

Placed ==
  /\ \A x \in Tasks : pc[x] \in TaskSteps \cup {"handled"}
  /\ \A e \in Entries : pc[e] \in LoopSteps /\ (pc[e] # "off" => e <= created)
  /\ \A x \in Actors : pc[x] \in Locking \cup {"resolved"} => at[x] # 0
  /\ pc[Pill] = "posted" => at[Pill] # 0
  /\ \A x \in Actors : pc[x] \in Posting => x \in Sources

Stamped == {s \in Sources : stamp[s] # 0}

StampsFit ==
  /\ \A s \in Sources : stamp[s] <= Cardinality(Stamped)
  /\ \A s, t \in Stamped : stamp[s] = stamp[t] => s = t
  /\ \A s \in Sources : /\ pc[s] \in Unposted => stamp[s] = 0
                        /\ pc[s] \in Inserted => stamp[s] # 0

Fits(i) == i.id \in Stamped /\ i.id \in i.parts /\ i.parts \subseteq Stamped

RowsFit(items) ==
  /\ \A r, q \in items : r.id = q.id => r = q
  /\ \A r \in items : Fits(r)

EntryFits(en) ==
  /\ \A k \in DOMAIN en.queue : en.queue[k] = RestoreItem \/ Fits(en.queue[k])
  /\ en.current \in {NoItem, RestoreItem} \/ Fits(en.current)

ItemsFit ==
  /\ RowsFit(rows)
  /\ \A x \in Actors : RowsFit(held[x])
  /\ \A e \in Entries : EntryFits(ent[e])

EntryRecords == [state : Lifecycles, terminating : BOOLEAN, lock : LockType(Actors),
                 queue : Seq(QueueItems), current : QueueItems \cup {NoItem}]
Steps == TaskSteps \cup LoopSteps

PlacesTyped ==
  /\ map \in 0..created /\ created \in 0..MaxEntries
  /\ pc \in [Actors -> Steps] /\ at \in [Actors -> 0..created]
  /\ Placed
StampsTyped == stamp \in [Sources -> 0..Cardinality(Sources)] /\ StampsFit
EntriesTyped == ent \in [Entries -> EntryRecords]
FlagsTyped ==
  /\ life \in Lifecycles
  /\ phase \subseteq {"turn", "task", "left"} /\ pillTimer \in BOOLEAN
  /\ times \in [Sources -> Nat]
  /\ outcome \in [Sources -> {"pending", "resolved", "rejected"}]
  /\ mistaken \subseteq Sources
  /\ restarts \in 0..MaxRestarts
SeenTyped ==
  /\ seen \in [Actors -> Lifecycles \cup {Nothing, "woke"}]
  /\ \A x \in Tasks : pc[x] = "restoring" => seen[x] \in Lifecycles
RowsTyped == rows \subseteq Items /\ held \in [Actors -> SUBSET Items] /\ ItemsFit

TypeInv ==
  PlacesTyped /\ StampsTyped /\ EntriesTyped /\ FlagsTyped /\ SeenTyped /\ RowsTyped

LEMMA TypesTogether == TypeInv => TypeOK
BY DEF TypeInv, TypeOK, PlacesTyped, StampsTyped, EntriesTyped, FlagsTyped, SeenTyped, RowsTyped,
       EntryRecords, Steps

LEMMA Kinds ==
  /\ Sources \subseteq Tasks /\ Tasks \subseteq Actors /\ Entries \subseteq Actors
  /\ Tasks \cap Entries = {} /\ Entries \subseteq Nat /\ 0 \notin Entries
  /\ Pill \in Sources /\ Messages \subseteq Sources /\ Restore \notin Sources
  /\ Sources \cap (Killers \cup Steerers \cup Runners) = {}
  /\ Pill \notin Posters \cup Killers \cup Steerers \cup Runners
  /\ IsFiniteSet(Sources)
  /\ MaxEntries \in Nat /\ 1 \in Entries
<1>1. IsFiniteSet(Posters \cup {Pill})
  BY AgentSystemAssumption, FS_AddElement
<1> QED BY <1>1, AgentSystemAssumption DEF Sources, Tasks, Actors, Entries

(* Rows of different ids are finitely many, and sorted by their stamps.    *)
LEMMA RowsSorted ==
  ASSUME stamp \in [Sources -> 0..Cardinality(Sources)], StampsFit, NEW items \in SUBSET Items, RowsFit(items)
  PROVE  /\ ByStamp(items) \in Seq(items)
         /\ \A i \in items : \E k \in DOMAIN ByStamp(items) : ByStamp(items)[k] = i
         /\ \A k, l \in DOMAIN ByStamp(items) :
              k < l => stamp[ByStamp(items)[k].id] < stamp[ByStamp(items)[l].id]
<1> DEFINE ids == [i \in items |-> i.id]
<1>1. IsFiniteSet(items)
  <2>1. ids \in [items -> Sources] BY DEF Items
  <2>2. \A i, j \in items : ids[i] = ids[j] => i = j BY DEF RowsFit
  <2> HIDE DEF ids
  <2>3. ids \in Injection(items, Sources) BY <2>1, <2>2 DEF Injection, IsInjective
  <2> QED BY <2>3, Kinds, FS_Injection
<1>2. \A i \in items : i.id \in Stamped /\ stamp[i.id] \in Nat
  <2>1. Cardinality(Sources) \in Nat BY Kinds, FS_CardinalityType
  <2> QED BY <2>1 DEF RowsFit, Fits, Stamped
<1>3. \A i, j \in items : stamp[i.id] = stamp[j.id] => i = j
  BY <1>2 DEF RowsFit, StampsFit
<1> QED BY <1>1, <1>2, <1>3, SortedByStamp

(* One task or loop goes on, and may capture an entry.                     *)
LEMMA Going ==
  ASSUME PlacesTyped, NEW x \in Actors, NEW step \in Steps, Goes(x, step),
         UNCHANGED created, map' \in 0..created,
         \/ UNCHANGED at
         \/ \E e \in 1..created : at' = [at EXCEPT ![x] = e],
         x \in Tasks => step \in TaskSteps \cup {"handled"},
         x \in Entries => step \in LoopSteps /\ (pc[x] # "off" \/ step = "off"),
         step \in Posting => x \in Sources,
         step \in Locking \cup {"resolved"} \/ (x = Pill /\ step = "posted") => at'[x] # 0
  PROVE  PlacesTyped'
<1>1. /\ pc' \in [Actors -> Steps]
      /\ pc'[x] = step /\ \A y \in Actors \ {x} : pc'[y] = pc[y]
  BY DEF PlacesTyped, Goes
<1>2. /\ at' \in [Actors -> 0..created]
      /\ \A y \in Actors \ {x} : at'[y] = at[y]
  <2>1. created \in Nat BY DEF PlacesTyped
  <2> QED BY <2>1 DEF PlacesTyped
<1>3. Placed'
  <2>1. \A y \in Tasks : pc'[y] \in TaskSteps \cup {"handled"}
    BY <1>1, Kinds DEF PlacesTyped, Placed
  <2>2. \A e \in Entries : pc'[e] \in LoopSteps /\ (pc'[e] # "off" => e <= created)
    BY <1>1, Kinds DEF PlacesTyped, Placed
  <2>3. \A y \in Actors : pc'[y] \in Locking \cup {"resolved"} => at'[y] # 0
    BY <1>1, <1>2 DEF PlacesTyped, Placed
  <2>4. pc'[Pill] = "posted" => at'[Pill] # 0
    BY <1>1, <1>2, Kinds DEF PlacesTyped, Placed
  <2>5. \A y \in Actors : pc'[y] \in Posting => y \in Sources
    BY <1>1 DEF PlacesTyped, Placed
  <2> QED BY <2>1, <2>2, <2>3, <2>4, <2>5 DEF Placed
<1> QED BY <1>1, <1>2, <1>3 DEF PlacesTyped

(* A task that unlocks an entry may start its loop.                        *)
LEMMA GoingAndStarting ==
  ASSUME PlacesTyped, NEW x \in Tasks, at[x] # 0, NEW step \in TaskSteps,
         pc' = Started(at[x], [pc EXCEPT ![x] = step]), UNCHANGED <<map, created, at>>,
         step \in Posting => x \in Sources, step \notin Locking \cup {"resolved"} \/ step = "resolved"
  PROVE  /\ PlacesTyped'
         /\ pc'[x] = step /\ \A y \in Actors \ {x, at[x]} : pc'[y] = pc[y]
         /\ pc'[at[x]] = IF pc[at[x]] = "off" THEN "next" ELSE pc[at[x]]
<1>1. at[x] \in Entries /\ at[x] <= created /\ x # at[x] /\ x \in Actors /\ at[x] \in Actors
  BY Kinds DEF PlacesTyped, Entries
<1>2. /\ pc' \in [Actors -> Steps]
      /\ pc'[x] = step /\ \A y \in Actors \ {x, at[x]} : pc'[y] = pc[y]
      /\ pc'[at[x]] = IF pc[at[x]] = "off" THEN "next" ELSE pc[at[x]]
  BY <1>1 DEF PlacesTyped, Started, Steps, LoopSteps
<1>3. Placed'
  <2>1. \A y \in Tasks : pc'[y] \in TaskSteps \cup {"handled"}
    BY <1>1, <1>2, Kinds DEF PlacesTyped, Placed
  <2>2. \A e \in Entries : pc'[e] \in LoopSteps /\ (pc'[e] # "off" => e <= created)
    BY <1>1, <1>2, Kinds DEF PlacesTyped, Placed, LoopSteps
  <2>3. \A y \in Actors : pc'[y] \in Locking \cup {"resolved"} => at[y] # 0
    BY <1>1, <1>2 DEF PlacesTyped, Placed, Locking
  <2>4. pc'[Pill] = "posted" => at[Pill] # 0
    BY <1>1, <1>2, Kinds DEF PlacesTyped, Placed
  <2>5. \A y \in Actors : pc'[y] \in Posting => y \in Sources
    BY <1>1, <1>2 DEF PlacesTyped, Placed, Posting
  <2> QED BY <2>1, <2>2, <2>3, <2>4, <2>5 DEF Placed
<1> QED BY <1>2, <1>3 DEF PlacesTyped

LEMMA PlacesKept ==
  ASSUME TypeInv, Next
  PROVE  PlacesTyped'
<1>0. /\ PlacesTyped /\ map \in 0..created /\ created \in Nat
      /\ pc \in [Actors -> Steps] /\ at \in [Actors -> 0..created]
  BY DEF TypeInv, PlacesTyped
<1>m. map # 0 => map \in 1..created
  BY <1>0
<1>c. \A x \in Actors : at[x] # 0 => at[x] \in 1..created
  BY <1>0
<1> USE DEF Steps, TaskSteps, LoopSteps, Ended, Locking, Posting
<1>1. ASSUME NEW x \in Tasks, Resolving(x) \/ Steer(x) \/ KillLoaded(x) \/ KillUnloaded(x)
      PROVE  PlacesTyped'
  <2>0. x \in Actors /\ x \notin Entries BY Kinds
  <2>1. CASE ResolveLoaded(x)
    BY <1>0, <1>m, <2>0, <2>1, Going DEF ResolveLoaded
  <2>2. CASE RestoreRead(x)
    BY <1>0, <2>0, <2>2, Going DEF RestoreRead
  <2>3. CASE Steer(x)
    BY <1>0, <1>m, <2>0, <2>3, Going DEF Steer
  <2>4. CASE KillLoaded(x)
    BY <1>0, <1>m, <2>0, <2>4, Going DEF KillLoaded
  <2>5. CASE KillUnloaded(x)
    <3>1. Goes(x, "killWrite") /\ UNCHANGED <<map, created, at>>
      BY <2>5 DEF KillUnloaded
    <3> QED BY <1>0, <2>0, <3>1, Going
  <2> QED BY <1>1, <2>1, <2>2, <2>3, <2>4, <2>5 DEF Resolving
<1>2. CASE PillDue \/ PillFires \/ PillHandled
  <2>0. Pill \in Actors /\ Pill \notin Entries /\ Pill \in Tasks /\ Pill \in Sources BY Kinds
  <2>1. CASE PillDue
    BY <1>0, <2>0, <2>1, Going DEF PillDue
  <2>2. CASE PillFires
    <3>1. UNCHANGED <<map, created>> /\ (map # 0 => map \in 1..created)
      BY <1>m, <2>2 DEF PillFires
    <3>2. CASE map # 0 /\ ent[map].state = "dead" /\ Goes(Pill, "idle") /\ UNCHANGED at
      BY <1>0, <2>0, <3>1, <3>2, Going
    <3>3. CASE map # 0 /\ at' = [at EXCEPT ![Pill] = map] /\ Goes(Pill, "resolved")
      BY <1>0, <2>0, <3>1, <3>3, Going
    <3>4. CASE map # 0 /\ at' = [at EXCEPT ![Pill] = map] /\ Goes(Pill, "killing")
      BY <1>0, <2>0, <3>1, <3>4, Going
    <3>5. CASE Goes(Pill, "done") /\ UNCHANGED at
      BY <1>0, <2>0, <3>1, <3>5, Going
    <3>6. CASE Goes(Pill, "killWrite") /\ UNCHANGED at
      BY <1>0, <2>0, <3>1, <3>6, Going
    <3>7. \/ map # 0 /\ ent[map].state = "dead" /\ Goes(Pill, "idle") /\ UNCHANGED at
          \/ map # 0 /\ at' = [at EXCEPT ![Pill] = map] /\ Goes(Pill, "resolved")
          \/ map # 0 /\ at' = [at EXCEPT ![Pill] = map] /\ Goes(Pill, "killing")
          \/ Goes(Pill, "done") /\ UNCHANGED at
          \/ Goes(Pill, "killWrite") /\ UNCHANGED at
      BY <2>2 DEF PillFires
    <3> QED BY <3>2, <3>3, <3>4, <3>5, <3>6, <3>7
  <2>3. CASE PillHandled
    <3>1. at[Pill] # 0 BY <2>3 DEF PillHandled, TypeInv, PlacesTyped, Placed
    <3> QED BY <1>0, <2>0, <2>3, <3>1, Going DEF PillHandled
  <2> QED BY <1>2, <2>1, <2>2, <2>3
<1>3. ASSUME NEW x \in Tasks, TaskStep(x)
      PROVE  PlacesTyped'
  <2>0. /\ x \in Actors /\ x \notin Entries
        /\ pc[x] \in Locking \cup {"resolved"} => at[x] # 0
        /\ pc[x] \in Posting => x \in Sources
    BY Kinds DEF TypeInv, PlacesTyped, Placed
  <2>1. CASE RestoreRegister(x)
    <3>1. CASE Goes(x, "rejected") /\ UNCHANGED <<map, created, at>>
      BY <1>0, <2>0, <3>1, Going
    <3>2. CASE ~(Goes(x, "rejected") /\ UNCHANGED <<map, created, at>>)
      <4>1. /\ created < MaxEntries /\ created' = created + 1 /\ map' = created + 1
            /\ at' = [at EXCEPT ![x] = created + 1] /\ pc' = [pc EXCEPT ![x] = "replaying"]
        BY <2>1, <3>2 DEF RestoreRegister, Goes
      <4>2. created \in 0..MaxEntries /\ MaxEntries \in Nat BY Kinds DEF TypeInv, PlacesTyped
      <4>3. /\ created' \in 0..MaxEntries /\ map' \in 0..created'
            /\ at' \in [Actors -> 0..created'] /\ pc' \in [Actors -> Steps]
        <5>1. created' \in 0..MaxEntries /\ map' \in 0..created'
          BY <4>1, <4>2
        <5>2. 0..created \subseteq 0..created' /\ created + 1 \in 0..created'
          BY <1>0, <4>1
        <5>3. at' \in [Actors -> 0..created']
          BY <1>0, <4>1, <5>2
        <5> QED BY <1>0, <4>1, <5>1, <5>3
      <4>4. /\ at'[x] # 0 /\ \A y \in Actors \ {x} : at'[y] = at[y]
            /\ pc'[x] = "replaying" /\ \A y \in Actors \ {x} : pc'[y] = pc[y]
        BY <1>0, <2>0, <4>1
      <4>5. Placed'
        <5>1. \A y \in Tasks : pc'[y] \in TaskSteps \cup {"handled"}
          BY <2>0, <4>4, Kinds DEF TypeInv, PlacesTyped, Placed
        <5>2. \A e \in Entries : pc'[e] \in LoopSteps /\ (pc'[e] # "off" => e <= created')
          <6>1. \A e \in Entries : pc'[e] = pc[e] /\ pc[e] \in LoopSteps /\ (pc[e] # "off" => e <= created) /\ e \in Nat
            BY <2>0, <4>4, Kinds DEF TypeInv, PlacesTyped, Placed
          <6> QED BY <1>0, <4>1, <6>1
        <5>3. \A y \in Actors : pc'[y] \in Locking \cup {"resolved"} => at'[y] # 0
          BY <4>4 DEF TypeInv, PlacesTyped, Placed
        <5>4. pc'[Pill] = "posted" => at'[Pill] # 0
          BY <4>4, Kinds DEF TypeInv, PlacesTyped, Placed
        <5>5. \A y \in Actors : pc'[y] \in Posting => y \in Sources
          BY <4>4 DEF TypeInv, PlacesTyped, Placed
        <5> QED BY <5>1, <5>2, <5>3, <5>4, <5>5 DEF Placed
      <4> QED BY <4>3, <4>5 DEF PlacesTyped
    <3> QED BY <3>1, <3>2
  <2>2. CASE ReplayRead(x)
    BY <1>0, <2>0, <2>2, Going DEF ReplayRead
  <2>3. CASE ReplayQueue(x)
    BY <1>0, <2>0, <2>3, GoingAndStarting DEF ReplayQueue
  <2>4. CASE EnterLock(x)
    BY <1>0, <2>0, <2>4, Going DEF EnterLock
  <2>5. CASE WakeAndInsert(x)
    BY <1>0, <2>0, <2>5, Going DEF WakeAndInsert
  <2>6. CASE WakeOnly(x)
    <3>1. CASE x \in Steerers
      BY <1>0, <2>0, <2>6, <3>1, GoingAndStarting DEF WakeOnly
    <3>2. CASE x \notin Steerers
      <4>1. Goes(x, "executing") /\ UNCHANGED <<map, created, at>>
        BY <2>6, <3>2 DEF WakeOnly, Goes
      <4> QED BY <1>0, <2>0, <4>1, Going
    <3> QED BY <3>1, <3>2
  <2>7. CASE InsertRow(x)
    BY <1>0, <2>0, <2>7, Going DEF InsertRow
  <2>8. CASE Enqueue(x)
    <3>1. at[x] \in Entries /\ at[x] # 0 /\ x # at[x] /\ at[x] \in 1..created
      <4>1. at[x] \in 1..created BY <1>c, <2>0, <2>8 DEF Enqueue
      <4>2. created \in 0..MaxEntries /\ MaxEntries \in Nat BY Kinds DEF TypeInv, PlacesTyped
      <4>3. at[x] \in Entries BY ONLY <4>1, <4>2 DEF Entries
      <4> QED BY <2>0, <4>1, <4>3, Kinds
    <3>2. CASE pc[at[x]] = "waiting"
      <4>1. pc' = [pc EXCEPT ![x] = "posted", ![at[x]] = "taken"] /\ UNCHANGED <<map, created, at>>
        BY <1>0, <2>0, <2>8, <3>1, <3>2, Kinds DEF Enqueue, Started
      <4>2. /\ pc' \in [Actors -> Steps]
            /\ pc'[x] = "posted" /\ pc'[at[x]] = "taken"
            /\ \A y \in Actors \ {x, at[x]} : pc'[y] = pc[y]
        BY <1>0, <2>0, <3>1, <4>1, Kinds
      <4>3. Placed'
        <5>1. \A y \in Tasks : pc'[y] \in TaskSteps \cup {"handled"}
          BY <3>1, <4>2, Kinds DEF TypeInv, PlacesTyped, Placed
        <5>2. \A e \in Entries : pc'[e] \in LoopSteps /\ (pc'[e] # "off" => e <= created)
          BY <1>0, <2>0, <3>1, <4>2, Kinds DEF TypeInv, PlacesTyped, Placed
        <5>3. \A y \in Actors : pc'[y] \in Locking \cup {"resolved"} => at[y] # 0
          BY <4>2 DEF TypeInv, PlacesTyped, Placed
        <5>4. pc'[Pill] = "posted" => at[Pill] # 0
          BY <3>1, <4>2, Kinds DEF TypeInv, PlacesTyped, Placed
        <5>5. \A y \in Actors : pc'[y] \in Posting => y \in Sources
          BY <2>0, <2>8, <4>2 DEF TypeInv, PlacesTyped, Placed, Enqueue
        <5> QED BY <4>1, <5>1, <5>2, <5>3, <5>4, <5>5 DEF Placed
      <4> QED BY <1>0, <4>1, <4>2, <4>3 DEF PlacesTyped
    <3>3. CASE pc[at[x]] # "waiting"
      <4>1. [pc EXCEPT ![x] = "posted", ![at[x]] = IF @ = "waiting" THEN "taken" ELSE @]
            = [pc EXCEPT ![x] = "posted"]
        BY <1>0, <2>0, <3>1, <3>3, Kinds
      <4> QED BY <1>0, <2>0, <2>8, <3>1, <4>1, GoingAndStarting DEF Enqueue
    <3> QED BY <3>2, <3>3
  <2>9. CASE EnqueueMerged(x)
    BY <1>0, <2>0, <2>9, Going DEF EnqueueMerged
  <2>10. CASE MergeDelete(x)
    BY <1>0, <2>0, <2>10, Going DEF MergeDelete
  <2>11. CASE MergeUpsert(x)
    BY <1>0, <2>0, <2>11, GoingAndStarting DEF MergeUpsert
  <2>12. CASE StartTask(x)
    BY <1>0, <2>0, <2>12, Going DEF StartTask
  <2>13. CASE EndTask(x)
    BY <1>0, <2>0, <2>13, Going DEF EndTask
  <2>14. CASE MarkDead(x)
    BY <1>0, <2>0, <2>14, Going DEF MarkDead
  <2>15. CASE Drain(x)
    BY <1>0, <2>0, <2>15, Going DEF Drain
  <2>16. CASE KillWrite(x)
    BY <1>0, <2>0, <2>16, Going DEF KillWrite
  <2>17. CASE KillClear(x)
    BY <1>0, <2>0, <2>17, Going DEF KillClear
  <2> QED BY <1>3, <2>1, <2>2, <2>3, <2>4, <2>5, <2>6, <2>7, <2>8, <2>9, <2>10, <2>11, <2>12,
         <2>13, <2>14, <2>15, <2>16, <2>17 DEF TaskStep
<1>4. ASSUME NEW e \in Entries, LoopStep(e)
      PROVE  PlacesTyped'
  <2>0. e \in Actors /\ e \notin Tasks /\ e # Pill BY Kinds
  <2>1. CASE LoopNext(e)
    BY <1>0, <2>0, <2>1, Going DEF LoopNext
  <2>2. CASE HandleRestore(e)
    BY <1>0, <2>0, <2>2, Going DEF HandleRestore
  <2>3. CASE Record(e)
    BY <1>0, <2>0, <2>3, Going DEF Record
  <2>4. CASE OpenTurn(e)
    BY <1>0, <2>0, <2>4, Going DEF OpenTurn
  <2>5. CASE CloseTurn(e)
    BY <1>0, <2>0, <2>5, Going DEF CloseTurn
  <2>6. CASE FinishTurn(e)
    BY <1>0, <2>0, <2>6, Going DEF FinishTurn, InTurn
  <2>7. CASE FailTurn(e)
    BY <1>0, <2>0, <2>7, Going DEF FailTurn, InTurn
  <2>8. CASE Answer(e)
    BY <1>0, <2>0, <2>8, Going DEF Answer
  <2> QED BY <1>4, <2>1, <2>2, <2>3, <2>4, <2>5, <2>6, <2>7, <2>8 DEF LoopStep
<1>5. ASSUME NEW x \in Actors, SleepStep(x)
      PROVE  PlacesTyped'
  <2>0. /\ x \in Tasks \/ x \in Entries
        /\ pc[x] \in Locking => at[x] # 0
        /\ AfterSleep(x) = IF x \in Entries THEN "answering" ELSE "done"
        /\ Tasks \cap Entries = {}
    BY Kinds DEF TypeInv, PlacesTyped, Placed, Actors, AfterSleep
  <2>1. CASE SleepRequest(x)
    BY <1>0, <1>m, <2>0, <2>1, Going DEF SleepRequest, WantsSleep
  <2>2. CASE FallAsleep(x)
    BY <1>0, <2>0, <2>2, Going DEF FallAsleep
  <2>3. CASE SchedulePoisonPill(x)
    BY <1>0, <2>0, <2>3, Going DEF SchedulePoisonPill
  <2> QED BY <1>5, <2>1, <2>2, <2>3 DEF SleepStep
<1>6. CASE Restart
  <2>1. /\ created' = (IF life = "active" THEN 1 ELSE 0) /\ map' = created'
        /\ at' = [x \in Actors |-> 0]
        /\ pc' = [x \in Actors |->
              IF x \in Entries THEN IF x = map' THEN "next" ELSE "off"
              ELSE IF pc[x] = "due" THEN "idle"
              ELSE IF x = Pill /\ pc[x] = "posted" THEN "gone"
              ELSE IF pc[x] \in Ended \cup {"idle"} THEN pc[x]
              ELSE IF pc[x] \in {"draining", "killClear"} THEN "done"
              ELSE "gone"]
    BY <1>6 DEF Restart
  <2>2. 1 \in 0..MaxEntries /\ 0 \in 0..MaxEntries /\ 0 \in 0..0 /\ 0 \in 0..1 /\ 1 \in 0..1
    BY Kinds DEF Entries
  <2>3. /\ created' \in 0..MaxEntries /\ map' \in 0..created'
        /\ at' \in [Actors -> 0..created'] /\ pc' \in [Actors -> Steps]
    BY <1>0, <2>1, <2>2
  <2>4. \A x \in Actors : /\ pc'[x] \in {"next", "off", "idle", "done", "gone", "posted", "rejected"}
                          /\ pc'[x] = "posted" => pc[x] = "posted" /\ x # Pill
                          /\ x \notin Entries => pc'[x] \notin {"next", "off"}
                          /\ x \in Entries => pc'[x] = IF x = created' THEN "next" ELSE "off"
    BY <2>1
  <2>5. Placed'
    <3>1. \A y \in Tasks : pc'[y] \in TaskSteps \cup {"handled"}
      BY <2>4, Kinds
    <3>2. \A e \in Entries : pc'[e] \in LoopSteps /\ (pc'[e] # "off" => e <= created')
      BY <2>4, Kinds
    <3>3. \A y \in Actors : pc'[y] \in Posting => y \in Sources
      BY <2>4 DEF TypeInv, PlacesTyped, Placed
    <3> QED BY <2>4, <3>1, <3>2, <3>3, Kinds DEF Placed
  <2> QED BY <2>3, <2>5 DEF PlacesTyped
<1> QED BY <1>1, <1>2, <1>3, <1>4, <1>5, <1>6 DEF Next

-----------------------------------------------------------------------------
(* How a step changes the entries.  Most steps change the lock of one      *)
(* entry, its state or its terminating flag, and no queue.                 *)

LEMMA Captured ==
  ASSUME PlacesTyped
  PROVE  /\ \A x \in Actors : at[x] # 0 => at[x] \in Entries /\ at[x] <= created
         /\ map # 0 => map \in Entries /\ map <= created
         /\ \A x \in Actors : pc[x] \in Locking \cup {"resolved"} => at[x] \in Entries
<1>1. created \in Nat /\ created <= MaxEntries /\ MaxEntries \in Nat
  BY Kinds DEF PlacesTyped
<1>2. \A e \in 0..created : e # 0 => e \in Entries /\ e <= created
  BY ONLY <1>1 DEF Entries
<1>3. (\A x \in Actors : at[x] \in 0..created) /\ map \in 0..created
  BY DEF PlacesTyped
<1> QED BY <1>2, <1>3 DEF PlacesTyped, Placed

SameBut(new, old) ==   \* the lock apart
  /\ new.state = old.state /\ new.terminating = old.terminating
  /\ new.queue = old.queue /\ new.current = old.current
SameQueues(new, old) == new.queue = old.queue /\ new.current = old.current

LEMMA LockTyped ==
  ASSUME NEW l \in LockType(Actors), NEW x \in Actors
  PROVE  LockRequest(l, x) \in LockType(Actors) /\ LockRelease(l) \in LockType(Actors)
<1>0. l.permits \in Nat /\ l.queue \in Seq(Actors) /\ l = [permits |-> l.permits, queue |-> l.queue]
  BY DEF LockType
<1>1. LockRequest(l, x) \in LockType(Actors)
  <2>1. CASE LockIsFree(l)
    <3>1. l.permits - 1 \in Nat BY <1>0, <2>1 DEF LockIsFree
    <3> QED BY <1>0, <2>1, <3>1 DEF LockType, LockRequest
  <2>2. CASE ~LockIsFree(l)
    <3>1. Append(l.queue, x) \in Seq(Actors) BY <1>0
    <3> QED BY <1>0, <2>2, <3>1 DEF LockType, LockRequest
  <2> QED BY <2>1, <2>2
<1>2. CASE UnlockHandsOver(l)
  <2>1. Tail(l.queue) \in Seq(Actors) BY <1>0, <1>2 DEF UnlockHandsOver
  <2> QED BY <1>1, <1>2, <2>1 DEF LockType, LockRelease
<1>3. CASE ~UnlockHandsOver(l)
  BY <1>1, <1>3 DEF LockType, LockRelease
<1> QED BY <1>2, <1>3

LEMMA Requesting ==
  ASSUME EntriesTyped, NEW e \in Entries, NEW x \in Actors
  PROVE  /\ Requested(e, x) \in [Entries -> EntryRecords]
         /\ \A d \in Entries \ {e} : Requested(e, x)[d] = ent[d]
         /\ SameBut(Requested(e, x)[e], ent[e])
         /\ Requested(e, x)[e].lock = LockRequest(ent[e].lock, x)
<1>1. LockRequest(ent[e].lock, x) \in LockType(Actors)
  BY LockTyped DEF EntriesTyped, EntryRecords
<1> QED BY <1>1 DEF EntriesTyped, EntryRecords, Requested, SameBut

LEMMA Terminating ==
  ASSUME EntriesTyped, NEW e \in Entries, NEW x \in Actors
  PROVE  /\ Terminated(e, x) \in [Entries -> EntryRecords]
         /\ \A d \in Entries \ {e} : Terminated(e, x)[d] = ent[d]
         /\ SameQueues(Terminated(e, x)[e], ent[e])
         /\ Terminated(e, x)[e].state = ent[e].state
         /\ Terminated(e, x)[e].lock = LockRequest(ent[e].lock, x)
<1>1. LockRequest(ent[e].lock, x) \in LockType(Actors)
  BY LockTyped DEF EntriesTyped, EntryRecords
<1> QED BY <1>1 DEF EntriesTyped, EntryRecords, Terminated, SameQueues

LEMMA Unlocking ==
  ASSUME NEW entries \in [Entries -> EntryRecords], NEW x \in Actors, at[x] \in Entries
  PROVE  /\ Unlocked(entries, x) \in [Entries -> EntryRecords]
         /\ \A d \in Entries \ {at[x]} : Unlocked(entries, x)[d] = entries[d]
         /\ SameBut(Unlocked(entries, x)[at[x]], entries[at[x]])
         /\ Unlocked(entries, x)[at[x]].lock = LockRelease(entries[at[x]].lock)
<1>1. LockRelease(entries[at[x]].lock) \in LockType(Actors)
  BY LockTyped DEF EntryRecords
<1> QED BY <1>1 DEF EntryRecords, Unlocked, SameBut

LEMMA StateSet ==
  ASSUME EntriesTyped, NEW e \in Entries, NEW state \in Lifecycles,
         NEW entries, entries = [ent EXCEPT ![e].state = state]
  PROVE  /\ entries \in [Entries -> EntryRecords]
         /\ \A d \in Entries \ {e} : entries[d] = ent[d]
         /\ SameQueues(entries[e], ent[e]) /\ entries[e].lock = ent[e].lock
         /\ entries[e].state = state
BY DEF EntriesTyped, EntryRecords, SameQueues

LEMMA Posting2 ==
  ASSUME EntriesTyped, NEW e \in Entries, NEW item \in QueueItems
  PROVE  /\ Posted(e, item) \in [Entries -> EntryRecords]
         /\ \A d \in Entries \ {e} : Posted(e, item)[d] = ent[d]
         /\ Posted(e, item)[e].lock = ent[e].lock
         /\ Posted(e, item)[e].state = ent[e].state
         /\ pc[e] = "waiting" => Posted(e, item)[e].queue = ent[e].queue
                                 /\ Posted(e, item)[e].current = item
         /\ pc[e] # "waiting" => Posted(e, item)[e].queue = Append(ent[e].queue, item)
                                 /\ Posted(e, item)[e].current = ent[e].current
<1>1. Append(ent[e].queue, item) \in Seq(QueueItems)
  BY DEF EntriesTyped, EntryRecords
<1> QED BY <1>1 DEF EntriesTyped, EntryRecords, Posted

LEMMA RowsLess ==
  ASSUME NEW items, RowsFit(items), NEW less \in SUBSET items
  PROVE  RowsFit(less)
BY DEF RowsFit

(* The steps that change a queue or what a loop has taken.                 *)

LEMMA NoEntryTyped ==
  /\ NoEntry \in EntryRecords /\ NoEntry.queue = << >> /\ NoEntry.current = NoItem
  /\ NoEntry.lock = FreeLock /\ NoEntry.terminating = FALSE /\ NoEntry.state = "active"
<1>1. FreeLock \in LockType(Actors) /\ << >> \in Seq(QueueItems) /\ "active" \in Lifecycles
  BY DEF FreeLock, LockType, Lifecycles
<1> QED BY <1>1 DEF NoEntry, EntryRecords

LEMMA RegisterEffect ==
  ASSUME TypeInv, NEW x \in Tasks, RestoreRegister(x), created' # created
  PROVE  /\ created' \in Entries /\ created' = created + 1 /\ map' = created'
         /\ at' = [at EXCEPT ![x] = created'] /\ Goes(x, "replaying")
         /\ seen[x] \in {"active", "sleeping"}
         /\ ent' \in [Entries -> EntryRecords]
         /\ \A d \in Entries \ {created'} : ent'[d] = ent[d]
         /\ ent'[created'].queue = <<RestoreItem>> /\ ent'[created'].current = NoItem
         /\ ent'[created'].state = seen[x]
         /\ ent'[created'].lock = [permits |-> 0, queue |-> << >>]
<1>1. /\ created < MaxEntries /\ created' = created + 1 /\ map' = created'
      /\ ent' = [ent EXCEPT ![created'] = [NewEntry(seen[x]) EXCEPT !.queue = <<RestoreItem>>,
                                       !.lock = LockRequest(@, x)]]
      /\ at' = [at EXCEPT ![x] = created']
      /\ Goes(x, "replaying") /\ seen[x] # "dead"
  BY DEF RestoreRegister
<1>2. created' \in Entries
  <2>1. created \in 0..MaxEntries /\ MaxEntries \in Nat BY Kinds DEF TypeInv, PlacesTyped
  <2> QED BY ONLY <1>1, <2>1 DEF Entries
<1>3. x \in Actors /\ seen[x] \in Lifecycles
  BY Kinds DEF TypeInv, SeenTyped, RestoreRegister
<1>4. LockRequest(FreeLock, x) = [permits |-> 0, queue |-> << >>]
  BY DEF LockRequest, FreeLock, LockIsFree
<1>5. /\ NoEntry \in EntryRecords /\ NoEntry.queue = << >> /\ NoEntry.current = NoItem
      /\ NoEntry.lock = FreeLock /\ NoEntry.terminating = FALSE
  BY NoEntryTyped
<1>6. [permits |-> 0, queue |-> << >>] \in LockType(Actors) /\ <<RestoreItem>> \in Seq(QueueItems)
  BY DEF LockType, QueueItems
<1> DEFINE new == [NewEntry(seen[x]) EXCEPT !.queue = <<RestoreItem>>, !.lock = LockRequest(@, x)]
<1>7. /\ new \in EntryRecords /\ new.state = seen[x] /\ new.queue = <<RestoreItem>>
      /\ new.current = NoItem /\ new.lock = [permits |-> 0, queue |-> << >>]
  <2> HIDE DEF new
  <2>1. /\ NewEntry(seen[x]) \in EntryRecords /\ NewEntry(seen[x]).state = seen[x]
        /\ NewEntry(seen[x]).current = NoItem /\ NewEntry(seen[x]).lock = FreeLock
    BY <1>3, <1>5 DEF EntryRecords, NewEntry
  <2>2. new = [NewEntry(seen[x]) EXCEPT !.queue = <<RestoreItem>>, !.lock = [permits |-> 0, queue |-> << >>]]
    BY <1>4, <2>1 DEF new
  <2> QED BY <1>6, <2>1, <2>2 DEF EntryRecords
<1> HIDE DEF new
<1>8. ent' = [ent EXCEPT ![created'] = new]
  BY <1>1 DEF new
<1>9. ent' \in [Entries -> EntryRecords] /\ ent'[created'] = new
      /\ \A d \in Entries \ {created'} : ent'[d] = ent[d]
  BY <1>2, <1>7, <1>8 DEF TypeInv, EntriesTyped
<1> QED BY <1>1, <1>2, <1>3, <1>7, <1>9 DEF Lifecycles

LEMMA ReplayEffect ==
  ASSUME TypeInv, NEW x \in Tasks, ReplayQueue(x)
  PROVE  /\ ent' \in [Entries -> EntryRecords] /\ at[x] \in Entries
         /\ \A d \in Entries \ {at[x]} : ent'[d] = ent[d]
         /\ ent'[at[x]].queue = ent[at[x]].queue \o ByStamp(held[x] \ StaleInFlight(held[x]))
         /\ ent'[at[x]].current = ent[at[x]].current
         /\ ent'[at[x]].state = ent[at[x]].state
         /\ ent'[at[x]].lock = LockRelease(ent[at[x]].lock)
         /\ ByStamp(held[x] \ StaleInFlight(held[x])) \in Seq(Items)
         /\ ByStamp(held[x] \ StaleInFlight(held[x])) \in Seq(held[x] \ StaleInFlight(held[x]))
         /\ held[x] \in SUBSET Items /\ RowsFit(held[x])
<1>1. x \in Actors /\ at[x] \in Entries
  BY Kinds, Captured DEF TypeInv, ReplayQueue, Locking
<1> DEFINE kept == held[x] \ StaleInFlight(held[x])
           queued == [ent EXCEPT ![at[x]].queue = @ \o ByStamp(kept)]
<1>2. ByStamp(kept) \in Seq(Items) /\ ByStamp(kept) \in Seq(kept) /\ held[x] \in SUBSET Items /\ RowsFit(held[x])
  <2>1. held[x] \in SUBSET Items /\ RowsFit(held[x])
    BY <1>1 DEF TypeInv, RowsTyped, ItemsFit
  <2>2. kept \in SUBSET held[x] OBVIOUS
  <2> HIDE DEF kept
  <2>3. kept \in SUBSET Items /\ RowsFit(kept) BY <2>1, <2>2, RowsLess
  <2>4. ByStamp(kept) \in Seq(kept) BY <2>3, RowsSorted DEF TypeInv, StampsTyped
  <2> QED BY <2>1, <2>3, <2>4
<1> HIDE DEF kept
<1>3. ent[at[x]].queue \o ByStamp(kept) \in Seq(QueueItems)
  BY <1>1, <1>2 DEF TypeInv, EntriesTyped, EntryRecords, QueueItems
<1>4. /\ queued \in [Entries -> EntryRecords] /\ \A d \in Entries \ {at[x]} : queued[d] = ent[d]
      /\ queued[at[x]].queue = ent[at[x]].queue \o ByStamp(kept)
      /\ queued[at[x]].current = ent[at[x]].current /\ queued[at[x]].lock = ent[at[x]].lock
      /\ queued[at[x]].state = ent[at[x]].state
  BY <1>1, <1>3 DEF TypeInv, EntriesTyped, EntryRecords
<1> HIDE DEF queued
<1>5. ent' = Unlocked(queued, x)
  BY DEF ReplayQueue, queued, kept
<1>6. /\ Unlocked(queued, x) \in [Entries -> EntryRecords]
      /\ \A d \in Entries \ {at[x]} : Unlocked(queued, x)[d] = queued[d]
      /\ SameBut(Unlocked(queued, x)[at[x]], queued[at[x]])
      /\ Unlocked(queued, x)[at[x]].lock = LockRelease(queued[at[x]].lock)
  BY <1>1, <1>4, Unlocking
<1> QED BY <1>1, <1>2, <1>4, <1>5, <1>6 DEF SameBut, kept

LEMMA EnqueueEffect ==
  ASSUME TypeInv, NEW x \in Tasks, Enqueue(x)
  PROVE  /\ ent' \in [Entries -> EntryRecords] /\ at[x] \in Entries /\ x \in Sources
         /\ \A d \in Entries \ {at[x]} : ent'[d] = ent[d]
         /\ pc[at[x]] = "waiting" => ent'[at[x]].queue = ent[at[x]].queue
                                     /\ ent'[at[x]].current = Item(x)
         /\ pc[at[x]] # "waiting" => ent'[at[x]].queue = Append(ent[at[x]].queue, Item(x))
                                     /\ ent'[at[x]].current = ent[at[x]].current
         /\ ent'[at[x]].state = ent[at[x]].state
         /\ ent'[at[x]].lock = LockRelease(ent[at[x]].lock)
<1>1. x \in Actors /\ at[x] \in Entries /\ x \in Sources
  BY Kinds, Captured DEF TypeInv, PlacesTyped, Placed, Enqueue, Locking, Posting
<1>2. Item(x) \in QueueItems
  BY <1>1 DEF Item, QueueItems, Items
<1>3. ent' = Unlocked(Posted(at[x], Item(x)), x)
  BY DEF Enqueue
<1>4. PICK posted : posted = Posted(at[x], Item(x)) OBVIOUS
<1>5. /\ posted \in [Entries -> EntryRecords]
      /\ \A d \in Entries \ {at[x]} : posted[d] = ent[d]
      /\ pc[at[x]] = "waiting" => posted[at[x]].queue = ent[at[x]].queue
                                  /\ posted[at[x]].current = Item(x)
      /\ pc[at[x]] # "waiting" => posted[at[x]].queue = Append(ent[at[x]].queue, Item(x))
                                  /\ posted[at[x]].current = ent[at[x]].current
      /\ posted[at[x]].state = ent[at[x]].state /\ posted[at[x]].lock = ent[at[x]].lock
  BY <1>1, <1>2, <1>4, Posting2 DEF TypeInv
<1>6. /\ ent' \in [Entries -> EntryRecords]
      /\ \A d \in Entries \ {at[x]} : ent'[d] = posted[d]
      /\ SameBut(ent'[at[x]], posted[at[x]])
      /\ ent'[at[x]].lock = LockRelease(posted[at[x]].lock)
  BY <1>1, <1>3, <1>4, <1>5, Unlocking
<1> QED BY <1>1, <1>5, <1>6 DEF SameBut

LEMMA LastReplaced ==
  ASSUME NEW S, NEW q \in Seq(S), q # << >>, NEW last \in S
  PROVE  /\ Front(q) \o <<last>> = [q EXCEPT ![Len(q)] = last]
         /\ [q EXCEPT ![Len(q)] = last] \in Seq(S)
<1>1. Len(q) \in Nat \ {0} OBVIOUS
<1>2. /\ Front(q) \in Seq(S) /\ Len(Front(q)) = Len(q) - 1
      /\ \A i \in 1..(Len(q) - 1) : Front(q)[i] = q[i]
  <2>1. \A i \in 1..(Len(q) - 1) : q[i] \in S BY <1>1
  <2>2. 1 \in Int /\ Len(q) - 1 \in Int BY <1>1
  <2>3. PICK front : front = SubSeq(q, 1, Len(q) - 1) OBVIOUS
  <2>4. /\ front \in Seq(S)
        /\ Len(front) = IF 1 <= Len(q) - 1 THEN Len(q) - 1 - 1 + 1 ELSE 0
        /\ \A i \in 1..(Len(q) - 1 - 1 + 1) : front[i] = q[1 + i - 1]
    BY <2>1, <2>2, <2>3, SubSeqProperties
  <2>6. ASSUME NEW i \in 1..(Len(q) - 1) PROVE front[i] = q[i]
    <3>1. i \in 1..(Len(q) - 1 - 1 + 1) /\ 1 + i - 1 = i BY <1>1
    <3>2. front[i] = q[1 + i - 1] BY <2>4, <3>1
    <3> QED BY ONLY <3>1, <3>2
  <2>7. Len(front) = Len(q) - 1
    <3>1. \A n \in Nat \ {0} : (IF 1 <= n - 1 THEN n - 1 - 1 + 1 ELSE 0) = n - 1 OBVIOUS
    <3> QED BY <1>1, <2>4, <3>1, Zenon
  <2>8. Front(q) = front BY <2>3 DEF Front
  <2> QED BY <2>4, <2>6, <2>7, <2>8
<1>3. /\ Front(q) \o <<last>> \in Seq(S)
      /\ Len(Front(q) \o <<last>>) = Len(q)
      /\ \A i \in 1..Len(q) : (Front(q) \o <<last>>)[i] = IF i = Len(q) THEN last ELSE q[i]
  BY <1>1, <1>2
<1>4. /\ [q EXCEPT ![Len(q)] = last] \in Seq(S)
      /\ Len([q EXCEPT ![Len(q)] = last]) = Len(q)
      /\ \A i \in 1..Len(q) : [q EXCEPT ![Len(q)] = last][i] = IF i = Len(q) THEN last ELSE q[i]
  BY <1>1
<1>5. PICK s, t : s = Front(q) \o <<last>> /\ t = [q EXCEPT ![Len(q)] = last] OBVIOUS
<1>6. s \in Seq(S) /\ t \in Seq(S) /\ Len(s) = Len(t) /\ Len(s) = Len(q) BY <1>3, <1>4, <1>5
<1>7. \A i \in 1..Len(s) : s[i] = t[i] BY <1>3, <1>4, <1>5, <1>6
<1>8. s = t BY ONLY <1>6, <1>7, SeqEqual
<1> QED BY <1>4, <1>5, <1>8, Zenon

\* The last item of the queue becomes one with x merged into it.
MergedInto(e, x) ==
  \E q, last, merged :
    /\ q \in Seq(QueueItems) /\ last \in Items /\ merged \in Items
    /\ q = ent[e].queue /\ Len(q) \in DOMAIN q /\ last = q[Len(q)]
    /\ merged.id = last.id /\ merged.parts = last.parts \cup {x}
    /\ ent'[e].queue = [q EXCEPT ![Len(q)] = merged]
    /\ held' = [held EXCEPT ![x] = {merged}]

LEMMA EnqueueMergedEffect ==
  ASSUME TypeInv, NEW x \in Tasks, EnqueueMerged(x)
  PROVE  /\ ent' \in [Entries -> EntryRecords] /\ at[x] \in Entries /\ x \in Sources
         /\ \A d \in Entries \ {at[x]} : ent'[d] = ent[d]
         /\ ent'[at[x]].current = ent[at[x]].current
         /\ ent'[at[x]].state = ent[at[x]].state
         /\ ent'[at[x]].lock = ent[at[x]].lock
         /\ MergedInto(at[x], x)
<1> DEFINE q == ent[at[x]].queue
           merged == [Last(q) EXCEPT !.parts = @ \cup {x}]
<1>1. x \in Actors /\ at[x] \in Entries /\ x \in Sources
  <2>1. x \in Actors /\ pc[x] = "enqueueing" BY Kinds DEF EnqueueMerged
  <2>2. pc[x] \in Locking /\ pc[x] \in Posting BY <2>1 DEF Locking, Posting
  <2>3. at[x] \in Entries BY <2>1, <2>2, Captured DEF TypeInv
  <2> QED BY <2>1, <2>2, <2>3 DEF TypeInv, PlacesTyped, Placed
<1>2. /\ ent' = [ent EXCEPT ![at[x]].queue = Front(q) \o <<merged>>]
      /\ held' = [held EXCEPT ![x] = {merged}]
      /\ q # << >> /\ Last(q).id \in Messages
  BY DEF EnqueueMerged, Merges
<1>3. q \in Seq(QueueItems) BY <1>1 DEF TypeInv, EntriesTyped, EntryRecords
<1> HIDE DEF q
<1>4. Len(q) \in DOMAIN q /\ Last(q) = q[Len(q)] /\ Last(q) \in QueueItems /\ Len(q) \in Nat \ {0}
  BY <1>2, <1>3 DEF Last
<1>5. Last(q) \in Items
  BY <1>2, <1>4, Kinds DEF QueueItems, RestoreItem
<1>6. merged \in Items /\ merged = [id |-> Last(q).id, parts |-> Last(q).parts \cup {x}]
  BY <1>1, <1>5 DEF Items
<1> HIDE DEF merged
<1>7. Front(q) \o <<merged>> = [q EXCEPT ![Len(q)] = merged] /\ merged \in QueueItems
  <2>1. merged \in QueueItems BY <1>6 DEF QueueItems
  <2> QED BY <1>2, <1>3, <2>1, LastReplaced
<1>8. [q EXCEPT ![Len(q)] = merged] \in Seq(QueueItems)
  BY <1>2, <1>3, <1>7, LastReplaced
<1>9. ent' = [ent EXCEPT ![at[x]].queue = [q EXCEPT ![Len(q)] = merged]]
  BY <1>2, <1>7
<1>10. ent \in [Entries -> EntryRecords] /\ q = ent[at[x]].queue
  BY DEF TypeInv, EntriesTyped, q
<1>11. /\ ent' \in [Entries -> EntryRecords]
       /\ \A d \in Entries \ {at[x]} : ent'[d] = ent[d]
       /\ ent'[at[x]].current = ent[at[x]].current
       /\ ent'[at[x]].state = ent[at[x]].state
       /\ ent'[at[x]].lock = ent[at[x]].lock
       /\ ent'[at[x]].queue = [q EXCEPT ![Len(q)] = merged]
  <2>1. PICK a, new : a = at[x] /\ new = [q EXCEPT ![Len(q)] = merged] OBVIOUS
  <2>2. a \in Entries /\ new \in Seq(QueueItems) /\ ent' = [ent EXCEPT ![a].queue = new]
    BY <1>1, <1>8, <1>9, <2>1
  <2>3. /\ ent' \in [Entries -> EntryRecords]
        /\ \A d \in Entries \ {a} : ent'[d] = ent[d]
        /\ ent'[a].current = ent[a].current
        /\ ent'[a].state = ent[a].state
        /\ ent'[a].lock = ent[a].lock
        /\ ent'[a].queue = new
    BY ONLY <1>10, <2>2 DEF EntryRecords
  <2> QED BY <2>1, <2>3
<1>12. merged.id = Last(q).id /\ merged.parts = Last(q).parts \cup {x}
  BY ONLY <1>6
<1>13. MergedInto(at[x], x)
  <2> SUFFICES \E s, last, new :
                 /\ s \in Seq(QueueItems) /\ last \in Items /\ new \in Items
                 /\ s = ent[at[x]].queue /\ Len(s) \in DOMAIN s /\ last = s[Len(s)]
                 /\ new.id = last.id /\ new.parts = last.parts \cup {x}
                 /\ ent'[at[x]].queue = [s EXCEPT ![Len(s)] = new]
                 /\ held' = [held EXCEPT ![x] = {new}]
    BY DEF MergedInto
  <2> WITNESS q, Last(q), merged
  <2>1. q \in Seq(QueueItems) /\ Last(q) \in Items /\ merged \in Items
    BY <1>3, <1>5, <1>6
  <2>2. q = ent[at[x]].queue /\ Len(q) \in DOMAIN q /\ Last(q) = q[Len(q)] BY <1>4, <1>10
  <2>3. ent'[at[x]].queue = [q EXCEPT ![Len(q)] = merged] BY <1>11
  <2>4. held' = [held EXCEPT ![x] = {merged}] BY <1>2
  <2> QED BY <1>12, <2>1, <2>2, <2>3, <2>4, Zenon
<1> QED BY <1>1, <1>11, <1>13

LEMMA LoopNextEffect ==
  ASSUME TypeInv, NEW e \in Entries, LoopNext(e)
  PROVE  /\ ent' \in [Entries -> EntryRecords]
         /\ \A d \in Entries \ {e} : ent'[d] = ent[d]
         /\ ent'[e].state = ent[e].state /\ ent'[e].lock = ent[e].lock
         /\ \/ ent[e].queue = << >> /\ ent' = ent /\ Goes(e, "waiting")
            \/ /\ ent[e].queue # << >> /\ Goes(e, "taken")
               /\ ent'[e].current = ent[e].queue[1] /\ ent'[e].queue = Tail(ent[e].queue)
               /\ ent[e].queue \in Seq(QueueItems)
<1>0. ent[e].queue \in Seq(QueueItems) /\ ent \in [Entries -> EntryRecords]
  BY DEF TypeInv, EntriesTyped, EntryRecords
<1>1. CASE ent[e].queue = << >>
  BY <1>0, <1>1 DEF LoopNext
<1>2. CASE ent[e].queue # << >>
  <2>1. Tail(ent[e].queue) \in Seq(QueueItems) /\ Head(ent[e].queue) \in QueueItems
        /\ Head(ent[e].queue) = ent[e].queue[1]
    BY <1>0, <1>2
  <2>2. /\ ent' = [ent EXCEPT ![e].current = Head(ent[e].queue), ![e].queue = Tail(ent[e].queue)]
        /\ Goes(e, "taken")
    BY <1>2 DEF LoopNext
  <2> QED BY <1>0, <1>2, <2>1, <2>2 DEF EntryRecords
<1> QED BY <1>1, <1>2

LEMMA AnswerEffect ==
  ASSUME TypeInv, NEW e \in Entries, Answer(e)
  PROVE  /\ ent' \in [Entries -> EntryRecords]
         /\ \A d \in Entries \ {e} : ent'[d] = ent[d]
         /\ ent'[e].state = ent[e].state /\ ent'[e].lock = ent[e].lock
         /\ ent'[e].queue = ent[e].queue /\ ent'[e].current = NoItem
BY DEF Answer, TypeInv, EntriesTyped, EntryRecords

LEMMA DrainEffect ==
  ASSUME TypeInv, NEW x \in Tasks, Drain(x)
  PROVE  /\ ent' \in [Entries -> EntryRecords] /\ at[x] \in Entries
         /\ \A d \in Entries \ {at[x]} : ent'[d] = ent[d]
         /\ ent'[at[x]].queue = << >> /\ ent'[at[x]].current = ent[at[x]].current
         /\ ent'[at[x]].state = ent[at[x]].state
         /\ ent'[at[x]].lock = LockRelease(ent[at[x]].lock)
<1>1. x \in Actors /\ at[x] \in Entries
  BY Kinds, Captured DEF TypeInv, Drain, Locking
<1> DEFINE drained == [ent EXCEPT ![at[x]].queue = << >>]
<1>2. << >> \in Seq(QueueItems) OBVIOUS
<1>3. /\ drained \in [Entries -> EntryRecords] /\ \A d \in Entries \ {at[x]} : drained[d] = ent[d]
      /\ drained[at[x]].queue = << >> /\ drained[at[x]].current = ent[at[x]].current
      /\ drained[at[x]].state = ent[at[x]].state /\ drained[at[x]].lock = ent[at[x]].lock
  BY <1>1, <1>2 DEF TypeInv, EntriesTyped, EntryRecords
<1>4. ent' = Unlocked(drained, x)
  BY DEF Drain
<1> HIDE DEF drained
<1>5. /\ Unlocked(drained, x) \in [Entries -> EntryRecords]
      /\ \A d \in Entries \ {at[x]} : Unlocked(drained, x)[d] = drained[d]
      /\ SameBut(Unlocked(drained, x)[at[x]], drained[at[x]])
      /\ Unlocked(drained, x)[at[x]].lock = LockRelease(drained[at[x]].lock)
  BY <1>1, <1>3, Unlocking
<1> QED BY <1>1, <1>3, <1>4, <1>5 DEF SameBut

LEMMA RestartEffect ==
  ASSUME TypeInv, Restart
  PROVE  /\ ent' \in [Entries -> EntryRecords]
         /\ \A e \in Entries :
              /\ ent'[e].state = "active" /\ ent'[e].lock = FreeLock /\ ent'[e].current = NoItem
              /\ e # map' => ent'[e].queue = << >>
              /\ e = map' => ent'[e].queue = <<RestoreItem>> \o ByStamp(rows')
         /\ rows' = rows \ (IF life = "active" THEN StaleInFlight(rows) ELSE {})
         /\ rows' \in SUBSET Items /\ RowsFit(rows')
         /\ ByStamp(rows') \in Seq(Items) /\ ByStamp(rows') \in Seq(rows')
         /\ \A i \in rows' : \E k \in DOMAIN ByStamp(rows') : ByStamp(rows')[k] = i
         /\ \A k, l \in DOMAIN ByStamp(rows') :
              k < l => stamp[ByStamp(rows')[k].id] < stamp[ByStamp(rows')[l].id]
<1>1. /\ rows' = rows \ (IF life = "active" THEN StaleInFlight(rows) ELSE {})
      /\ ent' = [e \in Entries |->
                   IF e = map' THEN [NoEntry EXCEPT !.queue = <<RestoreItem>> \o ByStamp(rows')]
                   ELSE NoEntry]
  BY DEF Restart
<1>2. rows' \in SUBSET rows /\ rows \in SUBSET Items /\ RowsFit(rows)
  BY <1>1 DEF TypeInv, RowsTyped, ItemsFit
<1>3. PICK left : left = rows' OBVIOUS
<1>4. left \in SUBSET Items /\ RowsFit(left)
  BY <1>2, <1>3, RowsLess
<1>5. /\ ByStamp(left) \in Seq(left)
      /\ \A i \in left : \E k \in DOMAIN ByStamp(left) : ByStamp(left)[k] = i
      /\ \A k, l \in DOMAIN ByStamp(left) :
              k < l => stamp[ByStamp(left)[k].id] < stamp[ByStamp(left)[l].id]
  BY <1>4, RowsSorted DEF TypeInv, StampsTyped
<1>6. ByStamp(left) \in Seq(Items)
  BY <1>4, <1>5
<1>7. PICK q : q = <<RestoreItem>> \o ByStamp(left) OBVIOUS
<1>8. q \in Seq(QueueItems)
  BY <1>6, <1>7 DEF QueueItems
<1>9. PICK new : new = [NoEntry EXCEPT !.queue = q] OBVIOUS
<1>10. /\ new \in EntryRecords /\ new.state = "active" /\ new.lock = FreeLock
       /\ new.current = NoItem /\ new.queue = q
  BY <1>8, <1>9, NoEntryTyped DEF EntryRecords
<1>11. ent' = [e \in Entries |-> IF e = map' THEN new ELSE NoEntry]
  BY <1>1, <1>3, <1>7, <1>9
<1>12. ent' \in [Entries -> EntryRecords]
  BY <1>10, <1>11, NoEntryTyped
<1>13. \A e \in Entries :
         /\ ent'[e].state = "active" /\ ent'[e].lock = FreeLock /\ ent'[e].current = NoItem
         /\ e # map' => ent'[e].queue = << >>
         /\ e = map' => ent'[e].queue = <<RestoreItem>> \o ByStamp(rows')
  <2>1. q = <<RestoreItem>> \o ByStamp(rows') BY <1>3, <1>7
  <2>2. TAKE e \in Entries
  <2>3. ent'[e] = IF e = map' THEN new ELSE NoEntry BY <1>11
  <2>4. CASE e = map' BY <1>10, <2>1, <2>3, <2>4
  <2>5. CASE e # map' BY <2>3, <2>5, NoEntryTyped
  <2> QED BY <2>4, <2>5
<1>14. /\ rows' \in SUBSET Items /\ RowsFit(rows')
       /\ ByStamp(rows') \in Seq(Items) /\ ByStamp(rows') \in Seq(rows')
       /\ \A i \in rows' : \E k \in DOMAIN ByStamp(rows') : ByStamp(rows')[k] = i
       /\ \A k, l \in DOMAIN ByStamp(rows') :
            k < l => stamp[ByStamp(rows')[k].id] < stamp[ByStamp(rows')[l].id]
  BY <1>3, <1>4, <1>5, <1>6
<1> QED BY <1>1, <1>12, <1>13, <1>14

(* Every other step leaves the queues as they are.                         *)
KeepsQueues == \A e \in Entries : SameQueues(ent'[e], ent[e])
ChangesQueues ==
  \/ \E x \in Tasks : \/ RestoreRegister(x) /\ created' # created
                      \/ ReplayQueue(x) \/ Enqueue(x) \/ EnqueueMerged(x) \/ Drain(x)
  \/ \E e \in Entries : LoopNext(e) \/ Answer(e)
  \/ Restart

LEMMA EntrySteps ==
  ASSUME TypeInv, Next
  PROVE  EntriesTyped' /\ (KeepsQueues \/ ChangesQueues)
<1>0. /\ EntriesTyped /\ ent \in [Entries -> EntryRecords]
      /\ \A e \in Entries, state \in Lifecycles : ent[e].state \in Lifecycles
  BY DEF TypeInv, EntriesTyped, EntryRecords
<1>u. UNCHANGED ent => EntriesTyped' /\ KeepsQueues
  BY <1>0 DEF EntriesTyped, KeepsQueues, SameQueues
<1>m. /\ map # 0 => map \in Entries
      /\ \A x \in Actors : pc[x] \in Locking \cup {"resolved"} => at[x] \in Entries
      /\ \A x \in Actors : at[x] # 0 => at[x] \in Entries
  BY Captured DEF TypeInv
<1>r. ASSUME NEW e \in Entries, NEW x \in Actors, ent' = Requested(e, x)
      PROVE  EntriesTyped' /\ KeepsQueues
  BY <1>0, <1>r, Requesting DEF EntriesTyped, KeepsQueues, SameQueues, SameBut
<1>t. ASSUME NEW e \in Entries, NEW x \in Actors, ent' = Terminated(e, x)
      PROVE  EntriesTyped' /\ KeepsQueues
  BY <1>0, <1>t, Terminating DEF EntriesTyped, KeepsQueues, SameQueues
<1>l. ASSUME NEW x \in Actors, at[x] \in Entries, ent' = Unlocked(ent, x)
      PROVE  EntriesTyped' /\ KeepsQueues
  BY <1>0, <1>l, Unlocking DEF EntriesTyped, KeepsQueues, SameQueues, SameBut
<1>s. ASSUME NEW e \in Entries, NEW state \in Lifecycles, ent' = [ent EXCEPT ![e].state = state]
      PROVE  EntriesTyped' /\ KeepsQueues
  BY <1>0, <1>s, StateSet DEF EntriesTyped, KeepsQueues, SameQueues
<1>1. ASSUME NEW x \in Tasks, Resolving(x) \/ Steer(x) \/ KillLoaded(x) \/ KillUnloaded(x)
      PROVE  EntriesTyped' /\ (KeepsQueues \/ ChangesQueues)
  <2>0. x \in Actors BY Kinds
  <2>1. CASE Resolving(x) \/ KillUnloaded(x)
    BY <1>u, <2>1 DEF Resolving, ResolveLoaded, RestoreRead, KillUnloaded
  <2>2. CASE Steer(x)
    BY <1>u, <1>m, <1>r, <2>0, <2>2 DEF Steer
  <2>3. CASE KillLoaded(x)
    BY <1>m, <1>t, <2>0, <2>3 DEF KillLoaded
  <2> QED BY <1>1, <2>1, <2>2, <2>3
<1>2. CASE PillDue \/ PillFires \/ PillHandled
  <2>0. Pill \in Actors BY Kinds
  <2>1. CASE PillDue
    BY <1>u, <2>1 DEF PillDue
  <2>2. CASE PillFires
    <3>1. CASE UNCHANGED ent BY <1>u, <3>1
    <3>2. CASE map # 0 /\ ent' = Terminated(map, Pill) BY <1>m, <1>t, <2>0, <3>2
    <3>3. CASE map # 0 /\ ent' = [ent EXCEPT ![map].terminating = TRUE]
      BY <1>0, <1>m, <3>3 DEF EntriesTyped, EntryRecords, KeepsQueues, SameQueues
    <3> QED BY <2>2, <3>1, <3>2, <3>3 DEF PillFires
  <2>3. CASE PillHandled
    <3>1. at[Pill] # 0 BY <2>3 DEF PillHandled, TypeInv, PlacesTyped, Placed
    <3> QED BY <1>m, <1>t, <2>0, <2>3, <3>1 DEF PillHandled
  <2> QED BY <1>2, <2>1, <2>2, <2>3
<1>3. ASSUME NEW x \in Tasks, TaskStep(x)
      PROVE  EntriesTyped' /\ (KeepsQueues \/ ChangesQueues)
  <2>0. x \in Actors BY Kinds
  <2>1. CASE RestoreRegister(x)
    <3>1. CASE created' = created
      <4>1. created \in Nat BY DEF TypeInv, PlacesTyped
      <4>2. UNCHANGED ent BY <2>1, <3>1, <4>1 DEF RestoreRegister
      <4> QED BY <1>u, <4>2
    <3>2. CASE created' # created
      BY <2>1, <3>2, RegisterEffect DEF EntriesTyped, ChangesQueues
    <3> QED BY <3>1, <3>2
  <2>2. CASE ReplayRead(x) \/ InsertRow(x) \/ MergeDelete(x) \/ StartTask(x) \/ EndTask(x)
             \/ KillWrite(x) \/ KillClear(x)
    BY <1>u, <2>2 DEF ReplayRead, InsertRow, MergeDelete, StartTask, EndTask, KillWrite, KillClear
  <2>3. CASE ReplayQueue(x)
    BY <2>3, ReplayEffect DEF EntriesTyped, ChangesQueues
  <2>4. CASE EnterLock(x)
    BY <1>m, <1>r, <2>0, <2>4 DEF EnterLock
  <2>5. CASE WakeAndInsert(x)
    <3>1. at[x] \in Entries BY <1>m, <2>0, <2>5 DEF WakeAndInsert, Locking
    <3>2. CASE UNCHANGED ent BY <1>u, <3>2
    <3>3. CASE ent' = [ent EXCEPT ![at[x]].state = "active"]
      BY <1>s, <3>1, <3>3 DEF Lifecycles
    <3> QED BY <2>5, <3>2, <3>3 DEF WakeAndInsert, WokenIfSleeping
  <2>6. CASE WakeOnly(x)
    <3>1. at[x] \in Entries BY <1>m, <2>0, <2>6 DEF WakeOnly, Locking
    <3>2. PICK awake : /\ ent' = Unlocked(awake, x)
                       /\ awake = [ent EXCEPT ![at[x]].state =
                            IF ent[at[x]].state = "sleeping" THEN "active" ELSE @]
      BY <2>6 DEF WakeOnly
    <3>3. (IF ent[at[x]].state = "sleeping" THEN "active" ELSE ent[at[x]].state) \in Lifecycles
      BY <1>0, <3>1 DEF Lifecycles
    <3>4. /\ awake \in [Entries -> EntryRecords] /\ \A d \in Entries \ {at[x]} : awake[d] = ent[d]
          /\ SameQueues(awake[at[x]], ent[at[x]])
      BY <1>0, <3>1, <3>2, <3>3, StateSet
    <3>5. /\ ent' \in [Entries -> EntryRecords]
          /\ \A d \in Entries \ {at[x]} : ent'[d] = awake[d]
          /\ SameBut(ent'[at[x]], awake[at[x]])
      BY <2>0, <3>1, <3>2, <3>4, Unlocking
    <3> QED BY <3>4, <3>5 DEF EntriesTyped, KeepsQueues, SameQueues, SameBut
  <2>7. CASE Enqueue(x)
    BY <2>7, EnqueueEffect DEF EntriesTyped, ChangesQueues
  <2>8. CASE EnqueueMerged(x)
    BY <2>8, EnqueueMergedEffect DEF EntriesTyped, ChangesQueues
  <2>9. CASE MergeUpsert(x)
    BY <1>l, <1>m, <2>0, <2>9 DEF MergeUpsert, Locking
  <2>10. CASE MarkDead(x)
    <3>1. at[x] \in Entries BY <1>m, <2>0, <2>10 DEF MarkDead, Locking
    <3>2. CASE ent' = Unlocked(ent, x) BY <1>l, <2>0, <3>1, <3>2
    <3>3. CASE ent' = [ent EXCEPT ![at[x]].state = "dead"]
      BY <1>s, <3>1, <3>3 DEF Lifecycles
    <3> QED BY <2>10, <3>2, <3>3 DEF MarkDead
  <2>11. CASE Drain(x)
    BY <2>11, DrainEffect DEF EntriesTyped, ChangesQueues
  <2> QED BY <1>3, <2>1, <2>2, <2>3, <2>4, <2>5, <2>6, <2>7, <2>8, <2>9, <2>10, <2>11 DEF TaskStep
<1>4. ASSUME NEW e \in Entries, LoopStep(e)
      PROVE  EntriesTyped' /\ (KeepsQueues \/ ChangesQueues)
  <2>1. CASE LoopNext(e)
    BY <2>1, LoopNextEffect DEF EntriesTyped, ChangesQueues
  <2>2. CASE Answer(e)
    BY <2>2, AnswerEffect DEF EntriesTyped, ChangesQueues
  <2>3. CASE UNCHANGED ent BY <1>u, <2>3
  <2> QED BY <1>4, <2>1, <2>2, <2>3 DEF LoopStep, HandleRestore, Record, OpenTurn, CloseTurn,
             FinishTurn, FailTurn
<1>5. ASSUME NEW x \in Actors, SleepStep(x)
      PROVE  EntriesTyped' /\ KeepsQueues
  <2>1. CASE SleepRequest(x)
    BY <1>u, <1>m, <1>r, <2>1 DEF SleepRequest
  <2>2. CASE FallAsleep(x)
    <3>1. at[x] \in Entries BY <1>m, <2>2 DEF FallAsleep, Locking
    <3>2. CASE ent' = Unlocked(ent, x) BY <1>l, <3>1, <3>2
    <3>3. CASE ent' = [ent EXCEPT ![at[x]].state = "sleeping"]
      BY <1>s, <3>1, <3>3 DEF Lifecycles
    <3> QED BY <2>2, <3>2, <3>3 DEF FallAsleep
  <2>3. CASE SchedulePoisonPill(x)
    BY <1>l, <1>m, <2>3 DEF SchedulePoisonPill, Locking
  <2> QED BY <1>5, <2>1, <2>2, <2>3 DEF SleepStep
<1>6. CASE Restart
  BY <1>6, RestartEffect DEF EntriesTyped, ChangesQueues
<1> QED BY <1>1, <1>2, <1>3, <1>4, <1>5, <1>6 DEF Next

-----------------------------------------------------------------------------
(* Stamps.  Only InsertRow() gives one, and no task posts twice.           *)

StampsStay ==
  /\ UNCHANGED stamp
  /\ \A s \in Sources : /\ pc'[s] \in Unposted => pc[s] \in Unposted
                        /\ pc'[s] \in Inserted => pc[s] \in Inserted

LEMMA StampSteps ==
  ASSUME TypeInv, Next
  PROVE  StampsStay \/ \E x \in Tasks : InsertRow(x)
<1>0. pc \in [Actors -> Steps] /\ Sources \subseteq Actors
  BY Kinds DEF TypeInv, PlacesTyped
<1>g. ASSUME NEW x \in Actors, NEW step, Goes(x, step), UNCHANGED stamp,
             step \in Unposted => pc[x] \in Unposted, step \in Inserted => pc[x] \in Inserted
      PROVE  StampsStay
  BY <1>0, <1>g DEF Goes, StampsStay
<1>s. ASSUME NEW x \in Tasks, NEW step, UNCHANGED stamp, at[x] \in Entries,
             pc' = Started(at[x], [pc EXCEPT ![x] = step]), step \in Unposted => pc[x] \in Unposted,
             step \in Inserted => pc[x] \in Inserted
      PROVE  StampsStay
  BY <1>0, <1>s, Kinds DEF Started, StampsStay, Unposted, Inserted
<1>m. \A x \in Actors : pc[x] \in Locking \cup {"resolved"} => at[x] \in Entries
  BY Captured DEF TypeInv
<1>1. ASSUME NEW x \in Tasks, Resolving(x) \/ Steer(x) \/ KillLoaded(x) \/ KillUnloaded(x)
      PROVE  StampsStay
  <2>1. pc[x] = "idle" /\ UNCHANGED stamp
        /\ \E step \in {"rejected", "resolved", "restoring", "waking", "killing", "killWrite"} : Goes(x, step)
    BY <1>1 DEF Resolving, ResolveLoaded, RestoreRead, Steer, KillLoaded, KillUnloaded, durableVars
  <2> QED BY <1>g, <2>1, Kinds DEF Unposted, Inserted
<1>2. CASE PillDue \/ PillFires \/ PillHandled
  <2>1. /\ UNCHANGED stamp
        /\ \/ /\ pc[Pill] \in {"idle", "due"}
              /\ \E step \in {"due", "idle", "resolved", "killing", "done", "killWrite"} : Goes(Pill, step)
           \/ Goes(Pill, "killing")
    BY <1>2 DEF PillDue, PillFires, PillHandled, durableVars
  <2> QED BY <1>g, <2>1, Kinds DEF Unposted, Inserted
<1>3. ASSUME NEW x \in Tasks, TaskStep(x)
      PROVE  StampsStay \/ InsertRow(x)
  <2>0. x \in Actors BY Kinds
  <2> USE <1>g, <1>s, <1>m, <2>0 DEF Unposted, Inserted, Locking, durableVars
  <2>1. CASE RestoreRegister(x) BY <2>1 DEF RestoreRegister
  <2>2. CASE ReplayRead(x) BY <2>2 DEF ReplayRead
  <2>3. CASE ReplayQueue(x) BY <2>3 DEF ReplayQueue
  <2>4. CASE EnterLock(x) BY <2>4 DEF EnterLock
  <2>5. CASE WakeAndInsert(x) BY <2>5 DEF WakeAndInsert
  <2>6. CASE WakeOnly(x)
    <3>1. CASE x \in Steerers BY <2>6, <3>1 DEF WakeOnly
    <3>2. CASE x \notin Steerers BY <2>6, <3>2 DEF WakeOnly, Goes
    <3> QED BY <3>1, <3>2
  <2>7. CASE Enqueue(x)
    <3>1. UNCHANGED stamp /\ at[x] \in Entries BY <2>7 DEF Enqueue
    <3>2. \A s \in Sources \ {x} : pc'[s] = pc[s]
      BY <1>0, <2>7, <3>1, Kinds DEF Enqueue, Started
    <3>3. pc'[x] = "posted" \/ x \notin Sources
      BY <1>0, <2>7, <3>1, Kinds DEF Enqueue, Started
    <3> QED BY <2>7, <3>1, <3>2, <3>3 DEF StampsStay, Enqueue
  <2>8. CASE EnqueueMerged(x) BY <2>8 DEF EnqueueMerged
  <2>9. CASE MergeDelete(x) BY <2>9 DEF MergeDelete
  <2>10. CASE MergeUpsert(x) BY <2>10 DEF MergeUpsert
  <2>11. CASE StartTask(x) BY <2>11 DEF StartTask
  <2>12. CASE EndTask(x) BY <2>12 DEF EndTask
  <2>13. CASE MarkDead(x) BY <2>13 DEF MarkDead
  <2>14. CASE Drain(x) BY <2>14 DEF Drain
  <2>15. CASE KillWrite(x) BY <2>15 DEF KillWrite
  <2>16. CASE KillClear(x) BY <2>16 DEF KillClear
  <2> QED BY <1>3, <2>1, <2>2, <2>3, <2>4, <2>5, <2>6, <2>7, <2>8, <2>9, <2>10, <2>11, <2>12,
         <2>13, <2>14, <2>15, <2>16 DEF TaskStep
<1>4. ASSUME NEW e \in Entries, LoopStep(e)
      PROVE  StampsStay
  <2>1. UNCHANGED stamp /\ \E step \in LoopSteps : Goes(e, step)
    BY <1>4 DEF LoopStep, LoopNext, HandleRestore, Record, OpenTurn, CloseTurn, FinishTurn,
                FailTurn, Answer, durableVars, LoopSteps
  <2>2. \A s \in Sources : pc'[s] = pc[s]
    BY <1>0, <2>1, Kinds DEF Goes
  <2> QED BY <2>1, <2>2 DEF StampsStay
<1>5. ASSUME NEW x \in Actors, SleepStep(x)
      PROVE  StampsStay
  <2>1. UNCHANGED stamp /\ \E step \in {"answering", "done", "idling", "scheduling"} : Goes(x, step)
    BY <1>5 DEF SleepStep, SleepRequest, FallAsleep, SchedulePoisonPill, AfterSleep, durableVars
  <2> QED BY <1>g, <2>1 DEF Unposted, Inserted
<1>6. CASE Restart
  <2>1. \A s \in Sources : /\ pc'[s] \in Unposted => pc[s] \in Unposted
                           /\ pc'[s] \in Inserted => pc[s] \in Inserted
    BY <1>0, <1>6, Kinds DEF Restart, Unposted, Inserted, Ended
  <2> QED BY <1>6, <2>1 DEF Restart, StampsStay
<1> QED BY <1>1, <1>2, <1>3, <1>4, <1>5, <1>6 DEF Next

LEMMA StampsKept ==
  ASSUME TypeInv, Next
  PROVE  StampsTyped' /\ \A s \in Stamped : s \in Stamped' /\ stamp'[s] = stamp[s]
<1>1. CASE StampsStay
  BY <1>1 DEF StampsStay, TypeInv, StampsTyped, StampsFit, Stamped
<1>2. ASSUME NEW x \in Tasks, InsertRow(x)
      PROVE  StampsTyped' /\ \A s \in Stamped : s \in Stamped' /\ stamp'[s] = stamp[s]
  <2>1. x \in Sources /\ x \in Actors /\ stamp[x] = 0
    BY <1>2, Kinds DEF InsertRow, TypeInv, PlacesTyped, Placed, Posting, StampsTyped, StampsFit, Unposted
  <2>2. stamp \in [Sources -> 0..Cardinality(Sources)] /\ Cardinality(Sources) \in Nat
    BY Kinds, FS_CardinalityType DEF TypeInv, StampsTyped
  <2>3. {s \in Sources : stamp[s] > 0} = Stamped
    BY <2>2 DEF Stamped
  <2>4. stamp' = [stamp EXCEPT ![x] = 1 + Cardinality(Stamped)]
    BY <1>2, <2>3 DEF InsertRow
  <2>5. /\ Stamped \in SUBSET Sources /\ x \notin Stamped /\ IsFiniteSet(Stamped)
        /\ Stamped \cup {x} \in SUBSET Sources
    BY <2>1, Kinds, FS_Subset DEF Stamped
  <2>6. /\ Cardinality(Stamped) \in Nat /\ Cardinality(Stamped \cup {x}) = Cardinality(Stamped) + 1
        /\ Cardinality(Stamped \cup {x}) <= Cardinality(Sources)
    BY <2>5, Kinds, FS_CardinalityType, FS_AddElement, FS_Subset
  <2>7. stamp' \in [Sources -> 0..Cardinality(Sources)] /\ stamp'[x] = Cardinality(Stamped) + 1
        /\ \A s \in Sources \ {x} : stamp'[s] = stamp[s]
    BY <2>1, <2>2, <2>4, <2>6
  <2>8. Stamped' = Stamped \cup {x}
    BY <2>1, <2>6, <2>7 DEF Stamped
  <2>9. StampsFit'
    <3>1. \A s \in Sources : stamp[s] <= Cardinality(Stamped) /\ stamp[s] \in Nat
      BY <2>2 DEF TypeInv, StampsTyped, StampsFit
    <3>2. \A s \in Sources : stamp'[s] <= Cardinality(Stamped')
      BY <2>6, <2>7, <2>8, <3>1
    <3>3. \A s, t \in Stamped' : stamp'[s] = stamp'[t] => s = t
      BY <2>1, <2>5, <2>6, <2>7, <2>8, <3>1 DEF TypeInv, StampsTyped, StampsFit
    <3>4. \A s \in Sources : /\ pc'[s] \in Unposted => stamp'[s] = 0
                             /\ pc'[s] \in Inserted => stamp'[s] # 0
      <4>1. \A s \in Sources \ {x} : pc'[s] = pc[s]
        BY <1>2, Kinds DEF InsertRow, Goes, TypeInv, PlacesTyped
      <4>2. pc'[x] = "enqueueing"
        BY <1>2, <2>1 DEF InsertRow, Goes, TypeInv, PlacesTyped
      <4> QED BY <2>6, <2>7, <4>1, <4>2 DEF Unposted, TypeInv, StampsTyped, StampsFit
    <3> QED BY <3>2, <3>3, <3>4 DEF StampsFit
  <2> QED BY <2>5, <2>7, <2>8, <2>9 DEF StampsTyped
<1> QED BY <1>1, <1>2, StampSteps

-----------------------------------------------------------------------------
(* The rest of the types.                                                  *)

LEMMA FlagsKept ==
  ASSUME TypeInv, Next
  PROVE  FlagsTyped'
<1>0. FlagsTyped /\ EntriesTyped /\ AgentSystemAssumption
  BY AgentSystemAssumption DEF TypeInv
<1>u. UNCHANGED <<life, phase, pillTimer, times, outcome, mistaken, restarts>> => FlagsTyped'
  BY <1>0 DEF FlagsTyped
<1>d. ObservesDrop => mistaken' \subseteq Sources
  <2>1. rows \subseteq Items BY DEF TypeInv, RowsTyped
  <2>2. \A q \in rows : q.parts \subseteq Sources BY <2>1 DEF Items
  <2> QED BY <1>0, <2>2 DEF FlagsTyped, ObservesDrop
<1>p. \A e \in Entries : PhaseLeft(e) \subseteq {"turn", "task", "left"}
  BY <1>0 DEF FlagsTyped, PhaseLeft
<1>a. \A x \in Actors : pc[x] \in Locking \cup {"resolved"} => at[x] \in Entries
  BY Captured DEF TypeInv
<1>s. \A e \in Entries : ent[e].state \in Lifecycles
  BY <1>0 DEF EntriesTyped, EntryRecords
<1>o. ASSUME NEW parts
      PROVE  /\ Rejected(parts) \in [Sources -> {"pending", "resolved", "rejected"}]
             /\ Resolved(parts) \in [Sources -> {"pending", "resolved", "rejected"}]
  BY <1>0 DEF FlagsTyped, Rejected, Resolved
<1>1. ASSUME NEW x \in Tasks, Resolving(x) \/ Steer(x) \/ KillLoaded(x) \/ KillUnloaded(x)
      PROVE  FlagsTyped'
  BY <1>1, <1>u DEF Resolving, ResolveLoaded, RestoreRead, Steer, KillLoaded, KillUnloaded,
                    durableVars, ghostVars
<1>2. CASE PillDue \/ PillFires \/ PillHandled
  <2>1. CASE PillFires
    <3>1. pillTimer' \in BOOLEAN BY <1>0, <2>1 DEF FlagsTyped, PillFires
    <3> QED BY <1>0, <2>1, <3>1 DEF FlagsTyped, PillFires, ghostVars
  <2> QED BY <1>2, <1>u, <2>1 DEF PillDue, PillHandled, durableVars, ghostVars
<1>3. ASSUME NEW x \in Tasks, TaskStep(x)
      PROVE  FlagsTyped'
  <2>0. x \in Actors BY Kinds
  <2> USE DEF durableVars, ghostVars
  <2>1. CASE RestoreRegister(x) BY <1>u, <2>1 DEF RestoreRegister
  <2>2. CASE ReplayRead(x) BY <1>u, <2>2 DEF ReplayRead
  <2>3. CASE ReplayQueue(x) BY <1>0, <1>d, <2>3 DEF ReplayQueue, FlagsTyped
  <2>4. CASE EnterLock(x) BY <1>u, <2>4 DEF EnterLock
  <2>5. CASE WakeAndInsert(x)
    BY <1>0, <2>5 DEF WakeAndInsert, WokenIfSleeping, FlagsTyped, Lifecycles
  <2>6. CASE WakeOnly(x)
    <3>1. life' \in Lifecycles BY <1>0, <2>6 DEF WakeOnly, FlagsTyped, Lifecycles
    <3>2. pillTimer' \in BOOLEAN
      <4>1. \E b : pillTimer' = (pillTimer /\ b) BY <2>6, Zenon DEF WakeOnly
      <4> QED BY <1>0, <4>1 DEF FlagsTyped
    <3> QED BY <1>0, <2>6, <3>1, <3>2 DEF WakeOnly, FlagsTyped
  <2>7. CASE InsertRow(x) BY <1>u, <2>7 DEF InsertRow
  <2>8. CASE Enqueue(x) BY <1>u, <2>8 DEF Enqueue
  <2>9. CASE EnqueueMerged(x) BY <1>u, <2>9 DEF EnqueueMerged
  <2>10. CASE MergeDelete(x) BY <1>u, <2>10 DEF MergeDelete
  <2>11. CASE MergeUpsert(x) BY <1>u, <2>11 DEF MergeUpsert
  <2>12. CASE StartTask(x) BY <1>0, <2>12 DEF StartTask, FlagsTyped
  <2>13. CASE EndTask(x) BY <1>0, <2>13 DEF EndTask, FlagsTyped
  <2>14. CASE MarkDead(x) BY <1>0, <2>14 DEF MarkDead, FlagsTyped, Lifecycles
  <2>15. CASE Drain(x) BY <1>0, <1>o, <2>15 DEF Drain, FlagsTyped
  <2>16. CASE KillWrite(x) BY <1>0, <2>16 DEF KillWrite, FlagsTyped, Lifecycles
  <2>17. CASE KillClear(x) BY <1>u, <2>17 DEF KillClear
  <2> QED BY <1>3, <2>1, <2>2, <2>3, <2>4, <2>5, <2>6, <2>7, <2>8, <2>9, <2>10, <2>11, <2>12,
         <2>13, <2>14, <2>15, <2>16, <2>17 DEF TaskStep
<1>4. ASSUME NEW e \in Entries, LoopStep(e)
      PROVE  FlagsTyped'
  <2> USE DEF durableVars, ghostVars
  <2>1. CASE LoopNext(e) BY <1>u, <2>1 DEF LoopNext
  <2>2. CASE HandleRestore(e)
    BY <1>0, <1>s, <2>2 DEF HandleRestore, FlagsTyped, AfterRestore
  <2>3. CASE Record(e)
    BY <1>0, <2>3 DEF Record, FlagsTyped
  <2>4. CASE OpenTurn(e) BY <1>0, <2>4 DEF OpenTurn, FlagsTyped
  <2>5. CASE CloseTurn(e) BY <1>0, <2>5 DEF CloseTurn, FlagsTyped
  <2>6. CASE FinishTurn(e) BY <1>0, <1>p, <1>s, <2>6 DEF FinishTurn, FlagsTyped
  <2>7. CASE FailTurn(e) BY <1>0, <1>o, <1>p, <2>7 DEF FailTurn, FlagsTyped
  <2>8. CASE Answer(e) BY <1>0, <1>o, <2>8 DEF Answer, FlagsTyped
  <2> QED BY <1>4, <2>1, <2>2, <2>3, <2>4, <2>5, <2>6, <2>7, <2>8 DEF LoopStep
<1>5. ASSUME NEW x \in Actors, SleepStep(x)
      PROVE  FlagsTyped'
  <2> USE DEF durableVars, ghostVars
  <2>1. CASE SleepRequest(x) BY <1>u, <2>1 DEF SleepRequest
  <2>2. CASE FallAsleep(x) BY <1>0, <2>2 DEF FallAsleep, FlagsTyped, Lifecycles
  <2>3. CASE SchedulePoisonPill(x)
    <3>1. pillTimer' = (pillTimer \/ PoisonPillKind) BY <2>3 DEF SchedulePoisonPill
    <3>2. pillTimer' \in BOOLEAN BY <1>0, <3>1, Zenon DEF FlagsTyped, AgentSystemAssumption
    <3> QED BY <1>0, <2>3, <3>2 DEF SchedulePoisonPill, FlagsTyped
  <2> QED BY <1>5, <2>1, <2>2, <2>3 DEF SleepStep
<1>6. CASE Restart
  <2>1. pillTimer' = (IF life = "active" THEN pillTimer ELSE life = "sleeping" /\ PoisonPillKind)
    BY <1>6, Zenon DEF Restart
  <2>2. pillTimer' \in BOOLEAN BY <1>0, <2>1 DEF FlagsTyped, AgentSystemAssumption
  <2>3. restarts' \in 0..MaxRestarts BY <1>0, <1>6 DEF Restart, FlagsTyped, AgentSystemAssumption
  <2> QED BY <1>0, <1>6, <1>d, <2>2, <2>3 DEF Restart, FlagsTyped
<1> QED BY <1>1, <1>2, <1>3, <1>4, <1>5, <1>6 DEF Next

LEMMA SeenKept ==
  ASSUME TypeInv, Next
  PROVE  SeenTyped'
<1>0. /\ SeenTyped /\ life \in Lifecycles
      /\ pc \in [Actors -> Steps] /\ Tasks \subseteq Actors
      /\ \A x \in Actors : pc[x] \in Locking \cup {"resolved"} => at[x] \in Entries
  BY Captured, Kinds DEF TypeInv, FlagsTyped, PlacesTyped
<1>g. ASSUME NEW x \in Actors, NEW step, Goes(x, step), UNCHANGED seen, step # "restoring"
      PROVE  SeenTyped'
  BY <1>0, <1>g DEF Goes, SeenTyped
<1>s. ASSUME NEW x \in Tasks, NEW step, step # "restoring", UNCHANGED seen, at[x] \in Entries,
             pc' = Started(at[x], [pc EXCEPT ![x] = step])
      PROVE  SeenTyped'
  BY <1>0, <1>s, Kinds DEF Started, SeenTyped
<1>w. ASSUME NEW x \in Actors, NEW step, NEW state \in Lifecycles \cup {Nothing, "woke"},
             Goes(x, step), seen' = [seen EXCEPT ![x] = state],
             step = "restoring" => state \in Lifecycles
      PROVE  SeenTyped'
  BY <1>0, <1>w DEF Goes, SeenTyped
<1> USE DEF durableVars, noted
<1>1. ASSUME NEW x \in Tasks, Resolving(x) \/ Steer(x) \/ KillLoaded(x) \/ KillUnloaded(x)
      PROVE  SeenTyped'
  <2>0. x \in Actors BY Kinds
  <2>1. CASE ResolveLoaded(x) BY <1>g, <2>0, <2>1 DEF ResolveLoaded
  <2>2. CASE RestoreRead(x) BY <1>0, <1>w, <2>0, <2>2 DEF RestoreRead
  <2>3. CASE Steer(x) BY <1>g, <2>0, <2>3 DEF Steer
  <2>4. CASE KillLoaded(x) BY <1>g, <2>0, <2>4 DEF KillLoaded
  <2>5. CASE KillUnloaded(x) BY <1>0, <1>w, <2>0, <2>5 DEF KillUnloaded
  <2> QED BY <1>1, <2>1, <2>2, <2>3, <2>4, <2>5 DEF Resolving
<1>2. CASE PillDue \/ PillFires \/ PillHandled
  <2>0. Pill \in Actors BY Kinds
  <2>1. CASE PillDue BY <1>g, <2>0, <2>1 DEF PillDue
  <2>2. CASE PillFires
    <3>1. \/ UNCHANGED seen /\ \E step \in {"idle", "resolved", "killing"} : Goes(Pill, step)
          \/ seen' = [seen EXCEPT ![Pill] = life] /\ \E step \in {"done", "killWrite"} : Goes(Pill, step)
      BY <2>2 DEF PillFires
    <3> QED BY <1>0, <1>g, <1>w, <2>0, <3>1
  <2>3. CASE PillHandled BY <1>g, <2>0, <2>3 DEF PillHandled
  <2> QED BY <1>2, <2>1, <2>2, <2>3
<1>3. ASSUME NEW x \in Tasks, TaskStep(x)
      PROVE  SeenTyped'
  <2>0. x \in Actors BY Kinds
  <2> USE DEF Locking
  <2>1. CASE RestoreRegister(x)
    <3>1. seen' = [seen EXCEPT ![x] = Nothing] /\ \E step \in {"rejected", "replaying"} : Goes(x, step)
      BY <2>1 DEF RestoreRegister
    <3> QED BY <1>w, <2>0, <3>1
  <2>2. CASE ReplayRead(x) BY <1>g, <2>0, <2>2 DEF ReplayRead
  <2>3. CASE ReplayQueue(x) BY <1>0, <1>s, <2>0, <2>3 DEF ReplayQueue
  <2>4. CASE EnterLock(x) BY <1>g, <2>0, <2>4 DEF EnterLock
  <2>5. CASE WakeAndInsert(x) BY <1>g, <2>0, <2>5 DEF WakeAndInsert
  <2>6. CASE WakeOnly(x)
    <3>1. \E state \in {"woke", seen[x]} : seen' = [seen EXCEPT ![x] = state]
      BY <2>6 DEF WakeOnly
    <3>2. PICK state \in Lifecycles \cup {Nothing, "woke"} : seen' = [seen EXCEPT ![x] = state]
      BY <1>0, <2>0, <3>1 DEF SeenTyped
    <3>3. at[x] \in Entries BY <1>0, <2>0, <2>6 DEF WakeOnly
    <3>4. CASE pc' = Started(at[x], [pc EXCEPT ![x] = "done"])
      <4>1. \A y \in Tasks : pc'[y] = "restoring" => pc[y] = "restoring" /\ y # x
        BY <1>0, <2>0, <3>3, <3>4, Kinds DEF Started
      <4> QED BY <1>0, <3>2, <4>1 DEF SeenTyped
    <3>5. CASE Goes(x, "executing") BY <1>w, <2>0, <3>2, <3>5
    <3> QED BY <2>6, <3>4, <3>5 DEF WakeOnly, Goes
  <2>7. CASE InsertRow(x) BY <1>g, <2>0, <2>7 DEF InsertRow
  <2>8. CASE Enqueue(x)
    <3>1. UNCHANGED seen /\ at[x] \in Entries BY <1>0, <2>0, <2>8 DEF Enqueue
    <3>2. \A y \in Tasks : pc'[y] = "restoring" => pc[y] = "restoring"
      BY <1>0, <2>0, <2>8, <3>1, Kinds DEF Enqueue, Started
    <3> QED BY <1>0, <3>1, <3>2 DEF SeenTyped
  <2>9. CASE EnqueueMerged(x) BY <1>g, <2>0, <2>9 DEF EnqueueMerged
  <2>10. CASE MergeDelete(x) BY <1>g, <2>0, <2>10 DEF MergeDelete
  <2>11. CASE MergeUpsert(x) BY <1>0, <1>s, <2>0, <2>11 DEF MergeUpsert
  <2>12. CASE StartTask(x) BY <1>g, <2>0, <2>12 DEF StartTask
  <2>13. CASE EndTask(x) BY <1>w, <2>0, <2>13 DEF EndTask
  <2>14. CASE MarkDead(x) BY <1>g, <2>0, <2>14 DEF MarkDead
  <2>15. CASE Drain(x) BY <1>g, <2>0, <2>15 DEF Drain
  <2>16. CASE KillWrite(x) BY <1>g, <2>0, <2>16 DEF KillWrite
  <2>17. CASE KillClear(x) BY <1>w, <2>0, <2>17 DEF KillClear
  <2> QED BY <1>3, <2>1, <2>2, <2>3, <2>4, <2>5, <2>6, <2>7, <2>8, <2>9, <2>10, <2>11, <2>12,
         <2>13, <2>14, <2>15, <2>16, <2>17 DEF TaskStep
<1>4. ASSUME NEW e \in Entries, LoopStep(e)
      PROVE  SeenTyped'
  <2>1. UNCHANGED seen /\ \E step \in LoopSteps : Goes(e, step)
    BY <1>4 DEF LoopStep, LoopNext, HandleRestore, Record, OpenTurn, CloseTurn, FinishTurn,
                FailTurn, Answer, LoopSteps
  <2> QED BY <1>g, <2>1, Kinds DEF LoopSteps
<1>5. ASSUME NEW x \in Actors, SleepStep(x)
      PROVE  SeenTyped'
  <2>1. UNCHANGED seen /\ \E step \in {"answering", "done", "idling", "scheduling"} : Goes(x, step)
    BY <1>5 DEF SleepStep, SleepRequest, FallAsleep, SchedulePoisonPill, AfterSleep
  <2> QED BY <1>g, <2>1
<1>6. CASE Restart
  <2>1. \A x \in Tasks : pc'[x] # "restoring"
    BY <1>0, <1>6 DEF Restart, Ended
  <2> QED BY <1>6, <2>1 DEF Restart, SeenTyped
<1> QED BY <1>1, <1>2, <1>3, <1>4, <1>5, <1>6 DEF Next

LEMMA ConcatElements ==
  ASSUME NEW S, NEW s \in Seq(S), NEW t \in Seq(S)
  PROVE  \A k \in DOMAIN (s \o t) : \/ \E j \in DOMAIN s : (s \o t)[k] = s[j]
                                    \/ \E j \in DOMAIN t : (s \o t)[k] = t[j]
<1> SUFFICES ASSUME NEW k \in DOMAIN (s \o t)
             PROVE  \/ k \in DOMAIN s /\ (s \o t)[k] = s[k]
                    \/ k - Len(s) \in DOMAIN t /\ (s \o t)[k] = t[k - Len(s)]
  OBVIOUS
<1> QED BY ConcatProperties

LEMMA FitsOn ==
  ASSUME \A s \in Stamped : s \in Stamped'
  PROVE  /\ \A i : Fits(i) => Fits(i)'
         /\ \A items : RowsFit(items) => RowsFit(items)'
         /\ \A en : EntryFits(en) => EntryFits(en)'
<1>1. \A i : Fits(i) => Fits(i)'
  BY DEF Fits
<1>2. ASSUME NEW items, RowsFit(items) PROVE RowsFit(items)'
  BY <1>1, <1>2 DEF RowsFit
<1>3. ASSUME NEW en, EntryFits(en) PROVE EntryFits(en)'
  BY <1>1, <1>3 DEF EntryFits
<1> QED BY <1>1, <1>2, <1>3

(* The items an entry has after a step. *)
LEMMA EntriesFit ==
  ASSUME TypeInv, Next
  PROVE  \A e \in Entries : EntryFits(ent[e])'
<1>1. /\ \A e \in Entries : EntryFits(ent[e]) /\ ent[e].queue \in Seq(QueueItems)
      /\ \A s \in Stamped : s \in Stamped'
  BY StampsKept DEF TypeInv, RowsTyped, ItemsFit, EntriesTyped, EntryRecords
<1>2. \A e \in Entries : SameQueues(ent'[e], ent[e]) => EntryFits(ent[e])'
  <2>1. ASSUME NEW e \in Entries, SameQueues(ent'[e], ent[e]) PROVE EntryFits(ent[e])'
    <3>1. PICK old : old = ent[e] OBVIOUS
    <3>2. EntryFits(old)' BY <1>1, <3>1, FitsOn
    <3> QED BY <2>1, <3>1, <3>2 DEF SameQueues, EntryFits
  <2> QED BY <2>1
<1>e. \A e \in Entries : ent'[e] = ent[e] => EntryFits(ent[e])'
  BY <1>2 DEF SameQueues
<1>f. \A i : Fits(i) => Fits(i)' BY <1>1, FitsOn
<1>3. CASE KeepsQueues
  BY <1>2, <1>3 DEF KeepsQueues
<1>4. ASSUME NEW x \in Tasks, RestoreRegister(x), created' # created
      PROVE  \A e \in Entries : EntryFits(ent[e])'
  <2>a. PICK c : c = created' OBVIOUS
  <2>1. /\ \A e \in Entries \ {c} : ent'[e] = ent[e]
        /\ ent'[c].queue = <<RestoreItem>> /\ ent'[c].current = NoItem
    BY <1>4, <2>a, RegisterEffect
  <2>2. EntryFits(ent[c])'
    BY <2>1 DEF EntryFits
  <2> QED BY <1>e, <2>1, <2>2
<1>5. ASSUME NEW x \in Tasks, ReplayQueue(x)
      PROVE  \A e \in Entries : EntryFits(ent[e])'
  <2>a. PICK a : a = at[x] OBVIOUS
  <2>1. PICK items, q : items = held[x] \ StaleInFlight(held[x]) /\ q = ByStamp(items) OBVIOUS
  <2>2. /\ \A e \in Entries \ {a} : ent'[e] = ent[e]
        /\ a \in Entries
        /\ ent'[a].queue = ent[a].queue \o q
        /\ ent'[a].current = ent[a].current
        /\ q \in Seq(items) /\ q \in Seq(Items) /\ RowsFit(held[x])
    BY <1>5, <2>a, <2>1, ReplayEffect
  <2>3. \A k \in DOMAIN q : Fits(q[k])
    BY <2>1, <2>2 DEF RowsFit
  <2>4. /\ \A k \in DOMAIN ent[a].queue : ent[a].queue[k] = RestoreItem \/ Fits(ent[a].queue[k])
        /\ ent[a].current \in {NoItem, RestoreItem} \/ Fits(ent[a].current)
    BY <1>1, <2>2 DEF EntryFits
  <2>5. PICK old \in Seq(QueueItems) : old = ent[a].queue BY <1>1, <2>2
  <2>6. \A k \in DOMAIN (old \o q) : \/ \E j \in DOMAIN old : (old \o q)[k] = old[j]
                                     \/ \E j \in DOMAIN q : (old \o q)[k] = q[j]
    <3>1. q \in Seq(QueueItems) BY <2>2 DEF QueueItems
    <3> QED BY <3>1, ConcatElements
  <2>7. \A k \in DOMAIN (old \o q) : (old \o q)[k] = RestoreItem \/ Fits((old \o q)[k])
    BY <2>3, <2>4, <2>5, <2>6
  <2>8. EntryFits(ent[a])'
    BY <1>f, <2>2, <2>4, <2>5, <2>7 DEF EntryFits
  <2> QED BY <1>e, <2>2, <2>8
<1>6. ASSUME NEW x \in Tasks, Enqueue(x)
      PROVE  \A e \in Entries : EntryFits(ent[e])'
  <2>a. PICK a : a = at[x] OBVIOUS
  <2>1. x \in Sources /\ Fits(Item(x)) /\ Item(x) \in QueueItems
    <3>1. x \in Sources /\ pc[x] = "enqueueing" BY <1>6, <2>a, EnqueueEffect DEF Enqueue
    <3> QED BY <3>1 DEF TypeInv, StampsTyped, StampsFit, Inserted, Fits, Stamped, Item, QueueItems, Items
  <2>2. /\ \A e \in Entries \ {a} : ent'[e] = ent[e]
        /\ a \in Entries
        /\ \/ ent'[a].queue = ent[a].queue /\ ent'[a].current = Item(x)
           \/ /\ ent'[a].queue = Append(ent[a].queue, Item(x))
              /\ ent'[a].current = ent[a].current
    BY <1>6, <2>a, EnqueueEffect
  <2>3. PICK old \in Seq(QueueItems) : old = ent[a].queue BY <1>1, <2>2
  <2>4. \A k \in DOMAIN old : old[k] = RestoreItem \/ Fits(old[k])
    BY <1>1, <2>2, <2>3 DEF EntryFits
  <2>5. \A k \in DOMAIN Append(old, Item(x)) :
          Append(old, Item(x))[k] = RestoreItem \/ Fits(Append(old, Item(x))[k])
    BY <2>1, <2>4
  <2>6. EntryFits(ent[a])'
    BY <1>1, <1>f, <2>1, <2>2, <2>3, <2>4, <2>5 DEF EntryFits
  <2> QED BY <1>e, <2>2, <2>6
<1>7. ASSUME NEW x \in Tasks, EnqueueMerged(x)
      PROVE  \A e \in Entries : EntryFits(ent[e])'
  <2>a. PICK a : a = at[x] OBVIOUS
  <2>m. MergedInto(a, x) BY <1>7, <2>a, EnqueueMergedEffect
  <2>1. PICK q, last, merged :
               /\ q \in Seq(QueueItems) /\ last \in Items /\ merged \in Items
               /\ q = ent[a].queue /\ Len(q) \in DOMAIN q /\ last = q[Len(q)]
               /\ merged.id = last.id /\ merged.parts = last.parts \cup {x}
               /\ ent'[a].queue = [q EXCEPT ![Len(q)] = merged]
               /\ held' = [held EXCEPT ![x] = {merged}]
    BY <2>m DEF MergedInto
  <2>2. /\ \A e \in Entries \ {a} : ent'[e] = ent[e]
        /\ a \in Entries /\ x \in Sources /\ pc[x] = "enqueueing"
        /\ ent'[a].current = ent[a].current
    BY <1>7, <2>a, EnqueueMergedEffect DEF EnqueueMerged
  <2>3. /\ \A k \in DOMAIN q : q[k] = RestoreItem \/ Fits(q[k])
        /\ ent[a].current \in {NoItem, RestoreItem} \/ Fits(ent[a].current)
    BY <1>1, <2>1, <2>2 DEF EntryFits
  <2>4. Fits(last)
    BY <2>1, <2>3, Kinds DEF Items, RestoreItem
  <2>5. Fits(merged)
    BY <2>1, <2>2, <2>4 DEF Fits, TypeInv, StampsTyped, StampsFit, Inserted, Stamped
  <2>6. EntryFits(ent[a])'
    BY <1>f, <2>1, <2>2, <2>3, <2>5 DEF EntryFits
  <2> QED BY <1>e, <2>2, <2>6
<1>8. ASSUME NEW x \in Tasks, Drain(x)
      PROVE  \A e \in Entries : EntryFits(ent[e])'
  <2>a. PICK a : a = at[x] OBVIOUS
  <2>1. /\ \A e \in Entries \ {a} : ent'[e] = ent[e]
        /\ a \in Entries /\ ent'[a].queue = << >>
        /\ ent'[a].current = ent[a].current
    BY <1>8, <2>a, DrainEffect
  <2>2. EntryFits(ent[a])'
    BY <1>1, <1>f, <2>1 DEF EntryFits
  <2> QED BY <1>e, <2>1, <2>2
<1>9. ASSUME NEW d \in Entries, LoopNext(d) \/ Answer(d)
      PROVE  \A e \in Entries : EntryFits(ent[e])'
  <2>1. CASE Answer(d)
    <3>1. /\ \A e \in Entries \ {d} : ent'[e] = ent[e]
          /\ ent'[d].queue = ent[d].queue /\ ent'[d].current = NoItem
      BY <2>1, AnswerEffect
    <3>2. EntryFits(ent[d])'
      BY <1>1, <1>f, <3>1 DEF EntryFits
    <3> QED BY <1>e, <3>1, <3>2
  <2>2. CASE LoopNext(d)
    <3>1. CASE ent' = ent BY <1>e, <3>1
    <3>2. CASE ent' # ent
      <4>1. PICK q \in Seq(QueueItems) : q = ent[d].queue BY <1>1
      <4>2. /\ \A e \in Entries \ {d} : ent'[e] = ent[e]
            /\ q # << >> /\ ent'[d].current = q[1] /\ ent'[d].queue = Tail(q)
        BY <2>2, <3>2, <4>1, LoopNextEffect
      <4>3. \A k \in DOMAIN q : q[k] = RestoreItem \/ Fits(q[k])
        BY <1>1, <4>1 DEF EntryFits
      <4>4. /\ 1 \in DOMAIN q
            /\ \A k \in DOMAIN Tail(q) : Tail(q)[k] = RestoreItem \/ Fits(Tail(q)[k])
        BY <4>2, <4>3
      <4>5. EntryFits(ent[d])'
        BY <1>f, <4>2, <4>3, <4>4 DEF EntryFits
      <4> QED BY <1>e, <4>2, <4>5
    <3> QED BY <3>1, <3>2
  <2> QED BY <1>9, <2>1, <2>2
<1>10. CASE Restart
  <2>1. PICK items, q : items = rows' /\ q = ByStamp(items) OBVIOUS
  <2>2. /\ \A e \in Entries : ent'[e].current = NoItem
                              /\ ent'[e].queue \in {<< >>, <<RestoreItem>> \o q}
        /\ items \subseteq rows /\ q \in Seq(items) /\ q \in Seq(Items)
    BY <1>10, <2>1, RestartEffect
  <2>3. \A k \in DOMAIN q : Fits(q[k])
    BY <2>2 DEF TypeInv, RowsTyped, ItemsFit, RowsFit
  <2>4. \A k \in DOMAIN (<<RestoreItem>> \o q) : \/ (<<RestoreItem>> \o q)[k] = RestoreItem
                                                  \/ Fits((<<RestoreItem>> \o q)[k])
    <3>1. q \in Seq(QueueItems) /\ <<RestoreItem>> \in Seq(QueueItems) BY <2>2 DEF QueueItems
    <3>2. \A k \in DOMAIN (<<RestoreItem>> \o q) :
            \/ \E j \in DOMAIN <<RestoreItem>> : (<<RestoreItem>> \o q)[k] = <<RestoreItem>>[j]
            \/ \E j \in DOMAIN q : (<<RestoreItem>> \o q)[k] = q[j]
      BY <3>1, ConcatElements
    <3> QED BY <2>3, <3>2
  <2>5. PICK full : full = <<RestoreItem>> \o q OBVIOUS
  <2>6. /\ \A e \in Entries : ent'[e].current = NoItem /\ ent'[e].queue \in {<< >>, full}
        /\ \A k \in DOMAIN full : full[k] = RestoreItem \/ Fits(full[k])'
    BY <1>f, <2>2, <2>4, <2>5
  <2> QED BY <2>6 DEF EntryFits
<1> QED BY <1>3, <1>4, <1>5, <1>6, <1>7, <1>8, <1>9, <1>10, EntrySteps DEF ChangesQueues

(* Rows come only with a new item, an item merged, or what a task reads.   *)
RowsShrink ==
  /\ rows' \subseteq rows /\ held' \in [Actors -> SUBSET Items]
  /\ \A x \in Actors : held'[x] \subseteq held[x]

LEMMA RowSteps ==
  ASSUME TypeInv, Next
  PROVE  RowsShrink \/ \E x \in Tasks : InsertRow(x) \/ MergeUpsert(x) \/ ReplayRead(x) \/ EnqueueMerged(x)
<1>0. held \in [Actors -> SUBSET Items] BY DEF TypeInv, RowsTyped
<1>u. UNCHANGED <<rows, held>> => RowsShrink
  BY <1>0 DEF RowsShrink
<1>l. rows' \subseteq rows /\ UNCHANGED held => RowsShrink
  BY <1>0 DEF RowsShrink
<1> USE DEF durableVars, noted
<1>1. ASSUME NEW x \in Tasks, Resolving(x) \/ Steer(x) \/ KillLoaded(x) \/ KillUnloaded(x)
      PROVE  RowsShrink
  BY <1>1, <1>u DEF Resolving, ResolveLoaded, RestoreRead, Steer, KillLoaded, KillUnloaded
<1>2. CASE PillDue \/ PillFires \/ PillHandled
  BY <1>2, <1>u DEF PillDue, PillFires, PillHandled
<1>3. ASSUME NEW x \in Tasks, TaskStep(x)
      PROVE  RowsShrink \/ InsertRow(x) \/ MergeUpsert(x) \/ ReplayRead(x) \/ EnqueueMerged(x)
  <2>1. CASE RestoreRegister(x) BY <1>u, <2>1 DEF RestoreRegister
  <2>3. CASE ReplayQueue(x)
    <3>1. rows' \subseteq rows /\ held' = [held EXCEPT ![x] = {}] BY <2>3 DEF ReplayQueue
    <3> QED BY <1>0, <3>1 DEF RowsShrink
  <2>4. CASE EnterLock(x) BY <1>u, <2>4 DEF EnterLock
  <2>5. CASE WakeAndInsert(x) BY <1>u, <2>5 DEF WakeAndInsert
  <2>6. CASE WakeOnly(x) BY <1>u, <2>6 DEF WakeOnly
  <2>8. CASE Enqueue(x) BY <1>u, <2>8 DEF Enqueue
  <2>10. CASE MergeDelete(x) BY <1>l, <2>10 DEF MergeDelete
  <2>12. CASE StartTask(x) BY <1>u, <2>12 DEF StartTask
  <2>13. CASE EndTask(x) BY <1>u, <2>13 DEF EndTask
  <2>14. CASE MarkDead(x) BY <1>u, <2>14 DEF MarkDead
  <2>15. CASE Drain(x) BY <1>l, <2>15 DEF Drain
  <2>16. CASE KillWrite(x) BY <1>u, <2>16 DEF KillWrite
  <2>17. CASE KillClear(x) BY <1>l, <2>17 DEF KillClear
  <2> QED BY <1>3, <2>1, <2>3, <2>4, <2>5, <2>6, <2>8, <2>10, <2>12,
         <2>13, <2>14, <2>15, <2>16, <2>17 DEF TaskStep
<1>4. ASSUME NEW e \in Entries, LoopStep(e)
      PROVE  RowsShrink
  <2>1. CASE Answer(e) BY <1>l, <2>1 DEF Answer
  <2> QED BY <1>4, <1>u, <2>1 DEF LoopStep, LoopNext, HandleRestore, Record, OpenTurn, CloseTurn,
                FinishTurn, FailTurn
<1>5. ASSUME NEW x \in Actors, SleepStep(x)
      PROVE  RowsShrink
  BY <1>5, <1>u DEF SleepStep, SleepRequest, FallAsleep, SchedulePoisonPill
<1>6. CASE Restart
  <2>1. held' = [x \in Actors |-> {}] BY <1>6 DEF Restart
  <2>2. rows' \subseteq rows BY <1>6, RestartEffect
  <2> QED BY <2>1, <2>2 DEF RowsShrink
<1> QED BY <1>1, <1>2, <1>3, <1>4, <1>5, <1>6 DEF Next

LEMMA RowsKept ==
  ASSUME TypeInv, Next
  PROVE  RowsTyped'
<1>0. /\ rows \subseteq Items /\ held \in [Actors -> SUBSET Items]
      /\ RowsFit(rows) /\ \A x \in Actors : RowsFit(held[x])
  BY DEF TypeInv, RowsTyped, ItemsFit
<1>1. /\ \A i : Fits(i) => Fits(i)'
      /\ \A items : RowsFit(items) => RowsFit(items)'
      /\ \A e \in Entries : EntryFits(ent[e])'
  BY StampsKept, FitsOn, EntriesFit
<1>s. ASSUME NEW items, RowsFit(items)', NEW less \in SUBSET items
      PROVE  RowsFit(less)'
  BY <1>s DEF RowsFit
<1>2. SUFFICES /\ rows' \subseteq Items /\ held' \in [Actors -> SUBSET Items]
               /\ RowsFit(rows)' /\ \A x \in Actors : RowsFit(held[x])'
  BY <1>1 DEF RowsTyped, ItemsFit
<1>3. CASE RowsShrink
  <2>1. rows' \in SUBSET rows /\ held' \in [Actors -> SUBSET Items]
        /\ \A x \in Actors : held'[x] \in SUBSET held[x]
    BY <1>3 DEF RowsShrink
  <2>2. RowsFit(rows)'
    <3>1. PICK old, new : old = rows /\ new = rows' OBVIOUS
    <3>2. RowsFit(new)' BY <1>0, <1>1, <1>s, <2>1, <3>1
    <3> QED BY <3>1, <3>2 DEF RowsFit
  <2>3. ASSUME NEW x \in Actors PROVE RowsFit(held[x])'
    <3>1. PICK old, new : old = held[x] /\ new = held'[x] OBVIOUS
    <3>2. RowsFit(new)' BY <1>0, <1>1, <1>s, <2>1, <3>1
    <3> QED BY <3>1, <3>2 DEF RowsFit
  <2> QED BY <1>0, <2>1, <2>2, <2>3
<1>h. UNCHANGED held => \A x \in Actors : RowsFit(held[x])'
  <2> SUFFICES ASSUME UNCHANGED held, NEW x \in Actors PROVE RowsFit(held[x])'
    OBVIOUS
  <2>1. PICK old : old = held[x] OBVIOUS
  <2>2. RowsFit(old)' BY <1>0, <1>1, <2>1
  <2> QED BY <2>1, <2>2 DEF RowsFit
<1>r. UNCHANGED rows => RowsFit(rows)'
  <2> SUFFICES ASSUME UNCHANGED rows PROVE RowsFit(rows)'
    OBVIOUS
  <2>1. PICK old : old = rows OBVIOUS
  <2>2. RowsFit(old)' BY <1>0, <1>1, <2>1
  <2> QED BY <2>1, <2>2 DEF RowsFit
<1>x. ASSUME NEW x \in Actors, NEW items \in SUBSET Items, held' = [held EXCEPT ![x] = items], RowsFit(items)'
      PROVE  held' \in [Actors -> SUBSET Items] /\ \A y \in Actors : RowsFit(held[y])'
  <2>1. held' \in [Actors -> SUBSET Items] /\ held'[x] = items /\ \A y \in Actors \ {x} : held'[y] = held[y]
    BY <1>0, <1>x
  <2>2. ASSUME NEW y \in Actors PROVE RowsFit(held[y])'
    <3>1. CASE y = x BY <1>x, <2>1, <3>1 DEF RowsFit
    <3>2. CASE y # x
      <4>1. PICK old : old = held[y] OBVIOUS
      <4>2. RowsFit(old)' BY <1>0, <1>1, <4>1
      <4> QED BY <2>1, <3>2, <4>1, <4>2 DEF RowsFit
    <3> QED BY <3>1, <3>2
  <2> QED BY <2>1, <2>2
<1>4. ASSUME NEW x \in Tasks, InsertRow(x)
      PROVE  /\ rows' \subseteq Items /\ held' \in [Actors -> SUBSET Items]
             /\ RowsFit(rows)' /\ \A y \in Actors : RowsFit(held[y])'
  <2>1. x \in Sources /\ x \in Actors /\ x \notin Stamped
    BY <1>4, Kinds DEF InsertRow, TypeInv, PlacesTyped, Placed, Posting, StampsTyped, StampsFit, Unposted, Stamped
  <2>2. rows' = rows \cup {Item(x)} /\ UNCHANGED held /\ x \in Stamped'
    <3>1. stamp'[x] = 1 + Cardinality({s \in Sources : stamp[s] > 0}) /\ IsFiniteSet({s \in Sources : stamp[s] > 0})
      BY <1>4, <2>1, Kinds, FS_Subset DEF InsertRow, TypeInv, StampsTyped
    <3>2. stamp'[x] # 0 BY <3>1, FS_CardinalityType
    <3> QED BY <1>4, <2>1, <3>2 DEF InsertRow, noted, Stamped
  <2>3. RowsFit(rows)'
    <3>1. PICK old : old = rows OBVIOUS
    <3>2. RowsFit(old)' BY <1>0, <1>1, <3>1
    <3>3. \A r \in old : r.id # x BY <1>0, <2>1, <3>1 DEF RowsFit, Fits
    <3>4. rows' = old \cup {Item(x)} /\ Item(x).id = x /\ Item(x).parts = {x}
      BY <2>2, <3>1 DEF Item
    <3>5. Fits(Item(x))' BY <2>2, <3>4 DEF Fits
    <3>6. \A r \in old : Fits(r)' BY <3>2 DEF RowsFit
    <3>7. \A r \in rows' : Fits(r)' BY <3>4, <3>5, <3>6
    <3>8. \A r, q \in rows' : r.id = q.id => r = q BY <1>0, <3>1, <3>3, <3>4 DEF RowsFit
    <3> QED BY <3>7, <3>8 DEF RowsFit
  <2>4. Item(x) \in Items BY <2>1 DEF Item, Items
  <2> QED BY <1>0, <1>h, <2>2, <2>3, <2>4
<1>5. ASSUME NEW x \in Tasks, MergeUpsert(x)
      PROVE  /\ rows' \subseteq Items /\ held' \in [Actors -> SUBSET Items]
             /\ RowsFit(rows)' /\ \A y \in Actors : RowsFit(held[y])'
  <2>1. x \in Actors BY Kinds
  <2>2. /\ rows' = {r \in rows : \A m \in held[x] : r.id # m.id} \cup held[x]
        /\ held' = [held EXCEPT ![x] = {}]
    BY <1>5 DEF MergeUpsert
  <2>3. held' \in [Actors -> SUBSET Items] /\ \A y \in Actors : RowsFit(held[y])'
    <3>1. RowsFit({})' BY DEF RowsFit
    <3> QED BY <1>x, <2>1, <2>2, <3>1
  <2>4. RowsFit(rows)'
    <3>1. PICK old, put : old = rows /\ put = held[x] OBVIOUS
    <3>2. RowsFit(old)' /\ RowsFit(put)' BY <1>0, <1>1, <2>1, <3>1
    <3>3. rows' = {r \in old : \A m \in put : r.id # m.id} \cup put
      BY <2>2, <3>1
    <3> QED BY <3>2, <3>3 DEF RowsFit
  <2> QED BY <1>0, <2>1, <2>2, <2>3, <2>4
<1>6. ASSUME NEW x \in Tasks, ReplayRead(x)
      PROVE  /\ rows' \subseteq Items /\ held' \in [Actors -> SUBSET Items]
             /\ RowsFit(rows)' /\ \A y \in Actors : RowsFit(held[y])'
  <2>1. x \in Actors /\ UNCHANGED rows /\ held' = [held EXCEPT ![x] = rows]
    BY <1>6, Kinds DEF ReplayRead, durableVars
  <2>2. PICK old : old = rows OBVIOUS
  <2>3. RowsFit(old)' BY <1>0, <1>1, <2>2
  <2> QED BY <1>0, <1>r, <1>x, <2>1, <2>2, <2>3
<1>7. ASSUME NEW x \in Tasks, EnqueueMerged(x)
      PROVE  /\ rows' \subseteq Items /\ held' \in [Actors -> SUBSET Items]
             /\ RowsFit(rows)' /\ \A y \in Actors : RowsFit(held[y])'
  <2>m. MergedInto(at[x], x) BY <1>7, EnqueueMergedEffect
  <2>1. PICK q, last, merged :
               /\ q \in Seq(QueueItems) /\ last \in Items /\ merged \in Items
               /\ q = ent[at[x]].queue /\ Len(q) \in DOMAIN q /\ last = q[Len(q)]
               /\ merged.id = last.id /\ merged.parts = last.parts \cup {x}
               /\ ent'[at[x]].queue = [q EXCEPT ![Len(q)] = merged]
               /\ held' = [held EXCEPT ![x] = {merged}]
    BY <2>m DEF MergedInto
  <2>2. at[x] \in Entries /\ x \in Sources /\ x \in Actors /\ pc[x] = "enqueueing"
    BY <1>7, EnqueueMergedEffect, Kinds DEF EnqueueMerged
  <2>3. Fits(last)
    <3>1. last = RestoreItem \/ Fits(last)
      BY <2>1, <2>2 DEF TypeInv, RowsTyped, ItemsFit, EntryFits
    <3> QED BY <2>1, <3>1, Kinds DEF Items, RestoreItem
  <2>4. Fits(merged)
    BY <2>1, <2>2, <2>3 DEF Fits, TypeInv, StampsTyped, StampsFit, Inserted, Stamped
  <2>5. RowsFit({merged})' BY <1>1, <2>4 DEF RowsFit
  <2>6. UNCHANGED rows BY <1>7 DEF EnqueueMerged, durableVars
  <2> QED BY <1>0, <1>r, <1>x, <2>1, <2>2, <2>5, <2>6
<1> QED BY <1>3, <1>4, <1>5, <1>6, <1>7, RowSteps

LEMMA TypeInvHolds == Spec => []TypeInv
<1>1. Init => TypeInv
  <2> SUFFICES ASSUME Init PROVE TypeInv
    OBVIOUS
  <2>1. PlacesTyped
    <3>1. map \in 0..created /\ created \in 0..MaxEntries
      BY Kinds DEF Init, Entries
    <3>2. pc \in [Actors -> Steps] /\ at \in [Actors -> 0..created]
      BY <3>1 DEF Init, Steps, TaskSteps, LoopSteps
    <3>3. Placed
      BY Kinds DEF Init, Placed, TaskSteps, LoopSteps, Locking, Posting
    <3> QED BY <3>1, <3>2, <3>3 DEF PlacesTyped
  <2>2. StampsTyped
    <3>1. Cardinality(Sources) \in Nat BY Kinds, FS_CardinalityType
    <3>2. stamp \in [Sources -> 0..Cardinality(Sources)] BY <3>1 DEF Init
    <3>3. Stamped = {} /\ \A s \in Sources : stamp[s] = 0 BY DEF Init, Stamped
    <3>4. \A s \in Sources : pc[s] \notin Inserted BY Kinds DEF Init, Inserted
    <3>5. Cardinality(Stamped) = 0 BY <3>3, FS_EmptySet
    <3> QED BY <3>2, <3>3, <3>4, <3>5 DEF StampsTyped, StampsFit
  <2>3. EntriesTyped BY NoEntryTyped DEF Init, EntriesTyped
  <2>4. FlagsTyped
    <3>1. life \in {"active", "sleeping"} BY DEF Init
    <3>2. pillTimer \in BOOLEAN BY AgentSystemAssumption DEF Init, AgentSystemAssumption
    <3>3. restarts \in 0..MaxRestarts BY AgentSystemAssumption DEF Init, AgentSystemAssumption
    <3> QED BY <3>1, <3>2, <3>3 DEF Init, FlagsTyped, Lifecycles
  <2>5. SeenTyped BY Kinds DEF Init, SeenTyped
  <2>6. RowsTyped
    <3>1. \A e \in Entries : EntryFits(ent[e])
      BY NoEntryTyped DEF Init, EntryFits
    <3> QED BY <3>1 DEF Init, RowsTyped, ItemsFit, RowsFit
  <2> QED BY <2>1, <2>2, <2>3, <2>4, <2>5, <2>6 DEF TypeInv
<1>2. TypeInv /\ [Next]_vars => TypeInv'
  <2>1. ASSUME TypeInv, Next PROVE TypeInv'
    BY <2>1, PlacesKept, StampsKept, EntrySteps, FlagsKept, SeenKept, RowsKept DEF TypeInv
  <2>2. ASSUME TypeInv, UNCHANGED vars PROVE TypeInv'
    BY <2>2 DEF TypeInv, PlacesTyped, Placed, StampsTyped, StampsFit, Stamped, EntriesTyped,
       FlagsTyped, SeenTyped, RowsTyped, ItemsFit, RowsFit, EntryFits, Fits, vars, durableVars,
       noted, ghostVars
  <2> QED BY <2>1, <2>2
<1> QED BY <1>1, <1>2, PTL DEF Spec

(* Type correctness, for any number of posters, entries and crashes.       *)
THEOREM AgentTypes == Spec => []TypeOK
BY TypeInvHolds, TypesTogether, PTL

-----------------------------------------------------------------------------
(* The lock of an entry.  Whoever waits on it is at a step that asks for   *)
(* it; of those who are at a step under it, one holds it and the others    *)
(* wait, each once.                                                        *)

Asking == {"waking", "idling", "killing"}
Lockers(e) == {x \in Actors : pc[x] \in Locking /\ at[x] = e}
Waiters(e) == {ent[e].lock.queue[i] : i \in 1..Len(ent[e].lock.queue)}

LockFits(e) ==
  /\ \A x \in Waiters(e) : x \in Lockers(e) /\ pc[x] \in Asking
  /\ \A i, j \in 1..Len(ent[e].lock.queue) :
       ent[e].lock.queue[i] = ent[e].lock.queue[j] => i = j
  /\ \/ ent[e].lock.permits = 1 /\ Lockers(e) = {}
     \/ ent[e].lock.permits = 0 /\ \E h \in Lockers(e) : Lockers(e) \ Waiters(e) = {h}

LocksFit == \A e \in Entries : LockFits(e)

(* A task or a loop whose step leaves it outside the locks, or under the   *)
(* same one, which it stops asking for only when it is granted.            *)
Still(x) ==
  /\ pc'[x] \in Locking <=> pc[x] \in Locking
  /\ pc[x] \in Locking => at'[x] = at[x]
  /\ pc[x] \in Asking => pc'[x] \in Asking \/ Granted(x)

SameLocks(entries) == \A e \in entries : ent'[e].lock = ent[e].lock

KeepsLocks == SameLocks(Entries) /\ \A y \in Actors : Still(y)
AsksFor(x, e) ==
  /\ pc[x] \notin Locking /\ pc'[x] \in Asking /\ at'[x] = e
  /\ ent'[e].lock = LockRequest(ent[e].lock, x)
  /\ SameLocks(Entries \ {e}) /\ \A y \in Actors \ {x} : Still(y)
Releases(x, e) ==
  /\ pc[x] \in Locking /\ (pc[x] \in Asking => Granted(x)) /\ at[x] = e /\ pc'[x] \notin Locking
  /\ ent'[e].lock = LockRelease(ent[e].lock)
  /\ SameLocks(Entries \ {e}) /\ \A y \in Actors \ {x} : Still(y)
Registers(x, e) ==
  /\ e = created + 1 /\ pc[x] \notin Locking /\ pc'[x] = "replaying" /\ at'[x] = e
  /\ ent'[e].lock = [permits |-> 0, queue |-> << >>]
  /\ SameLocks(Entries \ {e}) /\ \A y \in Actors \ {x} : Still(y)

LEMMA LockSteps ==
  ASSUME TypeInv, Next
  PROVE  \/ KeepsLocks
         \/ \E x \in Actors, e \in Entries : AsksFor(x, e) \/ Releases(x, e) \/ Registers(x, e)
         \/ Restart
<1>0. /\ pc \in [Actors -> Steps] /\ at \in [Actors -> 0..created]
      /\ EntriesTyped /\ ent \in [Entries -> EntryRecords]
  BY DEF TypeInv, PlacesTyped, EntriesTyped
<1>m. /\ map # 0 => map \in Entries
      /\ \A x \in Actors : pc[x] \in Locking \cup {"resolved"} => at[x] \in Entries
      /\ \A x \in Actors : at[x] # 0 => at[x] \in Entries
  BY Captured DEF TypeInv
<1>g. ASSUME NEW x \in Actors, NEW step, Goes(x, step), SameLocks(Entries),
             step \in Locking <=> pc[x] \in Locking,
             \/ UNCHANGED at
             \/ pc[x] \notin Locking /\ \E v : at' = [at EXCEPT ![x] = v],
             pc[x] \in Asking => step \in Asking \/ Granted(x)
      PROVE  KeepsLocks
  BY <1>0, <1>g DEF Goes, KeepsLocks, Still, Locking
<1>a. ASSUME NEW x \in Actors, NEW step \in Asking, NEW e \in Entries, Goes(x, step),
             pc[x] \notin Locking,
             (UNCHANGED at /\ at[x] = e) \/ at' = [at EXCEPT ![x] = e],
             ent' = Requested(e, x) \/ ent' = Terminated(e, x)
      PROVE  AsksFor(x, e)
  <2>1. pc'[x] = step /\ at'[x] = e /\ \A y \in Actors \ {x} : pc'[y] = pc[y] /\ at'[y] = at[y]
    BY <1>0, <1>a DEF Goes
  <2>2. ent'[e].lock = LockRequest(ent[e].lock, x) /\ SameLocks(Entries \ {e})
    BY <1>0, <1>a, Requesting, Terminating DEF SameLocks
  <2> QED BY <1>a, <2>1, <2>2 DEF AsksFor, Still
<1>r. ASSUME NEW x \in Actors, at[x] \in Entries, pc[x] \in Locking, pc[x] \in Asking => Granted(x),
             pc'[x] \notin Locking, UNCHANGED at,
             \A y \in Actors \ {x} : pc'[y] = pc[y] \/ (pc'[y] \in {"next", "taken"} /\ pc[y] \notin Locking),
             ent'[at[x]].lock = LockRelease(ent[at[x]].lock), SameLocks(Entries \ {at[x]})
      PROVE  Releases(x, at[x])
  BY <1>r DEF Releases, Still, Locking, Asking
<1>s. ASSUME NEW x \in Tasks, NEW step, at[x] \in Entries,
             pc' = Started(at[x], [pc EXCEPT ![x] = step])
      PROVE  /\ pc'[x] = step
             /\ \A y \in Actors \ {x} : pc'[y] = pc[y] \/ (pc'[y] \in {"next", "taken"} /\ pc[y] \notin Locking)
  BY <1>0, <1>s, Kinds DEF Started, Locking
<1>u. UNCHANGED ent => SameLocks(Entries)
  BY DEF SameLocks
<1>l. ASSUME NEW x \in Actors, at[x] \in Entries, ent' = Unlocked(ent, x)
      PROVE  ent'[at[x]].lock = LockRelease(ent[at[x]].lock) /\ SameLocks(Entries \ {at[x]})
  BY <1>0, <1>l, Unlocking DEF SameLocks
<1>t. ASSUME NEW e \in Entries, NEW state \in Lifecycles, ent' = [ent EXCEPT ![e].state = state]
      PROVE  SameLocks(Entries)
  BY <1>0, <1>t, StateSet DEF SameLocks
<1> DEFINE Kind == \/ KeepsLocks
                   \/ \E x \in Actors, e \in Entries : AsksFor(x, e) \/ Releases(x, e) \/ Registers(x, e)
<1> USE DEF Locking, Asking
<1>1. ASSUME NEW x \in Tasks, Resolving(x) \/ Steer(x) \/ KillLoaded(x) \/ KillUnloaded(x)
      PROVE  Kind
  <2>0. x \in Actors BY Kinds
  <2>1. CASE ResolveLoaded(x) BY <1>g, <1>u, <2>0, <2>1 DEF ResolveLoaded
  <2>2. CASE RestoreRead(x) BY <1>g, <1>u, <2>0, <2>2 DEF RestoreRead
  <2>3. CASE Steer(x)
    <3>1. CASE map = 0 BY <1>g, <1>u, <2>0, <2>3, <3>1 DEF Steer
    <3>2. CASE map # 0 BY <1>a, <1>m, <2>0, <2>3, <3>2 DEF Steer
    <3> QED BY <3>1, <3>2
  <2>4. CASE KillLoaded(x) BY <1>a, <1>m, <2>0, <2>4 DEF KillLoaded
  <2>5. CASE KillUnloaded(x) BY <1>g, <1>u, <2>0, <2>5 DEF KillUnloaded
  <2> QED BY <1>1, <2>1, <2>2, <2>3, <2>4, <2>5 DEF Resolving
<1>2. CASE PillDue \/ PillFires \/ PillHandled
  <2>0. Pill \in Actors BY Kinds
  <2>1. CASE PillDue BY <1>g, <1>u, <2>0, <2>1 DEF PillDue
  <2>2. CASE PillFires
    <3>1. CASE UNCHANGED <<ent, at>> /\ \E step \in {"idle", "done", "killWrite"} : Goes(Pill, step)
      BY <1>g, <1>u, <2>0, <2>2, <3>1 DEF PillFires
    <3>2. CASE map # 0 /\ ent' = Terminated(map, Pill) /\ at' = [at EXCEPT ![Pill] = map] /\ Goes(Pill, "killing")
      BY <1>a, <1>m, <2>0, <2>2, <3>2 DEF PillFires
    <3>3. CASE map # 0 /\ ent' = [ent EXCEPT ![map].terminating = TRUE]
               /\ at' = [at EXCEPT ![Pill] = map] /\ Goes(Pill, "resolved")
      <4>1. SameLocks(Entries) BY <1>0, <1>m, <3>3 DEF SameLocks, EntryRecords
      <4> QED BY <1>g, <2>0, <2>2, <3>3, <4>1 DEF PillFires
    <3> QED BY <2>2, <3>1, <3>2, <3>3 DEF PillFires
  <2>3. CASE PillHandled
    <3>1. at[Pill] # 0 BY <2>3 DEF PillHandled, TypeInv, PlacesTyped, Placed
    <3> QED BY <1>a, <1>m, <2>0, <2>3, <3>1 DEF PillHandled
  <2> QED BY <1>2, <2>1, <2>2, <2>3
<1>3. ASSUME NEW x \in Tasks, TaskStep(x)
      PROVE  Kind
  <2>0. x \in Actors BY Kinds
  <2>k. pc[x] \in Locking => at[x] \in Entries BY <1>m, <2>0
  <2>1. CASE RestoreRegister(x)
    <3>1. CASE created' = created
      <4>1. UNCHANGED <<ent, at>> /\ Goes(x, "rejected") /\ pc[x] = "restoring"
        <5>1. created \in Nat BY DEF TypeInv, PlacesTyped
        <5> QED BY <2>1, <3>1, <5>1 DEF RestoreRegister
      <4> QED BY <1>g, <1>u, <2>0, <4>1
    <3>2. CASE created' # created
      <4>1. PICK e : e = created' OBVIOUS
      <4>2. /\ e \in Entries /\ e = created + 1 /\ at' = [at EXCEPT ![x] = e] /\ Goes(x, "replaying")
            /\ \A d \in Entries \ {e} : ent'[d] = ent[d]
            /\ ent'[e].lock = [permits |-> 0, queue |-> << >>]
        BY <2>1, <3>2, <4>1, RegisterEffect
      <4>3. pc'[x] = "replaying" /\ \A y \in Actors \ {x} : pc'[y] = pc[y]
        BY <1>0, <2>0, <4>2 DEF Goes
      <4>4. e \in 0..created' /\ at'[x] = e /\ \A y \in Actors \ {x} : at'[y] = at[y]
        <5>1. created \in Nat BY DEF TypeInv, PlacesTyped
        <5> QED BY <1>0, <2>0, <4>1, <4>2, <5>1
      <4>5. Registers(x, e)
        BY <2>1, <4>2, <4>3, <4>4 DEF Registers, SameLocks, Still, RestoreRegister
      <4> QED BY <2>0, <4>2, <4>5
    <3> QED BY <3>1, <3>2
  <2>2. CASE ReplayRead(x) BY <1>g, <1>u, <2>0, <2>2 DEF ReplayRead
  <2>3. CASE ReplayQueue(x)
    <3>1. /\ at[x] \in Entries /\ pc[x] = "queueing" /\ UNCHANGED at
          /\ pc' = Started(at[x], [pc EXCEPT ![x] = "resolved"])
          /\ ent'[at[x]].lock = LockRelease(ent[at[x]].lock) /\ SameLocks(Entries \ {at[x]})
      BY <2>3, ReplayEffect DEF ReplayQueue, SameLocks
    <3>2. /\ pc'[x] = "resolved"
          /\ \A y \in Actors \ {x} : pc'[y] = pc[y] \/ (pc'[y] \in {"next", "taken"} /\ pc[y] \notin Locking)
      BY <1>s, <3>1
    <3> QED BY <1>r, <2>0, <3>1, <3>2
  <2>4. CASE EnterLock(x) BY <1>a, <1>m, <2>0, <2>4 DEF EnterLock
  <2>5. CASE WakeAndInsert(x)
    <3>1. /\ pc[x] = "waking" /\ Granted(x) /\ Goes(x, "inserting") /\ UNCHANGED at
          /\ UNCHANGED ent \/ ent' = [ent EXCEPT ![at[x]].state = "active"]
      BY <2>5 DEF WakeAndInsert, WokenIfSleeping
    <3>2. SameLocks(Entries) BY <1>t, <1>u, <2>k, <3>1 DEF Lifecycles
    <3> QED BY <1>g, <2>0, <3>1, <3>2
  <2>6. CASE WakeOnly(x)
    <3>1. /\ at[x] \in Entries /\ pc[x] = "waking" /\ Granted(x) /\ UNCHANGED at
          /\ \/ pc' = Started(at[x], [pc EXCEPT ![x] = "done"]) \/ Goes(x, "executing")
      BY <2>6, <2>k DEF WakeOnly, Goes
    <3>2. PICK awake : /\ ent' = Unlocked(awake, x)
                       /\ awake = [ent EXCEPT ![at[x]].state =
                            IF ent[at[x]].state = "sleeping" THEN "active" ELSE @]
      BY <2>6 DEF WakeOnly
    <3>3. (IF ent[at[x]].state = "sleeping" THEN "active" ELSE ent[at[x]].state) \in Lifecycles
      BY <1>0, <3>1 DEF Lifecycles, EntryRecords
    <3>4. /\ awake \in [Entries -> EntryRecords] /\ \A d \in Entries \ {at[x]} : awake[d] = ent[d]
          /\ awake[at[x]].lock = ent[at[x]].lock
      BY <1>0, <3>1, <3>2, <3>3, StateSet
    <3>5. /\ ent'[at[x]].lock = LockRelease(ent[at[x]].lock)
          /\ SameLocks(Entries \ {at[x]})
      <4>1. /\ \A d \in Entries \ {at[x]} : Unlocked(awake, x)[d] = awake[d]
            /\ Unlocked(awake, x)[at[x]].lock = LockRelease(awake[at[x]].lock)
        BY <2>0, <3>1, <3>4, Unlocking
      <4> QED BY <3>1, <3>2, <3>4, <4>1 DEF SameLocks
    <3>6. /\ pc'[x] \notin Locking
          /\ \A y \in Actors \ {x} : pc'[y] = pc[y] \/ (pc'[y] \in {"next", "taken"} /\ pc[y] \notin Locking)
      BY <1>0, <1>s, <2>0, <3>1 DEF Goes
    <3> QED BY <1>r, <2>0, <3>1, <3>5, <3>6
  <2>7. CASE InsertRow(x) BY <1>g, <1>u, <2>0, <2>7 DEF InsertRow
  <2>8. CASE Enqueue(x)
    <3>1. /\ at[x] \in Entries /\ pc[x] = "enqueueing" /\ UNCHANGED at
          /\ ent'[at[x]].lock = LockRelease(ent[at[x]].lock) /\ SameLocks(Entries \ {at[x]})
      BY <2>8, EnqueueEffect DEF Enqueue, SameLocks
    <3>2. /\ pc'[x] \notin Locking
          /\ \A y \in Actors \ {x} : pc'[y] = pc[y] \/ (pc'[y] \in {"next", "taken"} /\ pc[y] \notin Locking)
      BY <1>0, <2>0, <2>8, <3>1, Kinds DEF Enqueue, Started
    <3> QED BY <1>r, <2>0, <3>1, <3>2
  <2>9. CASE EnqueueMerged(x)
    <3>1. at[x] \in Entries /\ SameLocks(Entries)
      BY <2>9, EnqueueMergedEffect DEF SameLocks
    <3> QED BY <1>g, <2>0, <2>9, <3>1 DEF EnqueueMerged
  <2>10. CASE MergeDelete(x) BY <1>g, <1>u, <2>0, <2>10 DEF MergeDelete
  <2>11. CASE MergeUpsert(x)
    <3>1. /\ at[x] \in Entries /\ pc[x] = "mergeUpsert" /\ UNCHANGED at /\ ent' = Unlocked(ent, x)
          /\ pc' = Started(at[x], [pc EXCEPT ![x] = "posted"])
      BY <2>11, <2>k DEF MergeUpsert
    <3>2. /\ pc'[x] = "posted"
          /\ \A y \in Actors \ {x} : pc'[y] = pc[y] \/ (pc'[y] \in {"next", "taken"} /\ pc[y] \notin Locking)
      BY <1>s, <3>1
    <3> QED BY <1>l, <1>r, <2>0, <3>1, <3>2
  <2>12. CASE StartTask(x) BY <1>g, <1>u, <2>0, <2>12 DEF StartTask
  <2>13. CASE EndTask(x) BY <1>g, <1>u, <2>0, <2>13 DEF EndTask
  <2>14. CASE MarkDead(x)
    <3>1. pc[x] = "killing" /\ Granted(x) /\ UNCHANGED at /\ at[x] \in Entries
      BY <2>14, <2>k DEF MarkDead
    <3>2. CASE ent' = Unlocked(ent, x) /\ Goes(x, "done")
      <4>1. pc'[x] = "done" /\ \A y \in Actors \ {x} : pc'[y] = pc[y]
        BY <1>0, <2>0, <3>2 DEF Goes
      <4> QED BY <1>l, <1>r, <2>0, <3>1, <3>2, <4>1
    <3>3. CASE ent' = [ent EXCEPT ![at[x]].state = "dead"] /\ Goes(x, "draining")
      <4>1. SameLocks(Entries) BY <1>t, <3>1, <3>3 DEF Lifecycles
      <4> QED BY <1>g, <2>0, <3>1, <3>3, <4>1
    <3> QED BY <2>14, <3>2, <3>3 DEF MarkDead
  <2>15. CASE Drain(x)
    <3>1. /\ at[x] \in Entries /\ pc[x] = "draining" /\ UNCHANGED at /\ Goes(x, "done")
          /\ ent'[at[x]].lock = LockRelease(ent[at[x]].lock) /\ SameLocks(Entries \ {at[x]})
      BY <2>15, DrainEffect DEF Drain, SameLocks
    <3>2. pc'[x] = "done" /\ \A y \in Actors \ {x} : pc'[y] = pc[y]
      BY <1>0, <2>0, <3>1 DEF Goes
    <3> QED BY <1>r, <2>0, <3>1, <3>2
  <2>16. CASE KillWrite(x) BY <1>g, <1>u, <2>0, <2>16 DEF KillWrite
  <2>17. CASE KillClear(x) BY <1>g, <1>u, <2>0, <2>17 DEF KillClear
  <2> QED BY <1>3, <2>1, <2>2, <2>3, <2>4, <2>5, <2>6, <2>7, <2>8, <2>9, <2>10, <2>11, <2>12,
         <2>13, <2>14, <2>15, <2>16, <2>17 DEF TaskStep
<1>4. ASSUME NEW e \in Entries, LoopStep(e)
      PROVE  Kind
  <2>0. e \in Actors BY Kinds
  <2>1. CASE LoopNext(e)
    <3>1. SameLocks(Entries) BY <2>1, LoopNextEffect DEF SameLocks
    <3> QED BY <1>g, <2>0, <2>1, <3>1 DEF LoopNext
  <2>2. CASE HandleRestore(e) BY <1>g, <1>u, <2>0, <2>2 DEF HandleRestore
  <2>3. CASE Record(e) BY <1>g, <1>u, <2>0, <2>3 DEF Record
  <2>4. CASE OpenTurn(e) BY <1>g, <1>u, <2>0, <2>4 DEF OpenTurn
  <2>5. CASE CloseTurn(e) BY <1>g, <1>u, <2>0, <2>5 DEF CloseTurn
  <2>6. CASE FinishTurn(e) BY <1>g, <1>u, <2>0, <2>6 DEF FinishTurn, InTurn
  <2>7. CASE FailTurn(e) BY <1>g, <1>u, <2>0, <2>7 DEF FailTurn, InTurn
  <2>8. CASE Answer(e)
    <3>1. SameLocks(Entries) BY <2>8, AnswerEffect DEF SameLocks
    <3> QED BY <1>g, <2>0, <2>8, <3>1 DEF Answer
  <2> QED BY <1>4, <2>1, <2>2, <2>3, <2>4, <2>5, <2>6, <2>7, <2>8 DEF LoopStep
<1>5. ASSUME NEW x \in Actors, SleepStep(x)
      PROVE  Kind
  <2>0. AfterSleep(x) \in {"answering", "done"} BY DEF AfterSleep
  <2>k. pc[x] \in Locking => at[x] \in Entries BY <1>m
  <2>1. CASE SleepRequest(x)
    <3>1. CASE map = 0 BY <1>g, <1>u, <2>0, <2>1, <3>1 DEF SleepRequest, WantsSleep
    <3>2. CASE map # 0 BY <1>a, <1>m, <2>1, <3>2 DEF SleepRequest, WantsSleep
    <3> QED BY <3>1, <3>2
  <2>2. CASE FallAsleep(x)
    <3>1. pc[x] = "idling" /\ Granted(x) /\ UNCHANGED at /\ at[x] \in Entries
      BY <2>2, <2>k DEF FallAsleep
    <3>2. CASE ent' = Unlocked(ent, x) /\ Goes(x, AfterSleep(x))
      <4>1. pc'[x] = AfterSleep(x) /\ \A y \in Actors \ {x} : pc'[y] = pc[y]
        BY <1>0, <3>2 DEF Goes
      <4> QED BY <1>l, <1>r, <2>0, <3>1, <3>2, <4>1
    <3>3. CASE ent' = [ent EXCEPT ![at[x]].state = "sleeping"] /\ Goes(x, "scheduling")
      <4>1. SameLocks(Entries) BY <1>t, <3>1, <3>3 DEF Lifecycles
      <4> QED BY <1>g, <3>1, <3>3, <4>1
    <3> QED BY <2>2, <3>2, <3>3 DEF FallAsleep
  <2>3. CASE SchedulePoisonPill(x)
    <3>1. pc[x] = "scheduling" /\ UNCHANGED at /\ at[x] \in Entries /\ ent' = Unlocked(ent, x) /\ Goes(x, AfterSleep(x))
      BY <2>3, <2>k DEF SchedulePoisonPill
    <3>2. pc'[x] = AfterSleep(x) /\ \A y \in Actors \ {x} : pc'[y] = pc[y]
      BY <1>0, <3>1 DEF Goes
    <3> QED BY <1>l, <1>r, <2>0, <3>1, <3>2
  <2> QED BY <1>5, <2>1, <2>2, <2>3 DEF SleepStep
<1> QED BY <1>1, <1>2, <1>3, <1>4, <1>5 DEF Next

(* Whoever is not asking, or has been granted the lock, does not wait.     *)
LEMMA NotWaiting ==
  ASSUME TypeInv, LocksFit, NEW x \in Actors, pc[x] \in Locking,
         pc[x] \notin Asking \/ Granted(x)
  PROVE  /\ at[x] \in Entries /\ x \in Lockers(at[x]) /\ x \notin Waiters(at[x])
         /\ ent[at[x]].lock.permits = 0
         /\ Lockers(at[x]) = {x} \cup Waiters(at[x])
<1>1. at[x] \in Entries /\ x \in Lockers(at[x])
  BY Captured DEF TypeInv, Lockers
<1>2. x \notin Waiters(at[x])
  <2>1. CASE pc[x] \notin Asking BY <1>1, <2>1 DEF LocksFit, LockFits
  <2>2. CASE Granted(x) BY <2>2 DEF Granted, Waiters
  <2> QED BY <2>1, <2>2
<1>3. LockFits(at[x]) BY <1>1 DEF LocksFit
<1> QED BY <1>1, <1>2, <1>3 DEF LockFits

LEMMA LocksKept ==
  ASSUME TypeInv, LocksFit, Next
  PROVE  LocksFit'
<1>0. /\ EntriesTyped /\ \A e \in Entries : ent[e].lock \in LockType(Actors)
      /\ EntriesTyped' /\ \A e \in Entries : ent'[e].lock \in LockType(Actors)
  BY EntrySteps DEF TypeInv, EntriesTyped, EntryRecords
<1>1. ASSUME NEW e \in Entries, ent'[e].lock = ent[e].lock,
             \A y \in Actors : y \in Lockers(e) => pc'[y] \in Locking /\ at'[y] = e,
             \A y \in Actors : pc'[y] \in Locking /\ at'[y] = e => y \in Lockers(e),
             \A y \in Waiters(e) : pc'[y] \in Asking
      PROVE  LockFits(e)'
  <2>1. Waiters(e)' = Waiters(e) BY <1>1 DEF Waiters
  <2>2. Lockers(e)' = Lockers(e) BY <1>1 DEF Lockers
  <2> QED BY <1>1, <2>1, <2>2 DEF LocksFit, LockFits
<1>w. \A e \in Entries : \A y \in Waiters(e) : y \in Actors /\ pc[y] \in Asking /\ at[y] = e /\ ~Granted(y)
  <2> SUFFICES ASSUME NEW e \in Entries, NEW y \in Waiters(e)
               PROVE  y \in Actors /\ pc[y] \in Asking /\ at[y] = e /\ ~Granted(y)
    OBVIOUS
  <2>1. y \in Lockers(e) /\ pc[y] \in Asking BY DEF LocksFit, LockFits
  <2> QED BY <2>1 DEF Lockers, Waiters, Granted
(* A step of x that touches only the lock of e leaves the others.          *)
<1>o. ASSUME NEW x \in Actors, NEW e \in Entries, SameLocks(Entries \ {e}),
             \A y \in Actors \ {x} : Still(y),
             pc[x] \in Locking => at[x] = e, pc'[x] \in Locking => at'[x] = e
      PROVE  /\ \A d \in Entries \ {e} : LockFits(d)'
             /\ Lockers(e)' \ {x} = Lockers(e) \ {x}
             /\ \A y \in Waiters(e) \ {x} : pc'[y] \in Asking
  <2>1. \A y \in Actors \ {x} : /\ pc'[y] \in Locking <=> pc[y] \in Locking
                                /\ pc[y] \in Locking => at'[y] = at[y]
                                /\ pc[y] \in Asking => pc'[y] \in Asking \/ Granted(y)
    BY <1>o DEF Still
  <2>2. Lockers(e)' \ {x} = Lockers(e) \ {x}
    BY <1>o, <2>1 DEF Lockers
  <2>3. ASSUME NEW d \in Entries \ {e} PROVE LockFits(d)'
    <3>1. \A y \in Actors : y \in Lockers(d) => pc'[y] \in Locking /\ at'[y] = d
      BY <1>o, <2>1, <2>3 DEF Lockers
    <3>2. \A y \in Actors : pc'[y] \in Locking /\ at'[y] = d => y \in Lockers(d)
      BY <1>o, <2>1, <2>3 DEF Lockers
    <3>3. \A y \in Waiters(d) : pc'[y] \in Asking
      BY <1>o, <1>w, <2>1, <2>3 DEF Asking, Locking
    <3> QED BY <1>1, <1>o, <3>1, <3>2, <3>3 DEF SameLocks
  <2>4. \A y \in Waiters(e) \ {x} : pc'[y] \in Asking
    BY <1>w, <2>1
  <2> QED BY <2>2, <2>3, <2>4
<1>2. CASE KeepsLocks
  <2>1. ASSUME NEW e \in Entries PROVE LockFits(e)'
    <3>1. \A y \in Actors : y \in Lockers(e) => pc'[y] \in Locking /\ at'[y] = e
      BY <1>2 DEF KeepsLocks, Still, Lockers
    <3>2. \A y \in Actors : pc'[y] \in Locking /\ at'[y] = e => y \in Lockers(e)
      BY <1>2 DEF KeepsLocks, Still, Lockers
    <3>3. \A y \in Waiters(e) : pc'[y] \in Asking
      BY <1>2, <1>w DEF KeepsLocks, Still
    <3> QED BY <1>1, <1>2, <3>1, <3>2, <3>3 DEF KeepsLocks, SameLocks
  <2> QED BY <2>1 DEF LocksFit
<1>3. ASSUME NEW x \in Actors, NEW e \in Entries, AsksFor(x, e) PROVE LocksFit'
  <2>1. /\ pc[x] \notin Locking /\ pc'[x] \in Asking /\ at'[x] = e
        /\ ent'[e].lock = LockRequest(ent[e].lock, x)
        /\ SameLocks(Entries \ {e}) /\ \A y \in Actors \ {x} : Still(y)
    BY <1>3 DEF AsksFor
  <2>2. /\ \A d \in Entries \ {e} : LockFits(d)'
        /\ Lockers(e)' \ {x} = Lockers(e) \ {x}
        /\ \A y \in Waiters(e) \ {x} : pc'[y] \in Asking
    BY <1>o, <2>1
  <2>3. x \notin Lockers(e) /\ x \in Lockers(e)' /\ x \notin Waiters(e)
    BY <1>w, <2>1 DEF Lockers, Locking, Asking
  <2>4. Lockers(e)' = Lockers(e) \cup {x} BY <2>2, <2>3
  <2>5. PICK l \in LockType(Actors) : l = ent[e].lock BY <1>0
  <2>6. LockFits(e) BY DEF LocksFit
  <2>7. CASE l.permits = 1
    <3>1. Lockers(e) = {} /\ Waiters(e) = {} BY <2>5, <2>6, <2>7 DEF LockFits
    <3>2. ent'[e].lock.permits = 0 /\ ent'[e].lock.queue = l.queue
      BY <2>1, <2>5, <2>7 DEF LockRequest, LockIsFree, LockType
    <3>3. Waiters(e)' = {} BY <2>5, <3>1, <3>2 DEF Waiters
    <3>4. Lockers(e)' = {x} BY <2>4, <3>1
    <3>5. Len(l.queue) = 0
      <4>1. Len(l.queue) \in Nat BY DEF LockType
      <4>2. ~(1 \in 1..Len(l.queue)) BY <2>5, <3>1 DEF Waiters
      <4> QED BY <4>1, <4>2
    <3>6. LockFits(e)' BY <3>2, <3>3, <3>4, <3>5 DEF LockFits
    <3> QED BY <2>2, <3>6 DEF LocksFit
  <2>8. CASE l.permits = 0
    <3>1. ent'[e].lock.permits = 0 /\ ent'[e].lock.queue = Append(l.queue, x)
      BY <2>1, <2>5, <2>8 DEF LockRequest, LockIsFree, LockType
    <3>2. /\ Len(l.queue) \in Nat /\ Len(Append(l.queue, x)) = Len(l.queue) + 1
          /\ \A i \in 1..Len(l.queue) : Append(l.queue, x)[i] = l.queue[i]
          /\ Append(l.queue, x)[Len(l.queue) + 1] = x
      BY DEF LockType
    <3>3. Waiters(e)' = Waiters(e) \cup {x}
      <4>1. Waiters(e) = {l.queue[i] : i \in 1..Len(l.queue)} BY <2>5 DEF Waiters
      <4>2. Waiters(e)' = {Append(l.queue, x)[i] : i \in 1..(Len(l.queue) + 1)}
        BY <3>1, <3>2 DEF Waiters
      <4>3. \A i \in 1..(Len(l.queue) + 1) : i \in 1..Len(l.queue) \/ i = Len(l.queue) + 1
        BY <3>2
      <4>4. \A i \in 1..Len(l.queue) : i \in 1..(Len(l.queue) + 1)
        BY <3>2
      <4>5. Len(l.queue) + 1 \in 1..(Len(l.queue) + 1) BY <3>2
      <4> QED BY <3>2, <4>1, <4>2, <4>3, <4>4, <4>5
    <3>4. \A i, j \in 1..Len(ent'[e].lock.queue) : ent'[e].lock.queue[i] = ent'[e].lock.queue[j] => i = j
      <4> SUFFICES ASSUME NEW i \in 1..(Len(l.queue) + 1), NEW j \in 1..(Len(l.queue) + 1),
                          Append(l.queue, x)[i] = Append(l.queue, x)[j]
                   PROVE  i = j
        BY <3>1, <3>2
      <4>1. \A k \in 1..Len(l.queue) : l.queue[k] # x BY <2>3, <2>5 DEF Waiters
      <4>2. \A k, m \in 1..Len(l.queue) : l.queue[k] = l.queue[m] => k = m
        BY <2>5, <2>6 DEF LockFits
      <4>3. \A k \in 1..(Len(l.queue) + 1) : k \in 1..Len(l.queue) \/ k = Len(l.queue) + 1
        BY <3>2
      <4> QED BY <3>2, <4>1, <4>2, <4>3
    <3>5. \A y \in Waiters(e)' : y \in Lockers(e)' /\ pc'[y] \in Asking
      BY <2>1, <2>2, <2>4, <2>6, <3>3 DEF LockFits
    <3>6. PICK h \in Lockers(e) : Lockers(e) \ Waiters(e) = {h} BY <2>5, <2>6, <2>8 DEF LockFits
    <3>7. h \in Lockers(e)' /\ Lockers(e)' \ Waiters(e)' = {h} BY <2>3, <2>4, <3>3, <3>6
    <3>8. LockFits(e)' BY <3>1, <3>4, <3>5, <3>7 DEF LockFits
    <3> QED BY <2>2, <3>8 DEF LocksFit
  <2> QED BY <2>5, <2>6, <2>7, <2>8 DEF LockFits
<1>4. ASSUME NEW x \in Actors, NEW e \in Entries, Releases(x, e) PROVE LocksFit'
  <2>1. /\ pc[x] \in Locking /\ (pc[x] \in Asking => Granted(x)) /\ at[x] = e /\ pc'[x] \notin Locking
        /\ ent'[e].lock = LockRelease(ent[e].lock)
        /\ SameLocks(Entries \ {e}) /\ \A y \in Actors \ {x} : Still(y)
    BY <1>4 DEF Releases
  <2>2. /\ \A d \in Entries \ {e} : LockFits(d)'
        /\ Lockers(e)' \ {x} = Lockers(e) \ {x}
        /\ \A y \in Waiters(e) \ {x} : pc'[y] \in Asking
    BY <1>o, <2>1
  <2>3. /\ x \notin Waiters(e) /\ ent[e].lock.permits = 0 /\ Lockers(e) = {x} \cup Waiters(e)
    BY <2>1, NotWaiting
  <2>4. Lockers(e)' = Waiters(e)
    BY <2>1, <2>2, <2>3 DEF Lockers
  <2>5. PICK l \in LockType(Actors) : l = ent[e].lock BY <1>0
  <2>6. Len(l.queue) \in Nat /\ Waiters(e) = {l.queue[i] : i \in 1..Len(l.queue)}
    BY <2>5 DEF LockType, Waiters
  <2>7. \A i, j \in 1..Len(l.queue) : l.queue[i] = l.queue[j] => i = j
    BY <2>5 DEF LocksFit, LockFits
  <2>8. CASE l.queue = << >>
    <3>1. ent'[e].lock.permits = 1 /\ ent'[e].lock.queue = << >>
      <4>1. ~UnlockHandsOver(l) BY <2>8 DEF UnlockHandsOver
      <4>2. LockRelease(l) = [l EXCEPT !.permits = @ + 1] BY <4>1 DEF LockRelease
      <4>3. l.permits = 0 BY <2>3, <2>5
      <4> QED BY <2>1, <2>5, <2>8, <4>2, <4>3 DEF LockType
    <3>2. Lockers(e)' = {} /\ Waiters(e)' = {}
      <4>1. Len(<< >>) = 0 /\ 1..0 = {} OBVIOUS
      <4>2. Waiters(e) = {} BY <2>6, <2>8, <4>1
      <4>3. Waiters(e)' = {} BY <3>1, <4>1 DEF Waiters
      <4> QED BY <2>4, <4>2, <4>3
    <3>3. LockFits(e)' BY <3>1, <3>2 DEF LockFits
    <3> QED BY <2>2, <3>3 DEF LocksFit
  <2>9. CASE l.queue # << >>
    <3>1. ent'[e].lock.permits = 0 /\ ent'[e].lock.queue = Tail(l.queue)
      BY <2>1, <2>3, <2>5, <2>9 DEF LockRelease, UnlockHandsOver, LockType
    <3>2. /\ Len(Tail(l.queue)) = Len(l.queue) - 1 /\ Len(l.queue) \in Nat \ {0}
          /\ \A i \in 1..(Len(l.queue) - 1) : Tail(l.queue)[i] = l.queue[i + 1]
      BY <2>9 DEF LockType
    <3>3. /\ \A i \in 1..(Len(l.queue) - 1) : i + 1 \in 1..Len(l.queue) /\ i + 1 # 1
          /\ \A k \in 1..Len(l.queue) : k = 1 \/ \E i \in 1..(Len(l.queue) - 1) : k = i + 1
          /\ 1 \in 1..Len(l.queue)
      <4>1. \A k \in 1..Len(l.queue) : k = 1 \/ (k - 1 \in 1..(Len(l.queue) - 1) /\ k = k - 1 + 1)
        BY <3>2
      <4>2. \A i \in 1..(Len(l.queue) - 1) : i + 1 \in 1..Len(l.queue) /\ i + 1 # 1
        BY <3>2
      <4>3. 1 \in 1..Len(l.queue) BY <3>2
      <4>4. \A k \in 1..Len(l.queue) : k = 1 \/ \E i \in 1..(Len(l.queue) - 1) : k = i + 1
        <5>1. SUFFICES ASSUME NEW k \in 1..Len(l.queue), k # 1
                       PROVE  \E i \in 1..(Len(l.queue) - 1) : k = i + 1
          OBVIOUS
        <5>2. k - 1 \in 1..(Len(l.queue) - 1) /\ k = k - 1 + 1 BY <4>1, <5>1
        <5> QED BY <5>2
      <4> QED BY <4>2, <4>3, <4>4
    <3>4. Waiters(e)' = {Tail(l.queue)[i] : i \in 1..(Len(l.queue) - 1)}
      BY <3>1, <3>2 DEF Waiters
    <3>5. Waiters(e)' = Waiters(e) \ {l.queue[1]} /\ l.queue[1] \in Waiters(e)
      <4>1. \A y \in Waiters(e)' : y \in Waiters(e) /\ y # l.queue[1]
        BY <2>6, <2>7, <3>2, <3>3, <3>4
      <4>2. ASSUME NEW y \in Waiters(e), y # l.queue[1] PROVE y \in Waiters(e)'
        <5>1. PICK k \in 1..Len(l.queue) : y = l.queue[k] BY <2>6
        <5>2. PICK i \in 1..(Len(l.queue) - 1) : k = i + 1 BY <3>3, <4>2, <5>1
        <5> QED BY <3>2, <3>4, <5>1, <5>2
      <4>3. l.queue[1] \in Waiters(e) BY <2>6, <3>3
      <4> QED BY <4>1, <4>2, <4>3
    <3>6. \A i, j \in 1..Len(ent'[e].lock.queue) : ent'[e].lock.queue[i] = ent'[e].lock.queue[j] => i = j
      <4> SUFFICES ASSUME NEW i \in 1..(Len(l.queue) - 1), NEW j \in 1..(Len(l.queue) - 1),
                          Tail(l.queue)[i] = Tail(l.queue)[j]
                   PROVE  i = j
        BY <3>1, <3>2
      <4>1. l.queue[i + 1] = l.queue[j + 1] BY <3>2
      <4>2. i + 1 = j + 1 BY <2>7, <3>3, <4>1
      <4> QED BY <4>2
    <3>7. \A y \in Waiters(e)' : y \in Lockers(e)' /\ pc'[y] \in Asking
      BY <2>2, <2>3, <2>4, <3>5
    <3>8. l.queue[1] \in Lockers(e)' /\ Lockers(e)' \ Waiters(e)' = {l.queue[1]}
      BY <2>4, <3>5
    <3>9. LockFits(e)' BY <3>1, <3>6, <3>7, <3>8 DEF LockFits
    <3> QED BY <2>2, <3>9 DEF LocksFit
  <2> QED BY <2>8, <2>9
<1>5. ASSUME NEW x \in Actors, NEW e \in Entries, Registers(x, e) PROVE LocksFit'
  <2>1. /\ e = created + 1 /\ pc[x] \notin Locking /\ pc'[x] = "replaying" /\ at'[x] = e
        /\ ent'[e].lock = [permits |-> 0, queue |-> << >>]
        /\ SameLocks(Entries \ {e}) /\ \A y \in Actors \ {x} : Still(y)
    BY <1>5 DEF Registers
  <2>2. /\ \A d \in Entries \ {e} : LockFits(d)'
        /\ Lockers(e)' \ {x} = Lockers(e) \ {x}
    BY <1>o, <2>1
  <2>3. Lockers(e) = {}
    <3>1. created \in Nat /\ \A y \in Actors : at[y] <= created /\ at[y] \in Nat
      BY DEF TypeInv, PlacesTyped
    <3>2. \A y \in Actors : at[y] # e BY <2>1, <3>1
    <3> QED BY <3>2 DEF Lockers
  <2>4. Lockers(e)' = {x}
    <3>1. x \in Lockers(e)' BY <2>1 DEF Lockers, Locking
    <3> QED BY <2>2, <2>3, <3>1
  <2>5. ent'[e].lock.permits = 0 /\ ent'[e].lock.queue = << >> BY <2>1
  <2>6. Waiters(e)' = {} BY <2>5 DEF Waiters
  <2>7. LockFits(e)' BY <2>4, <2>5, <2>6 DEF LockFits
  <2> QED BY <2>2, <2>7 DEF LocksFit
<1>6. CASE Restart
  <2>1. \A y \in Actors : pc'[y] \notin Locking
    BY <1>6 DEF Restart, Locking, Ended
  <2>2. ASSUME NEW e \in Entries PROVE LockFits(e)'
    <3>1. ent'[e].lock.permits = 1 /\ ent'[e].lock.queue = << >>
      BY <1>6, RestartEffect DEF FreeLock
    <3>2. Waiters(e)' = {} /\ Lockers(e)' = {} BY <2>1, <3>1 DEF Waiters, Lockers
    <3> QED BY <3>1, <3>2 DEF LockFits
  <2> QED BY <2>2 DEF LocksFit
<1> QED BY <1>2, <1>3, <1>4, <1>5, <1>6, LockSteps

LEMMA LocksFitHolds == Spec => [](TypeInv /\ LocksFit)
<1>1. ASSUME Init PROVE LocksFit
  <2>1. ASSUME NEW e \in Entries PROVE LockFits(e)
    <3>1. ent[e].lock.permits = 1 /\ ent[e].lock.queue = << >>
      BY <1>1, NoEntryTyped DEF Init, FreeLock
    <3>2. \A x \in Actors : pc[x] \notin Locking BY <1>1 DEF Init, Locking
    <3>3. Waiters(e) = {} /\ Lockers(e) = {} BY <3>1, <3>2 DEF Waiters, Lockers
    <3> QED BY <3>1, <3>3 DEF LockFits
  <2> QED BY <2>1 DEF LocksFit
<1>2. TypeInv /\ LocksFit /\ [Next]_vars => LocksFit'
  <2>1. TypeInv /\ LocksFit /\ Next => LocksFit' BY LocksKept
  <2>2. LocksFit /\ UNCHANGED vars => LocksFit'
    BY DEF LocksFit, LockFits, Lockers, Waiters, vars
  <2> QED BY <2>1, <2>2
<1> QED BY <1>1, <1>2, TypeInvHolds, PTL DEF Spec

(* At most one task or loop is under an entry's lock at a time, and the    *)
(* lock is taken only as long as one is: it is released on every path of   *)
(* every critical section of agentSystem.ts.                               *)
UnderLock(x) == pc[x] \in Locking /\ Granted(x)
EntryLocksExclude ==
  /\ \A x, y \in Actors : UnderLock(x) /\ UnderLock(y) /\ at[x] = at[y] => x = y
  /\ \A e \in Entries : LockIsIdle(e) \/ \E x \in Actors : UnderLock(x) /\ at[x] = e

THEOREM EntryLocksHeldByOne == Spec => []EntryLocksExclude
<1>1. ASSUME TypeInv, LocksFit PROVE EntryLocksExclude
  <2>1. ASSUME NEW x \in Actors, NEW y \in Actors, UnderLock(x), UnderLock(y), at[x] = at[y]
        PROVE  x = y
    <3>1. x \in Lockers(at[x]) /\ x \notin Waiters(at[x])
          /\ y \in Lockers(at[x]) /\ y \notin Waiters(at[x])
          /\ Lockers(at[x]) = {x} \cup Waiters(at[x])
      BY <1>1, <2>1, NotWaiting DEF UnderLock
    <3> QED BY <3>1
  <2>2. ASSUME NEW e \in Entries, ~LockIsIdle(e)
        PROVE  \E x \in Actors : UnderLock(x) /\ at[x] = e
    <3>1. LockFits(e) /\ ent[e].lock.permits # 1
      BY <1>1, <2>2 DEF LocksFit, LockIsIdle, LockIsFree
    <3>2. PICK h \in Lockers(e) : Lockers(e) \ Waiters(e) = {h} BY <3>1 DEF LockFits
    <3>3. h \in Actors /\ pc[h] \in Locking /\ at[h] = e /\ h \notin Waiters(e)
      BY <3>2 DEF Lockers
    <3> QED BY <3>3 DEF UnderLock, Granted, Waiters
  <2> QED BY <2>1, <2>2 DEF EntryLocksExclude
<1> QED BY <1>1, LocksFitHolds, PTL

-----------------------------------------------------------------------------
(* Death.  A task that has declared the agent dead stays where it did.     *)

Killing == {"draining", "killClear", "done"}

LEMMA KillersStay ==
  ASSUME TypeInv, Next
  PROVE  Killed => Killed'
<1>0. pc \in [Actors -> Steps] /\ Killers \cup {Pill} \subseteq Tasks /\ Tasks \cap Entries = {}
      /\ Killers \cup {Pill} \subseteq Actors
  BY Kinds DEF TypeInv, PlacesTyped, Tasks
<1>k. SUFFICES ASSUME NEW y \in Killers \cup {Pill}, pc[y] \in Killing PROVE pc'[y] \in Killing
  BY DEF Killed, Killing
<1>m. \A x \in Actors : pc[x] \in Locking \cup {"resolved"} => at[x] \in Entries
  BY Captured DEF TypeInv
<1>g. ASSUME NEW x, NEW step, Goes(x, step), pc[x] \notin Killing \/ step = "done"
      PROVE  pc'[y] \in Killing
  BY <1>0, <1>k, <1>g DEF Goes, Killing
<1>s. ASSUME NEW x \in Tasks, NEW step, at[x] \in Entries, pc[x] \notin Killing,
             pc' = Started(at[x], [pc EXCEPT ![x] = step])
      PROVE  pc'[y] \in Killing
  BY <1>0, <1>k, <1>s DEF Started
<1> USE DEF Killing, Locking
<1>1. ASSUME NEW x \in Tasks, Resolving(x) \/ Steer(x) \/ KillLoaded(x) \/ KillUnloaded(x)
      PROVE  pc'[y] \in Killing
  <2>1. pc[x] = "idle" /\ \E step : Goes(x, step)
    BY <1>1 DEF Resolving, ResolveLoaded, RestoreRead, Steer, KillLoaded, KillUnloaded
  <2> QED BY <1>g, <2>1
<1>2. CASE PillDue \/ PillFires \/ PillHandled
  <2>1. pc[Pill] \in {"idle", "due", "posted"} /\ \E step : Goes(Pill, step)
    BY <1>2 DEF PillDue, PillFires, PillHandled
  <2> QED BY <1>g, <2>1
<1>3. ASSUME NEW x \in Tasks, TaskStep(x)
      PROVE  pc'[y] \in Killing
  <2>0. x \in Actors BY Kinds
  <2> USE <1>g, <1>s, <1>m, <2>0
  <2>1. CASE RestoreRegister(x) BY <2>1 DEF RestoreRegister
  <2>2. CASE ReplayRead(x) BY <2>2 DEF ReplayRead
  <2>3. CASE ReplayQueue(x) BY <2>3 DEF ReplayQueue
  <2>4. CASE EnterLock(x) BY <2>4 DEF EnterLock
  <2>5. CASE WakeAndInsert(x) BY <2>5 DEF WakeAndInsert
  <2>6. CASE WakeOnly(x)
    <3>1. CASE x \in Steerers BY <2>6, <3>1 DEF WakeOnly
    <3>2. CASE x \notin Steerers BY <2>6, <3>2 DEF WakeOnly, Goes
    <3> QED BY <3>1, <3>2
  <2>7. CASE InsertRow(x) BY <2>7 DEF InsertRow
  <2>8. CASE Enqueue(x)
    <3>1. at[x] \in Entries /\ pc[x] = "enqueueing" BY <2>8 DEF Enqueue
    <3> QED BY <1>0, <1>k, <2>8, <3>1 DEF Enqueue, Started
  <2>9. CASE EnqueueMerged(x) BY <2>9 DEF EnqueueMerged
  <2>10. CASE MergeDelete(x) BY <2>10 DEF MergeDelete
  <2>11. CASE MergeUpsert(x) BY <2>11 DEF MergeUpsert
  <2>12. CASE StartTask(x) BY <2>12 DEF StartTask
  <2>13. CASE EndTask(x) BY <2>13 DEF EndTask
  <2>14. CASE MarkDead(x) BY <2>14 DEF MarkDead
  <2>15. CASE Drain(x) BY <2>15 DEF Drain
  <2>16. CASE KillWrite(x) BY <2>16 DEF KillWrite
  <2>17. CASE KillClear(x) BY <2>17 DEF KillClear
  <2> QED BY <1>3, <2>1, <2>2, <2>3, <2>4, <2>5, <2>6, <2>7, <2>8, <2>9, <2>10, <2>11, <2>12,
         <2>13, <2>14, <2>15, <2>16, <2>17 DEF TaskStep
<1>4. ASSUME NEW e \in Entries, LoopStep(e)
      PROVE  pc'[y] \in Killing
  <2>1. pc[e] \notin Killing /\ \E step : Goes(e, step)
    BY <1>4 DEF LoopStep, LoopNext, HandleRestore, Record, OpenTurn, CloseTurn, FinishTurn,
                FailTurn, InTurn, Answer
  <2> QED BY <1>g, <2>1
<1>5. ASSUME NEW x \in Actors, SleepStep(x)
      PROVE  pc'[y] \in Killing
  <2>1. pc[x] \notin Killing /\ \E step : Goes(x, step)
    BY <1>5 DEF SleepStep, SleepRequest, FallAsleep, SchedulePoisonPill, WantsSleep
  <2> QED BY <1>g, <2>1
<1>6. CASE Restart
  BY <1>0, <1>6, <1>k DEF Restart, Ended
<1> QED BY <1>1, <1>2, <1>3, <1>4, <1>5, <1>6 DEF Next

(* Only killers and the timer kill, only runners run code beside the loop. *)
RoleFits(x, step) ==
  /\ step \in {"killing", "draining", "killWrite", "killClear"} => x \in Killers \cup {Pill}
  /\ step \in {"executing", "executed", "handled", "idling", "scheduling"} => x \in Runners
Roles == \A x \in Tasks : RoleFits(x, pc[x])

LEMMA RolesKept ==
  ASSUME TypeInv, Roles, Next
  PROVE  Roles'
<1>0. pc \in [Actors -> Steps] /\ Tasks \subseteq Actors /\ Tasks \cap Entries = {}
  BY Kinds DEF TypeInv, PlacesTyped, Tasks
<1>m. \A x \in Actors : pc[x] \in Locking \cup {"resolved"} => at[x] \in Entries
  BY Captured DEF TypeInv
<1>g. ASSUME NEW x \in Tasks, NEW step, Goes(x, step), RoleFits(x, step)
      PROVE  Roles'
  BY <1>0, <1>g DEF Goes, Roles, RoleFits
<1>s. ASSUME NEW x \in Tasks, NEW step \in {"resolved", "done", "posted"}, at[x] \in Entries,
             pc' = Started(at[x], [pc EXCEPT ![x] = step])
      PROVE  Roles'
  BY <1>0, <1>s DEF Started, Roles, RoleFits
<1>e. ASSUME NEW e \in Entries, NEW step, Goes(e, step)
      PROVE  Roles'
  BY <1>0, <1>e DEF Goes, Roles, RoleFits
<1> USE DEF Locking
<1>1. ASSUME NEW x \in Tasks, Resolving(x) \/ Steer(x) \/ KillLoaded(x) \/ KillUnloaded(x)
      PROVE  Roles'
  <2>1. \/ \E step \in {"rejected", "resolved", "restoring", "waking"} : Goes(x, step)
        \/ x \in Killers /\ \E step \in {"killing", "killWrite"} : Goes(x, step)
    BY <1>1 DEF Resolving, ResolveLoaded, RestoreRead, Steer, KillLoaded, KillUnloaded
  <2> QED BY <1>g, <2>1 DEF RoleFits
<1>2. CASE PillDue \/ PillFires \/ PillHandled
  <2>1. \E step \in {"due", "idle", "resolved", "killing", "done", "killWrite"} : Goes(Pill, step)
    BY <1>2 DEF PillDue, PillFires, PillHandled
  <2> QED BY <1>g, <2>1, Kinds DEF RoleFits
<1>3. ASSUME NEW x \in Tasks, TaskStep(x)
      PROVE  Roles'
  <2>0. x \in Actors /\ RoleFits(x, pc[x]) BY Kinds DEF Roles
  <2> USE <1>g, <1>s, <1>m, <2>0 DEF RoleFits
  <2>1. CASE RestoreRegister(x) BY <2>1 DEF RestoreRegister
  <2>2. CASE ReplayRead(x) BY <2>2 DEF ReplayRead
  <2>3. CASE ReplayQueue(x) BY <2>3 DEF ReplayQueue
  <2>4. CASE EnterLock(x) BY <2>4 DEF EnterLock
  <2>5. CASE WakeAndInsert(x) BY <2>5 DEF WakeAndInsert
  <2>6. CASE WakeOnly(x)
    <3>1. CASE x \in Steerers BY <2>6, <3>1 DEF WakeOnly
    <3>2. CASE x \notin Steerers BY <2>6, <3>2 DEF WakeOnly, Goes
    <3> QED BY <3>1, <3>2
  <2>7. CASE InsertRow(x) BY <2>7 DEF InsertRow
  <2>8. CASE Enqueue(x)
    <3>1. at[x] \in Entries BY <2>8 DEF Enqueue
    <3>2. \A y \in Tasks : pc'[y] \in {pc[y], "posted"} BY <1>0, <2>8, <3>1 DEF Enqueue, Started
    <3> QED BY <3>2 DEF Roles
  <2>9. CASE EnqueueMerged(x) BY <2>9 DEF EnqueueMerged
  <2>10. CASE MergeDelete(x) BY <2>10 DEF MergeDelete
  <2>11. CASE MergeUpsert(x) BY <2>11 DEF MergeUpsert
  <2>12. CASE StartTask(x) BY <2>12 DEF StartTask
  <2>13. CASE EndTask(x) BY <2>13 DEF EndTask
  <2>14. CASE MarkDead(x) BY <2>14 DEF MarkDead
  <2>15. CASE Drain(x) BY <2>15 DEF Drain
  <2>16. CASE KillWrite(x) BY <2>16 DEF KillWrite
  <2>17. CASE KillClear(x) BY <2>17 DEF KillClear
  <2> QED BY <1>3, <2>1, <2>2, <2>3, <2>4, <2>5, <2>6, <2>7, <2>8, <2>9, <2>10, <2>11, <2>12,
         <2>13, <2>14, <2>15, <2>16, <2>17 DEF TaskStep
<1>4. ASSUME NEW e \in Entries, LoopStep(e)
      PROVE  Roles'
  <2>1. \E step : Goes(e, step)
    BY <1>4 DEF LoopStep, LoopNext, HandleRestore, Record, OpenTurn, CloseTurn, FinishTurn,
                FailTurn, Answer
  <2> QED BY <1>e, <2>1
<1>5. ASSUME NEW x \in Actors, SleepStep(x)
      PROVE  Roles'
  <2>1. /\ pc[x] \in {"handled", "idling", "scheduling"}
        /\ \E step \in {"idling", "scheduling", "answering", "done"} : Goes(x, step)
    BY <1>5 DEF SleepStep, SleepRequest, FallAsleep, SchedulePoisonPill, WantsSleep, AfterSleep
  <2>2. CASE x \in Entries BY <1>e, <2>1, <2>2
  <2>3. CASE x \in Tasks
    <3>1. x \in Runners BY <2>1, <2>3 DEF Roles, RoleFits
    <3> QED BY <1>g, <2>1, <2>3, <3>1 DEF RoleFits
  <2> QED BY <2>2, <2>3 DEF Actors
<1>6. CASE Restart
  <2>1. \A x \in Tasks : pc'[x] \in Ended \cup {"idle"} BY <1>0, <1>6 DEF Restart, Ended
  <2> QED BY <2>1 DEF Roles, RoleFits, Ended
<1> QED BY <1>1, <1>2, <1>3, <1>4, <1>5, <1>6 DEF Next

-----------------------------------------------------------------------------
(* An agent that is restored once at a time.  restoreAgent() is not        *)
(* single-flight; as long as two restores do not overlap, only one entry   *)
(* is made between two restarts, and what it says of the lifecycle is what *)
(* the database says.  Who holds the lock of the entry knows if it sleeps. *)

OneEntry == created <= 1

StepFits(step, read) ==
  /\ step = "restoring" => read = "sleeping"
  /\ step \in {"replaying", "queueing", "scheduling"} => life = "sleeping"
  /\ step \in {"inserting", "enqueueing", "mergeDelete", "mergeUpsert"} => life = "active"

PillFits ==
  ~Killed =>
    /\ life # "dead"
    /\ created = 0 => map = 0 /\ life = "sleeping"
    /\ created = 1 => map = 1 /\ ent[1].state = life
    /\ pillTimer => life = "sleeping"
    /\ \A x \in Actors : StepFits(pc[x], seen[x])

LEMMA AtTheEntry ==
  ASSUME TypeInv, OneEntry
  PROVE  /\ created \in {0, 1} /\ map \in 0..created /\ 1 \in Entries
         /\ map # 0 => map = 1 /\ created = 1
         /\ \A x \in Actors : at[x] # 0 => at[x] = 1 /\ created = 1
         /\ \A x \in Actors : pc[x] \in Locking \cup {"resolved"} => at[x] = 1 /\ created = 1
         /\ \A e \in Entries : pc[e] # "off" => e = 1 /\ created = 1
<1>1. created \in {0, 1} /\ map \in 0..created /\ 1 \in Entries
  BY Kinds DEF TypeInv, PlacesTyped, OneEntry
<1>2. \A e \in Entries : e \in Nat /\ e # 0 BY Kinds
<1>3. \A x \in Actors : at[x] # 0 => at[x] = 1 /\ created = 1
  BY <1>1, <1>2, Captured DEF TypeInv
<1>4. \A e \in Entries : pc[e] # "off" => e = 1 /\ created = 1
  BY <1>1, <1>2 DEF TypeInv, PlacesTyped, Placed
<1> QED BY <1>1, <1>3, <1>4 DEF TypeInv, PlacesTyped, Placed

LEMMA AloneUnderLock ==
  ASSUME TypeInv, LocksFit, OneEntry, NEW x \in Actors, pc[x] \in Locking, pc[x] \notin Asking \/ Granted(x)
  PROVE  /\ at[x] = 1 /\ created = 1
         /\ \A y \in Actors \ {x} : pc[y] \notin Locking \ Asking
<1>0. at[x] = 1 /\ created = 1 BY AtTheEntry
<1>1. Lockers(1) = {x} \cup Waiters(1) BY <1>0, NotWaiting
<1>2. \A y \in Waiters(1) : pc[y] \in Asking BY AtTheEntry DEF LocksFit, LockFits
<1>3. SUFFICES ASSUME NEW y \in Actors \ {x}, pc[y] \in Locking \ Asking PROVE FALSE
  BY <1>0
<1>4. y \in Lockers(1) BY <1>3, AtTheEntry DEF Lockers
<1> QED BY <1>1, <1>2, <1>3, <1>4

LEMMA PillKept ==
  ASSUME TypeInv, LocksFit, Roles, OneEntry, PillFits, Next, OneEntry'
  PROVE  PillFits'
<1> SUFFICES ASSUME ~Killed, ~Killed' PROVE PillFits'
  BY KillersStay DEF PillFits
<1>0. /\ pc \in [Actors -> Steps] /\ seen \in [Actors -> Lifecycles \cup {Nothing, "woke"}]
      /\ Tasks \subseteq Actors /\ Entries \subseteq Actors /\ Tasks \cap Entries = {}
      /\ created \in {0, 1} /\ map \in 0..created /\ 1 \in Entries
      /\ EntriesTyped /\ ent \in [Entries -> EntryRecords] /\ pillTimer \in BOOLEAN
  BY Kinds DEF TypeInv, PlacesTyped, SeenTyped, FlagsTyped, OneEntry, EntriesTyped
<1>p. /\ life # "dead"
      /\ created = 0 => map = 0 /\ life = "sleeping"
      /\ created = 1 => map = 1 /\ ent[1].state = life
      /\ pillTimer => life = "sleeping"
      /\ \A x \in Actors : StepFits(pc[x], seen[x])
  BY DEF PillFits
<1>m. /\ map # 0 => map = 1 /\ created = 1
      /\ \A x \in Actors : at[x] # 0 => at[x] = 1 /\ created = 1
      /\ \A x \in Actors : pc[x] \in Locking \cup {"resolved"} => at[x] = 1 /\ created = 1
      /\ \A e \in Entries : pc[e] # "off" => e = 1 /\ created = 1
  BY AtTheEntry
(* Nobody else is under the lock.                                          *)
<1>x. ASSUME NEW x \in Actors, pc[x] \in Locking, pc[x] \notin Asking \/ Granted(x)
      PROVE  \A y \in Actors \ {x} : pc[y] \notin Locking \ Asking
  BY <1>x, AloneUnderLock
(* A step that changes neither the lifecycle nor what the entry says.      *)
<1>q. ASSUME NEW x \in Actors, life' = life, map' = map, created' = created,
             ent'[1].state = ent[1].state, pillTimer' => pillTimer \/ life = "sleeping",
             \A y \in Actors \ {x} : seen'[y] = seen[y] /\ (pc'[y] = pc[y] \/ pc'[y] \in {"next", "taken"}),
             StepFits(pc'[x], seen'[x])
      PROVE  PillFits'
  <2>1. \A y \in Actors : /\ pc'[y] = "restoring" => seen'[y] = "sleeping"
                          /\ pc'[y] \in {"replaying", "queueing", "scheduling"} => life = "sleeping"
                          /\ pc'[y] \in {"inserting", "enqueueing", "mergeDelete", "mergeUpsert"} => life = "active"
    BY <1>p, <1>q DEF StepFits
  <2>2. \A y \in Actors : StepFits(pc[y], seen[y])'
    BY <1>q, <2>1 DEF StepFits
  <2> QED BY <1>p, <1>q, <2>2 DEF PillFits
<1>g. ASSUME NEW x \in Actors, NEW step, Goes(x, step), UNCHANGED <<life, map, created, seen>>,
             ent'[1].state = ent[1].state, pillTimer' => pillTimer \/ life = "sleeping",
             StepFits(step, seen[x])
      PROVE  PillFits'
  <2>1. pc'[x] = step /\ \A y \in Actors \ {x} : pc'[y] = pc[y] BY <1>0, <1>g DEF Goes
  <2> QED BY <1>g, <1>q, <2>1
<1>t. ASSUME NEW e \in Entries, NEW x \in Actors,
             ent' = Requested(e, x) \/ ent' = Terminated(e, x) \/ (e = at[x] /\ ent' = Unlocked(ent, x))
      PROVE  ent'[1].state = ent[1].state
  <2>1. /\ ent' = Requested(e, x) => SameBut(ent'[e], ent[e]) /\ \A d \in Entries \ {e} : ent'[d] = ent[d]
        /\ ent' = Terminated(e, x) => ent'[e].state = ent[e].state /\ \A d \in Entries \ {e} : ent'[d] = ent[d]
    BY <1>0, Requesting, Terminating
  <2>2. e = at[x] /\ ent' = Unlocked(ent, x)
        => SameBut(ent'[e], ent[e]) /\ \A d \in Entries \ {e} : ent'[d] = ent[d]
    BY <1>0, Unlocking
  <2> QED BY <1>0, <1>t, <2>1, <2>2 DEF SameBut
<1>1. ASSUME NEW x \in Tasks, Resolving(x) \/ Steer(x) \/ KillLoaded(x) \/ KillUnloaded(x)
      PROVE  PillFits'
  <2>0. x \in Actors BY Kinds
  <2>1. CASE ResolveLoaded(x)
    BY <1>g, <2>0, <2>1 DEF ResolveLoaded, StepFits, durableVars, noted
  <2>2. CASE RestoreRead(x)
    <3>1. /\ seen' = [seen EXCEPT ![x] = life] /\ pc' = [pc EXCEPT ![x] = "restoring"]
          /\ UNCHANGED <<life, map, created, ent, pillTimer>> /\ map = 0
      BY <2>2 DEF RestoreRead, Goes, durableVars
    <3>2. life = "sleeping" BY <1>0, <1>p, <3>1
    <3>3. seen'[x] = "sleeping" /\ pc'[x] = "restoring"
          /\ \A y \in Actors \ {x} : seen'[y] = seen[y] /\ pc'[y] = pc[y]
      BY <1>0, <2>0, <3>1, <3>2
    <3> QED BY <1>q, <2>0, <3>1, <3>3 DEF StepFits
  <2>3. CASE Steer(x)
    <3>1. UNCHANGED ent \/ ent' = Requested(1, x) BY <1>m, <2>3 DEF Steer
    <3>2. ent'[1].state = ent[1].state BY <1>0, <1>t, <2>0, <3>1
    <3> QED BY <1>g, <2>0, <2>3, <3>2 DEF Steer, StepFits, durableVars, noted
  <2>4. CASE KillLoaded(x)
    <3>1. ent' = Terminated(1, x) BY <1>m, <2>4 DEF KillLoaded
    <3>2. ent'[1].state = ent[1].state BY <1>0, <1>t, <2>0, <3>1
    <3> QED BY <1>g, <2>0, <2>4, <3>2 DEF KillLoaded, StepFits, durableVars, noted
  <2>5. CASE KillUnloaded(x)
    <3>1. /\ seen' = [seen EXCEPT ![x] = life] /\ pc' = [pc EXCEPT ![x] = "killWrite"]
          /\ UNCHANGED <<life, map, created, ent, pillTimer>>
      BY <2>5 DEF KillUnloaded, Goes, durableVars
    <3>2. pc'[x] = "killWrite" /\ \A y \in Actors \ {x} : seen'[y] = seen[y] /\ pc'[y] = pc[y]
      BY <1>0, <2>0, <3>1
    <3> QED BY <1>q, <2>0, <3>1, <3>2 DEF StepFits
  <2> QED BY <1>1, <2>1, <2>2, <2>3, <2>4, <2>5 DEF Resolving
<1>2. CASE PillDue \/ PillFires \/ PillHandled
  <2>0. Pill \in Actors BY Kinds
  <2>1. CASE PillDue
    BY <1>g, <2>0, <2>1 DEF PillDue, StepFits, durableVars, noted
  <2>2. CASE PillFires
    <3>1. (pillTimer' => pillTimer) /\ UNCHANGED <<life, map, created>>
      <4>1. pillTimer' = FALSE \/ pillTimer' = pillTimer BY <2>2 DEF PillFires
      <4>2. CASE pillTimer' = FALSE BY <2>2, <4>2 DEF PillFires
      <4>3. CASE pillTimer' = pillTimer BY <2>2, <4>3 DEF PillFires
      <4> QED BY <4>1, <4>2, <4>3
    <3>2. CASE UNCHANGED seen
      <4>1. \/ UNCHANGED ent \/ ent' = Terminated(1, Pill)
            \/ ent' = [ent EXCEPT ![1].terminating = TRUE]
        BY <1>m, <2>2, <3>2 DEF PillFires
      <4>2. ent'[1].state = ent[1].state
        <5>1. ent' = [ent EXCEPT ![1].terminating = TRUE] => ent'[1].state = ent[1].state
          BY <1>0 DEF EntryRecords
        <5> QED BY <1>0, <1>t, <2>0, <4>1, <5>1
      <4>3. \E step \in {"idle", "resolved", "killing", "done", "killWrite"} : Goes(Pill, step)
        BY <2>2 DEF PillFires
      <4> QED BY <1>g, <2>0, <3>1, <3>2, <4>2, <4>3 DEF StepFits
    <3>3. CASE seen' = [seen EXCEPT ![Pill] = life] /\ UNCHANGED ent
      <4>1. PICK step \in {"idle", "resolved", "killing", "done", "killWrite"} : pc' = [pc EXCEPT ![Pill] = step]
        BY <2>2 DEF PillFires, Goes
      <4>2. pc'[Pill] = step /\ \A y \in Actors \ {Pill} : seen'[y] = seen[y] /\ pc'[y] = pc[y]
        BY <1>0, <2>0, <3>3, <4>1
      <4> QED BY <1>q, <2>0, <3>1, <3>3, <4>2 DEF StepFits
    <3> QED BY <2>2, <3>2, <3>3 DEF PillFires
  <2>3. CASE PillHandled
    <3>1. at[Pill] = 1 BY <1>m, <2>0, <2>3 DEF PillHandled, TypeInv, PlacesTyped, Placed
    <3>2. ent'[1].state = ent[1].state BY <1>0, <1>t, <2>0, <2>3, <3>1 DEF PillHandled
    <3> QED BY <1>g, <2>0, <2>3, <3>2 DEF PillHandled, StepFits, durableVars, noted
  <2> QED BY <1>2, <2>1, <2>2, <2>3
<1>3. ASSUME NEW x \in Tasks, TaskStep(x)
      PROVE  PillFits'
  <2>0. /\ x \in Actors /\ StepFits(pc[x], seen[x])
        /\ pc[x] \in Locking \cup {"resolved"} => at[x] = 1 /\ created = 1 /\ map = 1 /\ ent[1].state = life
    BY <1>m, <1>p, Kinds
  <2> USE DEF durableVars, noted
  <2>1. CASE RestoreRegister(x)
    <3>1. CASE created' = created
      <4>1. /\ pc' = [pc EXCEPT ![x] = "rejected"] /\ seen' = [seen EXCEPT ![x] = Nothing]
            /\ UNCHANGED <<life, map, created, ent, pillTimer>>
        BY <1>0, <2>1, <3>1 DEF RestoreRegister, Goes
      <4>2. pc'[x] = "rejected" /\ \A y \in Actors \ {x} : seen'[y] = seen[y] /\ pc'[y] = pc[y]
        BY <1>0, <2>0, <4>1
      <4> QED BY <1>q, <2>0, <4>1, <4>2 DEF StepFits
    <3>2. CASE created' # created
      <4>1. created = 0 /\ created' = 1 /\ map' = 1 /\ ent'[1].state = seen[x]
        <5>1. created' = created + 1 /\ map' = created' /\ ent'[created'].state = seen[x]
          BY <2>1, <3>2, RegisterEffect
        <5>2. created' = 1 BY <1>0, <5>1 DEF OneEntry
        <5> QED BY <1>0, <5>1, <5>2
      <4>2. seen[x] = "sleeping" /\ life = "sleeping" /\ UNCHANGED <<life, pillTimer>>
            /\ seen' = [seen EXCEPT ![x] = Nothing]
        BY <1>p, <2>0, <2>1, <4>1 DEF RestoreRegister, StepFits
      <4>3. Goes(x, "replaying") BY <2>1, <3>2, RegisterEffect
      <4>4. pc'[x] = "replaying" /\ \A y \in Actors \ {x} : seen'[y] = seen[y] /\ pc'[y] = pc[y]
        BY <1>0, <2>0, <4>2, <4>3 DEF Goes
      <4>5. \A y \in Actors : StepFits(pc[y], seen[y])'
        BY <1>p, <4>2, <4>4 DEF StepFits
      <4> QED BY <1>p, <4>1, <4>2, <4>5 DEF PillFits
    <3> QED BY <3>1, <3>2
  <2>2. CASE ReplayRead(x)
    BY <1>g, <2>0, <2>2 DEF ReplayRead, StepFits
  <2>3. CASE ReplayQueue(x)
    <3>1. ent'[1].state = ent[1].state BY <1>0, <2>3, ReplayEffect
    <3>2. pc'[x] = "resolved" /\ \A y \in Actors \ {x} : pc'[y] = pc[y] \/ pc'[y] \in {"next", "taken"}
      BY <1>0, <2>0, <2>3 DEF ReplayQueue, Started, Locking
    <3> QED BY <1>q, <2>0, <2>3, <3>1, <3>2 DEF ReplayQueue, StepFits
  <2>4. CASE EnterLock(x)
    <3>1. ent'[1].state = ent[1].state BY <1>0, <1>t, <2>0, <2>4 DEF EnterLock
    <3> QED BY <1>g, <2>0, <2>4, <3>1 DEF EnterLock, StepFits
  <2>5. CASE WakeAndInsert(x)
    <3>0. pc[x] = "waking" /\ Granted(x) /\ Goes(x, "inserting") /\ at[x] = 1 /\ created = 1 /\ map = 1
          /\ UNCHANGED <<map, created, seen>> /\ ent[1].state = life
      BY <2>0, <2>5 DEF WakeAndInsert, Locking
    <3>1. \A y \in Actors \ {x} : pc[y] \notin Locking \ Asking
      BY <1>x, <2>0, <3>0 DEF Locking, Asking
    <3>2. life' = "active" /\ ent'[1].state = "active" /\ ~pillTimer'
      <4>1. CASE ent[1].state = "sleeping"
        BY <1>0, <2>5, <3>0, <4>1 DEF WakeAndInsert, WokenIfSleeping, EntryRecords
      <4>2. CASE ent[1].state # "sleeping"
        <5>1. UNCHANGED <<ent, life, pillTimer>> BY <2>5, <3>0, <4>2 DEF WakeAndInsert, WokenIfSleeping
        <5>2. life = "active" BY <1>0, <1>p, <3>0, <4>2 DEF EntryRecords, Lifecycles
        <5> QED BY <1>p, <3>0, <5>1, <5>2
      <4> QED BY <4>1, <4>2
    <3>3. pc'[x] = "inserting" /\ \A y \in Actors \ {x} : pc'[y] = pc[y]
      BY <1>0, <2>0, <3>0 DEF Goes
    <3>4. \A y \in Actors : StepFits(pc[y], seen[y])'
      BY <1>p, <3>0, <3>1, <3>2, <3>3 DEF StepFits, Locking, Asking
    <3> QED BY <1>p, <3>0, <3>2, <3>4 DEF PillFits
  <2>6. CASE WakeOnly(x)
    <3>0. pc[x] = "waking" /\ Granted(x) /\ at[x] = 1 /\ created = 1 /\ map = 1
          /\ UNCHANGED <<map, created>> /\ ent[1].state = life
      BY <2>0, <2>6 DEF WakeOnly, Locking
    <3>1. \A y \in Actors \ {x} : pc[y] \notin Locking \ Asking
      BY <1>x, <2>0, <3>0 DEF Locking, Asking
    <3>2. life \in {"active", "sleeping"}
      BY <1>p DEF TypeInv, FlagsTyped, Lifecycles
    <3>3. life' = "active" BY <2>6, <3>0, <3>2 DEF WakeOnly
    <3>4. ~pillTimer'
      <4>1. pillTimer' = (pillTimer /\ ~(ent[1].state = "sleeping")) BY <2>6, <3>0 DEF WakeOnly
      <4>2. pillTimer => ent[1].state = "sleeping" BY <1>p, <3>0
      <4> QED BY <4>1, <4>2
    <3>5. ent'[1].state = "active"
      <4>1. PICK awake : /\ ent' = Unlocked(awake, x)
                         /\ awake = [ent EXCEPT ![1].state =
                              IF ent[1].state = "sleeping" THEN "active" ELSE @]
        BY <2>6, <3>0 DEF WakeOnly
      <4>2. awake = [ent EXCEPT ![1].state = "active"]
        BY <3>0, <3>2, <4>1
      <4>3. awake \in [Entries -> EntryRecords] /\ awake[1].state = "active"
        BY <1>0, <4>2, StateSet DEF Lifecycles
      <4>4. SameBut(Unlocked(awake, x)[1], awake[1])
        BY <1>0, <2>0, <3>0, <4>3, Unlocking
      <4> QED BY <4>1, <4>3, <4>4 DEF SameBut
    <3>6. pc'[x] \in {"done", "executing"} /\ \A y \in Actors \ {x} : pc'[y] = pc[y] \/ pc'[y] \in {"next", "taken"}
      BY <1>0, <2>0, <2>6, <3>0 DEF WakeOnly, Started
    <3>7. \A y \in Actors \ {x} : seen'[y] = seen[y]
      BY <1>0, <2>6 DEF WakeOnly
    <3>8. \A y \in Actors : StepFits(pc[y], seen[y])'
      BY <1>p, <3>1, <3>3, <3>6, <3>7 DEF StepFits, Locking, Asking
    <3> QED BY <3>0, <3>3, <3>4, <3>5, <3>8 DEF PillFits
  <2>7. CASE InsertRow(x)
    BY <1>g, <2>0, <2>7 DEF InsertRow, StepFits
  <2>8. CASE Enqueue(x)
    <3>1. ent'[1].state = ent[1].state BY <1>0, <2>8, EnqueueEffect
    <3>2. pc'[x] = "posted" /\ \A y \in Actors \ {x} : pc'[y] = pc[y] \/ pc'[y] \in {"next", "taken"}
      BY <1>0, <2>0, <2>8 DEF Enqueue, Started, Locking
    <3> QED BY <1>q, <2>0, <2>8, <3>1, <3>2 DEF Enqueue, StepFits
  <2>9. CASE EnqueueMerged(x)
    <3>1. ent'[1].state = ent[1].state BY <1>0, <2>9, EnqueueMergedEffect
    <3> QED BY <1>g, <2>0, <2>9, <3>1 DEF EnqueueMerged, StepFits
  <2>10. CASE MergeDelete(x)
    BY <1>g, <2>0, <2>10 DEF MergeDelete, StepFits
  <2>11. CASE MergeUpsert(x)
    <3>1. ent'[1].state = ent[1].state BY <1>0, <1>t, <2>0, <2>11 DEF MergeUpsert, Locking
    <3>2. pc'[x] = "posted" /\ \A y \in Actors \ {x} : pc'[y] = pc[y] \/ pc'[y] \in {"next", "taken"}
      BY <1>0, <2>0, <2>11 DEF MergeUpsert, Started, Locking
    <3> QED BY <1>q, <2>0, <2>11, <3>1, <3>2 DEF MergeUpsert, StepFits
  <2>12. CASE StartTask(x)
    BY <1>g, <2>0, <2>12 DEF StartTask, StepFits
  <2>13. CASE EndTask(x)
    <3>1. pc'[x] \in {"handled", "done"} /\ \A y \in Actors \ {x} : seen'[y] = seen[y] /\ pc'[y] = pc[y]
      BY <1>0, <2>0, <2>13 DEF EndTask, Goes
    <3> QED BY <1>q, <2>0, <2>13, <3>1 DEF EndTask, StepFits
  <2>14. CASE MarkDead(x) \/ KillWrite(x)
    <3>1. pc'[x] \in {"done", "draining", "killClear"} BY <1>0, <2>0, <2>14 DEF MarkDead, KillWrite, Goes
    <3>2. x \in Killers \cup {Pill} BY <2>14 DEF MarkDead, KillWrite, Roles, RoleFits
    <3> QED BY <3>1, <3>2 DEF Killed
  <2>15. CASE Drain(x) \/ KillClear(x)
    <3>2. x \in Killers \cup {Pill} /\ pc[x] \in {"draining", "killClear"}
      BY <2>15 DEF Drain, KillClear, Roles, RoleFits
    <3> QED BY <3>2 DEF Killed
  <2> QED BY <1>3, <2>1, <2>2, <2>3, <2>4, <2>5, <2>6, <2>7, <2>8, <2>9, <2>10, <2>11, <2>12,
         <2>13, <2>14, <2>15 DEF TaskStep
<1>4. ASSUME NEW e \in Entries, LoopStep(e)
      PROVE  PillFits'
  <2>0. e \in Actors /\ pc[e] # "off"
    BY <1>4, Kinds DEF LoopStep, LoopNext, HandleRestore, Record, OpenTurn, CloseTurn, FinishTurn,
                FailTurn, InTurn, Answer
  <2>1. e = 1 /\ ent[e].state = life BY <1>m, <1>p, <2>0
  <2>2. ent'[1].state = ent[1].state
    <3>1. CASE UNCHANGED ent BY <3>1
    <3>2. CASE LoopNext(e) BY <1>0, <3>2, LoopNextEffect
    <3>3. CASE Answer(e) BY <1>0, <3>3, AnswerEffect
    <3> QED BY <1>4, <3>1, <3>2, <3>3 DEF LoopStep, HandleRestore, Record, OpenTurn, CloseTurn,
                FinishTurn, FailTurn
  <2>3. /\ UNCHANGED <<life, map, created, seen, pillTimer>>
        /\ \E step \in LoopSteps \ {"scheduling"} : Goes(e, step)
    BY <1>4, <2>1 DEF LoopStep, LoopNext, HandleRestore, Record, OpenTurn, CloseTurn, FinishTurn,
                FailTurn, Answer, LoopSteps, durableVars, noted
  <2> QED BY <1>g, <2>0, <2>2, <2>3 DEF StepFits, LoopSteps
<1>5. ASSUME NEW x \in Actors, SleepStep(x)
      PROVE  PillFits'
  <2>0. /\ AfterSleep(x) \in {"answering", "done"} /\ StepFits(pc[x], seen[x])
        /\ pc[x] \in Locking => at[x] = 1 /\ created = 1 /\ map = 1 /\ ent[1].state = life
    BY <1>m, <1>p DEF AfterSleep
  <2> USE DEF durableVars, noted
  <2>1. CASE SleepRequest(x)
    <3>1. UNCHANGED ent \/ ent' = Requested(1, x) BY <1>m, <2>1 DEF SleepRequest
    <3>2. ent'[1].state = ent[1].state BY <1>0, <1>t, <3>1
    <3> QED BY <1>g, <2>0, <2>1, <3>2 DEF SleepRequest, StepFits
  <2>2. CASE FallAsleep(x)
    <3>0. pc[x] = "idling" /\ Granted(x) /\ at[x] = 1 /\ created = 1 /\ map = 1
          /\ UNCHANGED <<map, created, seen, pillTimer>> /\ ent[1].state = life
      BY <2>0, <2>2 DEF FallAsleep, Locking
    <3>1. CASE StaysAwake(at[x])
      <4>1. UNCHANGED life /\ ent' = Unlocked(ent, x) /\ Goes(x, AfterSleep(x))
        BY <2>2, <3>1 DEF FallAsleep
      <4>2. ent'[1].state = ent[1].state BY <1>0, <1>t, <3>0, <4>1
      <4> QED BY <1>g, <2>0, <3>0, <4>1, <4>2 DEF StepFits
    <3>2. CASE ~StaysAwake(at[x])
      <4>1. life' = "sleeping" /\ ent' = [ent EXCEPT ![1].state = "sleeping"] /\ Goes(x, "scheduling")
        BY <2>2, <3>0, <3>2 DEF FallAsleep
      <4>2. ent'[1].state = "sleeping" BY <1>0, <4>1, StateSet DEF Lifecycles
      <4>3. \A y \in Actors \ {x} : pc[y] \notin Locking \ Asking
        BY <1>x, <3>0 DEF Locking, Asking
      <4>4. pc'[x] = "scheduling" /\ \A y \in Actors \ {x} : pc'[y] = pc[y]
        BY <1>0, <4>1 DEF Goes
      <4>5. \A y \in Actors : StepFits(pc[y], seen[y])'
        BY <1>p, <3>0, <4>1, <4>3, <4>4 DEF StepFits, Locking, Asking
      <4> QED BY <3>0, <4>1, <4>2, <4>5 DEF PillFits
    <3> QED BY <3>1, <3>2
  <2>3. CASE SchedulePoisonPill(x)
    <3>1. life = "sleeping" BY <2>0, <2>3 DEF SchedulePoisonPill, StepFits
    <3>2. ent'[1].state = ent[1].state BY <1>0, <1>t, <2>0, <2>3 DEF SchedulePoisonPill, Locking
    <3> QED BY <1>g, <2>0, <2>3, <3>1, <3>2 DEF SchedulePoisonPill, StepFits
  <2> QED BY <1>5, <2>1, <2>2, <2>3 DEF SleepStep
<1>6. CASE Restart
  <2>1. life \in {"active", "sleeping"} /\ UNCHANGED life
    BY <1>6, <1>p DEF TypeInv, FlagsTyped, Lifecycles, Restart
  <2>2. /\ created' = (IF life = "active" THEN 1 ELSE 0) /\ map' = created'
        /\ ent'[1].state = "active"
    BY <1>0, <1>6, RestartEffect DEF Restart
  <2>3. pillTimer' => life = "sleeping"
    BY <1>6, <1>p, <2>1 DEF Restart
  <2>4. \A y \in Actors : pc'[y] \in Ended \cup {"idle", "next", "off"}
    BY <1>6 DEF Restart, Ended
  <2>5. \A y \in Actors : StepFits(pc[y], seen[y])'
    BY <2>4 DEF StepFits, Ended
  <2> QED BY <2>1, <2>2, <2>3, <2>5 DEF PillFits
<1> QED BY <1>1, <1>2, <1>3, <1>4, <1>5, <1>6 DEF Next

LEMMA PillFitsStays ==
  ASSUME TypeInv, LocksFit, Roles, OneEntry, PillFits, [Next]_vars, OneEntry'
  PROVE  PillFits'
<1>1. CASE Next BY <1>1, PillKept
<1>2. CASE UNCHANGED vars
  BY <1>2 DEF vars, durableVars, noted, ghostVars, PillFits, Killed, StepFits
<1> QED BY <1>1, <1>2

LEMMA RolesStay ==
  ASSUME TypeInv, Roles, [Next]_vars
  PROVE  Roles'
<1>1. CASE Next BY <1>1, RolesKept
<1>2. CASE UNCHANGED vars BY <1>2 DEF vars, Roles
<1> QED BY <1>1, <1>2

LEMMA PillInit ==
  ASSUME Init
  PROVE  Roles /\ PillFits
<1>0. 1 \in Entries /\ Tasks \cap Entries = {} BY Kinds
<1>1. \A x \in Actors : pc[x] \in {"idle", "off"} BY DEF Init
<1>2. \A x \in Tasks : pc[x] = "idle" BY DEF Init, Actors
<1>3. life \in {"active", "sleeping"} BY AgentSystemAssumption DEF Init
<1>4. \A x \in Actors : StepFits(pc[x], seen[x]) BY <1>1 DEF StepFits
<1>5. ent[1].state = "active" BY <1>0 DEF Init, NoEntry
<1>6. pillTimer => life = "sleeping" BY DEF Init
<1>7. map = (IF life = "active" THEN 1 ELSE 0) /\ created = map BY DEF Init
<1>8. Roles BY <1>2 DEF Roles, RoleFits, Ended
<1> QED BY <1>3, <1>4, <1>5, <1>6, <1>7, <1>8 DEF PillFits

LEMMA PillFitsHolds ==
  Spec /\ []OneEntry => [](TypeInv /\ LocksFit /\ Roles /\ PillFits)
<1>1. Init => Roles /\ PillFits BY PillInit
<1>2. TypeInv /\ Roles /\ [Next]_vars => Roles' BY RolesStay
<1>3. TypeInv /\ LocksFit /\ Roles /\ OneEntry /\ PillFits /\ [Next]_vars /\ OneEntry' => PillFits'
  BY PillFitsStays
<1> QED BY <1>1, <1>2, <1>3, LocksFitHolds, PTL DEF Spec

(* "interleaving that could leave stale idle lifecycle signals behind"     *)
(* (agentSystem.ts:617) is excluded, for any number of callers and         *)
(* restarts: when nobody is under the lock of the loaded agent, its        *)
(* poison-pill timer runs only if the agent sleeps.  The hypothesis: two   *)
(* restores do not overlap, so that one entry is made between restarts.    *)
THEOREM PillFollowsSleep == Spec /\ [](created <= 1) => []NoStalePill
<1>1. TypeInv /\ OneEntry /\ PillFits => NoStalePill
  <2> SUFFICES ASSUME TypeInv, OneEntry, PillFits, map # 0, pillTimer, ~Killed
               PROVE  ent[map].state = "sleeping"
    BY DEF NoStalePill
  <2>1. created \in {0, 1} /\ map \in 0..created BY DEF TypeInv, PlacesTyped, OneEntry
  <2>2. created = 1 /\ map = 1 BY <2>1
  <2> QED BY <2>2 DEF PillFits
<1> QED BY <1>1, PillFitsHolds, PTL DEF OneEntry
=============================================================================
