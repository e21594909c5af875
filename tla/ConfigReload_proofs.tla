------------------------ MODULE ConfigReload_proofs -------------------------
(***************************************************************************)
(* Proofs about ConfigReload, for any finite sets of sections and agents   *)
(* and any number of edits: the lock counts its holders, and from that the *)
(* strict quiescence of a reload and the preference for its writer.        *)
(***************************************************************************)
EXTENDS ConfigReload, FiniteSetTheorems, TLAPS

Inv == TypeOK /\ ReadersAccountedFor

PcType == [Readers -> {"out", "waitingOuter", "outer",
                       "waitingInner", "inner", "asking"}]

-----------------------------------------------------------------------------
(* The lock as a data type: what each method returns. *)

LEMMA ReadTaken ==
  ASSUME NEW l \in RWLockType(Readers, {Writer}), NEW r \in Readers, ReadAtOnce(l)
  PROVE  /\ AcquireRead(l, r) \in RWLockType(Readers, {Writer})
         /\ AcquireRead(l, r).activeReaders = l.activeReaders + 1
         /\ AcquireRead(l, r).writerActive = l.writerActive
         /\ AcquireRead(l, r).waitingReaders = l.waitingReaders
         /\ AcquireRead(l, r).waitingWriters = l.waitingWriters
         /\ ~l.writerActive
  BY DEF RWLockType, AcquireRead, ReadAtOnce

LEMMA ReadQueued ==
  ASSUME NEW l \in RWLockType(Readers, {Writer}), NEW r \in Readers, ~ReadAtOnce(l)
  PROVE  /\ AcquireRead(l, r) \in RWLockType(Readers, {Writer})
         /\ AcquireRead(l, r).activeReaders = l.activeReaders
         /\ AcquireRead(l, r).writerActive = l.writerActive
         /\ AcquireRead(l, r).waitingWriters = l.waitingWriters
         /\ Len(AcquireRead(l, r).waitingReaders) = Len(l.waitingReaders) + 1
         /\ \A i \in 1..Len(l.waitingReaders) :
              AcquireRead(l, r).waitingReaders[i] = l.waitingReaders[i]
         /\ AcquireRead(l, r).waitingReaders[Len(l.waitingReaders) + 1] = r
<1>1. AcquireRead(l, r) = [l EXCEPT !.waitingReaders = Append(l.waitingReaders, r)]
  BY DEF AcquireRead
<1>2. l.waitingReaders \in Seq(Readers) BY DEF RWLockType
<1>3. PICK q : q = Append(l.waitingReaders, r) OBVIOUS
<1>4. /\ q \in Seq(Readers) /\ Len(q) = Len(l.waitingReaders) + 1
      /\ \A i \in 1..Len(l.waitingReaders) : q[i] = l.waitingReaders[i]
      /\ q[Len(l.waitingReaders) + 1] = r
  BY <1>2, <1>3
<1>5. /\ AcquireRead(l, r) \in RWLockType(Readers, {Writer})
      /\ AcquireRead(l, r).activeReaders = l.activeReaders
      /\ AcquireRead(l, r).writerActive = l.writerActive
      /\ AcquireRead(l, r).waitingWriters = l.waitingWriters
      /\ AcquireRead(l, r).waitingReaders = q
  BY <1>1, <1>3, <1>4 DEF RWLockType
<1> QED BY <1>4, <1>5

LEMMA ReadReturned ==
  ASSUME NEW l \in RWLockType(Readers, {Writer}), l.activeReaders > 0, ~l.writerActive,
         \/ l.waitingWriters = << >>
         \/ l.waitingWriters = <<Writer>>
  PROVE  /\ ReleaseRead(l) \in RWLockType(Readers, {Writer})
         /\ ReleaseRead(l).activeReaders = l.activeReaders - 1
         /\ ReleaseRead(l).waitingReaders = l.waitingReaders
         /\ ReleaseReadWakesWriter(l) =>
              /\ ReleaseRead(l).activeReaders = 0
              /\ ReleaseRead(l).writerActive = TRUE
              /\ l.waitingWriters = <<Writer>>
              /\ ReleaseRead(l).waitingWriters = << >>
         /\ ~ReleaseReadWakesWriter(l) =>
              /\ ReleaseRead(l).writerActive = FALSE
              /\ ReleaseRead(l).waitingWriters = l.waitingWriters
<1>1. CASE l.activeReaders = 1 /\ l.waitingWriters = <<Writer>>
  <2>1. ReleaseReadWakesWriter(l)
    BY <1>1 DEF ReleaseReadWakesWriter
  <2>2. ReleaseRead(l) = [l EXCEPT !.activeReaders = @ - 1, !.writerActive = TRUE,
                                   !.waitingWriters = Tail(@)]
    BY <2>1 DEF ReleaseRead
  <2>3. Tail(l.waitingWriters) = << >>
    BY <1>1
  <2>4. << >> \in Seq({Writer})
    OBVIOUS
  <2>5. /\ ReleaseRead(l).activeReaders = l.activeReaders - 1
        /\ ReleaseRead(l).writerActive = TRUE
        /\ ReleaseRead(l).waitingReaders = l.waitingReaders
        /\ ReleaseRead(l).waitingWriters = << >>
    BY <2>2, <2>3 DEF RWLockType
  <2>6. ReleaseRead(l) \in RWLockType(Readers, {Writer})
    <3> DEFINE m == [l EXCEPT !.activeReaders = 0]
               n == [m EXCEPT !.writerActive = TRUE]
    <3>1. m \in RWLockType(Readers, {Writer})
      BY DEF RWLockType
    <3>2. n \in RWLockType(Readers, {Writer})
      <4> HIDE DEF m
      <4> QED BY <3>1 DEF RWLockType
    <3>3. [n EXCEPT !.waitingWriters = << >>] \in RWLockType(Readers, {Writer})
      <4> HIDE DEF n
      <4> QED BY <3>2, <2>4 DEF RWLockType
    <3>4. l.activeReaders - 1 = 0
      BY <1>1
    <3> QED BY <2>2, <2>3, <3>3, <3>4, Zenon
  <2> QED BY <1>1, <2>1, <2>5, <2>6
<1>2. CASE ~(l.activeReaders = 1 /\ l.waitingWriters = <<Writer>>)
  <2>1. ~ReleaseReadWakesWriter(l)
    BY <1>2 DEF ReleaseReadWakesWriter
  <2>2. ReleaseRead(l) = [l EXCEPT !.activeReaders = @ - 1]
    BY <2>1 DEF ReleaseRead
  <2> QED BY <2>1, <2>2 DEF RWLockType
<1> QED BY <1>1, <1>2

LEMMA WriteReturned ==
  ASSUME NEW l \in RWLockType(Readers, {Writer}), l.writerActive,
         l.waitingWriters = << >>
  PROVE  /\ ReleaseWrite(l) \in RWLockType(Readers, {Writer})
         /\ ReleaseWrite(l).activeReaders = l.activeReaders + Len(l.waitingReaders)
         /\ ReleaseWrite(l).writerActive = FALSE
         /\ ReleaseWrite(l).waitingReaders = << >>
         /\ ReleaseWrite(l).waitingWriters = << >>
         /\ ReleaseWriteWokenReaders(l) = ToSet(l.waitingReaders)
<1>1. ~ReleaseWriteWakesWriter(l)
  BY DEF ReleaseWriteWakesWriter
<1>2. ReleaseWrite(l) = [l EXCEPT !.writerActive = FALSE,
                                  !.activeReaders = @ + Len(l.waitingReaders),
                                  !.waitingReaders = << >>]
  BY <1>1 DEF ReleaseWrite
<1>3. ReleaseWriteWokenReaders(l) = ToSet(l.waitingReaders)
  BY <1>1 DEF ReleaseWriteWokenReaders
<1>4. << >> \in Seq(Readers) /\ Len(l.waitingReaders) \in Nat
  BY DEF RWLockType
<1>5. /\ ReleaseWrite(l).activeReaders = l.activeReaders + Len(l.waitingReaders)
      /\ ReleaseWrite(l).writerActive = FALSE
      /\ ReleaseWrite(l).waitingReaders = << >>
      /\ ReleaseWrite(l).waitingWriters = << >>
  BY <1>2 DEF RWLockType
<1>6. ReleaseWrite(l) \in RWLockType(Readers, {Writer})
  <2> DEFINE m == [l EXCEPT !.writerActive = FALSE]
             n == [m EXCEPT !.activeReaders = l.activeReaders + Len(l.waitingReaders)]
  <2>1. m \in RWLockType(Readers, {Writer})
    BY DEF RWLockType
  <2>2. n \in RWLockType(Readers, {Writer})
    <3> HIDE DEF m
    <3>1. l.activeReaders + Len(l.waitingReaders) \in Nat
      BY <1>4 DEF RWLockType
    <3> QED BY <2>1, <3>1 DEF RWLockType
  <2>3. [n EXCEPT !.waitingReaders = << >>] \in RWLockType(Readers, {Writer})
    <3> HIDE DEF n
    <3> QED BY <2>2, <1>4 DEF RWLockType
  <2> QED BY <1>2, <2>3, Zenon
<1> QED BY <1>3, <1>5, <1>6

LEMMA WriteRequested ==
  ASSUME NEW l \in RWLockType(Readers, {Writer}), l.waitingWriters = << >>,
         l.writerActive = FALSE
  PROVE  /\ AcquireWrite(l, Writer) \in RWLockType(Readers, {Writer})
         /\ AcquireWrite(l, Writer).activeReaders = l.activeReaders
         /\ AcquireWrite(l, Writer).waitingReaders = l.waitingReaders
         /\ WriteAtOnce(l) =>
              /\ AcquireWrite(l, Writer).writerActive = TRUE
              /\ AcquireWrite(l, Writer).waitingWriters = << >>
              /\ l.activeReaders = 0
         /\ ~WriteAtOnce(l) =>
              /\ AcquireWrite(l, Writer).writerActive = FALSE
              /\ AcquireWrite(l, Writer).waitingWriters = <<Writer>>
<1>1. CASE WriteAtOnce(l)
  <2>1. AcquireWrite(l, Writer) = [l EXCEPT !.writerActive = TRUE]
    BY <1>1 DEF AcquireWrite
  <2>2. l.activeReaders = 0
    BY <1>1 DEF WriteAtOnce
  <2> QED BY <1>1, <2>1, <2>2 DEF RWLockType
<1>2. CASE ~WriteAtOnce(l)
  <2>1. AcquireWrite(l, Writer) = [l EXCEPT !.waitingWriters = <<Writer>>]
    BY <1>2 DEF AcquireWrite, RWLockType
  <2>2. <<Writer>> \in Seq({Writer})
    OBVIOUS
  <2> QED BY <1>2, <2>1, <2>2 DEF RWLockType
<1> QED BY <1>1, <1>2

-----------------------------------------------------------------------------
(* Counting the read holds. *)

LEMMA HoldsFinite == ASSUME TypeOK PROVE IsFiniteSet(HoldSet)
<1>1. IsFiniteSet(Readers)
  BY ConfigReloadAssumption, FS_Union DEF Readers
<1>2. IsFiniteSet({1, 2})
  <2>1. {1, 2} = 1..2
    OBVIOUS
  <2>2. 1 \in Int /\ 2 \in Int
    OBVIOUS
  <2> QED BY <2>1, <2>2, FS_Interval, Zenon
<1>3. IsFiniteSet(Readers \X {1, 2})
  BY <1>1, <1>2, FS_Product
<1> QED BY <1>3, FS_Subset DEF HoldSet

(* A reader takes one hold more. *)
LEMMA OneHoldMore ==
  ASSUME TypeOK, NEW r \in Readers, Holds(r) \in {0, 1},
         Holds(r)' = Holds(r) + 1,
         \A q \in Readers \ {r} : Holds(q)' = Holds(q)
  PROVE  Cardinality(HoldSet)' = Cardinality(HoldSet) + 1
<1> DEFINE h == <<r, Holds(r) + 1>>
<1>1. h \notin HoldSet
  BY DEF HoldSet
<1>2. HoldSet' = HoldSet \cup {h}
  <2>1. ASSUME NEW g \in Readers \X {1, 2} PROVE g \in HoldSet' <=> g \in HoldSet \cup {h}
    <3>1. PICK q \in Readers, n \in {1, 2} : g = <<q, n>>
      OBVIOUS
    <3>2. CASE q = r
      BY <3>1, <3>2 DEF HoldSet
    <3>3. CASE q # r
      BY <3>1, <3>3 DEF HoldSet
    <3> QED BY <3>2, <3>3
  <2>2. h \in Readers \X {1, 2}
    OBVIOUS
  <2>3. HoldSet' \subseteq Readers \X {1, 2} /\ HoldSet \subseteq Readers \X {1, 2}
    BY DEF HoldSet
  <2> QED BY <2>1, <2>2, <2>3
<1> QED BY <1>1, <1>2, HoldsFinite, FS_AddElement

(* A reader gives one hold back. *)
LEMMA OneHoldLess ==
  ASSUME TypeOK, NEW r \in Readers, Holds(r) \in {1, 2},
         Holds(r)' = Holds(r) - 1,
         \A q \in Readers \ {r} : Holds(q)' = Holds(q)
  PROVE  Cardinality(HoldSet)' = Cardinality(HoldSet) - 1
<1> DEFINE h == <<r, Holds(r)>>
<1>1. h \in HoldSet
  BY DEF HoldSet
<1>2. HoldSet' = HoldSet \ {h}
  <2>1. ASSUME NEW g \in Readers \X {1, 2} PROVE g \in HoldSet' <=> g \in HoldSet \ {h}
    <3>1. PICK q \in Readers, n \in {1, 2} : g = <<q, n>>
      OBVIOUS
    <3>2. CASE q = r
      BY <3>1, <3>2 DEF HoldSet
    <3>3. CASE q # r
      BY <3>1, <3>3 DEF HoldSet
    <3> QED BY <3>2, <3>3
  <2>2. HoldSet' \subseteq Readers \X {1, 2} /\ HoldSet \subseteq Readers \X {1, 2}
    BY DEF HoldSet
  <2> QED BY <2>1, <2>2
<1> QED BY <1>1, <1>2, HoldsFinite, FS_RemoveElement

(* Nobody's holds change. *)
LEMMA SameHolds ==
  ASSUME \A q \in Readers : Holds(q)' = Holds(q)
  PROVE  HoldSet' = HoldSet
  BY DEF HoldSet

(* A reader inside is counted, so there is no writer. *)
LEMMA ReaderExcludesWriter ==
  ASSUME Inv, NEW r \in Readers, Reading(r)
  PROVE  lock.activeReaders > 0 /\ ~lock.writerActive /\ ~Writing
<1>1. <<r, 1>> \in HoldSet
  BY DEF HoldSet, Holds
<1>2. Cardinality(HoldSet) # 0
  BY <1>1, HoldsFinite, FS_EmptySet DEF Inv
<1> QED BY <1>2 DEF Inv, TypeOK, RWLockType, ReadersAccountedFor, LockCountsItsHolders

(* While the writer has the lock nobody reads. *)
LEMMA WriterExcludesReaders ==
  ASSUME Inv, Writing
  PROVE  /\ HoldSet = {} /\ lock.activeReaders = 0 /\ lock.writerActive
         /\ lock.waitingWriters = << >>
         /\ \A r \in Readers : ~Reading(r)
<1>1. \A r \in Readers : ~Reading(r)
  BY ReaderExcludesWriter
<1>2. \A r \in Readers : Holds(r) = 0
  BY <1>1 DEF Holds, Reading
<1>3. HoldSet = {}
  BY <1>2 DEF HoldSet
<1> QED BY <1>1, <1>3 DEF Inv, ReadersAccountedFor, LockCountsItsHolders, Writing

-----------------------------------------------------------------------------
(* The lock counts its holders: the four ways an action uses the lock. *)

LEMMA AcquireCounts ==
  ASSUME Inv, NEW r \in Readers, NEW in, NEW wait,
         \/ pc[r] = "out" /\ in = "outer" /\ wait = "waitingOuter"
         \/ pc[r] = "outer" /\ in = "inner" /\ wait = "waitingInner",
         lock' = AcquireRead(lock, r),
         pc' = [pc EXCEPT ![r] = IF ReadAtOnce(lock) THEN in ELSE wait],
         sync' = sync
  PROVE  /\ lock' \in RWLockType(Readers, {Writer})
         /\ pc' \in PcType
         /\ LockCountsItsHolders'
<1>1. /\ lock \in RWLockType(Readers, {Writer}) /\ pc \in PcType
      /\ LockCountsItsHolders
  BY DEF Inv, TypeOK, ReadersAccountedFor, PcType
<1>2. \A q \in Readers : pc'[q] = IF q # r THEN pc[q] ELSE IF ReadAtOnce(lock) THEN in ELSE wait
  BY <1>1 DEF PcType
<1>3. pc' \in PcType
  BY <1>1 DEF PcType
<1>4. Writing' = Writing
  BY DEF Writing
<1>5. CASE ReadAtOnce(lock)
  <2>1. \A q \in Readers \ {r} : Holds(q)' = Holds(q)
    BY <1>2 DEF Holds, Reading
  <2>2. Holds(r) \in {0, 1} /\ Holds(r)' = Holds(r) + 1
    BY <1>2, <1>5 DEF Holds, Reading
  <2>3. Cardinality(HoldSet)' = Cardinality(HoldSet) + 1
    BY <2>1, <2>2, OneHoldMore DEF Inv
  <2>4. \A q \in Readers : Waiting(q)' = Waiting(q)
    BY <1>2, <1>5 DEF Waiting
  <2>5. /\ lock' \in RWLockType(Readers, {Writer})
        /\ lock'.activeReaders = lock.activeReaders + 1
        /\ lock'.writerActive = lock.writerActive /\ ~lock.writerActive
        /\ lock'.waitingReaders = lock.waitingReaders
        /\ lock'.waitingWriters = lock.waitingWriters
    BY <1>1, <1>5, ReadTaken
  <2>6. lock'.activeReaders = Cardinality(HoldSet)'
    BY <1>1, <2>3, <2>5 DEF LockCountsItsHolders
  <2> QED BY <1>1, <1>3, <1>4, <2>4, <2>5, <2>6 DEF LockCountsItsHolders
<1>6. CASE ~ReadAtOnce(lock)
  <2>1. \A q \in Readers : Holds(q)' = Holds(q)
    BY <1>2, <1>6 DEF Holds, Reading
  <2>2. HoldSet' = HoldSet
    BY <2>1, SameHolds
  <2>3. \A q \in Readers : Waiting(q)' <=> Waiting(q) \/ q = r
    BY <1>2, <1>6 DEF Waiting
  <2>4. /\ lock' \in RWLockType(Readers, {Writer})
        /\ lock'.activeReaders = lock.activeReaders
        /\ lock'.writerActive = lock.writerActive
        /\ lock'.waitingWriters = lock.waitingWriters
        /\ Len(lock'.waitingReaders) = Len(lock.waitingReaders) + 1
        /\ \A i \in 1..Len(lock.waitingReaders) :
             lock'.waitingReaders[i] = lock.waitingReaders[i]
        /\ lock'.waitingReaders[Len(lock.waitingReaders) + 1] = r
    BY <1>1, <1>6, ReadQueued
  <2>5. ~Waiting(r)
    BY DEF Waiting
  <2>6. Len(lock.waitingReaders) \in Nat
    BY <1>1 DEF RWLockType
  <2>7. \A q \in Readers : Waiting(q)' <=>
          \E i \in 1..Len(lock'.waitingReaders) : lock'.waitingReaders[i] = q
    BY <1>1, <2>3, <2>4, <2>6 DEF LockCountsItsHolders
  <2>8. \A i, j \in 1..Len(lock'.waitingReaders) :
          lock'.waitingReaders[i] = lock'.waitingReaders[j] => i = j
    BY <1>1, <2>4, <2>5, <2>6 DEF LockCountsItsHolders
  <2> QED BY <1>1, <1>3, <1>4, <2>2, <2>4, <2>7, <2>8 DEF LockCountsItsHolders
<1> QED BY <1>5, <1>6

LEMMA ReleaseCounts ==
  ASSUME Inv, NEW r \in Readers, ReadHoldReleased,
         \/ pc[r] = "outer" /\ pc'[r] = "out"
         \/ pc[r] = "inner" /\ pc'[r] = "outer",
         \A q \in Readers \ {r} :
           pc'[q] = pc[q] \/ (pc[q] = "asking" /\ pc'[q] = "outer")
  PROVE  /\ lock' \in RWLockType(Readers, {Writer})
         /\ LockCountsItsHolders'
<1>1. lock \in RWLockType(Readers, {Writer}) /\ LockCountsItsHolders
  BY DEF Inv, TypeOK, ReadersAccountedFor
<1>2. lock.activeReaders > 0 /\ ~lock.writerActive /\ ~Writing
  BY ReaderExcludesWriter DEF Reading
<1>3. \A q \in Readers \ {r} : Holds(q)' = Holds(q)
  BY DEF Holds, Reading
<1>4. Holds(r) \in {1, 2} /\ Holds(r)' = Holds(r) - 1
  BY DEF Holds, Reading
<1>5. Cardinality(HoldSet)' = Cardinality(HoldSet) - 1
  BY <1>3, <1>4, OneHoldLess DEF Inv
<1>6. \A q \in Readers : Waiting(q)' = Waiting(q)
  BY DEF Waiting
<1>7. /\ lock' \in RWLockType(Readers, {Writer})
      /\ lock'.activeReaders = lock.activeReaders - 1
      /\ lock'.waitingReaders = lock.waitingReaders
      /\ ReleaseReadWakesWriter(lock) =>
           /\ lock'.activeReaders = 0 /\ lock'.writerActive = TRUE
           /\ lock.waitingWriters = <<Writer>> /\ lock'.waitingWriters = << >>
      /\ ~ReleaseReadWakesWriter(lock) =>
           /\ lock'.writerActive = FALSE /\ lock'.waitingWriters = lock.waitingWriters
  <2>1. \/ lock.waitingWriters = << >>
        \/ lock.waitingWriters = <<Writer>>
    BY <1>1 DEF LockCountsItsHolders
  <2> QED BY <1>1, <1>2, <2>1, ReadReturned DEF ReadHoldReleased
<1>10. lock'.activeReaders = Cardinality(HoldSet)'
  BY <1>1, <1>5, <1>7 DEF LockCountsItsHolders
<1>11. /\ \A q \in Readers : Waiting(q)' <=>
            \E i \in 1..Len(lock'.waitingReaders) : lock'.waitingReaders[i] = q
       /\ \A i, j \in 1..Len(lock'.waitingReaders) :
            lock'.waitingReaders[i] = lock'.waitingReaders[j] => i = j
  BY <1>1, <1>6, <1>7 DEF LockCountsItsHolders
<1>8. CASE ReleaseReadWakesWriter(lock)
  <2>1. sync' = "locked" /\ Writing' = TRUE
    BY <1>8 DEF ReadHoldReleased, Writing
  <2>2. lock'.writerActive = Writing' /\ lock'.activeReaders = 0
    BY <1>7, <1>8, <2>1
  <2>3. lock'.waitingWriters = IF sync' = "waitWrite" THEN <<Writer>> ELSE << >>
    BY <1>7, <1>8, <2>1
  <2> QED BY <1>7, <1>10, <1>11, <2>2, <2>3 DEF LockCountsItsHolders
<1>9. CASE ~ReleaseReadWakesWriter(lock)
  <2>1. sync' = sync /\ Writing' = FALSE
    BY <1>2, <1>9 DEF ReadHoldReleased, Writing
  <2>2. lock'.writerActive = Writing' /\ ~lock'.writerActive
    BY <1>7, <1>9, <2>1
  <2>3. lock'.waitingWriters = IF sync' = "waitWrite" THEN <<Writer>> ELSE << >>
    BY <1>1, <1>7, <1>9, <2>1 DEF LockCountsItsHolders
  <2> QED BY <1>7, <1>10, <1>11, <2>2, <2>3 DEF LockCountsItsHolders
<1> QED BY <1>8, <1>9

(* releaseWrite(): every waiting reader enters, each with one hold. *)
LEMMA WriteReleaseCounts ==
  ASSUME Inv, Writing, WriteHoldReleased, ~Writing', sync' # "waitWrite"
  PROVE  /\ lock' \in RWLockType(Readers, {Writer})
         /\ pc' \in PcType
         /\ LockCountsItsHolders'
<1> DEFINE w == lock.waitingReaders
           n == Len(w)
<1>1. /\ lock \in RWLockType(Readers, {Writer}) /\ pc \in PcType
      /\ LockCountsItsHolders
  BY DEF Inv, TypeOK, ReadersAccountedFor, PcType
<1>2. /\ lock.activeReaders = 0 /\ lock.writerActive /\ lock.waitingWriters = << >>
      /\ \A r \in Readers : ~Reading(r)
  BY WriterExcludesReaders
<1>3. /\ lock' \in RWLockType(Readers, {Writer})
      /\ lock'.activeReaders = n /\ lock'.writerActive = FALSE
      /\ lock'.waitingReaders = << >> /\ lock'.waitingWriters = << >>
      /\ ReleaseWriteWokenReaders(lock) = ToSet(w)
  <2>1. lock' = ReleaseWrite(lock)
    BY DEF WriteHoldReleased
  <2>2. n \in Nat /\ 0 + n = n
    BY <1>1 DEF RWLockType
  <2> QED BY <1>1, <1>2, <2>1, <2>2, WriteReturned
<1>4. n \in Nat /\ w \in [1..n -> Readers] /\ ToSet(w) = {w[i] : i \in 1..n}
  BY <1>1 DEF RWLockType, ToSet
<1>5. \A r \in Readers : r \in ToSet(w) <=> pc[r] = "waitingOuter"
  BY <1>1, <1>2, <1>4 DEF LockCountsItsHolders, Waiting, Reading
<1>6. \A r \in Readers : pc'[r] = IF pc[r] = "waitingOuter" THEN "outer" ELSE pc[r]
  BY <1>3, <1>5 DEF WriteHoldReleased
<1>7. pc' \in PcType
  BY <1>1, <1>3, <1>5 DEF WriteHoldReleased, PcType
<1>8. \A r \in Readers : Holds(r)' = IF r \in ToSet(w) THEN 1 ELSE 0
  BY <1>2, <1>5, <1>6 DEF Holds, Reading
<1>9. Cardinality(HoldSet)' = n
  <2> DEFINE f == [i \in 1..n |-> <<w[i], 1>>]
  <2>1. HoldSet' = {<<r, 1>> : r \in ToSet(w)}
    <3>1. ASSUME NEW r \in Readers, NEW k \in {1, 2}
          PROVE  <<r, k>> \in HoldSet' <=> r \in ToSet(w) /\ k = 1
      BY <1>8, <3>1 DEF HoldSet
    <3>2. ToSet(w) \subseteq Readers
      BY <1>4
    <3>3. HoldSet' \subseteq Readers \X {1, 2}
      BY DEF HoldSet
    <3>4. \A h \in HoldSet' : \E r \in ToSet(w) : h = <<r, 1>>
      <4> SUFFICES ASSUME NEW h \in HoldSet' PROVE \E r \in ToSet(w) : h = <<r, 1>>
        OBVIOUS
      <4>1. PICK r \in Readers, k \in {1, 2} : h = <<r, k>>
        BY <3>3
      <4> QED BY <3>1, <4>1
    <3>5. \A r \in ToSet(w) : <<r, 1>> \in HoldSet'
      BY <3>1, <3>2
    <3> QED BY <3>4, <3>5
  <2>2. f \in [1..n -> HoldSet']
    BY <1>4, <2>1
  <2>3. \A i, j \in 1..n : f[i] = f[j] => i = j
    BY <1>1 DEF LockCountsItsHolders
  <2>4. \A h \in HoldSet' : \E i \in 1..n : f[i] = h
    BY <1>4, <2>1
  <2>5. f \in Bijection(1..n, HoldSet')
    BY <2>2, <2>3, <2>4 DEF Bijection, Injection, Surjection, IsInjective
  <2>6. IsFiniteSet(1..n) /\ Cardinality(1..n) = n
    <3>1. 1 \in Int /\ n \in Int /\ (IF 1 > n THEN 0 ELSE n - 1 + 1) = n
      BY <1>4
    <3> HIDE DEF n
    <3> QED BY <3>1, FS_Interval, Zenon
  <2>7. ExistsBijection(1..n, HoldSet')
    BY <2>5 DEF ExistsBijection
  <2> QED BY <2>6, <2>7, FS_Bijection
<1>10. \A r \in Readers : ~Waiting(r)'
  BY <1>2, <1>6 DEF Waiting, Reading
<1>11. 1..Len(lock'.waitingReaders) = {}
  BY <1>3
<1>12. /\ lock'.writerActive = Writing' /\ ~lock'.writerActive
       /\ lock'.waitingWriters = IF sync' = "waitWrite" THEN <<Writer>> ELSE << >>
  <2>1. Writing' = FALSE
    BY DEF Writing
  <2> QED BY <1>3, <2>1
<1> QED BY <1>3, <1>7, <1>9, <1>10, <1>11, <1>12 DEF LockCountsItsHolders

(* An action that leaves the lock, the readers and its writer alone. *)
LEMMA LockUntouched ==
  ASSUME Inv, lock' = lock, \A q \in Readers : Holds(q)' = Holds(q),
         \A q \in Readers : Waiting(q)' = Waiting(q),
         Writing' = Writing, (sync' = "waitWrite") = (sync = "waitWrite")
  PROVE  LockCountsItsHolders'
<1>1. HoldSet' = HoldSet
  BY SameHolds
<1> QED BY <1>1 DEF Inv, ReadersAccountedFor, LockCountsItsHolders

-----------------------------------------------------------------------------
(* Every action preserves the invariant.  The parts that most of them      *)
(* leave alone come first.                                                 *)

SyncTypeOK ==
  /\ disk \in Versions /\ config \in Versions
  /\ modules \in Versions \cup {Torn}
  /\ sync \in {"idle", "start", "load", "compare", "waitWrite", "locked",
               "install", "applying", "backoff", "settle"}
  /\ loaded \in Versions
  /\ invalidated \in BOOLEAN /\ invalidatedDouble \in BOOLEAN
  /\ pendings \subseteq Callers
  /\ stopped \in BOOLEAN
  /\ caller \in [Callers -> {"idle", "waiting", "resolved", "released"}]
  /\ asked \in [Callers -> Versions]

ReaderTypeOK ==
  /\ lock \in RWLockType(Readers, {Writer})
  /\ pc \in PcType
  /\ serving \in [Agents -> Agents \cup {Nobody}]
  /\ asks \in [Agents -> SUBSET Agents]

LEMMA TypeParts == TypeOK <=> ReaderTypeOK /\ SyncTypeOK
  BY DEF TypeOK, ReaderTypeOK, SyncTypeOK, PcType

LEMMA InvParts ==
  Inv <=> /\ ReaderTypeOK /\ SyncTypeOK
          /\ LockCountsItsHolders /\ AsksAreOutstanding /\ OneDoSync
  BY TypeParts DEF Inv, ReadersAccountedFor

LEMMA InvPartsNext ==
  Inv' <=> /\ ReaderTypeOK' /\ SyncTypeOK'
           /\ LockCountsItsHolders' /\ AsksAreOutstanding' /\ OneDoSync'
  BY DEF TypeOK, ReaderTypeOK, SyncTypeOK, PcType, Inv, ReadersAccountedFor

(* No agent is in anybody's questions unless it waits for the answer. *)
LEMMA AsksKept ==
  ASSUME AsksAreOutstanding, UNCHANGED <<serving, asks>>,
         \A a \in Agents : pc[a] = "asking" => pc'[a] = "asking"
  PROVE  AsksAreOutstanding'
  BY DEF AsksAreOutstanding, AsksOf

LEMMA InitInv == Init => Inv
<1> SUFFICES ASSUME Init PROVE Inv
  OBVIOUS
<1>1. ReaderTypeOK
  <2>1. << >> \in Seq(Readers) /\ << >> \in Seq({Writer})
    OBVIOUS
  <2>2. UnlockedRW \in RWLockType(Readers, {Writer})
    BY <2>1 DEF UnlockedRW, RWLockType
  <2> QED BY <2>2 DEF Init, ReaderTypeOK, PcType
<1>6. SyncTypeOK
  <2>1. 0 \in Versions
    BY ConfigReloadAssumption DEF Versions
  <2> QED BY <2>1 DEF Init, SyncTypeOK
<1>2. HoldSet = {}
  BY DEF Init, HoldSet, Holds, Reading
<1>3. LockCountsItsHolders
  <2>1. /\ lock.activeReaders = 0 /\ lock.writerActive = FALSE
        /\ lock.waitingReaders = << >> /\ lock.waitingWriters = << >>
    BY DEF Init, UnlockedRW
  <2>2. lock.activeReaders = Cardinality(HoldSet)
    BY <1>2, <2>1, FS_EmptySet
  <2>3. Writing = FALSE /\ \A r \in Readers : Waiting(r) = FALSE
    BY DEF Init, Writing, Waiting
  <2>4. 1..Len(lock.waitingReaders) = {}
    BY <2>1
  <2>5. sync # "waitWrite"
    BY DEF Init
  <2> QED BY <2>1, <2>2, <2>3, <2>4, <2>5 DEF LockCountsItsHolders
<1>4. AsksAreOutstanding
  BY ConfigReloadAssumption DEF Init, AsksAreOutstanding, AsksOf, Readers
<1>5. OneDoSync
  BY DEF Init, OneDoSync
<1> QED BY <1>1, <1>3, <1>4, <1>5, <1>6, InvParts

LEMMA SectionInv ==
  ASSUME Inv, NEW s \in Sections, EnterSection(s) \/ LeaveSection(s)
  PROVE  Inv'
<1>1. s \in Readers /\ s \notin Agents
  BY ConfigReloadAssumption DEF Readers
<1>2. pc \in PcType
  BY InvParts DEF ReaderTypeOK
<1>3. CASE EnterSection(s)
  <2>1. /\ lock' \in RWLockType(Readers, {Writer}) /\ pc' \in PcType
        /\ LockCountsItsHolders'
    BY <1>1, <1>3, AcquireCounts DEF EnterSection
  <2>2. AsksAreOutstanding'
    BY <1>1, <1>2, <1>3, InvParts, AsksKept DEF EnterSection, PcType
  <2> QED BY <1>3, <2>1, <2>2, InvParts, InvPartsNext
          DEF EnterSection, configVars, syncVars, ReaderTypeOK, SyncTypeOK, OneDoSync
<1>4. CASE LeaveSection(s)
  <2>1. \A q \in Readers : pc'[q] = IF q = s THEN "out" ELSE pc[q]
    BY <1>2, <1>4 DEF LeaveSection, PcType
  <2>2. lock' \in RWLockType(Readers, {Writer}) /\ LockCountsItsHolders'
    BY <1>1, <1>4, <2>1, ReleaseCounts DEF LeaveSection
  <2>3. pc' \in PcType
    BY <1>2, <1>4 DEF LeaveSection, PcType
  <2>4. AsksAreOutstanding'
    BY <1>1, <2>1, <1>4, InvParts, AsksKept DEF LeaveSection, Readers
  <2>5. sync' \in {sync, "locked"} /\ (sync' # sync => sync = "waitWrite")
    BY <1>4, InvParts DEF LeaveSection, ReadHoldReleased, ReleaseReadWakesWriter,
                          LockCountsItsHolders
  <2> QED BY <1>4, <2>2, <2>3, <2>4, <2>5, InvParts, InvPartsNext
          DEF LeaveSection, configVars, syncVars, ReaderTypeOK, SyncTypeOK, OneDoSync
<1> QED BY <1>3, <1>4

LEMMA BeginItemInv ==
  ASSUME Inv, NEW a \in Agents, NEW from \in Agents \cup {Nobody}, BeginItem(a, from)
  PROVE  Inv'
<1>1. a \in Readers /\ Nobody \notin Agents
  BY ConfigReloadAssumption DEF Readers
<1>2. ReaderTypeOK /\ AsksAreOutstanding
  BY InvParts
<1>3. /\ lock' \in RWLockType(Readers, {Writer}) /\ pc' \in PcType
      /\ LockCountsItsHolders'
  BY <1>1, AcquireCounts DEF BeginItem
<1>4. /\ serving' = [serving EXCEPT ![a] = from]
      /\ asks' = [asks EXCEPT ![a] = @ \ {from}]
      /\ serving' \in [Agents -> Agents \cup {Nobody}]
      /\ asks' \in [Agents -> SUBSET Agents]
  BY <1>2 DEF BeginItem, ReaderTypeOK
<1>5. \A b \in Agents : AsksOf(b)' \cap Agents \subseteq AsksOf(b)
  BY <1>1, <1>2, <1>4 DEF AsksOf, BeginItem, ReaderTypeOK
<1>6. \A b \in Agents : b \in Readers /\ (pc[b] = "asking" => pc'[b] = "asking")
  BY <1>2 DEF BeginItem, ReaderTypeOK, PcType, Readers
<1>7. \A b \in Agents : serving'[b] \notin asks'[b]
  BY <1>2, <1>4 DEF AsksAreOutstanding, ReaderTypeOK
<1>8. AsksAreOutstanding'
  BY <1>2, <1>5, <1>6, <1>7 DEF AsksAreOutstanding
<1> QED BY <1>3, <1>4, <1>8, InvParts, InvPartsNext
        DEF BeginItem, configVars, syncVars, ReaderTypeOK, SyncTypeOK, OneDoSync

LEMMA EndItemInv ==
  ASSUME Inv, NEW a \in Agents, EndItem(a)
  PROVE  Inv'
<1>1. a \in Readers /\ Nobody \notin Readers /\ Agents \subseteq Readers
  BY ConfigReloadAssumption DEF Readers
<1>2. ReaderTypeOK /\ AsksAreOutstanding /\ pc[a] = "outer"
  BY InvParts DEF EndItem
<1>3. serving[a] \in Agents => pc[serving[a]] = "asking" /\ serving[a] # a
  BY <1>2 DEF AsksAreOutstanding, AsksOf
<1>4. \A q \in Readers : pc'[q] = IF q = a THEN "out"
                                  ELSE IF q = serving[a] THEN "outer" ELSE pc[q]
  BY DEF EndItem
<1>5. pc' \in PcType
  BY <1>2 DEF EndItem, ReaderTypeOK, PcType
<1>6. serving[a] \in Agents \cup {Nobody}
  BY <1>2 DEF ReaderTypeOK
<1>7. lock' \in RWLockType(Readers, {Writer}) /\ LockCountsItsHolders'
  <2>1. \A q \in Readers \ {a} :
          pc'[q] = pc[q] \/ (pc[q] = "asking" /\ pc'[q] = "outer")
    BY <1>1, <1>3, <1>4, <1>6
  <2>2. pc'[a] = "out"
    BY <1>1, <1>4
  <2>3. ReadHoldReleased
    BY DEF EndItem
  <2> QED BY <1>1, <1>2, <2>1, <2>2, <2>3, ReleaseCounts
<1>8. /\ asks' = asks /\ serving' = [serving EXCEPT ![a] = Nobody]
      /\ serving' \in [Agents -> Agents \cup {Nobody}]
  BY <1>2 DEF EndItem, ReaderTypeOK
<1>9. \A b, c \in Agents : c \in AsksOf(b)' => c \in AsksOf(b) /\ c # serving[a]
  BY <1>1, <1>2, <1>8 DEF AsksAreOutstanding, AsksOf, ReaderTypeOK
<1>10. \A b \in Agents : serving'[b] \notin asks'[b]
  BY <1>1, <1>2, <1>8 DEF AsksAreOutstanding, ReaderTypeOK
<1>11. AsksAreOutstanding'
  BY <1>1, <1>2, <1>4, <1>9, <1>10 DEF AsksAreOutstanding
<1>12. sync' \in {sync, "locked"} /\ (sync' # sync => sync = "waitWrite")
  BY InvParts DEF EndItem, ReadHoldReleased, ReleaseReadWakesWriter, LockCountsItsHolders
<1> QED BY <1>5, <1>7, <1>8, <1>11, <1>12, InvParts, InvPartsNext
        DEF EndItem, configVars, syncVars, ReaderTypeOK, SyncTypeOK, OneDoSync

LEMMA InferenceInv ==
  ASSUME Inv, NEW a \in Agents, BeginInference(a) \/ EndInference(a)
  PROVE  Inv'
<1>1. a \in Readers /\ Agents \subseteq Readers
  BY DEF Readers
<1>2. pc \in PcType
  BY InvParts DEF ReaderTypeOK
<1>3. CASE BeginInference(a)
  <2>1. /\ lock' \in RWLockType(Readers, {Writer}) /\ pc' \in PcType
        /\ LockCountsItsHolders'
    BY <1>1, <1>3, AcquireCounts DEF BeginInference
  <2>2. AsksAreOutstanding'
    BY <1>1, <1>2, <1>3, InvParts, AsksKept DEF BeginInference, PcType
  <2> QED BY <1>3, <2>1, <2>2, InvParts, InvPartsNext
          DEF BeginInference, configVars, syncVars, ReaderTypeOK, SyncTypeOK, OneDoSync
<1>4. CASE EndInference(a)
  <2>1. pc[a] = "inner" /\ \A q \in Readers : pc'[q] = IF q = a THEN "outer" ELSE pc[q]
    BY <1>2, <1>4 DEF EndInference, PcType
  <2>2. lock' \in RWLockType(Readers, {Writer}) /\ LockCountsItsHolders'
    BY <1>1, <1>4, <2>1, ReleaseCounts DEF EndInference
  <2>3. pc' \in PcType
    BY <1>2, <1>4 DEF EndInference, PcType
  <2>4. AsksAreOutstanding'
    BY <1>1, <2>1, <1>4, InvParts, AsksKept DEF EndInference
  <2>5. sync' \in {sync, "locked"} /\ (sync' # sync => sync = "waitWrite")
    BY <1>4, InvParts DEF EndInference, ReadHoldReleased, ReleaseReadWakesWriter,
                          LockCountsItsHolders
  <2> QED BY <1>4, <2>2, <2>3, <2>4, <2>5, InvParts, InvPartsNext
          DEF EndInference, configVars, syncVars, ReaderTypeOK, SyncTypeOK, OneDoSync
<1> QED BY <1>3, <1>4

LEMMA AskInv ==
  ASSUME Inv, NEW a \in Agents, NEW b \in Agents, Ask(a, b)
  PROVE  Inv'
<1>1. a \in Readers /\ Agents \subseteq Readers
  BY DEF Readers
<1>2. ReaderTypeOK /\ AsksAreOutstanding
  BY InvParts
<1>3. /\ pc[a] = "outer" /\ pc' \in PcType
      /\ \A q \in Readers : pc'[q] = IF q = a THEN "asking" ELSE pc[q]
  BY <1>1, <1>2 DEF Ask, ReaderTypeOK, PcType
<1>4. \A c \in Agents : a \notin AsksOf(c)
  BY <1>2, <1>3 DEF AsksAreOutstanding
<1>5. /\ serving' = serving /\ asks' \in [Agents -> SUBSET Agents]
      /\ \A c \in Agents : asks'[c] = IF c = b THEN asks[c] \cup {a} ELSE asks[c]
  BY <1>2 DEF Ask, ReaderTypeOK
<1>6. \A c \in Agents : AsksOf(c)' = IF c = b THEN AsksOf(c) \cup {a} ELSE AsksOf(c)
  BY <1>5 DEF AsksOf
<1>7. \A c \in Agents : serving'[c] \notin asks'[c]
  BY <1>2, <1>4, <1>5 DEF AsksAreOutstanding, AsksOf
<1>8. AsksAreOutstanding'
  BY <1>1, <1>2, <1>3, <1>4, <1>6, <1>7 DEF AsksAreOutstanding
<1>9. LockCountsItsHolders'
  <2>1. \A q \in Readers : Holds(q)' = Holds(q) /\ Waiting(q)' = Waiting(q)
    BY <1>3 DEF Holds, Reading, Waiting
  <2> QED BY <2>1, LockUntouched DEF Ask, Writing
<1> QED BY <1>3, <1>5, <1>8, <1>9, InvParts, InvPartsNext
        DEF Ask, configVars, syncVars, ReaderTypeOK, SyncTypeOK, OneDoSync

(* What doSync()'s steps leave alone unless they touch the lock. *)
LEMMA ReadersUntouched ==
  ASSUME Inv, UNCHANGED <<lock, readerVars>>,
         Writing' = Writing, (sync' = "waitWrite") = (sync = "waitWrite")
  PROVE  ReaderTypeOK' /\ LockCountsItsHolders' /\ AsksAreOutstanding'
<1>1. ReaderTypeOK' /\ AsksAreOutstanding'
  BY InvParts DEF readerVars, ReaderTypeOK, AsksAreOutstanding, AsksOf
<1>2. \A q \in Readers : Holds(q)' = Holds(q) /\ Waiting(q)' = Waiting(q)
  BY DEF readerVars, Holds, Reading, Waiting
<1>3. LockCountsItsHolders'
  BY <1>2, LockUntouched
<1> QED BY <1>1, <1>3

(* The steps that release the write side. *)
LEMMA WriteReleaseInv ==
  ASSUME Inv, sync \in {"install", "applying"}, WriteHoldReleased,
         sync' \in {"backoff", "settle"}, UNCHANGED <<serving, asks>>
  PROVE  ReaderTypeOK' /\ LockCountsItsHolders' /\ AsksAreOutstanding'
<1>1. /\ lock' \in RWLockType(Readers, {Writer}) /\ pc' \in PcType
      /\ LockCountsItsHolders'
  <2>1. Writing /\ ~Writing' /\ sync' # "waitWrite"
    BY DEF Writing
  <2> QED BY <2>1, WriteReleaseCounts
<1>2. AsksAreOutstanding'
  <2>1. \A a \in Agents : pc[a] # "asking"
    BY WriterExcludesReaders DEF Writing, Reading, Readers
  <2>2. \A b \in Agents : AsksOf(b) \cap Agents = {}
    BY <2>1, InvParts DEF AsksAreOutstanding
  <2>3. \A b \in Agents : AsksOf(b)' = AsksOf(b) /\ serving'[b] \notin asks'[b]
    BY InvParts DEF AsksAreOutstanding, AsksOf
  <2> QED BY <2>2, <2>3 DEF AsksAreOutstanding
<1> QED BY <1>1, <1>2, InvParts DEF ReaderTypeOK

LEMMA CallerInv ==
  ASSUME Inv, \/ EditSettings \/ Stop \/ SyncSettle
              \/ \E c \in Callers : Reload(c)
  PROVE  Inv'
<1>1. SyncTypeOK /\ OneDoSync
  BY InvParts
<1>2. CASE EditSettings
  <2>1. disk' \in Versions
    BY <1>1, <1>2, ConfigReloadAssumption DEF EditSettings, SyncTypeOK, Versions
  <2>2. SyncTypeOK' /\ OneDoSync'
    BY <1>1, <1>2, <2>1 DEF EditSettings, SyncTypeOK, OneDoSync, syncVars
  <2> QED BY <1>2, <2>2, ReadersUntouched, InvPartsNext DEF EditSettings, Writing
<1>3. ASSUME NEW as \in {"resolved", "released"}, PendingsNotified(as)
      PROVE  /\ pendings' \subseteq Callers
             /\ caller' \in [Callers -> {"idle", "waiting", "resolved", "released"}]
  BY <1>1, <1>3 DEF PendingsNotified, SyncTypeOK
<1>4. CASE Stop
  <2>1. SyncTypeOK' /\ OneDoSync'
    BY <1>1, <1>3, <1>4 DEF Stop, SyncTypeOK, OneDoSync, configVars
  <2> QED BY <1>4, <2>1, ReadersUntouched, InvPartsNext DEF Stop, Writing
<1>5. CASE SyncSettle
  <2>1. SyncTypeOK'
    BY <1>1, <1>3, <1>5 DEF SyncSettle, SyncTypeOK, configVars
  <2>2. OneDoSync'
    BY <1>1, <1>5 DEF SyncSettle, OneDoSync
  <2>3. sync = "settle" /\ sync' \in {"idle", "start"} /\ UNCHANGED <<lock, readerVars>>
    BY <1>5 DEF SyncSettle
  <2> QED BY <2>1, <2>2, <2>3, ReadersUntouched, InvPartsNext DEF Writing
<1>6. ASSUME NEW c \in Callers, Reload(c) PROVE Inv'
  <2>1. SyncTypeOK'
    <3>1. asked' \in [Callers -> Versions]
      BY <1>1, <1>6 DEF Reload, SyncTypeOK
    <3>2. caller' \in [Callers -> {"idle", "waiting", "resolved", "released"}]
      BY <1>1, <1>6 DEF Reload, SyncTypeOK
    <3>3. sync' \in {sync, "start"} /\ pendings' \subseteq Callers
      BY <1>1, <1>6 DEF Reload, SyncTypeOK
    <3>4. invalidated' \in BOOLEAN /\ invalidatedDouble' \in BOOLEAN
      <4>1. \/ invalidated' = TRUE /\ invalidatedDouble' = invalidated
            \/ UNCHANGED <<invalidated, invalidatedDouble>>
        BY <1>6 DEF Reload, SecondRound
      <4>2. invalidated \in BOOLEAN /\ invalidatedDouble \in BOOLEAN BY <1>1 DEF SyncTypeOK
      <4> QED BY <4>1, <4>2
    <3>5. UNCHANGED <<disk, config, modules, loaded, stopped>>
      BY <1>6 DEF Reload, configVars
    <3> QED BY <1>1, <3>1, <3>2, <3>3, <3>4, <3>5 DEF SyncTypeOK
  <2>2. OneDoSync'
    BY <1>1, <1>6 DEF Reload, OneDoSync
  <2>3. sync' = sync \/ (sync = "idle" /\ sync' = "start")
    BY <1>1, <1>6 DEF Reload, OneDoSync, SyncTypeOK
  <2>4. UNCHANGED <<lock, readerVars>>
    BY <1>6 DEF Reload
  <2> QED BY <2>1, <2>2, <2>3, <2>4, ReadersUntouched, InvPartsNext DEF Writing
<1> QED BY <1>2, <1>4, <1>5, <1>6

LEMMA SyncCompareInv == ASSUME Inv, SyncCompare PROVE Inv'
<1>1. /\ SyncTypeOK /\ OneDoSync /\ ReaderTypeOK /\ LockCountsItsHolders
      /\ AsksAreOutstanding
  BY InvParts
<1>2. SyncTypeOK' /\ OneDoSync'
  <2>1. 0 \in Versions
    BY ConfigReloadAssumption DEF Versions
  <2> QED BY <1>1, <2>1 DEF SyncCompare, SyncTypeOK, OneDoSync, configVars, syncVars
<1>3. CASE lock' = lock /\ sync' \in {"backoff", "settle"}
  BY <1>2, <1>3, ReadersUntouched, InvPartsNext DEF SyncCompare, Writing
<1>4. CASE /\ lock' = AcquireWrite(lock, Writer)
           /\ sync' = IF WriteAtOnce(lock) THEN "locked" ELSE "waitWrite"
  <2>1. UNCHANGED readerVars /\ sync = "compare"
    BY DEF SyncCompare
  <2>2. lock.writerActive = FALSE /\ lock.waitingWriters = << >>
    <3>1. Writing = FALSE
      BY <2>1 DEF Writing
    <3> QED BY <1>1, <2>1, <3>1 DEF LockCountsItsHolders
  <2>3. /\ lock' \in RWLockType(Readers, {Writer})
        /\ lock'.activeReaders = lock.activeReaders
        /\ lock'.waitingReaders = lock.waitingReaders
        /\ WriteAtOnce(lock) =>
             /\ lock'.writerActive = TRUE /\ lock'.waitingWriters = << >>
             /\ lock.activeReaders = 0
        /\ ~WriteAtOnce(lock) =>
             lock'.writerActive = FALSE /\ lock'.waitingWriters = <<Writer>>
    BY <1>1, <1>4, <2>2, WriteRequested DEF ReaderTypeOK
  <2>4. AsksAreOutstanding' /\ pc' = pc /\ serving' = serving /\ asks' = asks
    BY <1>1, <2>1, AsksKept DEF readerVars
  <2>5. \A q \in Readers : Holds(q)' = Holds(q) /\ Waiting(q)' = Waiting(q)
    BY <2>4 DEF Holds, Reading, Waiting
  <2>6. HoldSet' = HoldSet
    BY <2>5, SameHolds
  <2>7. /\ lock'.writerActive = Writing'
        /\ lock'.writerActive => lock'.activeReaders = 0
        /\ lock'.waitingWriters = IF sync' = "waitWrite" THEN <<Writer>> ELSE << >>
    <3>1. CASE WriteAtOnce(lock)
      <4>1. sync' = "locked" /\ Writing' = TRUE
        BY <1>4, <3>1 DEF Writing
      <4> QED BY <2>3, <3>1, <4>1
    <3>2. CASE ~WriteAtOnce(lock)
      <4>1. sync' = "waitWrite" /\ Writing' = FALSE
        BY <1>4, <3>2 DEF Writing
      <4> QED BY <2>3, <3>2, <4>1
    <3> QED BY <3>1, <3>2
  <2>8. LockCountsItsHolders'
    BY <1>1, <2>3, <2>5, <2>6, <2>7 DEF LockCountsItsHolders
  <2> QED BY <1>1, <1>2, <2>3, <2>4, <2>8, InvPartsNext DEF ReaderTypeOK
<1> QED BY <1>3, <1>4 DEF SyncCompare

LEMMA SyncStepInv == ASSUME Inv, SyncStep PROVE Inv'
<1>1. SyncTypeOK /\ OneDoSync /\ 0 \in Versions
  BY InvParts, ConfigReloadAssumption DEF Versions
<1>2. CASE SyncBegin \/ SyncLoad \/ SyncRetry
  <2>1. SyncTypeOK' /\ OneDoSync'
    BY <1>1, <1>2 DEF SyncBegin, SyncLoad, SyncRetry, SyncTypeOK, OneDoSync,
                      configVars, syncVars
  <2>2. /\ UNCHANGED <<lock, readerVars>>
        /\ sync # "waitWrite" /\ sync' # "waitWrite"
        /\ Writing' = Writing
    BY <1>2 DEF SyncBegin, SyncLoad, SyncRetry, Writing
  <2> QED BY <2>1, <2>2, ReadersUntouched, InvPartsNext
<1>3. CASE SyncInstall
  <2>1. SyncTypeOK' /\ OneDoSync'
    BY <1>1, <1>3 DEF SyncInstall, SyncTypeOK, OneDoSync, syncVars
  <2>2. ReaderTypeOK' /\ LockCountsItsHolders' /\ AsksAreOutstanding'
    <3>1. CASE WriteHoldReleased /\ sync' \in {"backoff", "settle"}
      BY <1>3, <3>1, WriteReleaseInv DEF SyncInstall
    <3>2. CASE sync' = "applying" /\ UNCHANGED <<lock, pc>>
      BY <1>3, <3>2, ReadersUntouched DEF SyncInstall, Writing, readerVars
    <3> QED BY <1>3, <3>1, <3>2 DEF SyncInstall
  <2> QED BY <2>1, <2>2, InvPartsNext
<1>4. CASE SyncApply \/ SyncApplyThrows
  <2>1. SyncTypeOK' /\ OneDoSync'
    BY <1>1, <1>4 DEF SyncApply, SyncApplyThrows, SyncTypeOK, OneDoSync, syncVars
  <2>2. ReaderTypeOK' /\ LockCountsItsHolders' /\ AsksAreOutstanding'
    BY <1>4, WriteReleaseInv DEF SyncApply, SyncApplyThrows
  <2> QED BY <2>1, <2>2, InvPartsNext
<1> QED BY <1>2, <1>3, <1>4, SyncCompareInv, CallerInv DEF SyncStep

LEMMA StepInv == Inv /\ [Next]_vars => Inv'
<1> SUFFICES ASSUME Inv, [Next]_vars PROVE Inv'
  OBVIOUS
<1>1. CASE UNCHANGED vars
  <2>1. SyncTypeOK' /\ OneDoSync'
    BY <1>1, InvParts DEF vars, SyncTypeOK, OneDoSync, configVars, syncVars
  <2> QED BY <1>1, <2>1, ReadersUntouched, InvPartsNext DEF vars, Writing
<1>2. ASSUME NEW s \in Sections, EnterSection(s) \/ LeaveSection(s) PROVE Inv'
  BY <1>2, SectionInv
<1>3. ASSUME NEW a \in Agents, AgentStep(a) PROVE Inv'
  BY <1>3, BeginItemInv, EndItemInv, InferenceInv, AskInv DEF AgentStep
<1>4. CASE EditSettings \/ Stop \/ \E c \in Callers : Reload(c)
  BY <1>4, CallerInv
<1> QED BY <1>1, <1>2, <1>3, <1>4, SyncStepInv DEF Next

LEMMA Invariance == Spec => []Inv
  BY InitInv, StepInv, PTL DEF Spec

-----------------------------------------------------------------------------
(* What the invariant gives. *)

(* The lock's counters agree with who is inside, once or twice, whoever    *)
(* waits is queued once, the two sides exclude each other, and an answer   *)
(* resumes the one agent that waits for it.                                *)
THEOREM LockCounts == Spec => []ReadersAccountedFor
  BY Invariance, PTL DEF Inv

(* Every reachable state of a reload is well typed. *)
THEOREM ReloadTypes == Spec => []TypeOK
  BY Invariance, PTL DEF Inv

LEMMA StepKeepsConfig == Inv /\ [Next]_vars => ConfigUnderReaders
<1> SUFFICES ASSUME Inv, [Next]_vars, NEW r \in Readers, Reading(r)
             PROVE  UNCHANGED <<config, modules>>
  BY DEF ConfigUnderReaders
<1>1. sync \notin {"locked", "install", "applying"}
  BY ReaderExcludesWriter DEF Writing
<1> QED BY <1>1 DEF Next, vars, AgentStep, SyncStep, EnterSection, LeaveSection,
     BeginItem, EndItem, BeginInference, EndInference, Ask, EditSettings, Reload,
     Stop, SyncBegin, SyncLoad, SyncCompare, SyncInstall, SyncApply,
     SyncApplyThrows, SyncRetry, SyncSettle, configVars

(* Strict quiescence: no step of a reload changes the config or what the   *)
(* modules made of it while a connector callback, a cron task, a tick or   *)
(* an agent's item is inside its read section.                             *)
THEOREM QuiescentReload == Spec => ConfigStableWhileReading
  BY Invariance, StepKeepsConfig, PTL DEF Spec, ConfigStableWhileReading

LEMMA StepHoldsBack == Inv /\ [Next]_vars => ReadersHeldBack
<1> SUFFICES ASSUME Inv, [Next]_vars, NEW r \in Readers,
                    sync = "waitWrite", ~Reading(r)
             PROVE  ~Reading(r)'
  BY DEF ReadersHeldBack
<1>1. pc \in PcType /\ AsksAreOutstanding /\ serving \in [Agents -> Agents \cup {Nobody}]
  BY InvParts DEF ReaderTypeOK
<1>2. ~ReadAtOnce(lock)
  BY InvParts DEF LockCountsItsHolders, ReadAtOnce
<1>3. pc[r] \in {"out", "waitingOuter"}
  BY <1>1 DEF Reading, PcType
<1>4. pc'[r] \in {"out", "waitingOuter"}
  <2>1. CASE UNCHANGED pc
    BY <1>3, <2>1
  <2>2. ASSUME NEW s \in Sections, EnterSection(s) \/ LeaveSection(s)
        PROVE  pc'[r] \in {"out", "waitingOuter"}
    BY <1>1, <1>2, <1>3, <2>2 DEF EnterSection, LeaveSection, PcType
  <2>3. ASSUME NEW a \in Agents, NEW from \in Agents \cup {Nobody}, BeginItem(a, from)
        PROVE  pc'[r] \in {"out", "waitingOuter"}
    BY <1>1, <1>2, <1>3, <2>3 DEF BeginItem, PcType
  <2>4. ASSUME NEW a \in Agents, EndItem(a)
        PROVE  pc'[r] \in {"out", "waitingOuter"}
    <3>1. serving[a] \in Agents => pc[serving[a]] = "asking"
      BY <1>1 DEF AsksAreOutstanding, AsksOf
    <3>2. serving[a] # r
      BY <1>1, <1>3, <3>1, ConfigReloadAssumption
    <3> QED BY <1>3, <2>4, <3>2 DEF EndItem
  <2>5. ASSUME NEW a \in Agents, BeginInference(a) \/ EndInference(a)
        PROVE  pc'[r] \in {"out", "waitingOuter"}
    BY <1>1, <1>2, <1>3, <2>5 DEF BeginInference, EndInference, PcType
  <2>6. ASSUME NEW a \in Agents, NEW b \in Agents, Ask(a, b)
        PROVE  pc'[r] \in {"out", "waitingOuter"}
    BY <1>1, <1>3, <2>6 DEF Ask, PcType
  <2>7. CASE EditSettings \/ Stop \/ SyncStep \/ \E c \in Callers : Reload(c)
    BY <2>1, <2>7 DEF EditSettings, Stop, SyncStep, Reload, SyncBegin, SyncLoad,
         SyncCompare, SyncInstall, SyncApply, SyncApplyThrows, SyncRetry,
         SyncSettle, readerVars
  <2> QED BY <2>1, <2>2, <2>3, <2>4, <2>5, <2>6, <2>7 DEF Next, AgentStep, vars, readerVars
<1> QED BY <1>4 DEF Reading

(* A queued writer holds new readers back: nobody enters past a doSync()   *)
(* that waits for the write side.                                          *)
THEOREM WriterPreferred == Spec => NoReaderPassesWriter
  BY Invariance, StepHoldsBack, PTL DEF Spec, NoReaderPassesWriter

-----------------------------------------------------------------------------
(* Coalescing.  A request is served by the round of doSync() that runs if  *)
(* that round read the settings after the request, and by the second round *)
(* otherwise.                                                              *)
Served(c) ==
  \/ invalidatedDouble
  \/ sync \in {"idle", "start", "load", "waitWrite", "locked", "backoff"}
  \/ sync \in {"compare", "install"} /\ loaded >= asked[c]
  \/ sync \in {"applying", "settle"} /\ config >= asked[c]

RequestsServed ==
  /\ \A c \in Callers : asked[c] <= disk
  /\ \A c \in pendings : caller[c] = "waiting" /\ Served(c)
  /\ stopped => pendings = {}

LEMMA InitServed == Init => RequestsServed
  BY ConfigReloadAssumption DEF Init, RequestsServed

LEMMA ReloadServed ==
  ASSUME Inv, RequestsServed, NEW c \in Callers, Reload(c)
  PROVE  RequestsServed'
<1>1. SyncTypeOK /\ (~invalidated => sync = "idle")
  BY InvParts DEF OneDoSync, SyncTypeOK
<1>2. disk \in Nat /\ \A d \in Callers : asked'[d] = IF d = c THEN disk ELSE asked[d]
  BY <1>1, ConfigReloadAssumption DEF Reload, SyncTypeOK, Versions
<1>3. c \notin pendings /\ disk' = disk /\ config' = config /\ loaded' = loaded
  BY DEF Reload, RequestsServed, configVars
<1>4. \A d \in Callers : asked'[d] <= disk'
  BY <1>2, <1>3 DEF RequestsServed
<1>5. CASE stopped
  BY <1>2, <1>3, <1>4, <1>5 DEF Reload, RequestsServed
<1>6. CASE ~stopped
  <2>1. /\ pendings' = pendings \cup {c} /\ ~stopped'
        /\ \A d \in Callers : caller'[d] = IF d = c THEN "waiting" ELSE caller[d]
    BY <1>1, <1>6 DEF Reload, SyncTypeOK
  <2>2. CASE invalidated
    BY <1>1, <1>4, <1>6, <2>1, <2>2 DEF Reload, RequestsServed, Served, SecondRound, SyncTypeOK
  <2>3. CASE ~invalidated
    BY <1>1, <1>4, <1>6, <2>1, <2>3 DEF Reload, RequestsServed, Served, SyncTypeOK
  <2> QED BY <2>2, <2>3
<1> QED BY <1>5, <1>6

LEMMA SyncServed ==
  ASSUME Inv, RequestsServed, SyncStep
  PROVE  RequestsServed'
<1>1. SyncTypeOK /\ Versions \subseteq Int
  BY InvParts, ConfigReloadAssumption DEF Versions
<1>2. UNCHANGED <<disk, asked, stopped>>
  BY DEF SyncStep, SyncBegin, SyncLoad, SyncCompare, SyncInstall, SyncApply,
         SyncApplyThrows, SyncRetry, SyncSettle, configVars, syncVars
<1>3. CASE SyncSettle
  BY <1>2, <1>3 DEF SyncSettle, PendingsNotified, RequestsServed, Served
<1>4. CASE ~SyncSettle
  <2>1. UNCHANGED <<pendings, caller, invalidatedDouble>>
    BY <1>4 DEF SyncStep, SyncBegin, SyncLoad, SyncCompare, SyncInstall, SyncApply,
                SyncApplyThrows, SyncRetry, syncVars
  <2>2. ASSUME NEW c \in pendings PROVE Served(c)'
    <3>1. c \in Callers /\ Served(c) /\ asked[c] <= disk /\ ~stopped
      BY <1>1 DEF SyncTypeOK, RequestsServed
    <3>2. CASE SyncBegin \/ SyncRetry
      BY <3>1, <3>2 DEF SyncBegin, SyncRetry, Served
    <3>3. CASE SyncLoad
      <4>1. loaded' >= asked[c]
        BY <1>1, <3>1, <3>3 DEF SyncLoad, SyncTypeOK
      <4> QED BY <1>2, <3>3, <4>1 DEF SyncLoad, Served
    <3>4. CASE SyncCompare
      BY <1>2, <2>1, <3>1, <3>4 DEF SyncCompare, Served, configVars
    <3>5. CASE SyncInstall
      BY <1>2, <2>1, <3>1, <3>5 DEF SyncInstall, Served
    <3>6. CASE SyncApply \/ SyncApplyThrows
      BY <1>2, <2>1, <3>1, <3>6 DEF SyncApply, SyncApplyThrows, Served
    <3> QED BY <1>4, <3>2, <3>3, <3>4, <3>5, <3>6 DEF SyncStep
  <2> QED BY <1>2, <2>1, <2>2 DEF RequestsServed
<1> QED BY <1>3, <1>4

LEMMA StepServed == Inv /\ RequestsServed /\ [Next]_vars => RequestsServed'
<1> SUFFICES ASSUME Inv, RequestsServed, [Next]_vars PROVE RequestsServed'
  OBVIOUS
<1>1. CASE UNCHANGED vars
  BY <1>1 DEF vars, configVars, syncVars, RequestsServed, Served
<1>2. ASSUME \/ \E s \in Sections : EnterSection(s) \/ LeaveSection(s)
             \/ \E a \in Agents : AgentStep(a)
      PROVE  RequestsServed'
  <2>1. UNCHANGED <<configVars, loaded, syncVars>>
    BY <1>2 DEF AgentStep, EnterSection, LeaveSection, BeginItem, EndItem,
                BeginInference, EndInference, Ask
  <2>2. sync' = sync \/ sync' = "locked"
    BY <1>2 DEF AgentStep, EnterSection, LeaveSection, BeginItem, EndItem,
                BeginInference, EndInference, Ask, ReadHoldReleased
  <2> QED BY <2>1, <2>2 DEF configVars, syncVars, RequestsServed, Served
<1>3. CASE EditSettings
  <2>1. disk \in Int /\ disk' = disk + 1 /\ \A c \in Callers : asked[c] \in Int
    BY <1>3, InvParts, ConfigReloadAssumption DEF EditSettings, SyncTypeOK, Versions
  <2> QED BY <1>3, <2>1 DEF EditSettings, RequestsServed, Served, syncVars
<1>4. CASE Stop
  BY <1>4 DEF Stop, PendingsNotified, RequestsServed, configVars
<1> QED BY <1>1, <1>2, <1>3, <1>4, ReloadServed, SyncServed DEF Next

LEMMA StepFresh == Inv /\ RequestsServed /\ [Next]_vars => FreshWhenResolved
<1> SUFFICES ASSUME Inv, RequestsServed, [Next]_vars, NEW c \in Callers,
                    caller[c] = "waiting", caller'[c] = "resolved"
             PROVE  config >= asked[c]
  BY DEF FreshWhenResolved
<1>1. caller \in [Callers -> {"idle", "waiting", "resolved", "released"}]
  BY InvParts DEF SyncTypeOK
<1>2. SyncSettle
  BY <1>1 DEF Next, vars, AgentStep, SyncStep, EnterSection, LeaveSection,
     BeginItem, EndItem, BeginInference, EndInference, Ask, EditSettings, Reload,
     Stop, PendingsNotified, SyncBegin, SyncLoad, SyncCompare, SyncInstall,
     SyncApply, SyncApplyThrows, SyncRetry, syncVars
<1>3. sync = "settle" /\ ~invalidatedDouble /\ c \in pendings
  BY <1>2 DEF SyncSettle, PendingsNotified
<1> QED BY <1>3 DEF RequestsServed, Served

(* Coalescing loses no request: reload() does not return to a caller       *)
(* before the settings the caller saw, or later ones, are in force.        *)
THEOREM FreshReload == Spec => ReloadIsFresh
<1>1. Spec => []RequestsServed
  BY Invariance, InitServed, StepServed, PTL DEF Spec
<1> QED BY <1>1, Invariance, StepFresh, PTL DEF Spec, ReloadIsFresh
=============================================================================
