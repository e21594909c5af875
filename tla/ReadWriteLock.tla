---------------------------- MODULE ReadWriteLock ----------------------------
(***************************************************************************)
(* The reader/writer lock of sources/utils/readWriteLock.ts as a data      *)
(* type.  The record has the class's four private fields; the waiting      *)
(* queues hold the names of the requests instead of their resolvers.       *)
(* Every method runs between two awaits, so each is one step, and a        *)
(* request that a release wakes is already counted when it resumes.        *)
(***************************************************************************)
EXTENDS Naturals, Sequences, SequencesExt

UnlockedRW ==
  [activeReaders |-> 0, writerActive |-> FALSE,
   waitingReaders |-> << >>, waitingWriters |-> << >>]

RWLockType(Readers, Writers) ==
  [activeReaders : Nat, writerActive : BOOLEAN,
   waitingReaders : Seq(Readers), waitingWriters : Seq(Writers)]

\* Mutants of the two conditions of acquireRead() and of its counting.
ReadPastQueuedWriter(l) == ~l.writerActive
AcquireReadUncounted(l, r) == [l EXCEPT !.waitingReaders = Append(@, r)]

\* acquireRead() returns at once: queued writers hold new readers back.
ReadAtOnce(l) == ~l.writerActive /\ Len(l.waitingWriters) = 0

AcquireRead(l, r) ==
  IF ReadAtOnce(l)
    THEN [l EXCEPT !.activeReaders = @ + 1]
    ELSE [l EXCEPT !.waitingReaders = Append(@, r)]

\* Mutant: the last reader leaves without a look at the writers' queue.
ReleaseReadWakesNobody(l) == FALSE

\* The release of the last active reader lets the first waiting writer in.
ReleaseReadWakesWriter(l) ==
  /\ l.activeReaders = 1
  /\ ~l.writerActive
  /\ Len(l.waitingWriters) > 0

ReleaseRead(l) ==
  IF ReleaseReadWakesWriter(l)
    THEN [l EXCEPT !.activeReaders = @ - 1, !.writerActive = TRUE,
                   !.waitingWriters = Tail(@)]
    ELSE [l EXCEPT !.activeReaders = @ - 1]

\* Mutant: the writer does not wait for the readers inside.
WritePastReaders(l) == ~l.writerActive

\* acquireWrite() returns at once.
WriteAtOnce(l) == ~l.writerActive /\ l.activeReaders = 0

AcquireWrite(l, w) ==
  IF WriteAtOnce(l)
    THEN [l EXCEPT !.writerActive = TRUE]
    ELSE [l EXCEPT !.waitingWriters = Append(@, w)]

\* releaseWrite() prefers the next writer; without one every waiting reader
\* enters together.
ReleaseWriteWakesWriter(l) == Len(l.waitingWriters) > 0

\* Mutant: the woken readers are not counted.
ReleaseWriteUncounted(l) ==
  IF ReleaseWriteWakesWriter(l)
    THEN [l EXCEPT !.waitingWriters = Tail(@)]
    ELSE [l EXCEPT !.writerActive = FALSE, !.waitingReaders = << >>]

ReleaseWrite(l) ==
  IF ReleaseWriteWakesWriter(l)
    THEN [l EXCEPT !.waitingWriters = Tail(@)]
    ELSE [l EXCEPT !.writerActive = FALSE,
                   !.activeReaders = @ + Len(l.waitingReaders),
                   !.waitingReaders = << >>]

\* The readers that releaseWrite() resolves.
ReleaseWriteWokenReaders(l) ==
  IF ReleaseWriteWakesWriter(l) THEN {} ELSE ToSet(l.waitingReaders)
=============================================================================
