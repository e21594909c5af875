------------------------------ MODULE AsyncLock ------------------------------
(***************************************************************************)
(* The mutex of sources/utils/lock.ts as a data type.  A lock is a record: *)
(* `permits` is the private counter, `queue` stands for                    *)
(* promiseResolverQueue, the resolvers named by the task that waits on     *)
(* each.  Modules that hold locks keep such records in their state and     *)
(* call these operators; LockedTasks is the specification of the lock on   *)
(* its own.                                                                *)
(*                                                                         *)
(* lock() and unlock() run between two awaits, so each is one step.  When  *)
(* unlock() finds a waiter it takes the permit back for it at once and     *)
(* resolves the waiter from a timer; the permit is never visible as free   *)
(* in between, so the waiter holds the lock from that step on.             *)
(***************************************************************************)
EXTENDS Naturals, Sequences

FreeLock == [permits |-> 1, queue |-> << >>]

LockType(Tasks) == [permits : Nat, queue : Seq(Tasks)]

\* Mutant: lock() never waits.
AlwaysFree(l) == TRUE

\* lock() returns without waiting.
LockIsFree(l) == l.permits > 0

\* Mutant: lock() takes a permit that is not there.
PermitTaken(l, t) == [l EXCEPT !.permits = @ - 1]

\* lock(), called by task t.
LockRequest(l, t) ==
  IF LockIsFree(l)
    THEN [l EXCEPT !.permits = @ - 1]
    ELSE [l EXCEPT !.queue = Append(@, t)]

\* The condition under which unlock() throws instead of waking a waiter.
UnlockThrows(l) == l.permits + 1 > 1 /\ l.queue # << >>

\* unlock() passes the permit on to the head of the queue.
UnlockHandsOver(l) == l.permits + 1 = 1 /\ l.queue # << >>

\* Mutants: the permit passed on is also returned; the waiter stays queued.
PermitReturnedToo(l) ==
  [l EXCEPT !.permits = @ + 1,
            !.queue = IF UnlockHandsOver(l) THEN Tail(@) ELSE @]
WaiterStaysQueued(l) == IF UnlockHandsOver(l) THEN l ELSE [l EXCEPT !.permits = @ + 1]

\* unlock().
LockRelease(l) ==
  IF UnlockHandsOver(l)
    THEN [l EXCEPT !.queue = Tail(@)]
    ELSE [l EXCEPT !.permits = @ + 1]

\* Mutants: the last waiter is served first; nobody is woken.
LastWaiter(l) == IF UnlockHandsOver(l) THEN {l.queue[Len(l.queue)]} ELSE {}
NoSuccessor(l) == {}

\* The task, if any, that enters because of the unlock().
LockSuccessor(l) == IF UnlockHandsOver(l) THEN {Head(l.queue)} ELSE {}
=============================================================================
