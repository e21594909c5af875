----------------------------- MODULE LockedTasks -----------------------------
(***************************************************************************)
(* Tasks that run sections under one AsyncLock with inLock().  Every       *)
(* subsystem that serialises itself uses a lock this way: the agent        *)
(* entries, delayed signals, processes and the repositories' caches.       *)
(***************************************************************************)
EXTENDS AsyncLock

CONSTANT Tasks

VARIABLES lock,   \* the AsyncLock
          pc      \* where each task is in inLock()

vars == <<lock, pc>>

TypeOK ==
  /\ lock \in LockType(Tasks)
  /\ pc \in [Tasks -> {"outside", "waiting", "inside"}]

Init ==
  /\ lock = FreeLock
  /\ pc = [t \in Tasks |-> "outside"]

(* inLock() is called: `await this.lock()`. *)
Call(t) ==
  /\ pc[t] = "outside"
  /\ lock' = LockRequest(lock, t)
  /\ pc' = [pc EXCEPT ![t] = IF LockIsFree(lock) THEN "inside" ELSE "waiting"]

(* The section returns or throws; `finally` unlocks either way. *)
Leave(t) ==
  /\ pc[t] = "inside"
  /\ lock' = LockRelease(lock)
  /\ pc' = [u \in Tasks |->
              IF u \in LockSuccessor(lock) THEN "inside"
              ELSE IF u = t THEN "outside"
              ELSE pc[u]]

Next == \E t \in Tasks : Call(t) \/ Leave(t)

(* A section that was entered ends: nothing in the lock makes it. *)
Spec == Init /\ [][Next]_vars /\ \A t \in Tasks : WF_vars(Leave(t))

-----------------------------------------------------------------------------
InQueue(t) == \E i \in 1..Len(lock.queue) : lock.queue[i] = t

Ahead(t, u) ==
  \E i, j \in 1..Len(lock.queue) :
    i < j /\ lock.queue[i] = t /\ lock.queue[j] = u

(* Two sections of one lock never run at the same time: inLock(). *)
MutualExclusion ==
  \A t, u \in Tasks : pc[t] = "inside" /\ pc[u] = "inside" => t = u

(* The bookkeeping unlock() relies on: the permit is out exactly while a   *)
(* section runs, somebody runs while others wait, the queue holds each     *)
(* waiting task once, and unlock() never throws.                           *)
PermitIsAccountedFor ==
  /\ lock.queue # << >> => lock.permits = 0
  /\ lock.permits = IF \E t \in Tasks : pc[t] = "inside" THEN 0 ELSE 1
  /\ \A t \in Tasks : pc[t] = "waiting" <=> InQueue(t)
  /\ \A i, j \in 1..Len(lock.queue) : lock.queue[i] = lock.queue[j] => i = j
  /\ \A t \in Tasks : pc[t] = "inside" => ~UnlockThrows(lock)

(* Nobody overtakes: whoever enters was not behind a task that still       *)
(* waits, and a task that never queued does not enter while one waits.     *)
(* lock.ts re-takes the permit before the waiter's timer fires for this.   *)
EntersInTurn ==
  \A t, u \in Tasks :
    /\ pc[u] # "inside" /\ pc'[u] = "inside"
    /\ pc[t] = "waiting" /\ t # u /\ pc'[t] = "waiting"
    => pc[u] = "waiting" /\ Ahead(u, t)

NoOvertaking == [][EntersInTurn]_vars

(* Every task that waits in lock() gets in, whatever the others do. *)
EveryWaiterEnters == \A t \in Tasks : pc[t] = "waiting" ~> pc[t] = "inside"

(* LockedTasks implements the abstract mutex: who is inside. *)
Owner == {t \in Tasks : pc[t] = "inside"}
Abstract == INSTANCE Mutex WITH owner <- Owner
ImplementsMutex == Abstract!Spec
=============================================================================
