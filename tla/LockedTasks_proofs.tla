------------------------- MODULE LockedTasks_proofs --------------------------
(***************************************************************************)
(* Proofs about LockedTasks for any set of tasks: the lock's bookkeeping,  *)
(* mutual exclusion, first come first served, and the refinement of Mutex. *)
(***************************************************************************)
EXTENDS LockedTasks, SequenceTheorems, TLAPS

Inv == TypeOK /\ MutualExclusion /\ PermitIsAccountedFor

(* Appending to the queue: lock() of a task that has to wait. *)
LEMMA WaiterAppended ==
  ASSUME NEW l \in LockType(Tasks), NEW t \in Tasks, ~LockIsFree(l)
  PROVE  /\ LockRequest(l, t) \in LockType(Tasks)
         /\ LockRequest(l, t).permits = l.permits
         /\ LockRequest(l, t).queue = Append(l.queue, t)
         /\ Len(LockRequest(l, t).queue) = Len(l.queue) + 1
         /\ \A i \in 1..Len(l.queue) : LockRequest(l, t).queue[i] = l.queue[i]
         /\ LockRequest(l, t).queue[Len(l.queue) + 1] = t
  BY DEF LockType, LockIsFree, LockRequest

(* The permit is taken: lock() of a task that need not wait. *)
LEMMA PermitTakenAtOnce ==
  ASSUME NEW l \in LockType(Tasks), NEW t \in Tasks, LockIsFree(l)
  PROVE  /\ LockRequest(l, t) \in LockType(Tasks)
         /\ LockRequest(l, t).permits = l.permits - 1
         /\ LockRequest(l, t).queue = l.queue
  BY DEF LockType, LockIsFree, LockRequest

(* unlock() with a waiter: the queue moves up by one. *)
LEMMA HandedOver ==
  ASSUME NEW l \in LockType(Tasks), UnlockHandsOver(l)
  PROVE  /\ LockRelease(l) \in LockType(Tasks)
         /\ LockRelease(l).permits = l.permits
         /\ LockRelease(l).queue = Tail(l.queue)
         /\ LockSuccessor(l) = {l.queue[1]}
         /\ l.queue[1] \in Tasks
         /\ Len(l.queue) \in Nat \ {0}
         /\ Len(LockRelease(l).queue) = Len(l.queue) - 1
         /\ \A i \in 1..(Len(l.queue) - 1) : LockRelease(l).queue[i] = l.queue[i + 1]
  BY DEF LockType, UnlockHandsOver, LockRelease, LockSuccessor

(* unlock() without a waiter. *)
LEMMA PermitReturned ==
  ASSUME NEW l \in LockType(Tasks), ~UnlockHandsOver(l)
  PROVE  /\ LockRelease(l) \in LockType(Tasks)
         /\ LockRelease(l).permits = l.permits + 1
         /\ LockRelease(l).queue = l.queue
         /\ LockSuccessor(l) = {}
  BY DEF LockType, UnlockHandsOver, LockRelease, LockSuccessor

LEMMA InitInv == Init => Inv
  BY DEF Init, Inv, TypeOK, MutualExclusion, PermitIsAccountedFor, FreeLock,
         LockType, InQueue

LEMMA CallInv ==
  ASSUME Inv, NEW t \in Tasks, Call(t)
  PROVE  Inv'
<1>1. CASE LockIsFree(lock)
  <2>1. /\ lock.permits = 1 /\ lock.queue = << >>
        /\ \A u \in Tasks : pc[u] # "inside"
    BY <1>1 DEF Inv, TypeOK, PermitIsAccountedFor, LockIsFree, LockType
  <2>2. /\ lock' \in LockType(Tasks)
        /\ lock'.permits = 0 /\ lock'.queue = << >>
        /\ pc' = [pc EXCEPT ![t] = "inside"]
    BY <1>1, <2>1, PermitTakenAtOnce DEF Call, Inv, TypeOK
  <2>3. pc' \in [Tasks -> {"outside", "waiting", "inside"}]
    BY <2>2 DEF Inv, TypeOK
  <2>4. \A u \in Tasks : pc'[u] = IF u = t THEN "inside" ELSE pc[u]
    BY <2>2 DEF Inv, TypeOK
  <2>5. MutualExclusion'
    BY <2>1, <2>4 DEF MutualExclusion
  <2>6. PermitIsAccountedFor'
    BY <2>1, <2>2, <2>4 DEF Inv, PermitIsAccountedFor, InQueue, UnlockThrows
  <2> QED BY <2>2, <2>3, <2>5, <2>6 DEF Inv, TypeOK
<1>2. CASE ~LockIsFree(lock)
  <2>1. lock.permits = 0
    BY <1>2 DEF Inv, TypeOK, LockIsFree, LockType
  <2>2. /\ lock' \in LockType(Tasks)
        /\ lock'.permits = 0
        /\ Len(lock'.queue) = Len(lock.queue) + 1
        /\ \A i \in 1..Len(lock.queue) : lock'.queue[i] = lock.queue[i]
        /\ lock'.queue[Len(lock.queue) + 1] = t
        /\ pc' = [pc EXCEPT ![t] = "waiting"]
    BY <1>2, <2>1, WaiterAppended DEF Call, Inv, TypeOK
  <2>3. \A u \in Tasks : pc'[u] = IF u = t THEN "waiting" ELSE pc[u]
    BY <2>2 DEF Inv, TypeOK
  <2>4. Len(lock.queue) \in Nat
    BY DEF Inv, TypeOK, LockType
  <2>5. pc[t] = "outside" /\ ~InQueue(t)
    BY DEF Call, Inv, PermitIsAccountedFor
  <2>6. MutualExclusion'
    BY <2>3 DEF Inv, MutualExclusion
  <2>7. lock'.permits = IF \E u \in Tasks : pc'[u] = "inside" THEN 0 ELSE 1
    BY <2>1, <2>2, <2>3, <2>5 DEF Inv, PermitIsAccountedFor
  <2>8. \A u \in Tasks : pc'[u] = "waiting" <=> InQueue(u)'
    <3>1. \A u \in Tasks : InQueue(u)' <=> (InQueue(u) \/ u = t)
      BY <2>2, <2>4 DEF InQueue
    <3> QED BY <3>1, <2>3 DEF Inv, PermitIsAccountedFor
  <2>9. \A i, j \in 1..Len(lock'.queue) : lock'.queue[i] = lock'.queue[j] => i = j
    <3>1. \A i \in 1..Len(lock.queue) : lock.queue[i] # t
      BY <2>5 DEF InQueue
    <3>2. \A i \in 1..Len(lock'.queue) : i \in 1..Len(lock.queue) \/ i = Len(lock.queue) + 1
      BY <2>2, <2>4
    <3>3. \A i, j \in 1..Len(lock.queue) : lock.queue[i] = lock.queue[j] => i = j
      BY DEF Inv, PermitIsAccountedFor
    <3> QED BY <2>2, <3>1, <3>2, <3>3
  <2>10. PermitIsAccountedFor'
    BY <2>2, <2>7, <2>8, <2>9 DEF PermitIsAccountedFor, UnlockThrows
  <2> QED BY <2>2, <2>6, <2>10 DEF Inv, TypeOK
<1> QED BY <1>1, <1>2

LEMMA LeaveInv ==
  ASSUME Inv, NEW t \in Tasks, Leave(t)
  PROVE  Inv'
<1>1. /\ lock.permits = 0 /\ pc[t] = "inside"
      /\ \A u \in Tasks : pc[u] = "inside" => u = t
  BY DEF Leave, Inv, PermitIsAccountedFor, MutualExclusion
<1>2. pc' \in [Tasks -> {"outside", "waiting", "inside"}]
  BY DEF Leave, Inv, TypeOK
<1>3. CASE UnlockHandsOver(lock)
  <2> DEFINE next == lock.queue[1]
  <2>1. /\ lock' \in LockType(Tasks) /\ lock'.permits = 0
        /\ next \in Tasks /\ Len(lock.queue) \in Nat \ {0}
        /\ Len(lock'.queue) = Len(lock.queue) - 1
        /\ \A i \in 1..(Len(lock.queue) - 1) : lock'.queue[i] = lock.queue[i + 1]
    BY <1>1, <1>3, HandedOver DEF Leave, Inv, TypeOK
  <2>2. \A u \in Tasks : pc'[u] = IF u = next THEN "inside"
                                  ELSE IF u = t THEN "outside" ELSE pc[u]
    BY <1>3, HandedOver DEF Leave, Inv, TypeOK
  <2>3. pc[next] = "waiting" /\ next # t
    BY <1>1, <2>1 DEF Inv, PermitIsAccountedFor, InQueue
  <2>4. MutualExclusion'
    BY <1>1, <2>2 DEF MutualExclusion
  <2>5. \A u \in Tasks : pc'[u] = "waiting" <=> InQueue(u)'
    <3>1. ASSUME NEW u \in Tasks PROVE InQueue(u)' <=> (InQueue(u) /\ u # next)
      <4>1. ASSUME InQueue(u)' PROVE InQueue(u) /\ u # next
        <5>1. PICK i \in 1..(Len(lock.queue) - 1) : lock.queue[i + 1] = u
          BY <4>1, <2>1 DEF InQueue
        <5>2. i + 1 \in 1..Len(lock.queue) /\ 1 \in 1..Len(lock.queue) /\ i + 1 # 1
          BY <2>1
        <5> QED BY <5>1, <5>2 DEF Inv, PermitIsAccountedFor, InQueue
      <4>2. ASSUME InQueue(u), u # next PROVE InQueue(u)'
        <5>1. PICK i \in 1..Len(lock.queue) : lock.queue[i] = u
          BY <4>2 DEF InQueue
        <5>2. i - 1 \in 1..(Len(lock.queue) - 1) /\ lock'.queue[i - 1] = u
          BY <5>1, <4>2, <2>1
        <5> QED BY <5>2, <2>1 DEF InQueue
      <4> QED BY <4>1, <4>2
    <3> QED BY <3>1, <2>2, <2>3, <1>1 DEF Inv, PermitIsAccountedFor
  <2>6. \A i, j \in 1..Len(lock'.queue) : lock'.queue[i] = lock'.queue[j] => i = j
    <3>1. ASSUME NEW i \in 1..(Len(lock.queue) - 1), NEW j \in 1..(Len(lock.queue) - 1),
                 lock'.queue[i] = lock'.queue[j]
          PROVE  i = j
      <4>1. lock.queue[i + 1] = lock.queue[j + 1]
        BY <3>1, <2>1
      <4>2. i + 1 \in 1..Len(lock.queue) /\ j + 1 \in 1..Len(lock.queue)
        BY <2>1
      <4>3. i + 1 = j + 1
        BY <4>1, <4>2 DEF Inv, PermitIsAccountedFor
      <4> QED BY <4>3, <2>1
    <3> QED BY <3>1, <2>1
  <2>7. PermitIsAccountedFor'
    BY <2>1, <2>2, <2>5, <2>6 DEF PermitIsAccountedFor, UnlockThrows
  <2> QED BY <1>2, <2>1, <2>4, <2>7 DEF Inv, TypeOK
<1>4. CASE ~UnlockHandsOver(lock)
  <2>1. lock.queue = << >>
    BY <1>1, <1>4 DEF UnlockHandsOver
  <2>2. lock' \in LockType(Tasks) /\ lock'.permits = 1 /\ lock'.queue = << >>
    BY <1>1, <1>4, <2>1, PermitReturned DEF Leave, Inv, TypeOK
  <2>3. \A u \in Tasks : pc'[u] = IF u = t THEN "outside" ELSE pc[u]
    BY <1>4, PermitReturned DEF Leave, Inv, TypeOK
  <2>4. MutualExclusion' /\ \A u \in Tasks : pc'[u] # "inside"
    BY <1>1, <2>3 DEF MutualExclusion
  <2>5. PermitIsAccountedFor'
    BY <2>1, <2>2, <2>3, <2>4 DEF Inv, PermitIsAccountedFor, InQueue, UnlockThrows
  <2> QED BY <1>2, <2>2, <2>4, <2>5 DEF Inv, TypeOK
<1> QED BY <1>3, <1>4

LEMMA StepInv == Inv /\ [Next]_vars => Inv'
<1> SUFFICES ASSUME Inv, [Next]_vars PROVE Inv'
  OBVIOUS
<1>1. ASSUME NEW t \in Tasks, Call(t) PROVE Inv'
  BY <1>1, CallInv
<1>2. ASSUME NEW t \in Tasks, Leave(t) PROVE Inv'
  BY <1>2, LeaveInv
<1>3. CASE UNCHANGED vars
  BY <1>3 DEF vars, Inv, TypeOK, MutualExclusion, PermitIsAccountedFor, InQueue,
              UnlockThrows
<1> QED BY <1>1, <1>2, <1>3 DEF Next

LEMMA Invariance == Spec => []Inv
  BY InitInv, StepInv, PTL DEF Spec

(* inLock() lets at most one section run at a time. *)
THEOREM LockExcludes == Spec => []MutualExclusion
<1>1. Inv => MutualExclusion
  BY DEF Inv
<1> QED BY <1>1, Invariance, PTL

(* The permit and the queue are always what unlock() takes them to be, and *)
(* unlock() never throws.                                                  *)
THEOREM LockAccounts == Spec => []PermitIsAccountedFor
<1>1. Inv => PermitIsAccountedFor
  BY DEF Inv
<1> QED BY <1>1, Invariance, PTL

-----------------------------------------------------------------------------
(* Every step lets tasks in by their turn. *)
LEMMA StepInTurn == Inv /\ [Next]_vars => [EntersInTurn]_vars
<1> SUFFICES ASSUME Inv, Next,
                    NEW t \in Tasks, NEW u \in Tasks,
                    pc[u] # "inside", pc'[u] = "inside",
                    pc[t] = "waiting", t # u, pc'[t] = "waiting"
             PROVE  pc[u] = "waiting" /\ Ahead(u, t)
  BY DEF EntersInTurn
<1>1. PICK i \in 1..Len(lock.queue) : lock.queue[i] = t
  BY DEF Inv, PermitIsAccountedFor, InQueue
<1>2. lock.permits = 0 /\ Len(lock.queue) \in Nat
  BY <1>1 DEF Inv, TypeOK, LockType, PermitIsAccountedFor
<1>3. ASSUME NEW v \in Tasks, Call(v) PROVE FALSE
  <2>1. pc' = [pc EXCEPT ![v] = "waiting"]
    BY <1>2, <1>3 DEF Call, LockIsFree
  <2> QED BY <2>1 DEF Inv, TypeOK
<1>4. ASSUME NEW v \in Tasks, Leave(v) PROVE pc[u] = "waiting" /\ Ahead(u, t)
  <2>1. u \in LockSuccessor(lock)
    BY <1>4 DEF Leave, Inv, TypeOK
  <2>2. UnlockHandsOver(lock)
    BY <2>1 DEF LockSuccessor
  <2>3. u = lock.queue[1] /\ 1 \in 1..Len(lock.queue)
    BY <1>1, <2>1, <2>2, HandedOver DEF Inv, TypeOK
  <2>4. i # 1 /\ 1 < i
    BY <1>1, <2>3
  <2>5. pc[u] = "waiting"
    BY <2>3 DEF Inv, PermitIsAccountedFor, InQueue
  <2> QED BY <1>1, <2>3, <2>4, <2>5 DEF Ahead
<1> QED BY <1>3, <1>4 DEF Next

(* Tasks enter in the order in which they called lock(). *)
THEOREM FirstComeFirstServed == Spec => NoOvertaking
  BY Invariance, StepInTurn, PTL DEF Spec, NoOvertaking

-----------------------------------------------------------------------------
(* Who is inside changes as the abstract mutex allows. *)
LEMMA InitMaps == Init => Abstract!Init
  BY DEF Init, Abstract!Init, Owner

LEMMA CallMaps ==
  ASSUME Inv, NEW t \in Tasks, Call(t)
  PROVE  Abstract!Enter(t) \/ Owner' = Owner
<1>1. CASE LockIsFree(lock)
  <2>1. lock.permits # 0
    BY <1>1 DEF LockIsFree
  <2>2. \A u \in Tasks : pc[u] # "inside"
    BY <2>1 DEF Inv, PermitIsAccountedFor
  <2>3. pc' = [pc EXCEPT ![t] = "inside"]
    BY <1>1 DEF Call
  <2>4. Owner = {} /\ Owner' = {t}
    BY <2>2, <2>3 DEF Owner, Inv, TypeOK
  <2> QED BY <2>4 DEF Abstract!Enter
<1>2. CASE ~LockIsFree(lock)
  <2>1. pc' = [pc EXCEPT ![t] = "waiting"] /\ pc[t] = "outside"
    BY <1>2 DEF Call
  <2> QED BY <2>1 DEF Owner, Inv, TypeOK
<1> QED BY <1>1, <1>2

LEMMA LeaveMaps ==
  ASSUME Inv, NEW t \in Tasks, Leave(t)
  PROVE  Abstract!Exit(t) \/ \E u \in Tasks : Abstract!HandOver(t, u)
<1>1. Owner = {t}
  BY DEF Leave, Owner, Inv, MutualExclusion
<1>2. CASE UnlockHandsOver(lock)
  <2> DEFINE next == lock.queue[1]
  <2>1. next \in Tasks /\ LockSuccessor(lock) = {next} /\ 1 \in 1..Len(lock.queue)
    BY <1>2, HandedOver DEF Inv, TypeOK, LockType
  <2>2. next # t
    BY <2>1 DEF Leave, Inv, PermitIsAccountedFor, InQueue
  <2>3. Owner' = {next}
    BY <1>1, <2>1 DEF Leave, Owner, Inv, TypeOK
  <2> QED BY <1>1, <2>1, <2>2, <2>3 DEF Abstract!HandOver
<1>3. CASE ~UnlockHandsOver(lock)
  <2>1. LockSuccessor(lock) = {}
    BY <1>3 DEF LockSuccessor
  <2>2. Owner' = {}
    BY <1>1, <2>1 DEF Leave, Owner, Inv, TypeOK
  <2> QED BY <1>1, <2>2 DEF Abstract!Exit
<1> QED BY <1>2, <1>3

LEMMA StepMaps == Inv /\ [Next]_vars => [Abstract!Next]_Owner
<1> SUFFICES ASSUME Inv, [Next]_vars PROVE Abstract!Next \/ Owner' = Owner
  OBVIOUS
<1>1. CASE UNCHANGED vars
  BY <1>1 DEF vars, Owner
<1>2. ASSUME NEW t \in Tasks, Call(t) PROVE Abstract!Next \/ Owner' = Owner
  BY <1>2, CallMaps DEF Abstract!Next
<1>3. ASSUME NEW t \in Tasks, Leave(t) PROVE Abstract!Next
  BY <1>3, LeaveMaps DEF Abstract!Next
<1> QED BY <1>1, <1>2, <1>3 DEF Next

(* The lock implements the abstract mutex. *)
THEOREM LockImplementsMutex == Spec => ImplementsMutex
  BY InitMaps, StepMaps, Invariance, PTL DEF Spec, ImplementsMutex, Abstract!Spec
=============================================================================
