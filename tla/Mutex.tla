-------------------------------- MODULE Mutex --------------------------------
(***************************************************************************)
(* What a lock promises its users: the set of tasks inside has at most one *)
(* member, a task enters when nobody is inside or takes over from the one  *)
(* that leaves in the same step.                                           *)
(***************************************************************************)
CONSTANT Tasks
VARIABLE owner

Init == owner = {}

Enter(t) == owner = {} /\ owner' = {t}
Exit(t) == owner = {t} /\ owner' = {}
HandOver(t, u) == t # u /\ owner = {t} /\ owner' = {u}

Next == \E t \in Tasks :
          \/ Enter(t) \/ Exit(t)
          \/ \E u \in Tasks : HandOver(t, u)

Spec == Init /\ [][Next]_owner
=============================================================================
