CONSTANT Tasks = {t1, t2, t3, t4, t5}
SPECIFICATION Spec
INVARIANT PermitIsAccountedFor MutualExclusion
PROPERTY NoOvertaking EveryWaiterEnters ImplementsMutex
