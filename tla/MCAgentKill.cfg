CONSTANTS
  Posters = {p1}
  Messages = {p1}
  ConnectorPosters = {p1}
  Killers = {k1}
  Steerers = {}
  Runners = {r1}
  Pill = Pill
  PoisonPillKind = TRUE
  Starts = {"loaded", "asleep"}
  MaxEntries = 1
  MaxRestarts = 0
  Restore = Restore
SPECIFICATION Spec
INVARIANT NoStalePill
PROPERTY EveryAwaiterSettles
CHECK_DEADLOCK FALSE
