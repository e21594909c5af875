CONSTANTS
  Posters = {p1, p2}
  Messages = {p1, p2}
  ConnectorPosters = {}
  Killers = {}
  Steerers = {s1}
  Runners = {}
  Pill = Pill
  PoisonPillKind = TRUE
  Starts = {"loaded", "asleep"}
  MaxEntries = 1
  MaxRestarts = 1
  Restore = Restore
SPECIFICATION Spec
INVARIANT TypeOK NoAcceptedItemLost SleepsOnlyWhenDone HandledOncePerRun
PROPERTY HandledInOrder EveryItemHandled
CHECK_DEADLOCK FALSE
