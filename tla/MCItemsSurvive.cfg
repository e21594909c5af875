CONSTANTS
  Posters = {p1, p2}
  Messages = {}
  ConnectorPosters = {}
  Killers = {}
  Steerers = {}
  Runners = {}
  Pill = Pill
  PoisonPillKind = FALSE
  Starts = {"loaded"}
  MaxEntries = 2
  MaxRestarts = 2
  Restore = Restore
SPECIFICATION Spec
INVARIANT NoAcceptedItemLost
CHECK_DEADLOCK FALSE
