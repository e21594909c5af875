CONSTANTS
  Posters = {p1}
  Messages = {p1}
  ConnectorPosters = {}
  Killers = {k1}
  Steerers = {}
  Runners = {}
  Pill = Pill
  PoisonPillKind = FALSE
  Starts = {"loaded"}
  MaxEntries = 2
  MaxRestarts = 0
  Restore = Restore
SPECIFICATION Spec
PROPERTY DeadIsTerminal
CHECK_DEADLOCK FALSE
