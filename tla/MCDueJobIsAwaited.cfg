CONSTANTS
  Inputs = {1, 2}
  NoInput = 0
  MaxJobs = 2
  MaxCrashes = 0
  Signals = {1, 2}
  Stored = {1, 2}
  Keyed = {}
  Cancellers = {}
  Deliverer = Deliverer
  MaxFailures = 1
SPECIFICATION Spec
INVARIANT DueJobIsAwaited
CHECK_DEADLOCK FALSE
