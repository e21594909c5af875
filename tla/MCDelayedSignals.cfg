CONSTANTS
  Inputs = {1, 2}
  NoInput = 0
  MaxJobs = 2
  MaxCrashes = 1
  Signals = {1, 2}
  Stored = {1}
  Keyed = {1, 2}
  Cancellers = {c1}
  Deliverer = Deliverer
  MaxFailures = 1
SPECIFICATION Spec
INVARIANT TypeOK NoJobLost OneJobAtATime NoLostWakeup
INVARIANT NoSignalLost EveryRowIsCovered GeneratedOnce OneCallPerSignal
PROPERTY WithdrawnStaysQuiet EveryDueSignalGoes
CHECK_DEADLOCK FALSE
