CONSTANTS
  Sections = {s1}
  Agents = {a1}
  Callers = {c1}
  MaxVersion = 1
  Unreloadable = {}
  ModulesMayFail = FALSE
  Nobody = Nobody
  Torn = Torn
SPECIFICATION Spec
PROPERTY ReloadReturns
CHECK_DEADLOCK FALSE
