CONSTANTS
  Sections = {s1}
  Agents = {a1}
  Callers = {c1}
  MaxVersion = 1
  Unreloadable = {}
  ModulesMayFail = TRUE
  Nobody = Nobody
  Torn = Torn
SPECIFICATION Spec
PROPERTY ResolvedReloadIsApplied
CHECK_DEADLOCK FALSE
