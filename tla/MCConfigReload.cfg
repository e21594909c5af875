CONSTANTS
  Sections = {s1}
  Agents = {a1, a2}
  Callers = {c1, c2}
  MaxVersion = 2
  Unreloadable <- MCUnreloadable
  ModulesMayFail = TRUE
  Nobody = Nobody
  Torn = Torn
SPECIFICATION Spec
INVARIANT TypeOK ReadersAccountedFor
PROPERTY ConfigStableWhileReading NoReaderPassesWriter ReloadIsFresh ReloadReturnsUnlessStuck
CHECK_DEADLOCK FALSE
