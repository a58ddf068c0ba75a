CONSTANTS
  N = 2
  MaxStarts = 2
  MaxOps = 3
  Calls = {c1}
  Clerks = {ck1}
  None = None
SPECIFICATION ServiceSpec
INVARIANTS
  AcknowledgedSurvives
  OldEndsStayDisabled
  EnabledAsIntended
PROPERTIES
  DownServerKeepsState
CHECK_DEADLOCK FALSE
