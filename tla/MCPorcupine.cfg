CONSTANTS
  Checks <- MCChecks
  WordBits = 2
SPECIFICATION Spec
INVARIANTS
  ListIsWhatIsLeft
  VerdictRight
  LargestIsLongest
PROPERTIES
  NoLateWrite
  CheckReturns
  GoroutinesEnd
CHECK_DEADLOCK FALSE
