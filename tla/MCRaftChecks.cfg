CONSTANTS
  N = 2
  cmdA = cmdA
  cmdB = cmdB
  Commands = {cmdA, cmdB}
  MaxIndex = 2
  MaxStarts = 2
  MaxTerm = 2
  MaxChecks = 1
  SnapShotInterval = 2
  Iters = 2
  BusyRestarts = FALSE
  Tests = {"election", "agreement", "snapshot"}
  None = None
SPECIFICATION Spec
INVARIANTS
  NoFalseAlarm
  LogsAgree
  
PROPERTIES
  CommittedStays
  AnswersRight
SYMMETRY CommandSymmetry
CHECK_DEADLOCK FALSE
