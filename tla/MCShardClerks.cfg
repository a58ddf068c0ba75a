CONSTANTS
  Clerks = {ck1}
  mck = mck
  Gids = {100, 101}
  Ctrler = Ctrler
  Replicas = 2
  Keys <- MCKeys
  NShards = 1
  MaxOps = 2
  MaxLosses = 1
  MaxElections = 1
  None = None
SPECIFICATION Spec
INVARIANTS
  GetIsCurrent
  ReturnedMeansExecuted
PROPERTIES
  ConfigNeverOlder
  OpsReturn
CHECK_DEADLOCK FALSE
