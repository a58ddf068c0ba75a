CONSTANTS
  Calls = {c1, c2}
  Ends = {e1}
  Names = {n1}
  Servers = {s1}
  Hangs = {c2}
  None = None
SPECIFICATION FairSpec
INVARIANTS
  TypeOK
  NoSpuriousFailure
PROPERTIES
  ImplementsAtMostOnceRpc
  CallsReturn
  DeadServerNoticed
  HandlersTerminate
