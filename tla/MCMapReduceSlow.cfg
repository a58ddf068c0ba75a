SPECIFICATION FairSpec
CONSTANTS
  w1 = w1
  w2 = w2
  w3 = w3
  a = a
  b = b
  Workers = {w1, w2}
  Keys = {a, b}
  NMap = 2
  NReduce = 2
  Timeout = 1
  MaxCrashes = 1
  mapf <- MCmapf
  ihash <- MCihash
INVARIANT TypeOK
INVARIANT IntermediatesExist
PROPERTY ImplementsTwoPhaseJob
PROPERTY JobCompletes
PROPERTY WorkersStop
