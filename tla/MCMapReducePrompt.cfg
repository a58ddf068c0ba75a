SPECIFICATION PromptSpec
CONSTANTS
  w1 = w1
  w2 = w2
  w3 = w3
  a = a
  b = b
  Workers = {w1, w2, w3}
  Keys = {a, b}
  NMap = 2
  NReduce = 2
  Timeout = 1
  MaxCrashes = 2
  mapf <- MCmapf
  ihash <- MCihash
SYMMETRY WorkerSymmetry
INVARIANT ExclusiveExecution
INVARIANT IntermediatesComplete
INVARIANT OutputMatchesSequential
PROPERTY OutputFinal
