SPECIFICATION Spec
CONSTANTS
  w1 = w1
  w2 = w2
  w3 = w3
  a = a
  b = b
  Workers = {w1, w2}
  Keys = {a, b}
  NMap = 2
  NReduce = 1
  Timeout = 1
  MaxCrashes = 0
  mapf <- MCmapf
  ihash <- MCihash
SYMMETRY WorkerSymmetry
INVARIANT OutputMatchesSequential
