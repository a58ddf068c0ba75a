CONSTANTS
  k1 = k1
  k2 = k2
  k3 = k3
  Clients = {k1, k2, k3}
  Files = {"f.txt", "f.exe"}
  Allowed = {"f.txt"}
  Limit = 2
  Pieces = 2
  Nobody = Nobody
SYMMETRY ClientSymmetry
SPECIFICATION Spec
INVARIANTS
  RequestLimit
PROPERTIES
  UndisturbedGet
  
