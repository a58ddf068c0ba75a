CONSTANTS
  Clients = {k1, k2}
  Files = {"f.txt"}
  Allowed = {"f.txt"}
  Limit = 1
  ProxyLimit = 1
  Pieces = 1
  Nobody = Nobody
SPECIFICATION ProxyFairSpec
INVARIANT
  BothLimits

  
  
CHECK_DEADLOCK FALSE
