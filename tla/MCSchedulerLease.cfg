CONSTANTS
  n1 = n1
  n2 = n2
  NoNode = NoNode
  Nodes <- TwoNodes
  TTL = 2
  MaxClock = 3
  MaxFence = 3
  MaxLog = 2
SPECIFICATION Spec
SYMMETRY NodeSymmetry
INVARIANTS
  LeadershipSafe
PROPERTIES
  ImplementsFencedLog
