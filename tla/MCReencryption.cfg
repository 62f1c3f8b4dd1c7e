\* A project or the instance scope on two HA nodes, with lost commit answers.
SPECIFICATION MCSpec
CONSTANTS
  n1 = n1
  n2 = n2
  Nodes <- TwoNodes
  Writers <- Other
  Rotators <- TwoNodes
  Walkers <- OneNode
  NRows = 2
  Chunk = 1
  MaxVersion = 3
  Instance = FALSE
  HA = TRUE
  LostAcks = TRUE
INVARIANTS
  KeysCover
PROPERTIES
  FenceClearsHere
