\* Two processes; the root is rotated with one of them running; commits may lose their answers.
SPECIFICATION Spec
CONSTANTS
  n1 = n1
  n2 = n2
  k1 = k1
  k2 = k2
  k3 = k3
  First = first
  Nodes <- TwoNodes
  Keys <- ThreeKeys
  MaxVersion = 3
  MaxEpoch = 3
  LostAcks = TRUE
  FullStop = TRUE
INVARIANTS
  MasterCovers
  InstalledRootBoots
  AdoptingUnwraps
