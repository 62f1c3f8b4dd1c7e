\* Two revisions, two workers, crashes and lapsed leases; a name somebody else adds.
CONSTANTS
  w1 = w1
  w2 = w2
  a = a
  b = b
  Foreign = Foreign
  Late = Late
  NoLease = NoLease
  Workers <- TwoWorkers
  Names <- TwoNames
  Desired <- SameTwice
  ForeignNames <- NoNames
  AttemptTimeout = 1
  LeaseTime = 2
  MaxGeneration = 3
  MaxEffects = 2
  MaxNow = 2
SPECIFICATION MCSpec
SYMMETRY WorkerSymmetry
INVARIANTS
  QueueSound
  CustodyKept
PROPERTIES
  NothingGoesBack
  ReportsAreTrue
  ForeignUntouched
CHECK_DEADLOCK FALSE
