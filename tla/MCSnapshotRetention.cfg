\* Three revisions, two policies, two workloads; sweeps with stale clock readings.
CONSTANTS
  e1 = e1
  w1 = w1
  w2 = w2
  NoPin = NoPin
  NoOverride = NoOverride
  Envs <- OneEnv
  Workloads <- TwoWorkloads
  Bounds <- TwoPolicies
  SelfConfigured <- NoEnvs
  Batch = 1
  MaxPinLife = 1
  PinQuota = 2
  MaxRevision = 3
  MaxNow = 3
SPECIFICATION MCSpec
INVARIANTS
  RetentionSound
PROPERTIES
  ConsequenceAgrees
  SweepEnds
CHECK_DEADLOCK FALSE
