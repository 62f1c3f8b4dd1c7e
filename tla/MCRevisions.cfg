CONSTANTS
  p1 = p1
  p2 = p2
  e1 = e1
  e2 = e2
  k1 = k1
  k2 = k2
  g1 = g1
  v1 = v1
  q1 = q1
  q2 = q2
  NoGroup = NoGroup
  NoValue = NoValue
  Principals <- TwoPrincipals
  Envs <- TwoEnvs
  Keys <- TwoKeys
  Groups <- OneGroup
  Values <- OneValue
  InitialEnvs <- OneEnv
  InitialKeys <- OneKey
  PresenceInputs <- Presence
  AllowedInputs <- AnyValues
  Params <- TwoParams
  Refs <- ToOneParam
  MaxPending = 2
  MaxOps = 3
  MaxRevision = 5
  MaxSchema = 3
SPECIFICATION MCSpec
SYMMETRY Symmetries
INVARIANTS
  ProjectConsistent
PROPERTIES
  PublishesCurrent
  GroupNotSplit
  ImplementsRevisionLog
CHECK_DEADLOCK FALSE
