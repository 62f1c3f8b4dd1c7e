\* Requests under edits, drift and expiry; policies of either scope; imports and copies.
CONSTANTS
  p1 = p1
  p2 = p2
  e1 = e1
  e2 = e2
  k1 = k1
  k2 = k2
  v1 = v1
  NoGroup = NoGroup
  NoValue = NoValue
  AllEnvs = AllEnvs
  NoPolicy = NoPolicy
  Principals <- TwoPrincipals
  Envs <- TwoEnvs
  Keys <- TwoKeys
  Groups <- NoGroups
  Values <- OneValue
  InitialEnvs <- TwoEnvs
  InitialKeys <- TwoKeys
  PolicyInputs <- EveryPolicy
  PresenceInputs <- AlwaysFree
  AllowedInputs <- AllValues
  Params <- NoParams
  Refs <- NoRefs
  MaxPending = 2
  MaxOps = 2
  MaxRevision = 3
  MaxSchema = 2
  TTL = 1
  MaxPolicies = 2
  MaxVersion = 2
  MaxRequests = 1
  MaxNow = 3
SPECIFICATION MCSpec
PROPERTIES
  RequestsSound
  MergedIsReviewed
  MergedWithQuorum
  CoveredWritesReviewed
  RequestsExpireInTime
CHECK_DEADLOCK FALSE
