\* A quorum, emergency lists, and grants that run out.
SPECIFICATION MCSpec
CONSTANTS
    x = x
    a = a
    b = b
    r1 = r1
    r2 = r2
    Principals = {x, a, b}
    Managers = {x}
    Held <- Standing
    Caps = {"read", "reveal", "edit"}
    Reqs = {r1, r2}
    Offers <- AllOffers
    ReviewTTL = 2
    MaxLag = 1
    Batch = 1
    MaxTime = 3
    LastFiled = 0
    MaxPolicies = 2
    MaxVersion = 3
    MaxChanges = 2
INVARIANTS
  GrantsBacked
PROPERTIES
  QuorumGrants
  GrantNeedsQuorum
  AccessEndsInTime
CHECK_DEADLOCK FALSE
