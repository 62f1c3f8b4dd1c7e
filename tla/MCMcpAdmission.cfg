\* Every limit and both buckets can be exhausted; transactions wait, callers crash.
SPECIFICATION FairSpec
CONSTANTS
    c1 = c1
    c2 = c2
    d1 = d1
    p1 = p1
    p2 = p2
    Principals = {p1, p2}
    Calls <- MCCalls
    PrincipalOf <- MCPrincipalOf
    Groups <- MCGroups
    Limit <- MCLimit
    Capacity = 2
    TTL = 3
    Timeout = 2
    MaxWait = 1
    MaxIdle = 2
INVARIANTS
  AdmissionBounded
PROPERTIES
  CapacityReturns
