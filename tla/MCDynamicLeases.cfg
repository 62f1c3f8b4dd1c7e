\* Two workers on one lease; sweeps may outlive their claim, the admin credential may be revoked.
SPECIFICATION FairSpec
CONSTANTS
    Nodes = {n1, n2}
    Leases = {l1}
    NoNode = NoNode
    TTL = 2
    Term = 1
    Grace = 2
    MaxRequests = 3
    MaxFaults = 2
    SlowMint = FALSE
    SlowWorker = TRUE
    RevokeMinting = FALSE
    Custody = TRUE
INVARIANTS
  RowsSound
  TerminalHasNoRole
PROPERTIES
  RevocationSticks
  LeasesEnd
CHECK_DEADLOCK FALSE
