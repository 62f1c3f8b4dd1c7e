SPECIFICATION Spec
CONSTANTS
    Nodes = {n1}
    Leases = {l1}
    NoNode = NoNode
    TTL = 2
    Term = 1
    Grace = 2
    MaxRequests = 1
    MaxFaults = 0
    SlowMint = FALSE
    SlowWorker = FALSE
    RevokeMinting = TRUE
    Custody = FALSE
INVARIANT TerminalHasNoRole
CHECK_DEADLOCK FALSE
