SPECIFICATION FairSpec
CONSTANTS
    P1 = P1
    P2 = P2
    w = w
    r1 = r1
    r2 = r2
    NoRole = NoRole
    Process = {P1, P2}
    Writer = {w}
    Reader = {r1, r2}
    proc <- MCproc
    node <- MCnode
    host_name <- MChost
    host_ip <- MChost
    process_id <- MCpid
    mapping_table <- MCmapping
    MaxChanges = 4
INVARIANTS
    PeersServed
CHECK_DEADLOCK FALSE
PROPERTIES
    RemovedHasLeft
    PeersConnect
    LeftIsForgotten
