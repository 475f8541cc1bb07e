SPECIFICATION Spec
CONSTANTS
    Peers <- MCPeers
    Server = 1
    TTLChannel = 2
    MaxSubChannel = 2
    SizeCluster = 1
    MaxCandidate = 2
    MaxPeerInSub = 1
    TimeMerge = TRUE
    Mixed = FALSE
    OutOf <- MCOutOf
    MinOut = 0
    ServerCandidates <- MCServerCandidates
    PerfPeers <- MCPerfPeers
    ListSize = 5
    MaxChanges = 2
INVARIANTS TypeOK ServersAreKnown ParallelServed NetworksIsolated ServersTold
PROPERTIES MovesJustified
CHECK_DEADLOCK FALSE
