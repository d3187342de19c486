SPECIFICATION Spec
CONSTANTS
    Groups = {g1}
    Us = "us"
    Names <- MCNames
    PeerLists <- MCPeerLists
    DataShards = 3
    TotalShards = 5
INVARIANTS TypeOK RouteComplete CanReconstructIsSound PlanPrefersReachable
PROPERTIES NewRoutesReachable
