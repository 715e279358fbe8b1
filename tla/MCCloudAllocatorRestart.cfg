CONSTANTS
    n1 = n1
    n2 = n2
    Node = {n1, n2}
    Worker = {w1, w2}
    clusterCIDRs <- SixOnly
    IPv6 = {"ula"}
    Global = {"g"}
    maxCIDRs <- SixOnlyMax
    serviceCIDRs <- NoService
    Discovery <- Public
    OwnBlocks <- OwnFirst
    TooSmall = {}
    InitialCIDRs <- NoCIDRs
    RegisteredCIDRs <- NoCIDRs
    cidrUpdateRetries = 1
    Tainted = FALSE
    Finalizers = FALSE
    LostReplies = FALSE
    MaxEvents = 1
    MaxDeletions = 1
    MaxInflight = 2
    MaxStarts = 2
SPECIFICATION Spec
SYMMETRY SymmetricWorkers
INVARIANTS UniquePodCIDRs
