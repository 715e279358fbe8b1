CONSTANTS
    n1 = n1
    n2 = n2
    Node = {n1, n2}
    Worker = {w1, w2}
    clusterCIDRs <- SixOnly
    IPv6 = {"ula"}
    Global = {"g"}
    maxCIDRs <- OneEach
    serviceCIDRs <- NoService
    Discovery <- Flaky
    OwnBlocks <- OwnFirst
    TooSmall = {}
    InitialCIDRs <- StaticInitial
    RegisteredCIDRs <- NoCIDRs
    cidrUpdateRetries = 1
    Tainted = FALSE
    Finalizers = FALSE
    LostReplies = FALSE
    MaxEvents = 1
    MaxDeletions = 1
    MaxInflight = 2
    MaxStarts = 1
SPECIFICATION Spec
SYMMETRY SymmetricWorkers
INVARIANTS UniquePodCIDRs HandsExclusive
