CONSTANTS
    n1 = n1
    n2 = n2
    Node = {n1}
    Worker = {w1}
    clusterCIDRs <- SixOnly
    IPv6 = {"ula"}
    Global = {"g", "tiny"}
    maxCIDRs <- OneTwo
    serviceCIDRs <- UlaService
    Discovery <- Mixed
    OwnBlocks <- OwnFirst
    TooSmall = {"tiny"}
    InitialCIDRs <- PublicInitial
    RegisteredCIDRs <- NoCIDRs
    cidrUpdateRetries = 1
    Tainted = TRUE
    Finalizers = TRUE
    LostReplies = TRUE
    MaxEvents = 1
    MaxDeletions = 1
    MaxInflight = 1
    MaxStarts = 1
SPECIFICATION FairSpec
INVARIANTS TypeOK
PROPERTIES ServiceNeverAssigned NodeServed
