CONSTANTS
    Node = {n1}
    Worker = {w1}
    clusterCIDRs = 1
    maxCIDRs <- SingleMax
    Service <- SingleService
    InitialCIDRs <- ForeignInitial
    RegisteredCIDRs <- ForeignRegistered
    cidrUpdateRetries = 2
    Tainted = FALSE
    Finalizers = TRUE
    LostReplies = TRUE
    MaxEvents = 2
    MaxDeletions = 1
    MaxInflight = 2
SPECIFICATION FairSpec
INVARIANTS TypeOK
PROPERTIES ServiceNeverAssigned NodeServed
