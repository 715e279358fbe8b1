CONSTANTS
    Node = {n1, n2}
    Worker = {w1, w2}
    clusterCIDRs = 1
    maxCIDRs <- SingleMax
    Service <- SingleService
    InitialCIDRs <- SingleInitial
    RegisteredCIDRs <- NoneRegistered
    cidrUpdateRetries = 3
    Tainted = FALSE
    Finalizers = FALSE
    LostReplies = TRUE
    MaxEvents = 1
    MaxDeletions = 1
    MaxInflight = 2
SPECIFICATION Spec
PROPERTIES UnknownOutcomeKept
