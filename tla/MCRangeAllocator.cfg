CONSTANTS
    Node = {n1, n2}
    Worker = {w1, w2}
    clusterCIDRs = 2
    maxCIDRs <- DualMax
    Service <- DualService
    InitialCIDRs <- DualInitial
    RegisteredCIDRs <- NoneRegistered
    cidrUpdateRetries = 2
    Tainted = FALSE
    Finalizers = FALSE
    LostReplies = FALSE
    MaxEvents = 2
    MaxDeletions = 1
    MaxInflight = 2
SPECIFICATION Spec
SYMMETRY Symmetry
INVARIANTS UniquePodCIDRs HeldReserved HandsExclusive
