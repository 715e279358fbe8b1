CONSTANTS
    Csr = {c1}
    Node = {"n1"}
    IP = {"ip1", "ip2"}
    Restricted = {"kubernetes.default"}
    Requests <- MCPaths
    AddressLists <- MCAddressLists
    Cancels = TRUE
    MaxVersion = 3
SPECIFICATION FairSpec
CHECK_DEADLOCK FALSE
INVARIANTS TypeOK ApprovalJustified DecidedOnce
PROPERTIES PendingDecided DecisionFinal
