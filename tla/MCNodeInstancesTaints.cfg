CONSTANTS
    Caller <- MCCaller
    Self = "self"
    Others <- MCOthers
    NodeIPs = 2
    Spot = TRUE
SPECIFICATION Spec
INVARIANTS NoTaintLost
