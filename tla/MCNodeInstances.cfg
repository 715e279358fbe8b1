CONSTANTS
    Caller <- MCCaller
    Self = "self"
    Others <- MCOthers
    NodeIPs = 2
    Spot = TRUE
SPECIFICATION FairSpec
INVARIANTS TypeOK NotLeftClosed
PROPERTIES NoLostUpdate NodeConverges SpotReplaced
