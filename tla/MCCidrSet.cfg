CONSTANTS
    maxCIDRs <- MCMax
    Ranges <- MCRanges
SPECIFICATION FairSpec
INVARIANTS TypeOK CounterMatchesBitmap
PROPERTIES ImplementsPool EveryBlockServed
