CONSTANTS
    W4 <- MCW4
    H <- MCH
    clusterSubnetMaxDiff <- MCMaxDiff
    Private <- MCPrivate
    Local <- MCLocal
    IP = {"ip1"}
    Restricted = {"kubernetes.default"}
    Ifaces <- MCIfaces
    ProvidedIPs <- MCProvidedIPs
    StatusLists <- MCStatusLists
    MaxPods <- MCMaxPods
    Rules <- MCRules
    Metadata <- MCMetadata
    Configs <- MCConfigs
    CIDRLists <- MCCIDRLists
    Requests <- MCRequests
SPECIFICATION Spec
INVARIANTS
    BlocksTileCluster IndicesAreTouchedBlocks NodeAddressesSound SubnetsCoverNode
    PodSubnetFits LastRuleWins SettingsConsistent FormExact
