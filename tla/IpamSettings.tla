---------------------------- MODULE IpamSettings ----------------------------
(***************************************************************************)
(* From flags and machine configuration to the parameters of an allocator: *)
(* startNodeIpamController (cmd/.../nodeipamcontroller.go) and             *)
(* NewNodeIpamController (pkg/nodeipam/node_ipam_controller.go).           *)
(*                                                                         *)
(* A CIDR is its family and prefix length.  The outcome is "off", "error", *)
(* "panic" (an index out of range) or "started".                           *)
(***************************************************************************)
EXTENDS Integers, Sequences

defaultNodeMaskCIDRIPv4 == 24
defaultNodeMaskCIDRIPv6 == 80

Families(cidrs) == {cidrs[n].family : n \in DOMAIN cidrs}

\* IsDualStackCIDRs
DualStack(cidrs) == Families(cidrs) = {"v4", "v6"}

----------------------------------------------------------------------------

\* A mask flag that is not given is 0.
Given(flag, default) == IF flag # 0 THEN flag ELSE default

sortedSizes(v4, v6, clusterCIDRs) ==
    [n \in DOMAIN clusterCIDRs |-> IF clusterCIDRs[n].family = "v6" THEN v6 ELSE v4]

\* The combinations of flags that are refused.
MaskError(cfg, clusterCIDRs) ==
    IF Len(clusterCIDRs) > 1 THEN cfg.mask # 0
    ELSE \/ cfg.mask # 0 /\ (cfg.maskV4 # 0 \/ cfg.maskV6 # 0)
         \/ cfg.maskV4 # 0 /\ clusterCIDRs[1].family = "v6"
         \/ cfg.maskV6 # 0 /\ clusterCIDRs[1].family = "v4"

\* Mutant: IPv4 first, whatever the order of the cluster CIDRs.
SizesV4First(cfg, clusterCIDRs) ==
    LET sizes == <<Given(cfg.maskV4, Given(cfg.mask, defaultNodeMaskCIDRIPv4)),
                   Given(cfg.maskV6, Given(cfg.mask, defaultNodeMaskCIDRIPv6))>>
    IN  SubSeq(sizes, 1, Len(clusterCIDRs))

\* setNodeCIDRMaskSizes when it does not fail.
setNodeCIDRMaskSizes(cfg, clusterCIDRs) ==
    IF cfg.mask # 0 THEN sortedSizes(cfg.mask, cfg.mask, clusterCIDRs)
    ELSE sortedSizes(Given(cfg.maskV4, defaultNodeMaskCIDRIPv4),
                     Given(cfg.maskV6, defaultNodeMaskCIDRIPv6), clusterCIDRs)

Outcome(what) == [outcome |-> what, masks |-> <<>>, services |-> <<>>]

NewNodeIpamController(allocator, clusterCIDRs, serviceCIDRs, masks) ==
    IF allocator # "cloud" /\ \E n \in DOMAIN clusterCIDRs : clusterCIDRs[n].size > masks[n]
    THEN Outcome("error")
    ELSE IF Len(serviceCIDRs) < Len(clusterCIDRs) THEN Outcome("panic")
    ELSE IF allocator \notin {"range", "cloud"} THEN Outcome("error")
    ELSE [outcome |-> "started", masks |-> masks,
          services |-> SubSeq(serviceCIDRs, 1, Len(clusterCIDRs))]

\* The cluster CIDRs of the flag, or those of the machine configuration.
ClusterCIDRs(cfg, podCIDRs) == IF cfg.clusterCIDRs # <<>> THEN cfg.clusterCIDRs ELSE podCIDRs

\* An empty list does not parse; the last two are the checks for dual stack.
ClusterError(clusterCIDRs) ==
    \/ clusterCIDRs = <<>>
    \/ Len(clusterCIDRs) > 1 /\ ~DualStack(clusterCIDRs)
    \/ Len(clusterCIDRs) > 2

startNodeIpamController(cfg, podCIDRs, svcCIDRs) ==
    LET clusterCIDRs == ClusterCIDRs(cfg, podCIDRs)
    IN  IF ~cfg.allocateNodeCIDRs THEN Outcome("off")
        ELSE IF ClusterError(clusterCIDRs) THEN Outcome("error")
        ELSE IF svcCIDRs = <<>> THEN Outcome("panic")
        ELSE IF MaskError(cfg, clusterCIDRs) THEN Outcome("error")
        ELSE NewNodeIpamController(cfg.allocator, clusterCIDRs, svcCIDRs,
                                   setNodeCIDRMaskSizes(cfg, clusterCIDRs))
=============================================================================
