----------------------------- MODULE Algorithms -----------------------------
(***************************************************************************)
(* The pure functions of the program, each called with every argument of a *)
(* bounded set: CIDR arithmetic, addresses and subnets of a node, rules,   *)
(* settings of the IPAM controller, and the form of a CSR.  The properties *)
(* compare what a call returns with a definition that does not follow the  *)
(* code.                                                                   *)
(***************************************************************************)
EXTENDS NodeDiscovery, NodeRules, IpamSettings, CsrRules, FiniteSets

CONSTANTS
    Ifaces,         \* lists of interface addresses
    ProvidedIPs,    \* lists of addresses in the provided-ip annotation
    StatusLists,    \* lists of addresses in the status of a node
    MaxPods,        \* pod capacities
    Rules,          \* lists of transformation rules
    Metadata,       \* platform metadata
    Configs,        \* flags of the IPAM controller
    CIDRLists,      \* lists of pod or service CIDRs
    Requests        \* requests for certificates

VARIABLE call       \* the function that is called and its arguments

NoCall == [f |-> "none"]

AllCIDRs == CIDRs("v4") \cup CIDRs("v6")

----------------------------------------------------------------------------

NewSet ==
    /\ call = NoCall
    /\ \E cluster \in AllCIDRs : \E nodeMaskSize \in cluster.size .. AddrBits(cluster.family) :
           /\ NewCIDRSetOK(cluster, nodeMaskSize)
           /\ call' = [f |-> "set", set |-> NewCIDRSet(cluster, nodeMaskSize)]

\* Occupy or Release with any CIDR, on the set just made.
Indices ==
    /\ call.f = "set"
    /\ \E cidr \in AllCIDRs : call' = [f |-> "indices", set |-> call.set, cidr |-> cidr]

NodeAddresses ==
    /\ call = NoCall
    /\ \E prefer, feature \in BOOLEAN, platform \in {"metal", "aws"},
          provided \in ProvidedIPs, ifaces \in Ifaces :
           call' = [f |-> "addresses", prefer |-> prefer, platform |-> platform, feature |-> feature,
                    nodeIPs |-> PreferredDualStackNodeIPs(prefer, provided), ifaces |-> ifaces]

\* defineNodeGlobalCIDRs up to NodeCIDRDiscovery; it returns early for a node
\* without addresses or with one that does not parse.
Subnets ==
    /\ call = NoCall
    /\ \E status \in StatusLists, provided \in ProvidedIPs, ifaces \in Ifaces :
           LET nodeIPs == GetNodeIPs(status, provided)
           IN  /\ nodeIPs \notin {<<>>, ParseError}
               /\ call' = [f |-> "subnets", filter |-> FilterIPs(nodeIPs), ifaces |-> ifaces]

PodMask ==
    /\ call = NoCall
    /\ \E mask \in 0 .. 127, allocatable, capacity \in MaxPods :
           call' = [f |-> "podmask", mask |-> mask, maxPods |-> getNodeMaxPods(allocatable, capacity)]

Transform ==
    /\ call = NoCall
    /\ \E rules \in Rules, metadata \in Metadata :
           call' = [f |-> "transform", rules |-> rules, metadata |-> metadata]

StartIpam ==
    /\ call = NoCall
    /\ \E cfg \in Configs, pods, services \in CIDRLists :
           call' = [f |-> "start", cfg |-> cfg, pods |-> pods, services |-> services]

Validate ==
    /\ call = NoCall
    /\ \E request \in Requests : call' = [f |-> "csr", request |-> request]

Return ==
    /\ call # NoCall
    /\ call' = NoCall

Init == call = NoCall

Next ==
    \/ NewSet \/ Indices \/ NodeAddresses \/ Subnets \/ PodMask
    \/ Transform \/ StartIpam \/ Validate \/ Return

Spec == Init /\ [][Next]_call

----------------------------------------------------------------------------
(* Properties.                                                             *)

\* indexToCIDRBlock, computed in machine words and in two halves for IPv6,
\* returns exactly the index-th piece of the cluster CIDR: blocks of different
\* indices never overlap, none leaves the cluster CIDR, and a block mask that
\* crosses the middle of an IPv6 address loses no bit.
BlocksTileCluster ==
    call.f = "set" =>
        \A index \in 0 .. call.set.maxCIDRs - 1 :
            Addresses(indexToCIDRBlock(call.set, index)) = Piece(call.set, index)

\* The indices that Occupy and Release act on are exactly those of the blocks
\* that share an address with the CIDR, whether it is wider or narrower than a
\* block or than the cluster; the call fails exactly when there is none.
IndicesAreTouchedBlocks ==
    call.f = "indices" =>
        LET set     == call.set
            range   == getBeginningAndEndIndices(set, call.cidr)
            touched == IF call.cidr.family # set.clusterCIDR.family THEN {}
                       ELSE {index \in 0 .. set.maxCIDRs - 1 :
                               Piece(set, index) \cap Addresses(call.cidr) # {}}
        IN  IF touched = {} THEN range = <<-1, -1>>
            ELSE range[1] .. range[2] = touched

\* The interface addresses that may become an ExternalIP.
Candidates(c) ==
    {i \in Elements(c.ifaces) :
        /\ Addr(i) \notin Elements(c.nodeIPs)
        /\ \/ c.platform = "aws" /\ i.link = "external"
           \/ /\ c.platform = "metal" \/ c.feature
              /\ i.link \in {"eth0", "external", "cilium_net"} /\ Addr(i) \notin NotPublic}

\* getNodeAddresses gives a node each address once, at most one per type and
\* family, an ExternalIP in every family for which the interfaces have one, and
\* with discovery alone a permanent IPv6 address rather than a temporary one;
\* addresses of the preferred family come first.
NodeAddressesSound ==
    call.f = "addresses" =>
        LET result   == getNodeAddresses(call.prefer, call.platform, call.feature,
                                         call.nodeIPs, call.ifaces)
            internal == Elements(result.InternalIP)
            external == Elements(result.ExternalIP)
            first    == IF call.prefer THEN "v6" ELSE "v4"
        IN  /\ internal = Elements(call.nodeIPs)
            /\ external \subseteq {Addr(i) : i \in Candidates(call)} \ internal
            /\ {a.family : a \in external} = {i.family : i \in Candidates(call)}
            /\ \A seq \in {result.InternalIP, result.ExternalIP} :
                 /\ Cardinality({a.family : a \in Elements(seq)}) = Len(seq)
                 /\ Len(seq) = 2 => seq[1].family = first
            /\ call.platform = "metal" =>
                 \A i \in Candidates(call) : i.family = "v6" /\ i.permanent =>
                     \E j \in Candidates(call) : j.permanent /\ Addr(j) \in external /\ j.family = "v6"

\* The subnets of a node that NodeCIDRDiscovery returns cover every public IPv6
\* address it looked at, and two of them are the same network or disjoint,
\* whatever prefixes the interfaces carry; the widest comes first.
SubnetsCoverNode ==
    call.f = "subnets" =>
        LET eligible == Eligible(call.filter, call.ifaces)
            found    == NodeCIDRDiscovery(call.filter, call.ifaces)
            nets     == {Masked(p) : p \in Elements(found)}
        IN  /\ \A p \in eligible : \E net \in nets : Addresses(Masked(p)) \subseteq Addresses(net)
            /\ \A m, n \in nets : m # n => Addresses(m) \cap Addresses(n) = {}
            /\ \A p \in eligible : found[1].size <= p.size

\* A set that addCIDRSet makes has at least two pod subnets, so that one remains
\* beside the node's own addresses, not more than a bitmap holds, and a pod subnet
\* has an address for each of up to 510 pods; a public subnet is refused only if
\* halving it would be too small ("It returns an error if the resulting pod subnet
\* is too small to accommodate maxPods pods on the node").
PodSubnetFits ==
    call.f = "podmask" =>
        LET result == addCIDRSet(call.mask, call.maxPods)
        IN  IF result = TooSmall
            THEN call.mask > 123 \/ call.maxPods > 2^(127 - call.mask) - 2
            ELSE /\ result.pods - result.set \in 1 .. 16
                 /\ result.set >= call.mask
                 /\ call.maxPods <= 510 /\ result.pods > 108 =>
                       2^(128 - result.pods) >= call.maxPods + 2

\* The rules that match: their selector is empty, or one of its terms is not empty
\* and has no requirement that fails.
Matches(rule, metadata) ==
    \/ rule.nodeSelector = <<>>
    \/ \E n \in DOMAIN rule.nodeSelector :
         /\ rule.nodeSelector[n] # <<>>
         /\ \A m \in DOMAIN rule.nodeSelector[n] :
              Requirement(rule.nodeSelector[n][m], metadata) = "yes"

\* If TransformNode succeeds, each annotation, label and metadata field has the
\* text of the last matching rule that sets it, as html/template shows the machine's
\* own metadata, and nothing else has changed; the hostname and the platform stay, and
\* no rule hides another ("All rules are applied in order, all matched rules are
\* applied to the node", docs/config.md:64).
LastRuleWins ==
    call.f = "transform" =>
        LET result == TransformNode(call.rules, call.metadata)
            setters(kind, k) == {n \in DOMAIN call.rules :
                /\ Matches(call.rules[n], call.metadata)
                /\ k \in DOMAIN call.rules[n][kind]}
            last(kind, k) == CHOOSE n \in setters(kind, k) : \A m \in setters(kind, k) : m <= n
            text(kind, k) == Render(call.rules[last(kind, k)][kind][k], call.metadata)
        IN  result.outcome = "yes" =>
              /\ \A kind \in {"annotations", "labels"} : \A k \in {"a", "b"} :
                   IF setters(kind, k) = {} THEN k \notin DOMAIN result[kind]
                   ELSE result[kind][k] = text(kind, k)
              /\ \A k \in DOMAIN call.metadata :
                   result.platformMetadata[k] =
                       IF k \in {"hostname", "platform"} \/ setters("platformMetadata", k) = {}
                       THEN call.metadata[k]
                       ELSE IF k = "spot" /\ text("platformMetadata", k) # True THEN False
                       ELSE text("platformMetadata", k)

\* The IPAM controller starts only with one cluster CIDR or one of each family, a
\* node mask of the right family for each and a service CIDR for each; with the
\* range allocator no node mask is shorter than its cluster CIDR ("Caller must
\* ensure subNetMaskSize is not less than cluster CIDR mask size").  It panics only
\* if the machine configuration has fewer service CIDRs than cluster CIDRs.
SettingsConsistent ==
    call.f = "start" =>
        LET result  == startNodeIpamController(call.cfg, call.pods, call.services)
            cluster == ClusterCIDRs(call.cfg, call.pods)
        IN  /\ result.outcome = "panic" => Len(call.services) < Len(cluster)
            /\ result.outcome = "started" =>
                 /\ Len(cluster) \in 1 .. 2
                 /\ Cardinality(Families(cluster)) = Len(cluster)
                 /\ Len(result.services) = Len(cluster)
                 /\ \A n \in DOMAIN cluster :
                      /\ result.masks[n] \in
                           {call.cfg.mask, IF cluster[n].family = "v4" THEN call.cfg.maskV4
                                           ELSE call.cfg.maskV6} \cup
                           {IF cluster[n].family = "v4" THEN 24 ELSE 80}
                      /\ result.masks[n] # 0
                      /\ call.cfg.allocator = "range" => cluster[n].size <= result.masks[n]

\* validateKubeletServingCSR lets through only what Kubernetes signs as a kubelet
\* serving certificate, over all combinations of fields, and everything of that
\* form that a kubelet sends.
FormExact ==
    call.f = "csr" =>
        LET r == call.request
        IN  /\ validateKubeletServingCSR(r) => KubeletServing(r)
            /\ KubeletServing(r) /\ "digital signature" \in r.usages =>
                  validateKubeletServingCSR(r)
=============================================================================
