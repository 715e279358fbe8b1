--------------------------- MODULE NodeDiscovery ---------------------------
(***************************************************************************)
(* What is made of the addresses of a node: its InternalIPs and            *)
(* ExternalIPs (pkg/talos/helper.go, pkg/utils/net), the public IPv6       *)
(* subnets it is in (pkg/talosclient, pkg/utils/node), and the mask of the *)
(* pod subnets cut out of one (cloud_allocator.go).                        *)
(*                                                                         *)
(* An address is its family and number; an interface address adds the      *)
(* link, the prefix length and the permanent flag.                         *)
(***************************************************************************)
EXTENDS CidrArith, Sequences

CONSTANTS
    Private,            \* private addresses
    Local               \* link-local and other addresses that are not global unicast

NotPublic == Private \cup Local

LOCAL Seqs == INSTANCE SequencesExt

Addr(i) == [family |-> i.family, ip |-> i.ip]

Addrs(ifaces) == [n \in DOMAIN ifaces |-> Addr(ifaces[n])]

Elements(seq) == {seq[n] : n \in DOMAIN seq}

OfFamily(family, seq) == SelectSeq(seq, LAMBDA a : a.family = family)

----------------------------------------------------------------------------
(* Node addresses.                                                         *)

\* The first element as a sequence, if there is one.
First(seq) == IF seq = <<>> THEN <<>> ELSE <<seq[1]>>

PreferredDualStackNodeIPs(preferIPv6, ips) ==
    LET v4 == First(OfFamily("v4", ips))
        v6 == First(OfFamily("v6", ips))
    IN  IF preferIPv6 THEN v6 \o v4 ELSE v4 \o v6

\* KubeSpan, SideroLink, loopback and dummy links.
SkippedLinks == {"kubespan", "siderolink", "lo", "dummy0"}

\* Mutant: permanent addresses are appended like all others.
ipDiscoveryInOrder(nodeIPs, ifaces) ==
    LET found == SelectSeq(ifaces, LAMBDA i : /\ i.link \notin SkippedLinks \cup {"cilium_host"}
                                              /\ Addr(i) \notin NotPublic \cup Elements(nodeIPs))
    IN  [v4 |-> Addrs(OfFamily("v4", found)), v6 |-> Addrs(OfFamily("v6", found))]

\* Permanent IPv6 addresses are put in front, one before the other.
ipDiscovery(nodeIPs, ifaces) ==
    LET found == SelectSeq(ifaces, LAMBDA i : /\ i.link \notin SkippedLinks \cup {"cilium_host"}
                                              /\ Addr(i) \notin NotPublic \cup Elements(nodeIPs))
        v6    == OfFamily("v6", found)
    IN  [v4 |-> Addrs(OfFamily("v4", found)),
         v6 |-> Addrs(Seqs!Reverse(SelectSeq(v6, LAMBDA i : i.permanent))
                        \o SelectSeq(v6, LAMBDA i : ~i.permanent))]

\* The link that other platforms put a machine's public addresses on.
ExternalLink(nodeIPs, ifaces) ==
    LET found == Addrs(SelectSeq(ifaces, LAMBDA i : /\ i.link = "external"
                                                    /\ Addr(i) \notin Elements(nodeIPs)))
    IN  [v4 |-> OfFamily("v4", found), v6 |-> OfFamily("v6", found)]

DiscoveryPlatforms == {"nocloud", "metal", "openstack", "oracle"}

getNodeAddresses(preferIPv6, platform, publicIPDiscovery, nodeIPs, ifaces) ==
    LET known == IF platform \in DiscoveryPlatforms THEN ipDiscovery(nodeIPs, ifaces)
                 ELSE ExternalLink(nodeIPs, ifaces)
        extra == IF publicIPDiscovery THEN ipDiscovery(nodeIPs, ifaces)
                 ELSE [v4 |-> <<>>, v6 |-> <<>>]
    IN  [InternalIP |-> PreferredDualStackNodeIPs(preferIPv6, nodeIPs),
         ExternalIP |-> PreferredDualStackNodeIPs(preferIPv6,
                            known.v4 \o extra.v4 \o known.v6 \o extra.v6)]

----------------------------------------------------------------------------
(* Subnets of a node.                                                      *)

\* status: the node's addresses of any type; provided: its provided-ip
\* annotation, which repeats some of them.  Unparsable is an address that
\* ParseAddr does not take.
Unparsable == [family |-> "none", ip |-> 0]

ParseError == <<Unparsable>>

GetNodeIPs(status, provided) ==
    LET typed == Addrs(SelectSeq(status, LAMBDA a : a.type \in {"InternalIP", "ExternalIP"}))
    IN  IF Unparsable \in Elements(typed) \cup Elements(provided) THEN ParseError
        ELSE typed \o SelectSeq(provided, LAMBDA a : a \notin Elements(typed))

Prefix(i) == [family |-> i.family, size |-> i.size, ip |-> i.ip]

\* The network of a prefix whose address has host bits.
Masked(p) == [p EXCEPT !.ip = MaskIP(p.family, p.ip, p.size)]

\* The interface addresses that NodeCIDRDiscovery looks at.
Eligible(filterIPs, ifaces) ==
    {Prefix(i) : i \in {j \in Elements(ifaces) :
        /\ j.link \notin SkippedLinks \cup {"cilium_host", "cilium_net"}
        /\ j.family = "v6" /\ Addr(j) \notin NotPublic
        /\ filterIPs = <<>> \/ Addr(j) \in Elements(filterIPs)}}

\* Mutant: a prefix is dropped for another one of the same length, too.
ContainedOrEqual(p, prefixes) ==
    \E q \in prefixes \ {p} : q.size <= p.size /\ Contains(Masked(q), "v6", p.ip)

Contained(p, prefixes) ==
    \E q \in prefixes : q.size < p.size /\ Contains(Masked(q), "v6", p.ip)

\* The IPv6 half of NodeCIDRDiscovery; its callers ignore the other one.
NodeCIDRDiscovery(filterIPs, ifaces) ==
    LET prefixes == Eligible(filterIPs, ifaces)
    IN  Seqs!SetToSortSeq({p \in prefixes : ~Contained(p, prefixes)},
            LAMBDA p, q : \/ p.size < q.size
                          \/ p.size = q.size /\ p.ip < q.ip)

\* The argument that defineNodeGlobalCIDRs passes.  A link-local address stays, so
\* that a node with no other IPv6 address is in no subnet.
FilterIPs(nodeIPs) ==
    SelectSeq(nodeIPs, LAMBDA a : a.family = "v6" /\ a \notin Private)

----------------------------------------------------------------------------
(* Masks of 128-bit addresses.                                             *)

defaultNodeMaxPods == 110

\* 0 for a quantity that is missing or not a positive integer.
getNodeMaxPods(allocatable, capacity) ==
    IF allocatable > 0 THEN allocatable
    ELSE IF capacity > 0 THEN capacity ELSE defaultNodeMaxPods

PodAddresses(mask) == 2^(128 - mask) - 2

TooSmall == [set |-> 0, pods |-> 0]

\* Mutant: the size check begins one mask too late.
addCIDRSetLateCheck(mask, maxPods) ==
    CASE mask < 64  -> [set |-> 64, pods |-> 80]
      [] mask > 123 -> TooSmall
      [] mask \in 119 .. 123 ->
            IF maxPods > PodAddresses(mask + 1) THEN TooSmall
            ELSE [set |-> mask, pods |-> mask + 1]
      [] mask \in 112 .. 118 -> [set |-> mask, pods |-> mask + 2]
      [] mask \in 106 .. 111 -> [set |-> mask, pods |-> mask + 4]
      [] mask \in 100 .. 105 -> [set |-> mask, pods |-> mask + 8]
      [] mask \in 64 .. 99   -> [set |-> mask, pods |-> mask + 16]

\* The prefix lengths of the new set and of its pod subnets.
addCIDRSet(mask, maxPods) ==
    CASE mask < 64  -> [set |-> 64, pods |-> 80]
      [] mask > 123 -> TooSmall
      [] mask \in 118 .. 123 ->
            IF maxPods > PodAddresses(mask + 1) THEN TooSmall
            ELSE [set |-> mask, pods |-> mask + 1]
      [] mask \in 112 .. 117 -> [set |-> mask, pods |-> mask + 2]
      [] mask \in 106 .. 111 -> [set |-> mask, pods |-> mask + 4]
      [] mask \in 100 .. 105 -> [set |-> mask, pods |-> mask + 8]
      [] mask \in 64 .. 99   -> [set |-> mask, pods |-> mask + 16]
=============================================================================
