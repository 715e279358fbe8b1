----------------------------- MODULE CidrArith -----------------------------
(***************************************************************************)
(* The address arithmetic of a CidrSet: block index to CIDR and CIDR to    *)
(* block indices, on machine words as the code computes it                 *)
(* (pkg/nodeipam/ipam/cidrset/cidr_set.go).                                *)
(*                                                                         *)
(* An IPv4 address is one word of W4 bits (32 in the code); an IPv6        *)
(* address is two words of H bits each (64 in the code), and a block mask  *)
(* may end in either half.                                                 *)
(***************************************************************************)
EXTENDS Integers, Bitwise

CONSTANTS
    W4,                     \* bits of an IPv4 address
    H,                      \* bits of half an IPv6 address
    clusterSubnetMaxDiff    \* widest IPv6 bitmap, as a number of bits

\* 16 < 64 in the code: an IPv6 block index fits in one word.
ASSUME WordAssumption ==
    /\ {W4, H, clusterSubnetMaxDiff} \subseteq Nat \ {0}
    /\ clusterSubnetMaxDiff < H

AddrBits(family) == IF family = "v4" THEN W4 ELSE 2 * H

----------------------------------------------------------------------------
(* net.IP and net.IPNet as the code uses them.  ParseCIDR clears the host  *)
(* bits, so a CIDR's ip is always a multiple of its size.                  *)

HostBits(family, size) == AddrBits(family) - size

\* net.IP.Mask
MaskIP(family, ip, size) == ip - (ip % 2^HostBits(family, size))

CIDRs(family) ==
    UNION {[family: {family}, size: {size},
            ip: {n * 2^HostBits(family, size) : n \in 0 .. 2^size - 1}]
             : size \in 0 .. AddrBits(family)}

\* net.IPNet.Contains; addresses of the other family are never contained.
Contains(net, family, ip) ==
    net.family = family /\ MaskIP(family, ip, net.size) = net.ip

\* Go shifts of a w-bit word: bits shifted out at either end are lost.
Shl(x, k, w) == (x * 2^k) % 2^w
Shr(x, k) == x \div 2^k

\* w minus bits.LeadingZeros of a w-bit word.
BitLen(x) == CHOOSE n \in 0 .. x : 2^n > x /\ (n = 0 \/ 2^(n - 1) <= x)

----------------------------------------------------------------------------
(* NewCIDRSet and the two conversions.                                     *)

getMaxCIDRs(nodeMaskSize, clusterMaskSize) == 2^(nodeMaskSize - clusterMaskSize)

\* ErrCIDRSetSubNetTooBig guards IPv6 only.  The callers ensure that the
\* node mask is not shorter than the cluster mask; a cluster CIDR 0.0.0.0/0 cut
\* into single addresses, whose maxCIDRs overflows uint32, is left out.
NewCIDRSetOK(cluster, nodeMaskSize) ==
    /\ nodeMaskSize \in cluster.size .. AddrBits(cluster.family)
    /\ cluster.family = "v4" => nodeMaskSize - cluster.size < W4
    /\ cluster.family = "v6" => nodeMaskSize - cluster.size <= clusterSubnetMaxDiff

NewCIDRSet(cluster, nodeMaskSize) ==
    [clusterCIDR |-> cluster, nodeMaskSize |-> nodeMaskSize,
     maxCIDRs |-> getMaxCIDRs(nodeMaskSize, cluster.size)]

indexToCIDRBlockV4(s, index) ==
    s.clusterCIDR.ip | Shl(index, W4 - s.nodeMaskSize, W4)

\* Mutant: the index bits that spill into the left half are dropped.
indexToCIDRBlockV6NoSpill(s, index) ==
    LET left  == s.clusterCIDR.ip \div 2^H
        right == s.clusterCIDR.ip % 2^H
        btl   == s.nodeMaskSize - H
    IN  IF btl <= 0 THEN (left | Shl(index, -btl, H)) * 2^H + right
        ELSE left * 2^H + (right | Shl(index, H - btl, H))

indexToCIDRBlockV6(s, index) ==
    LET left  == s.clusterCIDR.ip \div 2^H
        right == s.clusterCIDR.ip % 2^H
        \* bits of the block mask that lie in the right half
        btl   == s.nodeMaskSize - H
        newLeft ==
            IF btl <= 0 THEN left | Shl(index, -btl, H)
            ELSE IF s.clusterCIDR.size < H /\ BitLen(index) > btl
                 THEN left | Shr(index, btl)
                 ELSE left
        newRight ==
            IF btl <= 0 THEN right ELSE right | Shl(index, H - btl, H)
    IN  newLeft * 2^H + newRight

indexToCIDRBlock(s, index) ==
    [family |-> s.clusterCIDR.family, size |-> s.nodeMaskSize,
     ip     |-> IF s.clusterCIDR.family = "v4"
                THEN indexToCIDRBlockV4(s, index)
                ELSE indexToCIDRBlockV6(s, index)]

\* The index is compared with maxCIDRs in a 32-bit word (IPv4) or truncated to
\* 64 bits (IPv6); -1 is the error.
getIndexForIP(s, ip) ==
    LET family == s.clusterCIDR.family
        word   == IF family = "v4" THEN W4 ELSE H
        index  == Shr(s.clusterCIDR.ip ^^ ip, HostBits(family, s.nodeMaskSize)) % 2^word
    IN  IF index >= s.maxCIDRs % 2^word THEN -1 ELSE index

\* Mutant: the host bits are not set, so the range ends where it begins.
LastIPUnset(net) == net.ip

\* The last address of a CIDR: ip | ^mask.
LastIP(net) == net.ip | (2^HostBits(net.family, net.size) - 1)

OutOfRange(s, net) ==
    LET cluster == s.clusterCIDR
        family  == net.family
    IN  \/ family # cluster.family
        \/ /\ ~Contains(cluster, family, MaskIP(family, net.ip, cluster.size))
           /\ ~Contains(net, family, MaskIP(family, cluster.ip, net.size))

\* <<begin, end>>, or <<-1, -1>> for an error.
getBeginningAndEndIndices(s, net) ==
    LET family == net.family
        begin  == getIndexForIP(s, MaskIP(family, net.ip, s.nodeMaskSize))
        end    == getIndexForIP(s, MaskIP(family, LastIP(net), s.nodeMaskSize))
    IN  IF OutOfRange(s, net) THEN <<-1, -1>>
        ELSE IF s.clusterCIDR.size >= net.size THEN <<0, s.maxCIDRs - 1>>
        ELSE IF begin = -1 \/ end = -1 THEN <<-1, -1>>
        ELSE <<begin, end>>

----------------------------------------------------------------------------
(* Reference definitions, on sets of addresses.                            *)

Addresses(net) == net.ip .. net.ip + 2^HostBits(net.family, net.size) - 1

\* The cluster CIDR cut into maxCIDRs consecutive equal pieces.
Piece(s, index) ==
    LET width == 2^HostBits(s.clusterCIDR.family, s.nodeMaskSize)
    IN  s.clusterCIDR.ip + index * width .. s.clusterCIDR.ip + (index + 1) * width - 1
=============================================================================
