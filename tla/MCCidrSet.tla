----------------------------- MODULE MCCidrSet -----------------------------
(* A pool of MCMax blocks; every aligned range a CIDR mask can describe.   *)
EXTENDS CidrSetCalls

MCMax == 8

\* Aligned power-of-two ranges, and the empty range (out of the cluster CIDR).
MCRanges ==
    {{}} \cup UNION {{(k * w) .. (k * w + w - 1) : k \in 0 .. (MCMax \div w) - 1} : w \in {1, 2, 4, 8}}
=============================================================================
