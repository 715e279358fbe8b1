-------------------------- MODULE MCRangeAllocator --------------------------
(* Instances of the range allocator for TLC.                               *)
EXTENDS RangeAllocator, TLC

\* Nodes and workers are interchangeable.
Symmetry == Permutations(Node) \cup Permutations(Worker)

\* One cluster CIDR of three blocks, the last one in the service range.
SingleMax == <<3>>
SingleService == <<{2}>>
SingleInitial == {<<>>, <<{0}>>, <<{1}>>}
NoneRegistered == {<<>>}

\* Dual stack.  A node may hold a CIDR of a wider node mask (two blocks).
DualMax == <<2, 1>>
DualService == <<{}, {}>>
DualInitial == {<<>>, <<{0, 1}, {0}>>, <<{0}, {0}>>}

\* Nodes may register with a CIDR outside the cluster CIDR, or hold one CIDR
\* more than there are cluster CIDRs.
ForeignInitial == {<<>>, <<{0}>>, <<{0}, {}>>}
ForeignRegistered == {<<>>, <<{}>>}
=============================================================================
