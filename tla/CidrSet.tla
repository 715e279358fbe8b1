------------------------------ MODULE CidrSet ------------------------------
(***************************************************************************)
(* The pool of equally sized blocks of one cluster CIDR                    *)
(* (pkg/nodeipam/ipam/cidrset/cidr_set.go).                                *)
(*                                                                         *)
(* A block is its index 0 .. maxCIDRs-1.  A CIDR handed to Occupy or       *)
(* Release is the set of the blocks it touches, as returned by             *)
(* getBeginningAndEndIndices; the empty set is a CIDR outside the cluster  *)
(* CIDR, which makes both calls return an error.  CidrArith relates        *)
(* indices to addresses.                                                   *)
(***************************************************************************)
EXTENDS Integers, FiniteSets

----------------------------------------------------------------------------
(* The CidrSet struct and its operations, as functions of the struct.      *)

Blocks(max) == 0 .. max - 1

CidrSets(max) ==
    [maxCIDRs: {max}, allocatedCIDRs: 0 .. max,
     nextCandidate: Blocks(max), used: SUBSET Blocks(max)]

NewCIDRSet(max) ==
    [maxCIDRs |-> max, allocatedCIDRs |-> 0, nextCandidate |-> 0, used |-> {}]

\* AllocateNext's early return: ErrCIDRRangeNoCIDRsRemaining.
NoCIDRsRemaining(s) == s.allocatedCIDRs = s.maxCIDRs

\* Position of the probe after k steps of the ring scan.
Probe(s, k) == (s.nextCandidate + k) % s.maxCIDRs

\* The loop counter i when the scan ends: the first probe that finds a clear
\* bit, or maxCIDRs when there is none.
IsScanLength(s, k) ==
    /\ k \in 0 .. s.maxCIDRs
    /\ \A j \in 0 .. k - 1 : Probe(s, j) \in s.used
    /\ k = s.maxCIDRs \/ Probe(s, k) \notin s.used

\* Mutant: the scan is skipped and the ring pointer is taken as it is.
CandidateUnscanned(s) == s.nextCandidate

Candidate(s) == Probe(s, CHOOSE k \in 0 .. s.maxCIDRs : IsScanLength(s, k))

\* Mutant: the ring pointer stays on the block just handed out.
AllocateNextStuck(s) ==
    LET candidate == Candidate(s)
    IN  [s EXCEPT !.nextCandidate  = candidate,
                  !.used           = @ \cup {candidate},
                  !.allocatedCIDRs = @ + 1]

\* The struct after a successful AllocateNext, which returns Candidate(s).
AllocateNext(s) ==
    LET candidate == Candidate(s)
    IN  [s EXCEPT !.nextCandidate  = (candidate + 1) % s.maxCIDRs,
                  !.used           = @ \cup {candidate},
                  !.allocatedCIDRs = @ + 1]

\* Mutant: the counter is decremented for every index of the range.
ReleaseCountingAll(s, cidr) ==
    [s EXCEPT !.used           = @ \ cidr,
              !.allocatedCIDRs = @ - Cardinality(cidr)]

\* Mutant: the counter is incremented for every index of the range.
OccupyCountingAll(s, cidr) ==
    [s EXCEPT !.used           = @ \cup cidr,
              !.allocatedCIDRs = @ + Cardinality(cidr)]

\* The counter moves only for bits that change.
Release(s, cidr) ==
    [s EXCEPT !.used           = @ \ cidr,
              !.allocatedCIDRs = @ - Cardinality(s.used \cap cidr)]

Occupy(s, cidr) ==
    [s EXCEPT !.used           = @ \cup cidr,
              !.allocatedCIDRs = @ + Cardinality(cidr \ s.used)]

\* What the counter and the bitmap promise each other.
WellFormed(s, max) ==
    /\ s \in CidrSets(max)
    /\ s.allocatedCIDRs = Cardinality(s.used)
=============================================================================
