--------------------------- MODULE CidrSetLemmas ---------------------------
(***************************************************************************)
(* What the operations of a CidrSet do, for a set of any size: they keep   *)
(* the counter equal to the number of set bits, and the ring scan of       *)
(* AllocateNext finds a free block whenever the counter says there is one. *)
(***************************************************************************)
EXTENDS CidrSet, FiniteSetTheorems, WellFoundedInduction, TLAPS

\* Index arithmetic of the ring: a sum below 2m wraps at most once.
LEMMA ModWraps ==
    ASSUME NEW m \in Nat \ {0}, NEW x \in Nat, x < 2 * m
    PROVE  x % m = IF x < m THEN x ELSE x - m
  OBVIOUS

\* The blocks of a set are finitely many, namely max.
LEMMA BlocksFinite ==
    ASSUME NEW max \in Nat
    PROVE  IsFiniteSet(Blocks(max)) /\ Cardinality(Blocks(max)) = max
  BY FS_Interval DEF Blocks

\* Every probe of the scan looks at a block of the set.
LEMMA ProbeType ==
    ASSUME NEW max \in Nat \ {0}, NEW s \in CidrSets(max), NEW k \in Nat
    PROVE  Probe(s, k) \in Blocks(max)
  BY DEF Probe, CidrSets, Blocks

\* The ring scan reaches every block.
LEMMA ProbeReaches ==
    ASSUME NEW max \in Nat \ {0}, NEW s \in CidrSets(max), NEW b \in Blocks(max)
    PROVE  \E j \in 0 .. max - 1 : Probe(s, j) = b
<1>. DEFINE next == s.nextCandidate
            j    == IF b >= next THEN b - next ELSE b - next + max
<1>1. s.maxCIDRs = max /\ next \in 0 .. max - 1 /\ b \in 0 .. max - 1
  BY DEF CidrSets, Blocks
<1>2. j \in 0 .. max - 1
  BY <1>1
<1>. DEFINE x == next + j
<1>3. x \in Nat /\ x < 2 * max
  BY <1>1, <1>2
<1>4. (IF x < max THEN x ELSE x - max) = b
  BY <1>1
<1>5. x % max = b
  <2>. HIDE DEF x
  <2>. QED
    BY <1>3, <1>4, ModWraps
<1>. QED
  BY <1>1, <1>2, <1>5 DEF Probe

\* A set whose counter is below max has a free block.
LEMMA FreeBlockExists ==
    ASSUME NEW max \in Nat \ {0}, NEW s, WellFormed(s, max), ~NoCIDRsRemaining(s)
    PROVE  \E b \in Blocks(max) : b \notin s.used
<1>1. s.used \subseteq Blocks(max) /\ s.maxCIDRs = max /\ Cardinality(s.used) # max
  BY DEF WellFormed, CidrSets, NoCIDRsRemaining
<1>2. Cardinality(Blocks(max)) = max
  BY BlocksFinite
<1>. QED
  BY <1>1, <1>2

\* A set of natural numbers that is not empty has a least element.
LEMMA LeastExists ==
    ASSUME NEW S, S \subseteq Nat, S # {}
    PROVE  \E k \in S : \A j \in S : ~(j < k)
<1>. DEFINE R == OpToRel(<, Nat)
<1>1. IsWellFoundedOn(R, Nat)
  BY NatLessThanWellFounded, Zenon
<1>2. \A x, y \in Nat : <<x, y>> \in R <=> x < y
  BY Zenon DEF OpToRel
<1>. HIDE DEF R
<1>3. PICK k \in S : \A j \in S : ~(<<j, k>> \in R)
  BY <1>1, WFMin
<1>. QED
  BY <1>2, <1>3

\* The ring scan ends at a free block.
LEMMA ScanStops ==
    ASSUME NEW max \in Nat \ {0}, NEW s, WellFormed(s, max), ~NoCIDRsRemaining(s)
    PROVE  \E k \in 0 .. s.maxCIDRs : IsScanLength(s, k)
<1>. DEFINE Hits == {j \in 0 .. max - 1 : Probe(s, j) \notin s.used}
<1>1. s \in CidrSets(max) /\ s.maxCIDRs = max
  BY DEF WellFormed, CidrSets
<1>2. Hits # {}
  BY <1>1, FreeBlockExists, ProbeReaches
<1>3. PICK k \in Hits : \A j \in Hits : ~(j < k)
  <2>1. Hits \subseteq Nat
    OBVIOUS
  <2>. QED
    BY <1>2, <2>1, LeastExists
<1>4. \A j \in 0 .. k - 1 : Probe(s, j) \in s.used
  BY <1>3
<1>. QED
  BY <1>1, <1>3, <1>4 DEF IsScanLength

\* AllocateNext returns a block of the set that was not in use.
LEMMA CandidateIsFree ==
    ASSUME NEW max \in Nat \ {0}, NEW s, WellFormed(s, max), ~NoCIDRsRemaining(s)
    PROVE  Candidate(s) \in Blocks(max) /\ Candidate(s) \notin s.used
<1>. DEFINE k == CHOOSE i \in 0 .. s.maxCIDRs : IsScanLength(s, i)
<1>1. s \in CidrSets(max) /\ s.maxCIDRs = max
  BY DEF WellFormed, CidrSets
<1>2. k \in 0 .. max /\ IsScanLength(s, k)
  BY <1>1, ScanStops
<1>3. PICK b \in Blocks(max) : b \notin s.used
  BY FreeBlockExists
<1>4. PICK j \in 0 .. max - 1 : Probe(s, j) = b
  BY <1>1, ProbeReaches
<1>5. k # max
  BY <1>1, <1>2, <1>3, <1>4 DEF IsScanLength
<1>6. Probe(s, k) \notin s.used
  BY <1>1, <1>2, <1>5 DEF IsScanLength
<1>7. Probe(s, k) \in Blocks(max)
  BY <1>1, <1>2, ProbeType
<1>. QED
  BY <1>6, <1>7 DEF Candidate

\* The three operations keep the counter equal to the number of set bits.
LEMMA NewCIDRSetWellFormed ==
    ASSUME NEW max \in Nat \ {0}
    PROVE  WellFormed(NewCIDRSet(max), max)
  BY FS_EmptySet DEF WellFormed, CidrSets, NewCIDRSet, Blocks

LEMMA UsedFinite ==
    ASSUME NEW max \in Nat, NEW U \in SUBSET Blocks(max)
    PROVE  IsFiniteSet(U) /\ Cardinality(U) \in 0 .. max
<1>1. IsFiniteSet(U) /\ Cardinality(U) <= Cardinality(Blocks(max))
  BY BlocksFinite, FS_Subset
<1>2. Cardinality(U) \in Nat
  BY <1>1, FS_CardinalityType
<1>. QED
  BY <1>1, <1>2, BlocksFinite

LEMMA AllocateNextWellFormed ==
    ASSUME NEW max \in Nat \ {0}, NEW s, WellFormed(s, max), ~NoCIDRsRemaining(s)
    PROVE  /\ WellFormed(AllocateNext(s), max)
           /\ AllocateNext(s).used = s.used \cup {Candidate(s)}
<1>. DEFINE c == Candidate(s)
<1>1. c \in Blocks(max) /\ c \notin s.used
  BY CandidateIsFree
<1>2. s \in CidrSets(max) /\ s.maxCIDRs = max /\ s.allocatedCIDRs = Cardinality(s.used)
  BY DEF WellFormed, CidrSets
<1>3. s.used \cup {c} \in SUBSET Blocks(max)
  BY <1>1, <1>2 DEF CidrSets
<1>4. Cardinality(s.used \cup {c}) = Cardinality(s.used) + 1
  BY <1>1, <1>2, UsedFinite, FS_AddElement DEF CidrSets
<1>5. Cardinality(s.used \cup {c}) \in 0 .. max
  BY <1>3, UsedFinite
<1>6. (c + 1) % max \in Blocks(max)
  BY <1>1 DEF Blocks
<1>. HIDE DEF c
<1>7. AllocateNext(s) = [s EXCEPT !.nextCandidate = (c + 1) % max,
                                  !.used = s.used \cup {c},
                                  !.allocatedCIDRs = s.allocatedCIDRs + 1]
  BY <1>2 DEF AllocateNext, c
<1>. QED
  BY <1>2, <1>3, <1>4, <1>5, <1>6, <1>7 DEF WellFormed, CidrSets, c

LEMMA ReleaseWellFormed ==
    ASSUME NEW max \in Nat \ {0}, NEW s, WellFormed(s, max), NEW cidr
    PROVE  /\ WellFormed(Release(s, cidr), max)
           /\ Release(s, cidr).used = s.used \ cidr
<1>1. s \in CidrSets(max) /\ s.allocatedCIDRs = Cardinality(s.used)
  BY DEF WellFormed
<1>2. s.used \ cidr \in SUBSET Blocks(max)
  BY <1>1 DEF CidrSets
<1>3. Cardinality(s.used \ cidr) = Cardinality(s.used) - Cardinality(s.used \cap cidr)
  BY <1>1, UsedFinite, FS_Difference DEF CidrSets
<1>4. Cardinality(s.used \ cidr) \in 0 .. max
  BY <1>2, UsedFinite
<1>. QED
  BY <1>1, <1>2, <1>3, <1>4 DEF WellFormed, CidrSets, Release

LEMMA OccupyWellFormed ==
    ASSUME NEW max \in Nat \ {0}, NEW s, WellFormed(s, max),
           NEW cidr \in SUBSET Blocks(max)
    PROVE  /\ WellFormed(Occupy(s, cidr), max)
           /\ Occupy(s, cidr).used = s.used \cup cidr
<1>1. s \in CidrSets(max) /\ s.allocatedCIDRs = Cardinality(s.used)
  BY DEF WellFormed
<1>2. s.used \cup cidr \in SUBSET Blocks(max) /\ cidr \ s.used \in SUBSET Blocks(max)
  BY <1>1 DEF CidrSets
<1>3. Cardinality(s.used \cup cidr) = Cardinality(s.used) + Cardinality(cidr \ s.used)
  <2>1. IsFiniteSet(s.used) /\ IsFiniteSet(cidr \ s.used)
    BY <1>1, <1>2, UsedFinite DEF CidrSets
  <2>. DEFINE new == cidr \ s.used
  <2>2. s.used \cup cidr = s.used \cup new /\ s.used \cap new = {}
    OBVIOUS
  <2>3. Cardinality(s.used) \in Nat /\ Cardinality(new) \in Nat
    BY <2>1, FS_CardinalityType
  <2>4. Cardinality(s.used \cup new)
          = Cardinality(s.used) + Cardinality(new) - Cardinality(s.used \cap new)
    BY <2>1, FS_Union
  <2>5. Cardinality(s.used \cap new) = 0
    BY <2>2, FS_EmptySet
  <2>. HIDE DEF new
  <2>6. Cardinality(s.used \cup cidr) = Cardinality(s.used \cup new)
    BY <2>2, Zenon
  <2>. QED
    BY <2>3, <2>4, <2>5, <2>6 DEF new
<1>4. Cardinality(s.used \cup cidr) \in 0 .. max
  BY <1>2, UsedFinite
<1>. QED
  BY <1>1, <1>2, <1>3, <1>4 DEF WellFormed, CidrSets, Occupy
=============================================================================
