--------------------------- MODULE CidrSetProofs ---------------------------
(***************************************************************************)
(* What holds of a CidrSet of any size under every sequence of calls: the  *)
(* counter is the number of set bits, and the struct implements the        *)
(* abstract pool.                                                          *)
(***************************************************************************)
EXTENDS CidrSetCalls, CidrSetLemmas

----------------------------------------------------------------------------
\* The inductive invariant: types, and the counter.
Inv == TypeOK /\ CounterMatchesBitmap

LEMMA InvWellFormed ==
    ASSUME Inv
    PROVE  WellFormed(cidrSet, maxCIDRs)
  BY DEF Inv, TypeOK, CounterMatchesBitmap, WellFormed

\* Every call of AllocateNext, Occupy and Release keeps the invariant.
LEMMA InvInductive ==
    /\ Init => Inv
    /\ Inv /\ [Next]_vars => Inv'
<1>. USE PoolAssumption
<1>1. Init => Inv
  <2>. SUFFICES ASSUME Init PROVE Inv
    OBVIOUS
  <2>1. WellFormed(NewCIDRSet(maxCIDRs), maxCIDRs)
    BY NewCIDRSetWellFormed
  <2>. QED
    BY <2>1 DEF Init, Inv, TypeOK, CounterMatchesBitmap, WellFormed
<1>2. Inv /\ [Next]_vars => Inv'
  <2>. SUFFICES ASSUME Inv, [Next]_vars PROVE Inv'
    OBVIOUS
  <2>0. WellFormed(cidrSet, maxCIDRs)
    BY InvWellFormed
  <2>. SUFFICES /\ WellFormed(cidrSet', maxCIDRs)
                /\ reply' \in {Abstract!Done, Abstract!Failed}
                               \cup {Abstract!Allocated(b) : b \in Blocks(maxCIDRs)}
    BY DEF Inv, TypeOK, CounterMatchesBitmap, WellFormed
  <2>1. CASE CallAllocateNext
    BY <2>0, <2>1, AllocateNextWellFormed, CandidateIsFree DEF CallAllocateNext
  <2>2. CASE CallAllocateNextFails
    BY <2>0, <2>2 DEF CallAllocateNextFails
  <2>3. CASE CallOutOfRange
    BY <2>0, <2>3 DEF CallOutOfRange
  <2>4. ASSUME NEW cidr \in Ranges, CallRelease(cidr)
        PROVE  WellFormed(cidrSet', maxCIDRs) /\ reply' = Abstract!Done
    BY <2>0, <2>4, ReleaseWellFormed DEF CallRelease
  <2>5. ASSUME NEW cidr \in Ranges, CallOccupy(cidr)
        PROVE  WellFormed(cidrSet', maxCIDRs) /\ reply' = Abstract!Done
    BY <2>0, <2>5, OccupyWellFormed DEF CallOccupy
  <2>6. CASE UNCHANGED vars
    BY <2>0, <2>6 DEF vars, Inv, TypeOK
  <2>. QED
    BY <2>1, <2>2, <2>3, <2>4, <2>5, <2>6 DEF Next
<1>. QED
  BY <1>1, <1>2

\* The fields of a CidrSet keep their ranges under every sequence of calls.
THEOREM TypeCorrect == Spec => []TypeOK
  <1>1. Inv => TypeOK
    BY DEF Inv
  <1>. QED
    BY <1>1, InvInductive, PTL DEF Spec

\* In a CidrSet of any size, allocatedCIDRs equals the number of set bits after
\* every sequence of AllocateNext, Occupy and Release calls.
THEOREM CounterCorrect == Spec => []CounterMatchesBitmap
  <1>1. Inv => CounterMatchesBitmap
    BY DEF Inv
  <1>. QED
    BY <1>1, InvInductive, PTL DEF Spec

\* A CidrSet of any size implements the abstract pool: AllocateNext hands out
\* a block that was free, and fails only when there is none.
THEOREM PoolImplemented == Spec => ImplementsPool
<1>. USE PoolAssumption
<1>1. Init => Abstract!Init
  BY DEF Init, Abstract!Init, NewCIDRSet
<1>2. Inv /\ [Next]_vars => [Abstract!Next]_(Abstract!vars)
  <2>. SUFFICES ASSUME Inv, [Next]_vars PROVE [Abstract!Next]_(Abstract!vars)
    OBVIOUS
  <2>0. WellFormed(cidrSet, maxCIDRs)
    BY InvWellFormed
  <2>1. CASE CallAllocateNext
    <3>1. Candidate(cidrSet) \in Abstract!Pool \ cidrSet.used
      BY <2>0, <2>1, CandidateIsFree DEF CallAllocateNext, Abstract!Pool, Blocks
    <3>2. cidrSet'.used = cidrSet.used \cup {Candidate(cidrSet)}
      BY <2>0, <2>1, AllocateNextWellFormed DEF CallAllocateNext
    <3>3. Abstract!Allocate
      BY <2>1, <3>1, <3>2 DEF CallAllocateNext, Abstract!Allocate
    <3>. QED
      BY <3>3 DEF Abstract!Next
  <2>2. CASE CallAllocateNextFails
    <3>1. Cardinality(cidrSet.used) = maxCIDRs /\ cidrSet.used \subseteq Blocks(maxCIDRs)
      BY <2>0, <2>2 DEF CallAllocateNextFails, NoCIDRsRemaining, WellFormed, CidrSets
    <3>2. cidrSet.used = Blocks(maxCIDRs)
      BY <3>1, BlocksFinite, FS_Subset
    <3>3. Abstract!AllocateFails
      BY <2>2, <3>2 DEF CallAllocateNextFails, Abstract!AllocateFails, Abstract!Pool, Blocks
    <3>. QED
      BY <3>3 DEF Abstract!Next
  <2>3. CASE CallOutOfRange
    BY <2>3 DEF CallOutOfRange, Abstract!Next, Abstract!OutOfRange
  <2>4. ASSUME NEW cidr \in Ranges, CallRelease(cidr)
        PROVE  Abstract!Release(cidr)
    BY <2>0, <2>4, ReleaseWellFormed DEF CallRelease, Abstract!Release
  <2>5. ASSUME NEW cidr \in Ranges, CallOccupy(cidr)
        PROVE  Abstract!Occupy(cidr)
    BY <2>0, <2>5, OccupyWellFormed DEF CallOccupy, Abstract!Occupy
  <2>6. CASE UNCHANGED vars
    BY <2>6 DEF vars, Abstract!vars
  <2>. QED
    BY <2>1, <2>2, <2>3, <2>4, <2>5, <2>6 DEF Next, Abstract!Next
<1>. QED
  BY <1>1, <1>2, InvInductive, PTL DEF Spec, ImplementsPool, Abstract!Spec
=============================================================================
