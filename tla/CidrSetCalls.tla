---------------------------- MODULE CidrSetCalls ----------------------------
(***************************************************************************)
(* One CidrSet shared by the workers and event handlers of an allocator.   *)
(* Every call holds the set's mutex while it reads and writes the bitmap,  *)
(* and the index range of Occupy and Release depends on immutable fields   *)
(* only, so a call is one step.                                            *)
(***************************************************************************)
EXTENDS CidrSet

CONSTANTS
    maxCIDRs,   \* number of blocks in the cluster CIDR
    Ranges      \* the CIDRs callers pass, as sets of block indices

ASSUME PoolAssumption ==
    /\ maxCIDRs \in Nat \ {0}
    /\ Ranges \subseteq SUBSET Blocks(maxCIDRs)

VARIABLES
    cidrSet,    \* the CidrSet struct
    reply       \* what the last call returned

vars == <<cidrSet, reply>>

\* The abstract pool this struct implements.
Abstract == INSTANCE BlockPool WITH taken <- cidrSet.used

Init ==
    /\ cidrSet = NewCIDRSet(maxCIDRs)
    /\ reply = Abstract!Done

CallAllocateNext ==
    /\ ~NoCIDRsRemaining(cidrSet)
    /\ cidrSet' = AllocateNext(cidrSet)
    /\ reply' = Abstract!Allocated(Candidate(cidrSet))

CallAllocateNextFails ==
    /\ NoCIDRsRemaining(cidrSet)
    /\ reply' = Abstract!Failed
    /\ UNCHANGED cidrSet

CallRelease(cidr) ==
    /\ cidr # {}
    /\ cidrSet' = Release(cidrSet, cidr)
    /\ reply' = Abstract!Done

CallOccupy(cidr) ==
    /\ cidr # {}
    /\ cidrSet' = Occupy(cidrSet, cidr)
    /\ reply' = Abstract!Done

\* getBeginningAndEndIndices returns an error before the lock is taken.
CallOutOfRange ==
    /\ {} \in Ranges
    /\ reply' = Abstract!Failed
    /\ UNCHANGED cidrSet

Next ==
    \/ CallAllocateNext
    \/ CallAllocateNextFails
    \/ CallOutOfRange
    \/ \E cidr \in Ranges : CallRelease(cidr) \/ CallOccupy(cidr)

Spec == Init /\ [][Next]_vars

\* Nodes keep asking for blocks.
FairSpec == Spec /\ WF_vars(CallAllocateNext)

----------------------------------------------------------------------------
(* Properties.                                                             *)

\* The struct that AllocateNext, Occupy and Release work on keeps its type, and
\* they return only blocks of the set.
TypeOK ==
    /\ cidrSet \in CidrSets(maxCIDRs)
    /\ reply \in {Abstract!Done, Abstract!Failed}
                 \cup {Abstract!Allocated(b) : b \in Blocks(maxCIDRs)}

\* The counter that AllocateNext tests before it scans always equals the
\* number of set bits, whatever the order of overlapping Occupy and Release
\* calls: the scan never runs over a full bitmap, and a set with a free block
\* never reports exhaustion.
CounterMatchesBitmap == cidrSet.allocatedCIDRs = Cardinality(cidrSet.used)

\* The struct implements the abstract pool: AllocateNext returns a block that
\* was free, fails only when no block is free, and Occupy and Release move
\* exactly the blocks they were given.
ImplementsPool == Abstract!Spec

\* The ring pointer serves every block: one that is free is handed out or
\* occupied eventually, however often others are allocated and released
\* in the meantime.
EveryBlockServed ==
    \A b \in Blocks(maxCIDRs) : b \notin cidrSet.used ~> b \in cidrSet.used
=============================================================================
