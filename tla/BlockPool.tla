----------------------------- MODULE BlockPool -----------------------------
(***************************************************************************)
(* What a pool of blocks promises to the allocators that use it, without   *)
(* bitmap, counter or ring pointer: Allocate hands out some block that is  *)
(* not taken and fails only when every block is taken; Occupy and Release  *)
(* take and give back exactly the blocks of a CIDR.                        *)
(***************************************************************************)
EXTENDS Integers

CONSTANTS
    maxCIDRs,   \* number of blocks
    Ranges      \* the CIDRs callers pass, as sets of block indices

VARIABLES
    taken,      \* the blocks that are not available
    reply       \* what the last call returned

vars == <<taken, reply>>

Pool == 0 .. maxCIDRs - 1

Done == [kind |-> "done"]
Failed == [kind |-> "failed"]
Allocated(b) == [kind |-> "allocated", block |-> b]

Init ==
    /\ taken = {}
    /\ reply = Done

Allocate ==
    \E b \in Pool \ taken :
        /\ taken' = taken \cup {b}
        /\ reply' = Allocated(b)

AllocateFails ==
    /\ taken = Pool
    /\ reply' = Failed
    /\ UNCHANGED taken

Occupy(cidr) ==
    /\ cidr # {}
    /\ taken' = taken \cup cidr
    /\ reply' = Done

Release(cidr) ==
    /\ cidr # {}
    /\ taken' = taken \ cidr
    /\ reply' = Done

OutOfRange ==
    /\ reply' = Failed
    /\ UNCHANGED taken

Next ==
    \/ Allocate
    \/ AllocateFails
    \/ OutOfRange
    \/ \E cidr \in Ranges : Occupy(cidr) \/ Release(cidr)

Spec == Init /\ [][Next]_vars
=============================================================================
