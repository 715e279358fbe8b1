--------------------------- MODULE RangeAllocator ---------------------------
(***************************************************************************)
(* The range CIDR allocator (pkg/nodeipam/ipam/range_allocator.go):        *)
(* workers that take node names from the queue and read nodes from a stale *)
(* cache, a delete handler that releases CIDRs outside the queue, PATCH    *)
(* requests that fail, and restarts that rebuild the bitmaps from a list.  *)
(*                                                                         *)
(* A node's podCIDRs is a sequence with one CIDR per cluster CIDR, each    *)
(* CIDR being the set of blocks it touches (see CidrSet).                  *)
(***************************************************************************)
EXTENDS CidrSet, NodeFeed

CONSTANTS
    Worker,             \* the cidrUpdateWorkers goroutines
    clusterCIDRs,       \* number of cluster CIDRs: 1, or 2 for dual stack
    maxCIDRs,           \* maxCIDRs[k]: blocks of the k-th cluster CIDR
    Service,            \* Service[k]: blocks of it the service CIDRs touch
    cidrUpdateRetries,  \* PATCH attempts per sync
    LostReplies         \* TRUE: a PATCH the client gave up on may still land

Sets == 1 .. clusterCIDRs

\* What a node may carry: its k-th CIDR touches blocks of the k-th cluster CIDR, or
\* none; more CIDRs than cluster CIDRs are possible.
PodCIDRs ==
    {cidrs \in Seq(SUBSET Nat) :
        \A k \in DOMAIN cidrs \cap Sets : cidrs[k] \subseteq Blocks(maxCIDRs[k])}

ASSUME AllocatorAssumption ==
    /\ clusterCIDRs \in Nat \ {0}
    /\ maxCIDRs \in [Sets -> Nat \ {0}]
    /\ Service \in [Sets -> SUBSET Nat]
    /\ \A k \in Sets : Service[k] \subseteq Blocks(maxCIDRs[k])
    /\ InitialCIDRs \cup RegisteredCIDRs \subseteq PodCIDRs
    \* Whoever else assigns CIDRs stays out of the cluster CIDRs.
    /\ \A cidrs \in RegisteredCIDRs : \A k \in DOMAIN cidrs : cidrs[k] = {}
    /\ cidrUpdateRetries \in Nat \ {0}
    /\ LostReplies \in BOOLEAN

VARIABLES
    released,   \* how many CIDRs of Head(deleted) DeleteFunc has released
    cidrSets,   \* the CidrSet of each cluster CIDR
    worker      \* what each worker is doing

vars == <<feedVars, released, cidrSets, worker>>

----------------------------------------------------------------------------
(* Pod CIDRs and workers.                                                  *)

\* There is a k-th CIDR, and it lies within the k-th cluster CIDR.
InCluster(podCIDRs, k) == k \in DOMAIN podCIDRs \cap Sets /\ podCIDRs[k] # {}

\* Two nodes hold no block in common.
Disjoint(a, b) ==
    \A k \in DOMAIN a.podCIDRs \cap DOMAIN b.podCIDRs : a.podCIDRs[k] \cap b.podCIDRs[k] = {}

Idle == [pc |-> "idle", node |-> "none", cidrs |-> <<>>, done |-> 0, requeue |-> FALSE]

Processing(n) == \E w \in Worker : worker[w].pc # "idle" /\ worker[w].node = n

\* Return from syncNode: AddRateLimited on error, then Done.  The back-off is
\* part of the unspecified time the name spends in the queue.
Return(w, failed) ==
    /\ worker' = [worker EXCEPT ![w] = Idle]
    /\ queue' = IF failed THEN queue \cup {worker[w].node} ELSE queue

----------------------------------------------------------------------------
(* DeleteFunc: ReleaseCIDR on the deleted object, then enqueue its name.   *)

DeleteFuncDone ==
    /\ deleted' = Tail(deleted)
    /\ released' = 0
    /\ queue' = queue \cup {Head(deleted).node}

DeleteFunc ==
    /\ phase = "running" /\ deleted # <<>> /\ ~Head(deleted).tombstone
    /\ LET cidrs == Head(deleted).cidrs
           k     == released + 1
       IN  \/ /\ InCluster(cidrs, k)
              /\ cidrSets' = [cidrSets EXCEPT ![k] = Release(@, cidrs[k])]
              /\ released' = k
              /\ UNCHANGED <<deleted, queue>>
           \/ /\ ~InCluster(cidrs, k)
              /\ DeleteFuncDone
              /\ UNCHANGED cidrSets
    /\ UNCHANGED <<apiVars, phase, informerVars, worker>>

----------------------------------------------------------------------------
(* A worker: processNextNodeWorkItem, syncNode and what it calls.          *)

\* Get a name that no other worker holds, and read the node from the lister.
SyncNode(w, n) ==
    /\ phase = "running" /\ worker[w].pc = "idle"
    /\ n \in queue /\ ~Processing(n)
    /\ queue' = queue \ {n}
    /\ LET node    == cache[n]
           Begin(pc) == [Idle EXCEPT !.pc = pc, !.node = n, !.cidrs = node.podCIDRs]
       IN  worker' = [worker EXCEPT ![w] =
             CASE ~node.exists -> Idle
               [] node.exists /\ node.deleting -> Begin("release")
               [] node.exists /\ ~node.deleting /\ node.podCIDRs # <<>> -> Begin("occupy")
               [] OTHER -> Begin("allocate")]
    /\ UNCHANGED <<apiVars, phase, informerVars, deleted, released, cidrSets>>

\* occupyCIDRs and ReleaseCIDR walk the node's CIDRs in order and stop at the
\* first one that does not belong to a cluster CIDR.
WalkCIDRs(w, pc) ==
    /\ worker[w].pc = pc
    /\ LET cidrs == worker[w].cidrs
           k     == worker[w].done + 1
       IN  \/ /\ InCluster(cidrs, k)
              /\ cidrSets' = [cidrSets EXCEPT
                   ![k] = IF pc = "occupy" THEN Occupy(@, cidrs[k]) ELSE Release(@, cidrs[k])]
              /\ worker' = [worker EXCEPT ![w].done = k]
              /\ UNCHANGED queue
           \/ /\ k \in DOMAIN cidrs /\ ~InCluster(cidrs, k)
              /\ Return(w, TRUE)
              /\ UNCHANGED cidrSets
           \/ /\ k \notin DOMAIN cidrs
              /\ Return(w, FALSE)
              /\ UNCHANGED cidrSets
    /\ UNCHANGED <<apiVars, phase, informerVars, deleted, released>>

OccupyCIDRs(w) == WalkCIDRs(w, "occupy")

ReleaseCIDR(w) == WalkCIDRs(w, "release")

\* Mutant: the block found is not marked in the bitmap.
AllocateUnmarked(w) ==
    /\ worker[w].pc = "allocate"
    /\ LET k     == Len(worker[w].cidrs) + 1
           cidrs == Append(worker[w].cidrs, {Candidate(cidrSets[k])})
       IN  /\ ~NoCIDRsRemaining(cidrSets[k])
           /\ worker' = [worker EXCEPT ![w].cidrs = cidrs,
                                       ![w].pc = IF k = clusterCIDRs THEN "update" ELSE @]
    /\ UNCHANGED <<apiVars, phase, informerVars, deleted, released, queue, cidrSets>>

\* AllocateOrOccupyCIDR for a node without CIDRs: one block per cluster CIDR.
AllocateCIDR(w) ==
    /\ worker[w].pc = "allocate"
    /\ LET k     == Len(worker[w].cidrs) + 1
           cidrs == Append(worker[w].cidrs, {Candidate(cidrSets[k])})
       IN  /\ ~NoCIDRsRemaining(cidrSets[k])
           /\ cidrSets' = [cidrSets EXCEPT ![k] = AllocateNext(@)]
           /\ worker' = [worker EXCEPT ![w].cidrs = cidrs,
                                       ![w].pc = IF k = clusterCIDRs THEN "update" ELSE @]
    /\ UNCHANGED <<apiVars, phase, informerVars, deleted, released, queue>>

\* The error return keeps the blocks already taken from earlier cluster CIDRs.
CIDRNotAvailable(w) ==
    /\ worker[w].pc = "allocate"
    /\ NoCIDRsRemaining(cidrSets[Len(worker[w].cidrs) + 1])
    /\ Return(w, TRUE)
    /\ UNCHANGED <<apiVars, phase, informerVars, deleted, released, cidrSets>>

\* updateCIDRsAllocation up to the PATCH: the node is read from the lister
\* again.  A node that is gone ends the sync with an error and the blocks in
\* hand stay occupied.
UpdateCIDRsAllocation(w) ==
    /\ worker[w].pc = "update"
    /\ LET node == cache[worker[w].node]
       IN  \/ /\ ~node.exists
              /\ Return(w, TRUE)
           \/ /\ node.exists /\ node.podCIDRs = worker[w].cidrs
              /\ Return(w, FALSE)
           \/ /\ node.exists /\ node.podCIDRs \notin {<<>>, worker[w].cidrs}
              /\ worker' = [worker EXCEPT ![w].pc = "giveback"]
              /\ UNCHANGED queue
           \/ /\ node.exists /\ node.podCIDRs = <<>>
              /\ worker' = [worker EXCEPT ![w].pc = "patch"]
              /\ UNCHANGED queue
    /\ UNCHANGED <<apiVars, phase, informerVars, deleted, released, cidrSets>>

\* Mutant: a successful PATCH does not leave the retry loop, and the blocks
\* just assigned are given back.
PatchThenGiveBack(w) ==
    /\ worker[w].pc = "patch"
    /\ Accepts(worker[w].node, worker[w].cidrs)
    /\ ApplyPatch(worker[w].node, worker[w].cidrs)
    /\ worker' = [worker EXCEPT ![w].pc = "giveback", ![w].done = 0]
    /\ UNCHANGED <<inflight, phase, cache, deleted, released, queue, cidrSets>>

\* A PATCH that is applied and acknowledged.
PatchNodeCIDRs(w) ==
    /\ worker[w].pc = "patch"
    /\ Accepts(worker[w].node, worker[w].cidrs)
    /\ ApplyPatch(worker[w].node, worker[w].cidrs)
    /\ Return(w, FALSE)
    /\ UNCHANGED <<inflight, phase, cache, deleted, released, cidrSets>>

\* Mutant: the error of the last attempt is swallowed, so the name is not
\* queued again.
AfterFailedPatchForgets(w) ==
    LET attempts == worker[w].done + 1
    IN  worker' = [worker EXCEPT ![w] =
          IF attempts < cidrUpdateRetries THEN [@ EXCEPT !.done = attempts]
          ELSE [@ EXCEPT !.pc = "giveback", !.done = 0]]

\* The loop over cidrUpdateRetries.  PatchNodeCIDRs formats the API error into
\* a new one with %v, so IsServerTimeout(err) is false whatever the cause and
\* the blocks are always given back after the last attempt.
AfterFailedPatch(w) ==
    LET attempts == worker[w].done + 1
    IN  worker' = [worker EXCEPT ![w] =
          IF attempts < cidrUpdateRetries THEN [@ EXCEPT !.done = attempts]
          ELSE [@ EXCEPT !.pc = "giveback", !.done = 0, !.requeue = TRUE]]

\* A PATCH that fails without effect: rejected, node not found, API server
\* unreachable.
PatchFails(w) ==
    /\ worker[w].pc = "patch"
    /\ AfterFailedPatch(w)
    /\ UNCHANGED <<apiVars, phase, informerVars, deleted, released, queue, cidrSets>>

\* A PATCH the client sees fail while the request is still under way.
PatchTimesOut(w) ==
    /\ LostReplies /\ Cardinality(inflight) < MaxInflight
    /\ worker[w].pc = "patch"
    /\ inflight' = inflight \cup {[node |-> worker[w].node, cidrs |-> worker[w].cidrs]}
    /\ AfterFailedPatch(w)
    /\ UNCHANGED <<api, phase, informerVars, deleted, released, queue, cidrSets>>

\* Release of the blocks in hand, one cluster CIDR after the other.
GiveBack(w) ==
    /\ worker[w].pc = "giveback"
    /\ LET k == worker[w].done + 1
       IN  \/ /\ k \in DOMAIN worker[w].cidrs
              /\ cidrSets' = [cidrSets EXCEPT ![k] = Release(@, worker[w].cidrs[k])]
              /\ worker' = [worker EXCEPT ![w].done = k]
              /\ UNCHANGED queue
           \/ /\ k \notin DOMAIN worker[w].cidrs
              /\ Return(w, worker[w].requeue)
              /\ UNCHANGED cidrSets
    /\ UNCHANGED <<apiVars, phase, informerVars, deleted, released>>

----------------------------------------------------------------------------
(* Start, cache sync and crash of the process.                             *)

EmptySets == [k \in Sets |-> NewCIDRSet(maxCIDRs[k])]

\* Mutant: the service range is not filtered out.
FilterNothing(k) == NewCIDRSet(maxCIDRs[k])

\* The set of the k-th cluster CIDR after filterOutServiceRange.
FilterOutServiceRange(k) == Occupy(NewCIDRSet(maxCIDRs[k]), Service[k])

\* Mutant: only the first CIDR of a listed node is occupied.
ListedFirst(k) ==
    UNION {api[n].podCIDRs[k] : n \in {m \in listNodes : k = 1 /\ api[m].podCIDRs # <<>>}}

\* What the listed nodes hold of the k-th cluster CIDR.
Listed(k) ==
    UNION {api[n].podCIDRs[k] : n \in {m \in listNodes : k \in DOMAIN api[m].podCIDRs}}

\* NewCIDRRangeAllocator: occupy the service range, then what the nodes in the
\* list hold.  A node whose CIDR is not in a cluster CIDR makes it fail.
Start ==
    /\ phase = "down"
    /\ \A n \in listNodes : \A k \in DOMAIN api[n].podCIDRs : InCluster(api[n].podCIDRs, k)
    /\ cidrSets' = [k \in Sets |-> Occupy(FilterOutServiceRange(k), Listed(k))]
    /\ phase' = "listed"
    /\ UNCHANGED <<apiVars, informerVars, deleted, released, queue, worker>>

Stop ==
    /\ Die
    /\ released' = 0
    /\ cidrSets' = EmptySets
    /\ worker' = [w \in Worker |-> Idle]

Crash ==
    /\ phase # "down"
    /\ Stop

\* DeleteFunc asserts that its argument is a *v1.Node; a
\* DeletedFinalStateUnknown panics, which ends the process.
DeleteFuncPanics ==
    /\ phase = "running" /\ deleted # <<>> /\ Head(deleted).tombstone
    /\ Stop

----------------------------------------------------------------------------

Init ==
    /\ FeedInit
    /\ \A m, n \in Node : m # n => Disjoint(api[m], api[n])
    /\ released = 0
    /\ cidrSets = EmptySets
    /\ worker = [w \in Worker |-> Idle]

WorkerStep(w) ==
    \/ OccupyCIDRs(w) \/ ReleaseCIDR(w) \/ AllocateCIDR(w) \/ CIDRNotAvailable(w)
    \/ UpdateCIDRsAllocation(w) \/ PatchNodeCIDRs(w) \/ PatchFails(w)
    \/ PatchTimesOut(w) \/ GiveBack(w)
    \/ \E n \in Node : SyncNode(w, n)

Next ==
    \/ Start \/ Crash \/ DeleteFunc \/ DeleteFuncPanics
    \/ \E w \in Worker : WorkerStep(w)
    \/ FeedStep /\ UNCHANGED <<released, cidrSets, worker>>

Spec == Init /\ [][Next]_vars

\* Goroutines keep running, the watch and the work queue are first in first
\* out, and the API server does not refuse a valid PATCH for ever.
Fairness ==
    /\ WF_vars(DeleteFunc \/ DeleteFuncPanics)
    /\ \A n \in Node : WF_vars(Deliver(n) /\ UNCHANGED <<released, cidrSets, worker>>)
    /\ \A w \in Worker : WF_vars(WorkerStep(w))
    /\ \A n \in Node : SF_vars(\E w \in Worker : SyncNode(w, n))
    /\ \A n \in Node : SF_vars(\E w \in Worker : worker[w].node = n /\ PatchNodeCIDRs(w))

FairSpec == Spec /\ Fairness

----------------------------------------------------------------------------
(* Properties.                                                             *)

WorkerRecords(cidrs) ==
    [pc: {"idle", "occupy", "release", "allocate", "update", "patch", "giveback"},
     node: Node \cup {"none"}, cidrs: cidrs, done: Nat, requeue: BOOLEAN]

\* A worker that allocates has not got a block of every cluster CIDR; later on it
\* has.
WorkerTypeOK(cidrs) ==
    /\ worker \in [Worker -> WorkerRecords(cidrs)]
    /\ \A w \in Worker :
         /\ worker[w].pc # "idle" => worker[w].node \in Node
         /\ worker[w].pc = "allocate" => Len(worker[w].cidrs) < clusterCIDRs
         /\ worker[w].pc \in {"update", "patch", "giveback"}
              => Len(worker[w].cidrs) = clusterCIDRs

\* Every variable has its type, and each set has a counter that agrees with its
\* bitmap, whatever the workers and DeleteFunc occupy and release in it.
TypeOK ==
    /\ FeedTypeOK(PodCIDRs)
    /\ WorkerTypeOK(PodCIDRs)
    /\ released \in Nat
    /\ cidrSets = [k \in Sets |-> cidrSets[k]]
    /\ \A k \in Sets : WellFormed(cidrSets[k], maxCIDRs[k])

\* The blocks of the k-th cluster CIDR that n holds at the API server.
Held(n, k) == IF k \in DOMAIN api[n].podCIDRs THEN api[n].podCIDRs[k] ELSE {}

\* The blocks worker w has taken and neither assigned nor given back.
InHand(w, k) ==
    IF /\ k \in DOMAIN worker[w].cidrs
       /\ \/ worker[w].pc \in {"allocate", "update", "patch"}
          \/ worker[w].pc = "giveback" /\ k > worker[w].done
    THEN worker[w].cidrs[k] ELSE {}

\* No two nodes ever hold overlapping pod CIDRs, although CIDRs are chosen from
\* a bitmap that is updated by workers with stale node objects, by DeleteFunc
\* outside the queue and by restarts (docs/controllers.md: "distributed without
\* conflicts").
UniquePodCIDRs == \A m, n \in Node : m # n => Disjoint(api[m], api[n])

\* Once the bitmaps are built, every block a node holds is marked used: no
\* release by DeleteFunc, by a worker that gives its blocks back, or by a
\* restart ever frees a block that is still assigned.
HeldReserved ==
    phase # "down" => \A n \in Node, k \in Sets : Held(n, k) \subseteq cidrSets[k].used

\* Between AllocateNext and the PATCH, a worker's blocks stay marked used and
\* are nobody else's: not of another worker, and of no node.
HandsExclusive ==
    \A w \in Worker, k \in Sets :
        /\ InHand(w, k) \subseteq cidrSets[k].used
        /\ \A v \in Worker \ {w} : InHand(w, k) \cap InHand(v, k) = {}
        /\ \A n \in Node : InHand(w, k) \cap Held(n, k) = {}

\* No PATCH ever gives a node a block of the service range, which
\* filterOutServiceRange marks used at start "so that they won't be assignable".
ServiceNeverAssigned ==
    [][\A n \in Node, k \in Sets :
          Held(n, k) # Held(n, k)' => Held(n, k)' \cap Service[k] = {}]_vars

\* A block whose PATCH may still go through is not freed by the running process:
\* leaking it "is safer than releasing them in case when we don't know if
\* request went through" (range_allocator.go, updateCIDRsAllocation).
UnknownOutcomeKept ==
    [][phase = "running" /\ phase' = "running" =>
          \A p \in inflight : \A k \in DOMAIN p.cidrs :
              p.cidrs[k] \cap cidrSets[k].used \subseteq cidrSets'[k].used]_vars

\* A block that node n needs is missing, and not because it was just taken for n.
Lacking(n) ==
    /\ api[n].podCIDRs = <<>>
    /\ \E k \in Sets : /\ NoCIDRsRemaining(cidrSets[k])
                       /\ \A w \in Worker : worker[w].node = n => InHand(w, k) = {}

\* A node that stays and is not being deleted gets its CIDRs, provided the
\* process stays up and blocks remain: no interleaving of stale reads, failed
\* PATCHes and deduplicated queue entries loses a node's turn.
NodeServed ==
    \A n \in Node :
        <>[](phase = "running" /\ api[n].exists /\ ~api[n].deleting /\ ~Lacking(n))
            => <>[](api[n].podCIDRs # <<>>)
=============================================================================
