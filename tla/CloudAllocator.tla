--------------------------- MODULE CloudAllocator ---------------------------
(***************************************************************************)
(* The cloud CIDR allocator (pkg/nodeipam/ipam/cloud_allocator.go): a      *)
(* range allocator whose IPv6 CIDR comes from the public subnet that the   *)
(* Talos API reports for the node.  CidrSets for such subnets are added to *)
(* a map while the allocator runs, and a node's own addresses are reserved *)
(* in them before it gets a block.                                         *)
(*                                                                         *)
(* A set is named after its subnet; subnets are disjoint, and a discovered *)
(* /128 lies in none of them.  A pod CIDR is a subnet with the blocks of   *)
(* it that the CIDR touches.  A map read that races with addCIDRSet sees   *)
(* the map before or after the write, or ends the process (Crash).         *)
(***************************************************************************)
EXTENDS CidrSet, NodeFeed

CONSTANTS
    Worker,             \* the cidrUpdateWorkers goroutines
    clusterCIDRs,       \* sequence of the configured subnets, one per family
    IPv6,               \* the IPv6 subnets among them
    Global,             \* public IPv6 subnets that nodes may lie in
    maxCIDRs,           \* maxCIDRs[s]: blocks of subnet s
    serviceCIDRs,       \* the subnet with the base address, and the blocks touched
    Discovery,          \* Discovery[n]: results NodeCIDRDiscovery may have for n
    OwnBlocks,          \* OwnBlocks[n][s]: blocks of s with an address of n
    TooSmall,           \* subnets for which addCIDRSet returns an error
    cidrUpdateRetries,  \* PATCH attempts per sync
    LostReplies,        \* TRUE: a PATCH the client gave up on may still land
    MaxStarts           \* bound on starts of the process

Configured == {clusterCIDRs[k] : k \in DOMAIN clusterCIDRs}
Subnets == Configured \cup Global

\* A discovered prefix of length 128, for which no set is ever added.
Host == "host"

\* An entry of allocatedCIDRs that stayed nil.
Nil == [subnet |-> "nil", blocks |-> {}]

CIDRs == {c \in [subnet: Subnets \cup {Host, Nil.subnet}, blocks: SUBSET Nat] :
            c.subnet \in Subnets => c.blocks \subseteq Blocks(maxCIDRs[c.subnet])}

PodCIDRs == Seq(CIDRs)

\* A service CIDR: base is the configured subnet that contains its first address, or
\* "none", and blocks[s] are the blocks of s that it touches.
ServiceCIDRs == [base: Configured \cup {"none"}, blocks: [Subnets -> SUBSET Nat]]

\* The constructor occupies listed nodes with the code of the workers.
Main == "main"

ASSUME CloudAssumption ==
    /\ maxCIDRs \in [Subnets -> Nat \ {0}]
    /\ serviceCIDRs \subseteq ServiceCIDRs
    /\ \A c \in serviceCIDRs, s \in Subnets : c.blocks[s] \subseteq Blocks(maxCIDRs[s])
    /\ \A n \in Node, s \in Global : OwnBlocks[n][s] \subseteq Blocks(maxCIDRs[s])
    /\ \A n \in Node : Discovery[n] \subseteq Seq(Global \cup {Host})
    /\ InitialCIDRs \subseteq PodCIDRs
    /\ RegisteredCIDRs = {<<>>}
    /\ Main \notin Worker
    /\ cidrUpdateRetries \in Nat \ {0}
    /\ MaxStarts \in Nat
    /\ LostReplies \in BOOLEAN

VARIABLES
    cidrSets,   \* the map from subnets to CidrSets
    todo,       \* nodes of the list that NewCIDRCloudAllocator has yet to occupy
    released,   \* how many CIDRs of Head(deleted) DeleteFunc has released
    worker,     \* what each worker, and the constructor, is doing
    starts      \* how often the process has been started

ownVars == <<cidrSets, todo, released, worker, starts>>
vars == <<feedVars, ownVars>>

----------------------------------------------------------------------------
(* Pod CIDRs and workers.                                                  *)

Known == DOMAIN cidrSets

\* The blocks of subnet s among the CIDRs with an index in K.
BlocksOf(cidrs, s, K) ==
    UNION {cidrs[k].blocks : k \in {j \in DOMAIN cidrs \cap K : cidrs[j].subnet = s}}

\* What node n holds of subnet s at the API server.
Held(n, s) == BlocksOf(api[n].podCIDRs, s, Nat)

Idle == [pc |-> "idle", node |-> "none", cidrs |-> <<>>, done |-> 0,
         global |-> "none", requeue |-> FALSE]

Begin(pc, n, podCIDRs) == [Idle EXCEPT !.pc = pc, !.node = n, !.cidrs = podCIDRs]

Processing(n) == \E w \in Worker : worker[w].pc # "idle" /\ worker[w].node = n

\* Mutant: a node is not queued again after an error.
ReturnForgets(w, failed) ==
    /\ worker' = [worker EXCEPT ![w] =
                     IF failed /\ w = Main THEN [Idle EXCEPT !.pc = "failed"] ELSE Idle]
    /\ UNCHANGED queue

\* Return from syncNode, with AddRateLimited on error.  In the constructor an
\* error ends the process (StartFails).
Return(w, failed) ==
    /\ worker' = [worker EXCEPT ![w] =
                     IF failed /\ w = Main THEN [Idle EXCEPT !.pc = "failed"] ELSE Idle]
    /\ queue' = IF failed /\ w # Main THEN queue \cup {worker[w].node} ELSE queue

\* occupyCIDR and releaseCIDRs look for the set that contains the CIDR.
OccupyCIDR(cidr) ==
    IF cidr.subnet \in Known
    THEN [cidrSets EXCEPT ![cidr.subnet] = Occupy(@, cidr.blocks)] ELSE cidrSets

ReleaseCIDR(cidr) ==
    IF cidr.subnet \in Known
    THEN [cidrSets EXCEPT ![cidr.subnet] = Release(@, cidr.blocks)] ELSE cidrSets

----------------------------------------------------------------------------
(* defineNodeGlobalCIDRs.                                                  *)

\* addCIDRSet keeps a set that exists.
AddCIDRSets(sets, subnets) ==
    [s \in DOMAIN sets \cup subnets |->
        IF s \in DOMAIN sets THEN sets[s] ELSE NewCIDRSet(maxCIDRs[s])]

\* occupyNodeIPs: the public IPv6 addresses of n, in the sets that hold them.
OccupyNodeIPs(sets, n) ==
    [s \in DOMAIN sets |->
        IF s \in Global THEN Occupy(sets[s], OwnBlocks[n][s]) ELSE sets[s]]

\* The subnets before the first one that is too small get their sets.
Added(found) ==
    {found[i] : i \in {j \in DOMAIN found :
        found[j] # Host /\ \A m \in 1 .. j : found[m] \notin TooSmall}}

Outcome(sets, subnet) == [sets |-> sets, subnet |-> subnet]

\* Mutant: the search for an existing set is missing, and a new one replaces it.
DefineAfresh(n, found) ==
    LET replaced == [s \in Known \cup Added(found) |->
                        IF s \in Added(found) THEN NewCIDRSet(maxCIDRs[s]) ELSE cidrSets[s]]
    IN  IF found = <<>> THEN {Outcome(cidrSets, "none")}
        ELSE {Outcome(OccupyNodeIPs(replaced, n), found[1])}

\* What one call may do for node n after the Talos API reported the subnets
\* found: use one that has a set, or add sets for them.  The part that changes
\* the map runs under r.lock.
DefineNodeGlobalCIDRs(n, found) ==
    LET matching == {found[i] : i \in DOMAIN found} \cap Known \cap Global
        added    == AddCIDRSets(cidrSets, Added(found))
    IN  CASE found = <<>> -> {Outcome(cidrSets, "none")}
          [] matching # {} -> {Outcome(OccupyNodeIPs(cidrSets, n), s) : s \in matching}
          [] OTHER -> {IF \E i \in DOMAIN found : found[i] \in TooSmall
                       THEN Outcome(added, "error")
                       ELSE Outcome(OccupyNodeIPs(added, n), found[1])}

----------------------------------------------------------------------------
(* syncNode and what it calls.                                             *)

\* Get a name that no other worker holds, and read the node from the lister.
SyncNode(w, n) ==
    /\ phase = "running" /\ worker[w].pc = "idle"
    /\ n \in queue /\ ~Processing(n)
    /\ queue' = queue \ {n}
    /\ LET node == cache[n]
       IN  worker' = [worker EXCEPT ![w] =
             CASE node.exists /\ node.deleting -> Begin("release", n, node.podCIDRs)
               [] ~node.exists \/ (node.tainted /\ ~node.deleting) -> Idle
               [] OTHER -> Begin(IF node.podCIDRs = <<>> THEN "define" ELSE "occupy",
                                 n, node.podCIDRs)]
    /\ UNCHANGED <<apiVars, phase, informerVars, deleted, cidrSets, todo, released, starts>>

\* occupyPodCIDRs: a CIDR without a set makes defineNodeGlobalCIDRs add one,
\* in which the CIDR itself is not marked.
OccupyPodCIDRs(w) ==
    /\ worker[w].pc = "occupy"
    /\ LET cidrs == worker[w].cidrs
           k     == worker[w].done + 1
       IN  \/ /\ Len(cidrs) > 2 \/ k > Len(cidrs)
              /\ Return(w, FALSE)
              /\ UNCHANGED cidrSets
           \/ /\ Len(cidrs) <= 2 /\ k <= Len(cidrs)
              /\ cidrSets' = OccupyCIDR(cidrs[k])
              /\ worker' = [worker EXCEPT
                   ![w] = IF cidrs[k].subnet \in Known THEN [@ EXCEPT !.done = k]
                          ELSE [@ EXCEPT !.pc = "define"]]
              /\ UNCHANGED queue
    /\ UNCHANGED <<apiVars, phase, informerVars, deleted, todo, released, starts>>

\* defineNodeGlobalCIDRs, called for a node without CIDRs or for a CIDR without
\* a set.
Define(w) ==
    /\ worker[w].pc = "define"
    /\ \E found \in Discovery[worker[w].node] :
         \E outcome \in DefineNodeGlobalCIDRs(worker[w].node, found) :
           /\ cidrSets' = outcome.sets
           /\ \/ /\ outcome.subnet = "error"
                 /\ Return(w, TRUE)
              \/ /\ outcome.subnet # "error"
                 /\ worker' = [worker EXCEPT ![w] =
                      IF @.cidrs = <<>> THEN [@ EXCEPT !.pc = "allocate", !.global = outcome.subnet]
                      ELSE [@ EXCEPT !.pc = "occupy", !.done = worker[w].done + 1]]
                 /\ UNCHANGED queue
    /\ UNCHANGED <<apiVars, phase, informerVars, deleted, todo, released, starts>>

\* The node has no addresses, or the Talos client cannot be created.
DefineFails(w) ==
    /\ worker[w].pc = "define"
    /\ Return(w, TRUE)
    /\ UNCHANGED <<apiVars, phase, informerVars, deleted, cidrSets, todo, released, starts>>

\* AllocateOrOccupyCIDR takes a block for each configured CIDR, for IPv6 from
\* the global subnet if there is one.
Target(w) ==
    LET k == Len(worker[w].cidrs) + 1
    IN  IF clusterCIDRs[k] \in IPv6 /\ worker[w].global # "none"
        THEN worker[w].global ELSE clusterCIDRs[k]

\* allocatedCIDRs[idx] = podCIDR
TakeCIDR(w, cidr) ==
    worker' = [worker EXCEPT
        ![w].cidrs = Append(@, cidr),
        ![w].pc    = IF Len(worker[w].cidrs) + 1 = Len(clusterCIDRs) THEN "update" ELSE @]

AllocateCIDR(w) ==
    /\ worker[w].pc = "allocate"
    /\ LET s == Target(w)
       IN  \/ /\ s \in Known /\ ~NoCIDRsRemaining(cidrSets[s])
              /\ cidrSets' = [cidrSets EXCEPT ![s] = AllocateNext(@)]
              /\ TakeCIDR(w, [subnet |-> s, blocks |-> {Candidate(cidrSets[s])}])
           \/ /\ s \notin Known
              /\ UNCHANGED cidrSets
              /\ TakeCIDR(w, Nil)
    /\ UNCHANGED <<feedVars, todo, released, starts>>

\* The error return keeps the blocks already taken from other sets.
CIDRNotAvailable(w) ==
    /\ worker[w].pc = "allocate"
    /\ Target(w) \in Known /\ NoCIDRsRemaining(cidrSets[Target(w)])
    /\ Return(w, TRUE)
    /\ UNCHANGED <<apiVars, phase, informerVars, deleted, cidrSets, todo, released, starts>>

\* updateCIDRsAllocation up to the PATCH, as in the range allocator.
UpdateCIDRsAllocation(w) ==
    /\ worker[w].pc = "update"
    /\ LET node == cache[worker[w].node]
       IN  \/ /\ ~node.exists
              /\ Return(w, TRUE)
           \/ /\ node.exists /\ node.podCIDRs = worker[w].cidrs
              /\ Return(w, FALSE)
           \/ /\ node.exists /\ node.podCIDRs # worker[w].cidrs
              /\ worker' = [worker EXCEPT
                   ![w].pc = IF node.podCIDRs = <<>> THEN "patch" ELSE "giveback"]
              /\ UNCHANGED queue
    /\ UNCHANGED <<apiVars, phase, informerVars, deleted, cidrSets, todo, released, starts>>

\* The API server refuses "<nil>" as a CIDR.
Valid(cidrs) == \A k \in DOMAIN cidrs : cidrs[k] # Nil

\* Mutant: a successful PATCH does not leave the retry loop, and the blocks
\* just assigned are given back.
PatchThenGiveBack(w) ==
    /\ worker[w].pc = "patch"
    /\ Valid(worker[w].cidrs) /\ Accepts(worker[w].node, worker[w].cidrs)
    /\ ApplyPatch(worker[w].node, worker[w].cidrs)
    /\ worker' = [worker EXCEPT ![w].pc = "giveback", ![w].done = 0]
    /\ UNCHANGED <<inflight, phase, cache, deleted, queue, cidrSets, todo, released, starts>>

\* A PATCH that is applied and acknowledged.
PatchNodeCIDRs(w) ==
    /\ worker[w].pc = "patch"
    /\ Valid(worker[w].cidrs) /\ Accepts(worker[w].node, worker[w].cidrs)
    /\ ApplyPatch(worker[w].node, worker[w].cidrs)
    /\ Return(w, FALSE)
    /\ UNCHANGED <<inflight, phase, cache, deleted, cidrSets, todo, released, starts>>

\* The loop over cidrUpdateRetries; IsServerTimeout(err) is never true (see
\* RangeAllocator).
AfterFailedPatch(w) ==
    LET attempts == worker[w].done + 1
    IN  worker' = [worker EXCEPT ![w] =
          IF attempts < cidrUpdateRetries THEN [@ EXCEPT !.done = attempts]
          ELSE [@ EXCEPT !.pc = "giveback", !.done = 0, !.requeue = TRUE]]

PatchFails(w) ==
    /\ worker[w].pc = "patch"
    /\ AfterFailedPatch(w)
    /\ UNCHANGED <<feedVars, cidrSets, todo, released, starts>>

PatchTimesOut(w) ==
    /\ LostReplies /\ Cardinality(inflight) < MaxInflight
    /\ worker[w].pc = "patch" /\ Valid(worker[w].cidrs)
    /\ inflight' = inflight \cup {[node |-> worker[w].node, cidrs |-> worker[w].cidrs]}
    /\ AfterFailedPatch(w)
    /\ UNCHANGED <<api, phase, informerVars, deleted, queue, cidrSets, todo, released, starts>>

\* releaseCIDRs, for the blocks in hand and for a node under deletion: CIDRs
\* without a set are skipped.
ReleaseCIDRs(w) ==
    /\ worker[w].pc \in {"giveback", "release"}
    /\ LET k == worker[w].done + 1
       IN  \/ /\ k \in DOMAIN worker[w].cidrs
              /\ cidrSets' = ReleaseCIDR(worker[w].cidrs[k])
              /\ worker' = [worker EXCEPT ![w].done = k]
              /\ UNCHANGED queue
           \/ /\ k \notin DOMAIN worker[w].cidrs
              /\ Return(w, worker[w].requeue)
              /\ UNCHANGED cidrSets
    /\ UNCHANGED <<apiVars, phase, informerVars, deleted, todo, released, starts>>

----------------------------------------------------------------------------
(* DeleteFunc, start and end of the process.                               *)

\* ReleaseCIDR on the deleted object, then enqueue its name.
DeleteFunc ==
    /\ phase = "running" /\ deleted # <<>> /\ ~Head(deleted).tombstone
    /\ LET k == released + 1
       IN  \/ /\ k \in DOMAIN Head(deleted).cidrs
              /\ cidrSets' = ReleaseCIDR(Head(deleted).cidrs[k])
              /\ released' = k
              /\ UNCHANGED <<deleted, queue>>
           \/ /\ k \notin DOMAIN Head(deleted).cidrs
              /\ released' = 0
              /\ deleted' = Tail(deleted)
              /\ queue' = queue \cup {Head(deleted).node}
              /\ UNCHANGED cidrSets
    /\ UNCHANGED <<apiVars, phase, informerVars, todo, worker, starts>>

NoSets == [s \in {} |-> NewCIDRSet(1)]

AllIdle == [w \in Worker \cup {Main} |-> Idle]

\* Mutant: the service range is not filtered out.
FilterNothing(s) == NewCIDRSet(maxCIDRs[s])

\* The set of a configured subnet after filterOutServiceRange: occupyCIDR marks a
\* service CIDR in the set that contains its first address and in no other.
FilterOutServiceRange(s) ==
    Occupy(NewCIDRSet(maxCIDRs[s]),
           UNION {c.blocks[s] : c \in {d \in serviceCIDRs : d.base = s}})

\* NewCIDRCloudAllocator up to the loop over the listed nodes.
Start ==
    /\ phase = "down" /\ starts < MaxStarts
    /\ starts' = starts + 1
    /\ phase' = "listing"
    /\ cidrSets' = [s \in Configured |-> FilterOutServiceRange(s)]
    /\ todo' = {[node |-> n, cidrs |-> api[n].podCIDRs] :
                  n \in {m \in listNodes : api[m].podCIDRs # <<>>}}
    /\ UNCHANGED <<apiVars, informerVars, deleted, released, queue, worker>>

StartNode ==
    /\ phase = "listing" /\ worker[Main].pc = "idle"
    /\ \E t \in todo :
         /\ todo' = todo \ {t}
         /\ worker' = [worker EXCEPT ![Main] = Begin("occupy", t.node, t.cidrs)]
    /\ UNCHANGED <<feedVars, cidrSets, released, starts>>

StartDone ==
    /\ phase = "listing" /\ worker[Main].pc = "idle" /\ todo = {}
    /\ phase' = "listed"
    /\ UNCHANGED <<apiVars, informerVars, deleted, queue, ownVars>>

Stop ==
    /\ Die
    /\ cidrSets' = NoSets
    /\ todo' = {}
    /\ released' = 0
    /\ worker' = AllIdle
    /\ UNCHANGED starts

StartFails ==
    /\ worker[Main].pc = "failed"
    /\ Stop

Crash ==
    /\ phase # "down"
    /\ Stop

\* DeleteFunc asserts that its argument is a *v1.Node.
DeleteFuncPanics ==
    /\ phase = "running" /\ deleted # <<>> /\ Head(deleted).tombstone
    /\ Stop

----------------------------------------------------------------------------

Init ==
    /\ FeedInit
    /\ \A m, n \in Node, s \in Subnets : m # n => Held(m, s) \cap Held(n, s) = {}
    /\ cidrSets = NoSets
    /\ todo = {}
    /\ released = 0
    /\ worker = AllIdle
    /\ starts = 0

WorkerStep(w) ==
    \/ OccupyPodCIDRs(w) \/ Define(w) \/ DefineFails(w)
    \/ AllocateCIDR(w) \/ CIDRNotAvailable(w) \/ UpdateCIDRsAllocation(w)
    \/ PatchNodeCIDRs(w) \/ PatchFails(w) \/ PatchTimesOut(w) \/ ReleaseCIDRs(w)

Next ==
    \/ Start \/ StartNode \/ StartDone \/ StartFails \/ Crash
    \/ DeleteFunc \/ DeleteFuncPanics
    \/ \E w \in Worker, n \in Node : SyncNode(w, n)
    \/ \E w \in Worker \cup {Main} : WorkerStep(w)
    \/ FeedStep /\ UNCHANGED ownVars

Spec == Init /\ [][Next]_vars

\* Goroutines keep running, the watch and the work queue are first in first out.
Fairness ==
    /\ WF_vars(DeleteFunc \/ DeleteFuncPanics)
    /\ \A n \in Node : WF_vars(Deliver(n) /\ UNCHANGED ownVars)
    /\ \A w \in Worker : WF_vars(WorkerStep(w))
    /\ \A n \in Node : SF_vars(\E w \in Worker : SyncNode(w, n))

FairSpec == Spec /\ Fairness

----------------------------------------------------------------------------
(* Properties.                                                             *)

WorkerRecords(P) ==
    [pc: {"idle", "occupy", "define", "allocate", "update", "patch", "giveback",
          "release", "failed"},
     node: Node \cup {"none"}, cidrs: P, done: Nat,
     global: Subnets \cup {Host, "none"}, requeue: BOOLEAN]

\* A worker that is at work has a node.
WorkerTypeOK(P) ==
    /\ worker \in [Worker \cup {Main} -> WorkerRecords(P)]
    /\ \A w \in Worker \cup {Main} :
         worker[w].pc \in {"idle", "failed"} \/ worker[w].node \in Node

\* Every variable has its type, and every set of the map, whenever it was added,
\* has a counter that agrees with its bitmap.
TypeOK ==
    /\ FeedTypeOK(PodCIDRs)
    /\ Known \subseteq Subnets
    /\ \A s \in Known : WellFormed(cidrSets[s], maxCIDRs[s])
    /\ todo \subseteq [node: Node, cidrs: PodCIDRs]
    /\ released \in Nat
    /\ WorkerTypeOK(PodCIDRs)
    /\ starts \in 0 .. MaxStarts

\* The blocks worker w has taken and neither assigned nor given back.
InHand(w, s) ==
    CASE worker[w].pc \in {"allocate", "update", "patch"} -> BlocksOf(worker[w].cidrs, s, Nat)
      [] worker[w].pc = "giveback" -> BlocksOf(worker[w].cidrs, s, {k \in Nat : k > worker[w].done})
      [] OTHER -> {}

\* No two nodes ever hold overlapping pod CIDRs, in the configured subnets and
\* in those that are discovered while workers allocate (docs/controllers.md:
\* "distributed without conflicts").
UniquePodCIDRs ==
    \A m, n \in Node, s \in Subnets : m # n => Held(m, s) \cap Held(n, s) = {}

\* Between AllocateNext and the PATCH, a worker's blocks stay marked used and
\* are nobody else's, although other workers add sets to the map and mark their
\* nodes' own addresses in them.
HandsExclusive ==
    \A w \in Worker, s \in Known :
        /\ InHand(w, s) \subseteq cidrSets[s].used
        /\ \A v \in Worker \ {w} : InHand(w, s) \cap InHand(v, s) = {}
        /\ \A n \in Node : InHand(w, s) \cap Held(n, s) = {}

\* The blocks of subnet s that the service CIDRs touch.
Service(s) == UNION {c.blocks[s] : c \in serviceCIDRs}

\* No PATCH gives a node a block that a service CIDR touches: filterOutServiceRange
\* marks them used at start "so that they won't be assignable", and no release of a
\* node's CIDRs, no leak and no retry takes the mark away.  This is so of service CIDRs
\* that begin in the subnet they touch; of one that begins before it nothing is marked.
ServiceNeverAssigned ==
    [][\A n \in Node, s \in Subnets :
          Held(n, s) # Held(n, s)' => Held(n, s)' \cap Service(s) = {}]_vars

\* AllocateNext never picks a block with an address of the node it is for:
\* occupyNodeIPs "ensures a pod subnet that would include one of the node's own
\* addresses is never allocated to that node".
OwnAddressFree ==
    \A w \in Worker, s \in Global :
        worker[w].node \in Node => InHand(w, s) \cap OwnBlocks[worker[w].node][s] = {}

\* A call to the Talos API or a PATCH fails.  DefineFails is also what happens when
\* addCIDRSet refuses the first subnet of a node, before any set is added.
Failure == \E w \in Worker : DefineFails(w) \/ PatchFails(w) \/ PatchTimesOut(w)

\* A block that node n may need is missing, and not because it was just taken for n.
Lacking(n) ==
    /\ api[n].podCIDRs = <<>>
    /\ \E s \in Known : /\ NoCIDRsRemaining(cidrSets[s])
                        /\ \A w \in Worker : worker[w].node = n => InHand(w, s) = {}

\* An initialised node that stays gets CIDRs once calls stop failing, provided the
\* process stays up and blocks remain: whatever went wrong before, the node is
\* queued again, also when it is addCIDRSet that refuses one of its subnets after
\* it has added others, and no block leaked by an earlier attempt, no CIDR that the
\* node held in an earlier life and no entry of the map stands in the way.  (Two
\* kinds of nodes never stop failing and are not served: one for which only a /128 is
\* discovered sends "<nil>", and one whose first subnet is too small gets no set.)
NodeServed ==
    \A n \in Node :
        LET stays == /\ phase = "running"
                     /\ api[n].exists /\ ~api[n].deleting /\ ~api[n].tainted
                     /\ ~Lacking(n)
        IN  <>[]stays /\ <>[][~Failure]_vars => <>[](api[n].podCIDRs # <<>>)
=============================================================================
