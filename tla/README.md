# Verification of the Talos cloud controller manager

TLA+ models of the stateful parts of this repository, TLC configurations that
check them on small instances, and TLAPS proofs of the results that do not
depend on the instance. `PROJECT.json` lists every run, theorem, finding and
hazard, and maps each definition to the lines it models.

## The system and its parts

| Part | Source | State and concurrency | Module |
|---|---|---|---|
| CIDR set | `pkg/nodeipam/ipam/cidrset` | bitmap, counter and ring pointer under a mutex | `CidrSet`, `CidrSetCalls`, `BlockPool`, `CidrArith` |
| Range allocator | `pkg/nodeipam/ipam/range_allocator.go` | 30 workers, a delete handler, an informer cache, PATCH retries | `RangeAllocator`, `NodeFeed` |
| Cloud allocator | `pkg/nodeipam/ipam/cloud_allocator.go` | the same, and a map of sets that grows with discovered subnets | `CloudAllocator`, `NodeFeed`, `NodeDiscovery` |
| CSR approval | `pkg/certificatesigningrequest`, `CSRNodeChecks` in `pkg/talos/helper.go` | one watch loop against a changing API server | `CsrApproval`, `CsrRules` |
| Node instances | `pkg/talos/instances.go`, rest of `helper.go` | called by the cloud-node controllers; three writes whose errors are only logged | `NodeInstances`, `NodeDiscovery` |
| Talos client | `pkg/talosclient` | one client for all goroutines, replaced without a lock; subnet discovery | `TalosClient`, `NodeDiscovery` |
| Node IPAM flags | `cmd/.../nodeipamcontroller.go`, `node_ipam_controller.go` | pure validation at start | `IpamSettings` |
| Transformer, selector | `pkg/transformer`, `pkg/nodeselector` | pure | `NodeRules` |
| Dual stack addresses | `pkg/utils/net` | pure | `NodeDiscovery` |
| Entry point, metrics, names | `cmd/.../main.go`, `pkg/metrics`, `pkg/names` | none of interest | not modelled |

The allocators sit on top of CIDR sets and talk to the API server through an
informer, a work queue and PATCH requests. The CSR approver is independent of
them; both read Node objects that the cloud-node controller fills by calling the
node instances, which ask the machine through the Talos client.

## Modules

**CidrSet** holds the operations of the struct as functions of a record. A CIDR
is the set of block indices it touches. `CidrSetCalls` makes each call one
step, since each holds the mutex for all of its reads and writes of mutable
fields. `BlockPool` is the abstract specification: a set of taken blocks.

**CidrArith** is the conversion between indices and addresses, on words of a
given width with shifts that lose bits, and IPv6 addresses in two halves. It
justifies the view of a CIDR as a set of blocks.

**NodeFeed** is what surrounds an allocator: Node objects, the watch and the
lagging cache, delete notifications, the deduplicating queue, abandoned PATCH
requests. It is modelled from how the allocators use client-go and the API
server. The cache changes before a handler runs; a relist turns a missed
deletion into a `DeletedFinalStateUnknown` and merges a deletion with a
following creation.

**RangeAllocator** has one `worker` record per goroutine with a program
counter per call that another goroutine may interleave with. `Start` is the
constructor, `Crash` ends the process at any point, and only `api` and
`inflight` survive. The error that `PatchNodeCIDRs` returns has lost its type,
so blocks are always given back after the last attempt (`AfterFailedPatch`).

**CloudAllocator** names a set after its subnet. Subnets are disjoint, a
discovered /128 lies in none of them, and `Discovery[n]` is what the Talos API
may answer for a node, the empty answer being an ignored error. A service CIDR
is the subnet its first address lies in and the blocks it touches, since
`occupyCIDR` looks for the first address only. The constructor occupies the listed nodes with the workers' code, so it is the
process `Main`. Map reads are not guarded by the lock that guards the write: a
read sees the map before or after the write, or the runtime ends the process,
which is `Crash`.

**CsrApproval** keeps the events of the current watch in `stream`. A new watch
starts with an `Added` event for every object. `past` records the address
lists a node has had, for the properties only. **CsrRules** has the checks of a
request's form and of its names and addresses, as operators.

**TalosClient** is a request with its retry. `talos` says what the shared
pointer refers to; `refreshTalosClient` closes whatever is there and then
assigns, in two steps. **NodeInstances** composes it with one node: a pass of
`InstanceMetadata` reads three resources through the client and then writes
annotations, taints and labels on the strength of the copy it began with. A write
is the difference of two versions of that copy (`MergePatch`), applied to the node
as it is by then; users edit it meanwhile (`Edit`). The callers in the
cloud-provider library are modelled from how they use the interface.

**NodeDiscovery**, **NodeRules** and **IpamSettings** are pure functions: the
addresses and subnets of a node and the masks cut out of a subnet; selectors
and transformation rules; from flags to the parameters of an allocator.
**Algorithms** calls them, `CidrArith` and `CsrRules` with every argument of a
bounded set and compares the results with definitions of another shape.

## Runs

| Run | Question | Result |
|---|---|---|
| `cidr_set` | counter, bitmap, abstract pool, every free block is reached | holds |
| `algorithms` | blocks tile the cluster and indices are those of touched blocks; node addresses, subnets and pod masks; last matching rule wins; IPAM settings; form of a CSR | holds |
| `range` | no block with two owners, in dual stack and across restarts | holds |
| `range_faults` | well-formed bitmaps, service range, a node that stays is served | holds |
| `range_timeout` | a block of unknown outcome is kept | violated |
| `cloud` | no block with two owners within one life of the process | holds |
| `cloud_faults` | well-formed sets, service range, a node that stays is served | holds |
| `cloud_restart` | uniqueness across a restart with a public subnet | violated |
| `cloud_own_address` | a node never gets a block with its own address | violated |
| `csr` | approvals are justified, one decision per CSR, which stands, a pending one is decided | holds |
| `cloud_node` | client never left closed, no lost update, node converges, preempted spot node replaced | holds |
| `cloud_node_taints` | a node leaves initialisation with its taints | violated |

The violated runs compare the code with a sentence of its own comments or
documentation; `findings` quotes it. `cloud` starts the process once because
`cloud_restart` shows what a second start does.

The following is in the models but outside what the properties claim, and the
hazards say so:

* A node with a finalizer lingers with a deletionTimestamp; `syncNode` releases
  its CIDRs while it still holds them, and another node may get them. The code
  comments assume that nodes have no finalizer, and so do `range` and `cloud`.
  `range_faults` and `cloud_faults` allow finalizers and check only
  what holds regardless.
* A node that an earlier configuration placed in the service range clears the
  service mark when it is deleted. `ServiceNeverAssigned` is checked for nodes of
  the current configuration.
* The cloud allocator marks a service CIDR only in the set that contains its first
  address. One that is wider than the cluster CIDR and begins before it is not marked
  at all, although the comment in `filterOutServiceRange` names the case.
  `ServiceNeverAssigned` is checked, and proved, for service CIDRs that begin in the
  subnet they touch.
* A node for which only a /128 is discovered, or whose first public subnet is too
  small, fails for ever and does not fall back to the configured subnet
  (`docs/controllers.md`: "podSubnets-v6 will use as fallback for IPv6"). `NodeServed`
  is about nodes whose calls stop failing.
* After cancellation the CSR loop may leave its `select` through the closed
  watch and then retry a watch that can only fail. `PendingDecided` speaks of a
  process that is not cancelled.
* Two goroutines that both found the client broken can close each other's new
  client for ever, with no fault outside. `NodeConverges` counts that step among
  the failures that must stop.
* Masks 112 to 117 are not compared with the number of pods; `PodSubnetFits` is
  stated up to 510 pods, although the comment of `addCIDRSet` has no limit.
* Nodes that report nested prefixes of different length get overlapping sets.
  `SubnetsCoverNode` is about one node, and `CloudAllocator` assumes disjoint
  subnets.
* `NewCIDRCloudAllocator` asks its caller for masks not shorter than the cluster
  CIDR, and its caller checks that for the range allocator only.
* The features block of a rule is never copied into the result, so that
  `publicIPDiscovery` of `docs/config.md` has no effect; a taint is checked
  as rendered and stored as template; and templates are those of `html/template`,
  which escapes the values it shows, not of `text/template` as `docs/config.md` says.
* A pattern that does not compile panics.

### Bounds

* Sets have one to three blocks and there are two nodes and up to two workers,
  so blocks run out, are handed out again, and every pair of owners occurs. A
  violation of uniqueness needs two owners and one block.
* `MaxEvents` and `MaxDeletions` bound what the informer lags behind,
  `MaxInflight` the PATCHes under way that the client gave up on; `MaxStarts`
  bounds restarts of the cloud allocator. A bound only delays the API server or
  the informer.
* `range_faults` and `cloud_faults` have one node and one worker: their properties
  are about the sets and about one node, and other nodes could only take blocks or
  turns. Two blocks of the cluster CIDR, or of the public subnet, are usable, so a
  block remains after one has leaked. `NodeServed` asks for blocks only until the
  node's worker has them in hand (`Lacking`), so the last block serves as well. In `cloud` the Talos API may answer or stay silent,
  every subnet has one block, so two nodes always compete for it, and nodes may
  start with a CIDR of the configured subnet.
* `algorithms` uses short words for addresses; the code's case distinctions (mask
  in the left half, in the right half, across) all occur. Masks of pod subnets
  have their real width. Interface lists have three addresses, which is enough
  for a prefix within another one beside a third; rule lists have two rules.
* `csr` has one CSR name that is deleted and created again up to `MaxVersion`
  changes, and a node whose addresses are missing, suffice for the request, or are
  those of another machine. With several CSRs a watch that always closes before the last event
  may starve it, which fairness of the code's own steps does not exclude.
* `cloud_node` has one node, one pass over it at a time, as in the library, and
  one more user of the client. Two users are enough to close each other's client.
* Symmetry is used in safety runs only, over workers, and over nodes where no
  constant tells them apart.

### Fairness

Goroutines run (weak fairness of a worker's step and of the delete handler).
The watch goes on (weak fairness of `Deliver`), and the queue is first in first out,
so a name that is queued again and again is taken (strong fairness of `SyncNode`).
Calls that are repeated for ever do not fail for ever (strong fairness of a
successful PATCH of the range allocator, `Watch`, `GetNode`, `UpdateApproval`).
Nothing is assumed of kubelets, administrators, deletions or crashes.

`NodeServed` of the cloud allocator, `NodeConverges` and `SpotReplaced` assume no
success: their premise says that failures (the action `Failure`) stop some time, and
for `SpotReplaced` that users stop editing the node. `cloud_node` also lets time pass (`Age`)
and the lifecycle controller come back (`DeleteNode`).

## Proofs

The theorems hold for every value of the constants that satisfies the named
assumptions (`PoolAssumption`, `FeedAssumption`, `AllocatorAssumption`,
`CloudAssumption`, `InstancesAssumption`, `CsrAssumption`).

**CIDR set** (`CidrSetLemmas`, `CidrSetProofs`), for every number of blocks:
`TypeCorrect`, `CounterCorrect` (`CounterMatchesBitmap`) and `PoolImplemented`
(`Spec => ImplementsPool`: `BlockPool!Spec` holds of the bits of the struct). The
inductive invariant is `TypeOK` with `CounterMatchesBitmap`. Neither is inductive
alone: the type bounds the counter, and a step keeps the bound only because the
counter is the size of the bitmap. The central lemma is `CandidateIsFree`: when
the counter is below the maximum some bit is clear, the ring scan reaches every
index (`ProbeReaches`), so the least scan length exists (`ScanStops`) and its
block is free. `CidrSetLemmas` has the lemmas about the operations, which the
allocators use too.

**Range allocator** (`FeedLemmas`, `RangeAllocatorProofs`), for any number of nodes, workers, cluster CIDRs and blocks
and any number of restarts:

| Theorem | Condition |
|---|---|
| `TypeCorrect` (`TypeOK`) | none: finalizers, lost replies and foreign CIDRs included |
| `ServiceRangeKept` (`ServiceNeverAssigned`) | `OutsideService`: no node of the first list holds a service block |
| `PodCIDRsUnique` (`UniquePodCIDRs`) | `NoFaults`: no finalizers, every reply of the API server arrives |
| `HeldStaysReserved` (`HeldReserved`) | `NoFaults` |
| `HandsStayExclusive` (`HandsExclusive`) | `NoFaults` |

The conditions are those of the runs `range` and `range_faults`; `range_timeout`
and the remark on finalizers above show that `NoFaults` is needed.

Uniqueness is not inductive, because a block changes owner through states in which
no node holds it, and because `DeleteFunc` releases what the *cache* said the node
held. `FeedLemmas` therefore lists everyone who may still release or assign a
block: the node that holds it (`Holds`), the worker that has taken it (`hand`),
a removal on its way through the watch (`Doomed`) and a notice that `DeleteFunc` has
not worked off (`Notice`). The invariant `IInv` says

* `Claims`: no two claims share a block (`Exclusive`), and while the process runs
  every claimed block is marked in its bitmap (`Marked`), so `AllocateNext` offers
  none of them;
* `Chain`: the last undelivered event of a node, or its cache entry if there is
  none, is the object at the API server, so what `Doomed` counts is what the node
  held when it went;
* `Quiet`: a process that does not run has no events, notices or busy workers, so a
  restart starts from what the nodes hold;
* `FeedCalm`: no object is being deleted, and one that is gone holds nothing;
* `NoRelease`: no worker releases what a node under deletion holds.

A step either lets no claim grow (`Shrunk`) or moves one block from a claim to
another: `Grabbed` (free to worker), `HandedOver` (worker to node, by the PATCH),
`Removed` (node to removal), `Delivered` (removal to notice), `WorkedOff` and
`NoticeReleased` (notice to free). Each move has a lemma about the claims as sets.
`FeedLemmas` knows nothing of the allocator: what is left of a node's CIDRs and
what each worker has in hand are parameters (`left`, `hand`), and so is the set `P` of
possible `podCIDRs`. With all of `PodCIDRs` the same lemmas give the type
invariant, and with the values that avoid the service range `ServiceRangeKept`.

**Cloud allocator** (`CloudLemmas`, `CloudAllocatorProofs`), for any number of nodes,
workers, configured and discoverable subnets and blocks:

| Theorem | Condition |
|---|---|
| `TypeCorrect` (`TypeOK`) | none: finalizers, lost replies, restarts and foreign CIDRs included |
| `ServiceRangeKept` (`ServiceNeverAssigned`) | `OutsideService`: every service CIDR begins in the one configured subnet it touches, and no node of the first list holds a block of it |
| `PodCIDRsUnique` (`UniquePodCIDRs`) | `OneRun`: no finalizers, every reply arrives, the process starts once, and the nodes of the first list hold no CIDR of a subnet that is yet to be discovered and no overlapping CIDRs |
| `HandsStayExclusive` (`HandsExclusive`) | `OneRun` |

`cloud` and `cloud_faults` check the same on small instances, and `cloud_restart`
shows that one start is needed: the next process does not know the sets of
discovered subnets. The claims are those of the range allocator, per subnet instead
of per index. What is new is the map of sets, which grows while workers allocate, and the
constructor, which occupies listed nodes one at a time with the code of the workers.
`IInv` therefore has two more parts:

* a claimed block is marked, *or is still on the constructor's list* (`Promised`), so
  that a node that was listed but not yet occupied counts. With a set that is not in
  the map nothing is promised: no node holds a block of it, because a set is only
  added (`Grows`), never replaced;
* `MainOK`: the constructor never has a CIDR of a subnet that is not configured in
  hand, so that it adds no set that would be incomplete when it is added.

`Carries(Distinct)` says that no list of CIDRs, wherever it is, names a block twice: a
release of one entry must not free what another entry of the same node stands for.
`CloudLemmas` has the effect of every step on the map and on the claims; it takes
from the bitmaps only that a scan of a set that is not full ends on a free block
(`Finds`), which `CloudAllocatorProofs` gets from `CidrSetLemmas` and the type
invariant.

**Node instances** (`NodeInstancesProofs`), for any number of node addresses and
users of the client: `TypeCorrect`, `ClientNotLeftClosed` (`NotLeftClosed`, which
needs the type invariant to know that only a caller in `refreshTalosClient` closes
the client) and `UpdatesNotLost` (`NoLostUpdate`, an action property). The copy of a
pass may be of any age, so nothing is known of it: the argument is that a patch made
by adding to a copy adds to whatever it is applied to (`PatchAdds`), and that every
other step of a pass leaves the node's keys alone (`PassOnlyAdds`).

**CSR approval** (`CsrApprovalProofs`), for any number of CSRs, requests, nodes and
address lists: `TypeCorrect`, `ApprovalsJustified` (`ApprovalJustified`) and
`NoSecondDecision` (`DecidedOnce`). The loop decides on a copy of an object from the
watch, on an address list it reads later, and writes later still, so neither
property is inductive. `IInv` adds what is known in between (`Taken`: the object
in hand had no condition and the form of a kubelet's request; `Sound`: a condition
the controller has put on an object, at the API server or in hand, is its only one
and is justified by an address list in `past`). It is kept because `past` only grows
(`PastGrows`), because `UpdateApproval` is refused when the object has changed since
the copy was made, and because a copy with a condition is ignored. `CsrAssumption`
says that there are finitely many CSR names, which the replay of a watch needs.

`DecisionsStand` (`DecisionFinal`, an action property) says that nothing writes over a
decision, although the loop sends a whole object that it received before it read the
node. It needs an invariant of its own, `Copies`: a copy in `stream` or in hand is
never newer than the stored object, and if both have the same version the stored one
has the conditions the copy was made with. For the copy in hand these are none, so an
update that the API server accepts meets an undecided CSR. Every change of a stored
object gives it a version that no copy has, and a deletion takes the object away
(`ChangeSupersedes`).

Only model-checked: liveness (out of the prover's reach), `CidrArith` and
the other pure functions of `Algorithms` (bitwise and recursive operators).

## Not modelled

* Text formatting, logging, events and metrics; PEM and X.509 decoding (one bit
  of a request); gRPC and TLS; functions for templates
  (`pkg/transformer/functions.go`), which have no state.
* The start of the process: flags, reading of the configuration file, leader
  election (one process runs at a time). `--service-cluster-ip-range` is parsed
  and then overwritten by the service CIDRs of the machine configuration.
* `NodeIPDiscovery`, `FilterLocalNetIPs` and `SortedNodeIPs`, called by tests
  only; `PatchNodeCIDR` and `SetNodeCondition`, called by nobody.
* Connections: the cloud allocator opens a Talos client per discovery and does
  not close it.
* Two passes of the cloud-node controller over one node at the same time, which
  the library's work queue excludes.
