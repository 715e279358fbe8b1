------------------------------ MODULE NodeFeed ------------------------------
(***************************************************************************)
(* What surrounds a CIDR allocator: Node objects at the API server, the    *)
(* informer with its lagging cache, the notifications of deleted nodes and *)
(* the deduplicating work queue.  The allocators of pkg/nodeipam/ipam use  *)
(* it through nodeLister, ResourceEventHandlerFuncs and PatchNodeCIDRs.    *)
(***************************************************************************)
EXTENDS Integers, Sequences

CONSTANTS
    Node,               \* node names
    InitialCIDRs,       \* podCIDRs that nodes may carry when the model starts
    RegisteredCIDRs,    \* podCIDRs that nodes may register with later on
    Tainted,            \* TRUE: new nodes carry the uninitialized taint
    Finalizers,         \* TRUE: deleted nodes linger with a deletionTimestamp
    MaxEvents,          \* bound on undelivered watch events per node
    MaxDeletions,       \* bound on delete notifications waiting for the handler
    MaxInflight         \* bound on PATCH requests under way that the client gave up on

ASSUME FeedAssumption ==
    /\ {MaxEvents, MaxDeletions, MaxInflight} \subseteq Nat \ {0}
    /\ {Finalizers, Tainted} \subseteq BOOLEAN

VARIABLES
    api,        \* the Node objects the API server holds
    inflight,   \* PATCH requests abandoned by the client and still under way
    phase,      \* "down", "listing" (nodes being occupied), "listed" or "running"
    events,     \* events[n]: states of n the informer has not seen yet
    cache,      \* the informer's node cache, read through nodeLister
    deleted,    \* delete notifications the event handler has not processed
    queue       \* node names waiting in the work queue

apiVars == <<api, inflight>>
informerVars == <<events, cache>>
feedVars == <<api, inflight, phase, events, cache, deleted, queue>>

----------------------------------------------------------------------------
(* The API server: Node objects, validation of PATCH, the watch it serves. *)

Absent == [exists |-> FALSE, deleting |-> FALSE, tainted |-> FALSE, podCIDRs |-> <<>>]

Present(podCIDRs, tainted) ==
    [exists |-> TRUE, deleting |-> FALSE, tainted |-> tainted, podCIDRs |-> podCIDRs]

\* A change of n at the API server, with the watch event it causes.
Store(n, object) ==
    /\ Len(events[n]) < MaxEvents
    /\ api' = [api EXCEPT ![n] = object]
    /\ events' = IF phase = "running"
                 THEN [events EXCEPT ![n] = Append(@, object)]
                 ELSE events

\* spec.podCIDRs may be set once per Node object and is immutable afterwards.
Accepts(n, podCIDRs) ==
    /\ api[n].exists
    /\ api[n].podCIDRs \in {<<>>, podCIDRs}

ApplyPatch(n, podCIDRs) ==
    IF api[n].podCIDRs = podCIDRs
    THEN UNCHANGED <<api, events>>
    ELSE Store(n, [api[n] EXCEPT !.podCIDRs = podCIDRs])

CreateNode(n) ==
    /\ ~api[n].exists
    /\ \E cidrs \in RegisteredCIDRs : Store(n, Present(cidrs, Tainted))
    /\ UNCHANGED <<inflight, phase, cache, deleted, queue>>

\* The cloud-node controller initialises the node.
RemoveTaint(n) ==
    /\ api[n].exists /\ api[n].tainted
    /\ Store(n, [api[n] EXCEPT !.tainted = FALSE])
    /\ UNCHANGED <<inflight, phase, cache, deleted, queue>>

\* Removal of a node, or of the last finalizer of a node under deletion.
RemoveNode(n) ==
    /\ api[n].exists
    /\ Finalizers => api[n].deleting
    /\ Store(n, Absent)
    /\ UNCHANGED <<inflight, phase, cache, deleted, queue>>

MarkDeleting(n) ==
    /\ Finalizers
    /\ api[n].exists /\ ~api[n].deleting
    /\ Store(n, [api[n] EXCEPT !.deleting = TRUE])
    /\ UNCHANGED <<inflight, phase, cache, deleted, queue>>

\* The nodes that the process lists before it creates the allocator.
listNodes == {n \in Node : api[n].exists}

\* A PATCH whose client gave up, or died, reaches the API server or is lost.
LatePatch(p) ==
    /\ inflight' = inflight \ {p}
    /\ \/ Accepts(p.node, p.cidrs) /\ ApplyPatch(p.node, p.cidrs)
       \/ UNCHANGED <<api, events>>
    /\ UNCHANGED <<phase, cache, deleted, queue>>

----------------------------------------------------------------------------
(* The informer.  Its cache changes before the handlers run.  AddFunc and  *)
(* UpdateFunc only put the name into the queue; DeleteFunc runs later.     *)

\* The argument of DeleteFunc: the last state of the node, or a
\* cache.DeletedFinalStateUnknown.
Deletion(n, podCIDRs) == [node |-> n, cidrs |-> podCIDRs, tombstone |-> FALSE]
Tombstone == [node |-> "none", cidrs |-> <<>>, tombstone |-> TRUE]

Deliver(n) ==
    /\ phase = "running" /\ events[n] # <<>>
    /\ Head(events[n]).exists \/ Len(deleted) < MaxDeletions
    /\ events' = [events EXCEPT ![n] = Tail(@)]
    /\ cache' = [cache EXCEPT ![n] = Head(events[n])]
    /\ IF Head(events[n]).exists
       THEN queue' = queue \cup {n} /\ UNCHANGED deleted
       ELSE deleted' = Append(deleted, Deletion(n, cache[n].podCIDRs)) /\ UNCHANGED queue
    /\ UNCHANGED <<apiVars, phase>>

\* A resync or a status update of the node: UpdateFunc without a new CIDR.
Resync(n) ==
    /\ phase = "running" /\ cache[n].exists
    /\ queue' = queue \cup {n}
    /\ UNCHANGED <<apiVars, phase, informerVars, deleted>>

\* The nodes that vanished while the watch was broken.
Vanished == {n \in Node : cache[n].exists /\ ~api[n].exists}

\* After a broken watch the informer lists again.  A vanished node becomes a
\* DeletedFinalStateUnknown; a node deleted and created again in between is
\* only seen as updated.
Relist ==
    /\ phase = "running" /\ \E n \in Node : events[n] # <<>>
    /\ Len(deleted) < MaxDeletions
    /\ events' = [n \in Node |-> <<>>]
    /\ cache' = api
    /\ queue' = queue \cup {n \in Node : api[n].exists}
    /\ deleted' = IF Vanished = {} THEN deleted ELSE Append(deleted, Tombstone)
    /\ UNCHANGED <<apiVars, phase>>

\* The informer's own first list, with an AddFunc per node.
CacheSync ==
    /\ phase = "listed"
    /\ phase' = "running"
    /\ cache' = api
    /\ queue' = {n \in Node : api[n].exists}
    /\ UNCHANGED <<apiVars, events, deleted>>

\* The process ends: everything but the API server is lost.
Die ==
    /\ phase' = "down"
    /\ events' = [n \in Node |-> <<>>]
    /\ cache' = [n \in Node |-> Absent]
    /\ deleted' = <<>>
    /\ queue' = {}
    /\ UNCHANGED apiVars

----------------------------------------------------------------------------

FeedInit ==
    /\ api \in [Node -> {Absent} \cup {Present(cidrs, FALSE) : cidrs \in InitialCIDRs}]
    /\ inflight = {}
    /\ phase = "down"
    /\ events = [n \in Node |-> <<>>]
    /\ cache = [n \in Node |-> Absent]
    /\ deleted = <<>>
    /\ queue = {}

FeedStep ==
    \/ Relist \/ CacheSync
    \/ \E n \in Node :
         \/ CreateNode(n) \/ RemoveTaint(n) \/ RemoveNode(n) \/ MarkDeleting(n)
         \/ Deliver(n) \/ Resync(n)
    \/ \E p \in inflight : LatePatch(p)

Objects(PodCIDRs) == [exists: BOOLEAN, deleting: BOOLEAN, tainted: BOOLEAN, podCIDRs: PodCIDRs]

Notices(PodCIDRs) == [node: Node, cidrs: PodCIDRs, tombstone: {FALSE}] \cup {Tombstone}

FeedTypeOK(PodCIDRs) ==
    /\ api \in [Node -> Objects(PodCIDRs)]
    /\ inflight \subseteq [node: Node, cidrs: PodCIDRs]
    /\ phase \in {"down", "listing", "listed", "running"}
    /\ events \in [Node -> Seq(Objects(PodCIDRs))]
    /\ cache \in [Node -> Objects(PodCIDRs)]
    /\ deleted \in Seq(Notices(PodCIDRs))
    /\ queue \subseteq Node
=============================================================================
