--------------------------- MODULE NodeInstances ---------------------------
(***************************************************************************)
(* The cloud provider's side of a node's life (pkg/talos/instances.go and  *)
(* helper.go), composed with the shared Talos client: InstanceMetadata     *)
(* reads the machine through the client and writes annotations, taints and *)
(* labels, each in a request of its own whose failure is only logged;      *)
(* InstanceExists decides whether the Node object is deleted.              *)
(*                                                                         *)
(* Two controllers of the cloud-provider library call them for one node:   *)
(* the cloud-node controller, which initialises the node and, once it is   *)
(* initialised, refreshes it now and then, and the lifecycle controller.   *)
(* Each works on a copy of the object that may be out of date by the time  *)
(* it is used.  A refresh begins when the initialisation is over, so there *)
(* is one pass over the node at a time.                                    *)
(***************************************************************************)
EXTENDS TalosClient, Naturals

CONSTANTS
    Self,               \* the goroutine of the cloud-node controller
    Others,             \* callers of the client on behalf of other nodes
    NodeIPs,            \* number of addresses in the provided-ip annotation
    Spot                \* TRUE: the node is a spot instance of GCP

ASSUME InstancesAssumption ==
    /\ NodeIPs \in Nat \ {0}
    /\ Spot \in BOOLEAN
    /\ Caller = {Self} \cup Others
    /\ Self \notin Others

VARIABLES
    node,       \* the Node object at the API server
    pass        \* an InstanceMetadata call and what its caller does next

vars == <<clientVars, node, pass>>

----------------------------------------------------------------------------
(* The Node object.  keys holds "annotation", "taint" and "label" when the *)
(* ones that rules and metadata ask for have the wanted value, and "user"  *)
(* when somebody else has put a label of their own on the node.            *)

Absent ==
    [exists |-> FALSE, uninitialized |-> FALSE, keys |-> {},
     notReady |-> FALSE, old |-> FALSE]

Idle == [pc |-> "idle", ips |-> 0, uninitialized |-> FALSE, keys |-> {}]

Store(object) ==
    /\ node' = object
    /\ UNCHANGED <<clientVars, pass>>

\* A kubelet with --cloud-provider=external registers with the uninitialized
\* taint and the provided-ip annotation.  (For any other InstanceMetadata returns
\* an empty result and writes nothing.)
Register ==
    /\ ~node.exists
    /\ Store([Absent EXCEPT !.exists = TRUE, !.uninitialized = TRUE])

Unregister ==
    /\ node.exists
    /\ Store(Absent)

\* Somebody overwrites a managed annotation or label, or adds or removes a label
\* of their own.
Edit ==
    /\ node.exists
    /\ \/ \E k \in {"annotation", "label", "user"} \cap node.keys :
             Store([node EXCEPT !.keys = @ \ {k}])
       \/ /\ "user" \notin node.keys
          /\ Store([node EXCEPT !.keys = @ \cup {"user"}])

\* The node loses or regains readiness.
Readiness ==
    /\ node.exists
    /\ Store([node EXCEPT !.notReady = ~@])

\* initializedNodeDelay is over; InstanceExists looks at it after the taint only.
Age ==
    /\ node.exists /\ ~node.uninitialized /\ ~node.old
    /\ Store([node EXCEPT !.old = TRUE])

----------------------------------------------------------------------------
(* InstanceMetadata up to its first write.                                 *)

\* The controller reads the node and calls InstanceMetadata: to initialise it if
\* the uninitialized taint is there, to refresh it if not.
Begin ==
    /\ pass.pc = "idle"
    /\ node.exists
    /\ pass' = [pc |-> "metadata", ips |-> NodeIPs, uninitialized |-> node.uninitialized,
                keys |-> node.keys]
    /\ Goto(Self, "get")
    /\ UNCHANGED <<talos, node>>

\* GetNodeMetadata asks the node's addresses in turn.
NextAddress ==
    /\ pass.pc = "metadata" /\ call[Self] = "failed" /\ pass.ips > 1
    /\ pass' = [pass EXCEPT !.ips = @ - 1]
    /\ Goto(Self, "get")
    /\ UNCHANGED <<talos, node>>

\* The reads of the machine, and what follows each.  Rules are configured: without
\* any, GetNodeSystemInfo and the writes of annotations and taints are left out.
ReadSteps == {"metadata", "sysinfo", "ifaces"}
AfterRead == [metadata |-> "sysinfo", sysinfo |-> "ifaces", ifaces |-> "annotations"]

\* Mutant: one read too many.
ReadAgain ==
    /\ pass.pc \in ReadSteps /\ call[Self] = "ok"
    /\ pass' = [pass EXCEPT !.pc = AfterRead[@], !.ips = 1]
    /\ Goto(Self, "get")
    /\ UNCHANGED <<talos, node>>

ReadDone ==
    /\ pass.pc \in ReadSteps /\ call[Self] = "ok"
    /\ LET next == AfterRead[pass.pc]
       IN  /\ pass' = [pass EXCEPT !.pc = next, !.ips = 1]
           /\ Goto(Self, IF next \in ReadSteps THEN "get" ELSE "none")
    /\ UNCHANGED <<talos, node>>

\* An error is returned before anything is written; the controller tries again
\* later.
GiveUp ==
    /\ pass' = Idle
    /\ Goto(Self, "none")
    /\ UNCHANGED <<talos, node>>

ReadFails ==
    /\ pass.pc \in ReadSteps /\ pass.ips = 1
    /\ call[Self] = "failed"
    /\ GiveUp

\* AzureConvertResourceGroupNameToLower or TransformNode fails.
Rejected ==
    /\ pass.pc \in {"metadata", "sysinfo"} /\ call[Self] = "ok"
    /\ GiveUp

----------------------------------------------------------------------------
(* The writes of InstanceMetadata.  Each sends what the copy lacks; an     *)
(* error is logged and the pass goes on.                                   *)

\* The writes, and what follows each.
WriteSteps == {"annotations", "taints", "labels"}
AfterWrite == [annotations |-> "taints", taints |-> "labels", labels |-> "return"]

\* Mutant: labels are written like taints, during initialisation only.
WantedOnce ==
    \/ pass.pc = "annotations" /\ "annotation" \notin pass.keys
    \/ pass.pc \in {"taints", "labels"} /\ pass.uninitialized

\* Whether the copy asks for the write the pass has come to; taints are written
\* only for a node that was uninitialised when read.
Wanted ==
    \/ pass.pc = "annotations" /\ "annotation" \notin pass.keys
    \/ pass.pc = "taints" /\ pass.uninitialized
    \/ pass.pc = "labels" /\ "label" \notin pass.keys

\* Mutant: the changed copy is sent whole, by an update.
UpdateWhole(old, new, live) == new

\* A two-way merge patch between the copy and the changed copy, applied to the
\* node as it is by then.
MergePatch(old, new, live) == (live \ (old \ new)) \cup (new \ old)

\* The request succeeds, and changes the node if it is still there.
Write(keys) ==
    /\ node' = IF node.exists THEN [node EXCEPT !.keys = keys] ELSE node
    /\ pass' = [pass EXCEPT !.pc = AfterWrite[@]]
    /\ UNCHANGED clientVars

syncNodeAnnotations ==
    /\ pass.pc = "annotations" /\ Wanted
    /\ Write(MergePatch(pass.keys, pass.keys \cup {"annotation"}, node.keys))

\* AddOrUpdateTaintOnNode reads the node again.
syncNodeTaints ==
    /\ pass.pc = "taints" /\ Wanted
    /\ Write(node.keys \cup {"taint"})

\* AddOrUpdateLabelsOnNode with the labels that differ in the copy.
syncNodeLabels ==
    /\ pass.pc = "labels" /\ Wanted
    /\ Write(MergePatch(pass.keys, pass.keys \cup {"label"}, node.keys))

NothingToWrite ==
    /\ pass.pc \in WriteSteps /\ ~Wanted
    /\ pass' = [pass EXCEPT !.pc = AfterWrite[@]]
    /\ UNCHANGED <<clientVars, node>>

\* The request fails, which is logged and no more.
WriteFails ==
    /\ pass.pc \in WriteSteps /\ Wanted
    /\ pass' = [pass EXCEPT !.pc = AfterWrite[@]]
    /\ UNCHANGED <<clientVars, node>>

----------------------------------------------------------------------------
(* The callers in the cloud-provider library.                              *)

\* The controller reads the node again, sets the provider ID and the addresses and
\* removes the taint.
Initialize ==
    /\ pass.pc = "return" /\ pass.uninitialized /\ node.exists
    /\ node' = [node EXCEPT !.uninitialized = FALSE]
    /\ pass' = Idle
    /\ UNCHANGED clientVars

\* A refresh ends with the addresses, and there is nothing to do for a node that
\* has gone.
Return ==
    /\ pass.pc = "return" /\ (pass.uninitialized => ~node.exists)
    /\ pass' = Idle
    /\ UNCHANGED <<clientVars, node>>

\* The request of the controller fails; a later pass tries again.
InitializeFails ==
    /\ pass.pc = "return" /\ pass.uninitialized
    /\ pass' = Idle
    /\ UNCHANGED <<clientVars, node>>

\* An uninitialised node has no provider ID or still has the taint.
InstanceExists(object) ==
    \/ object.uninitialized
    \/ ~object.old
    \/ ~object.notReady
    \/ ~(Spot /\ "label" \in object.keys)

\* The lifecycle controller deletes a node that does not exist any more.
DeleteNode ==
    /\ node.exists /\ ~InstanceExists(node)
    /\ Store(Absent)

----------------------------------------------------------------------------

\* A goroutine at work for another node starts a call.
OtherCall(g) ==
    /\ call[g] \in {"none", "ok", "failed"}
    /\ Goto(g, "get")
    /\ UNCHANGED <<talos, node, pass>>

Init ==
    /\ ClientInit
    /\ node = Absent
    /\ pass = Idle

PassStep ==
    \/ Begin \/ NextAddress \/ ReadDone \/ ReadFails \/ Rejected
    \/ syncNodeAnnotations \/ syncNodeTaints \/ syncNodeLabels \/ NothingToWrite \/ WriteFails
    \/ Initialize \/ InitializeFails \/ Return

ClientStep(g) == CallStep(g) /\ UNCHANGED <<node, pass>>

Next ==
    \/ Register \/ Unregister \/ Edit \/ Readiness \/ Age
    \/ PassStep
    \/ DeleteNode
    \/ Expire /\ UNCHANGED <<node, pass>>
    \/ \E g \in Others : OtherCall(g)
    \/ \E g \in Caller : ClientStep(g)

Spec == Init /\ [][Next]_vars

\* Goroutines keep running, and the controllers come back to the node.
Fairness ==
    /\ \A g \in Caller : WF_vars(ClientStep(g))
    /\ WF_vars(PassStep)
    /\ WF_vars(Age)
    /\ WF_vars(DeleteNode)

FairSpec == Spec /\ Fairness

----------------------------------------------------------------------------
(* Properties.                                                             *)

Keys == {"annotation", "taint", "label", "user"}

Nodes ==
    [exists: BOOLEAN, uninitialized: BOOLEAN, keys: SUBSET Keys,
     notReady: BOOLEAN, old: BOOLEAN]

Steps == {"idle", "return"} \cup ReadSteps \cup WriteSteps

Passes == [pc: Steps, ips: 0 .. NodeIPs, uninitialized: BOOLEAN, keys: SUBSET Keys]

\* Every variable has its type, and a pass is in a call of the client exactly while
\* it reads.
TypeOK ==
    /\ ClientTypeOK
    /\ node \in Nodes
    /\ pass \in Passes
    /\ pass.pc \in ReadSteps <=> call[Self] # "none"

\* A node leaves initialisation with the taints of its rules (docs/install.md:153,
\* "CCM updates the `Node` object with labels, taints and `providerID` field", and
\* after that "removes the `node.cloudprovider.kubernetes.io/uninitialized` taint").
NoTaintLost ==
    node.exists /\ ~node.uninitialized => "taint" \in node.keys

\* No lost update: the three writes of a pass start from one copy, made before
\* three calls of the machine, and none of them takes away what an earlier one, or
\* somebody else, has put on the node since, or brings back a label that somebody
\* has removed since.
NoLostUpdate ==
    [][pass' # pass /\ node.exists /\ node'.exists =>
          /\ node.keys \subseteq node'.keys
          /\ "user" \in node'.keys => "user" \in node.keys]_vars

\* A step in which something goes wrong: credentials expire, a good client or New
\* fails, the machine's metadata cannot be used, a write fails, or a goroutine
\* that found the client broken closes the good one that another has stored since.
Failure ==
    \/ Expire \/ Rejected \/ WriteFails \/ InitializeFails
    \/ \E g \in Caller :
         \/ NewFails(g)
         \/ talos = "good" /\ (GetFails(g) \/ NewSucceeds(g) \/ CloseOld(g))

\* Whatever failed before, a node that stays is initialised once failures stop,
\* and from then on its annotations and labels are restored whenever somebody
\* changes them: every error is only logged or returned, so each of them must
\* leave the client and the node where a later pass can succeed.  The last kind of
\* Failure needs no fault outside: without it in the premise, two goroutines can
\* close each other's new client for ever.
NodeConverges ==
    <>[]node.exists /\ <>[][~Failure]_vars =>
        /\ <>[]~node.uninitialized
        /\ []<>("annotation" \in node.keys)
        /\ []<>("label" \in node.keys)

\* A preempted spot node of GCP does not stay, once failures and edits of its labels
\* have stopped: whatever went wrong when it was initialised, a later pass writes the
\* label, the taint goes, the delay ends, and InstanceExists lets it be deleted, "so
\* that it can be recreated with the new information" (instances.go:78).
SpotReplaced ==
    Spot /\ <>[][~Failure]_vars /\ <>[][~Edit]_vars => ~<>[](node.exists /\ node.notReady)
=============================================================================
