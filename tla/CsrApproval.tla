---------------------------- MODULE CsrApproval ----------------------------
(***************************************************************************)
(* The approver of kubelet serving certificates: the watch loop of         *)
(* pkg/certificatesigningrequest/controller.go, with the checks of         *)
(* CsrRules, next to an API server whose CSRs and nodes change between any *)
(* two of its calls.                                                       *)
(***************************************************************************)
EXTENDS CsrRules, Integers, FiniteSets

CONSTANTS
    Csr,            \* names of CertificateSigningRequests
    Node,           \* node names, which are DNS names
    Requests,       \* the requests that may be created
    AddressLists,   \* the values node.Status.Addresses may take
    Cancels,        \* TRUE: the context may be cancelled
    MaxVersion      \* bound on changes of one CSR name

ASSUME CsrAssumption ==
    /\ IsFiniteSet(Csr)
    /\ MaxVersion \in Nat
    /\ Cancels \in BOOLEAN
    /\ Node \cap IP = {}
    \* Node has every name a kubelet asks for, with a Node object or without.
    /\ \A r \in Requests : validateKubeletServingCSR(r) => r.username.name \in Node

VARIABLES
    csr,        \* the CSR objects at the API server
    node,       \* the Node objects at the API server
    past,       \* past[n]: the address lists n has had (history)
    cancelled,  \* ctx.Done() is closed
    open,       \* the watch is established
    stream,     \* Added events the loop has not received
    pc,         \* where the loop is
    current     \* the event being handled; its object gets the new condition

apiVars == <<csr, node, past>>
loopVars == <<pc, current>>
vars == <<csr, node, past, cancelled, open, stream, pc, current>>

----------------------------------------------------------------------------
(* Objects.                                                                *)

NoRequest == [none |-> TRUE]

NoCsr == [exists |-> FALSE, version |-> 0, request |-> NoRequest,
          conditions |-> <<>>, certificate |-> FALSE]

NoNode == [exists |-> FALSE, addresses |-> <<>>]

\* A watch event, of a CSR name and a copy of the object.
Event(c, object) == [name |-> c, object |-> object]

NoEvent == Event("none", NoCsr)

Condition(type, by) == [type |-> type, by |-> by]

Existing == {c \in Csr : csr[c].exists}

----------------------------------------------------------------------------
(* The API server, kubelets, other approvers and the signer.               *)

\* The watch sends an Added event for a new object; k8swatch.Filter drops
\* everything else.
CreateCSR(c) ==
    /\ ~csr[c].exists /\ csr[c].version < MaxVersion
    /\ \E r \in Requests :
         LET object == [NoCsr EXCEPT !.exists = TRUE, !.request = r,
                                     !.version = csr[c].version + 1]
         IN  /\ csr' = [csr EXCEPT ![c] = object]
             /\ stream' = IF open THEN Append(stream, Event(c, object))
                          ELSE stream
    /\ UNCHANGED <<node, past, cancelled, open, loopVars>>

Modify(c, object) ==
    /\ csr[c].exists /\ csr[c].version < MaxVersion
    /\ csr' = [csr EXCEPT ![c] = [object EXCEPT !.version = csr[c].version + 1]]
    /\ UNCHANGED <<node, past, cancelled, open, stream, loopVars>>

\* An administrator or another approver decides.
OtherDecides(c) ==
    /\ csr[c].conditions = <<>>
    /\ \E type \in {"Approved", "Denied"} :
         Modify(c, [csr[c] EXCEPT !.conditions = <<Condition(type, "other")>>])

Sign(c) ==
    /\ ~csr[c].certificate
    /\ \E i \in DOMAIN csr[c].conditions : csr[c].conditions[i].type = "Approved"
    /\ Modify(c, [csr[c] EXCEPT !.certificate = TRUE])

DeleteCSR(c) ==
    /\ csr[c].exists
    /\ csr' = [csr EXCEPT ![c] = [NoCsr EXCEPT !.version = csr[c].version]]
    /\ UNCHANGED <<node, past, cancelled, open, stream, loopVars>>

SetNode(n, object) ==
    /\ node[n] # object
    /\ node' = [node EXCEPT ![n] = object]
    /\ past' = IF object.exists THEN [past EXCEPT ![n] = @ \cup {object.addresses}]
             ELSE past
    /\ UNCHANGED <<csr, cancelled, open, stream, loopVars>>

NodeChanges(n) ==
    \/ SetNode(n, NoNode)
    \/ \E addresses \in AddressLists :
         SetNode(n, [exists |-> TRUE, addresses |-> addresses])

Cancel ==
    /\ Cancels /\ ~cancelled
    /\ cancelled' = TRUE
    /\ UNCHANGED <<apiVars, open, stream, loopVars>>

----------------------------------------------------------------------------
(* Run.                                                                    *)

\* An Added event for every existing object, in any order.
Replays ==
    LET events == {Event(c, csr[c]) : c \in Existing}
    IN  {s \in [1 .. Cardinality(events) -> events] :
            \A i, j \in DOMAIN s : i # j => s[i] # s[j]}

\* Mutant: the new watch resumes after the last event instead of replaying
\* the existing objects.
WatchResumes ==
    /\ pc = "connect" /\ ~cancelled
    /\ open' = TRUE
    /\ stream' = <<>>
    /\ pc' = "select"
    /\ UNCHANGED <<apiVars, cancelled, current>>

\* A watch without a resourceVersion starts with the objects that exist.
Watch ==
    /\ pc = "connect" /\ ~cancelled
    /\ open' = TRUE
    /\ stream' \in Replays
    /\ pc' = "select"
    /\ UNCHANGED <<apiVars, cancelled, current>>

\* The request fails, always so once the context is cancelled; sleep, retry.
WatchFails ==
    /\ pc = "connect"
    /\ pc' = "sleep"
    /\ UNCHANGED <<apiVars, cancelled, open, stream, current>>

Retry ==
    /\ pc = "sleep"
    /\ pc' = "connect"
    /\ UNCHANGED <<apiVars, cancelled, open, stream, current>>

\* The server closes the watch after TimeoutSeconds, or earlier; so does the
\* cancelled context.  Events still on their way are lost.
WatchCloses ==
    /\ open
    /\ open' = FALSE
    /\ stream' = <<>>
    /\ UNCHANGED <<apiVars, cancelled, loopVars>>

SelectDone ==
    /\ pc = "select" /\ cancelled
    /\ pc' = "returned"
    /\ UNCHANGED <<apiVars, cancelled, open, stream, current>>

SelectClosed ==
    /\ pc = "select" /\ ~open
    /\ pc' = "connect"
    /\ UNCHANGED <<apiVars, cancelled, open, stream, current>>

\* Mutant: a CSR that already has a condition is reconciled again.
IgnoredUnlessSigned(object) ==
    \/ object.request.signer # "kubelet-serving"
    \/ object.certificate

\* The three cases in which Reconcile leaves a CSR alone.
Ignored(object) ==
    \/ object.request.signer # "kubelet-serving"
    \/ object.certificate
    \/ object.conditions # <<>>

updateApproval(object, approved) ==
    [object EXCEPT !.conditions =
        Append(@, Condition(IF approved THEN "Approved" ELSE "Denied", "ccm"))]

\* The end of an iteration of the watch loop.
Continue ==
    /\ pc' = "select"
    /\ current' = NoEvent

\* Mutant: the condition is added to an empty object, not to the received one.
DecideOnEmpty(event, approved) ==
    /\ pc' = "update"
    /\ current' = [event EXCEPT !.object = updateApproval(NoCsr, approved)]

\* updateApproval adds the condition to the object of the event.
Decide(event, approved) ==
    /\ pc' = "update"
    /\ current' = [event EXCEPT !.object = updateApproval(@, approved)]

\* Receive an event and Reconcile up to providerChecks: ignore the CSR, deny
\* it, or go on to read its node.
SelectEvent ==
    /\ pc = "select" /\ stream # <<>>
    /\ stream' = Tail(stream)
    /\ LET event   == Head(stream)
           request == event.object.request
       IN  IF Ignored(event.object) THEN Continue
           ELSE IF ~request.parses \/ ~validateKubeletServingCSR(request)
                THEN Decide(event, FALSE)
                ELSE pc' = "get" /\ current' = event
    /\ UNCHANGED <<apiVars, cancelled, open>>

\* CSRNodeChecks: a missing node is a denial, a node without addresses an
\* error that leaves the CSR pending.  The user name was validated before.
GetNode ==
    /\ pc = "get"
    /\ LET request == current.object.request
           n       == request.username.name
           found   == node[n]
       IN  IF found.exists /\ found.addresses = <<>> THEN Continue
           ELSE Decide(current, found.exists /\ NodeChecks(request, n, found.addresses))
    /\ UNCHANGED <<apiVars, cancelled, open, stream>>

GetFails ==
    /\ pc = "get"
    /\ Continue
    /\ UNCHANGED <<apiVars, cancelled, open, stream>>

\* Mutant: the copy is sent without its resourceVersion and replaces whatever is stored.
UpdateApprovalForced ==
    /\ pc = "update"
    /\ LET stored == csr[current.name]
       IN  /\ stored.exists /\ stored.version < MaxVersion
           /\ csr' = [csr EXCEPT ![current.name] =
                        [current.object EXCEPT !.version = stored.version + 1]]
    /\ Continue
    /\ UNCHANGED <<node, past, cancelled, open, stream>>

\* The API server accepts the copy only if nobody changed the object since.
UpdateApproval ==
    /\ pc = "update"
    /\ LET stored == csr[current.name]
       IN  /\ stored.exists /\ stored.version = current.object.version
           /\ stored.version < MaxVersion
           /\ csr' = [csr EXCEPT ![current.name] = [current.object EXCEPT !.version = @ + 1]]
    /\ Continue
    /\ UNCHANGED <<node, past, cancelled, open, stream>>

\* A conflict or any other error is logged and the CSR left to a later watch.
UpdateFails ==
    /\ pc = "update"
    /\ Continue
    /\ UNCHANGED <<apiVars, cancelled, open, stream>>

----------------------------------------------------------------------------

Init ==
    /\ csr = [c \in Csr |-> NoCsr]
    /\ node = [n \in Node |-> NoNode]
    /\ past = [n \in Node |-> {}]
    /\ cancelled = FALSE
    /\ open = FALSE
    /\ stream = <<>>
    /\ pc = "connect"
    /\ current = NoEvent

Loop ==
    \/ Watch \/ WatchFails \/ Retry \/ SelectDone \/ SelectClosed \/ SelectEvent
    \/ GetNode \/ GetFails \/ UpdateApproval \/ UpdateFails

Next ==
    \/ Loop \/ WatchCloses \/ Cancel
    \/ \E c \in Csr : CreateCSR(c) \/ OtherDecides(c) \/ Sign(c) \/ DeleteCSR(c)
    \/ \E n \in Node : NodeChanges(n)

Spec == Init /\ [][Next]_vars

\* The goroutine keeps running, watches end after TimeoutSeconds, and calls
\* that are repeated for ever do not fail for ever.
Fairness ==
    /\ WF_vars(Loop)
    /\ WF_vars(WatchCloses)
    /\ SF_vars(Watch)
    /\ SF_vars(SelectEvent)
    /\ \A c \in Csr :
         /\ SF_vars(current.name = c /\ GetNode)
         /\ SF_vars(current.name = c /\ UpdateApproval)

FairSpec == Spec /\ Fairness

----------------------------------------------------------------------------
(* Properties.                                                             *)

Conditions == [type: {"Approved", "Denied"}, by: {"ccm", "other"}]

Objects ==
    [exists: BOOLEAN, version: 0 .. MaxVersion, request: Requests \cup {NoRequest},
     conditions: Seq(Conditions), certificate: BOOLEAN]

Created == {object \in Objects : object.exists /\ object.request \in Requests}

Nodes == [exists: BOOLEAN, addresses: AddressLists \cup {<<>>}]

\* Every variable has its type, the object being handled is one that was created,
\* events are pending only while the watch is open, and past misses nothing.
TypeOK ==
    /\ csr \in [Csr -> Objects]
    /\ \A c \in Csr : csr[c].exists => csr[c] \in Created
    /\ node \in [Node -> Nodes]
    /\ past \in [Node -> SUBSET AddressLists]
    /\ \A n \in Node : node[n].exists => node[n].addresses \in past[n]
    /\ cancelled \in BOOLEAN /\ open \in BOOLEAN
    /\ stream \in Seq([name: Csr, object: Created])
    /\ stream # <<>> => open
    /\ pc \in {"connect", "sleep", "select", "get", "update", "returned"}
    /\ pc \in {"get", "update"} => current \in [name: Csr, object: Created]

\* The controller approves a CSR only if the request has the form of a kubelet
\* serving request and, at one and the same instant, every name and address in
\* it belonged to its node, even when node or CSR are replaced between the
\* check and the update.
ApprovalJustified ==
    \A c \in Csr : \A i \in DOMAIN csr[c].conditions :
        csr[c].conditions[i] = Condition("Approved", "ccm") =>
            LET r == csr[c].request
            IN  /\ KubeletServing(r)
                /\ \E addresses \in past[r.username.name] :
                      /\ addresses # <<>>
                      /\ r.dnsNames \subseteq {r.username.name} \cup
                           {addresses[j].address : j \in {k \in DOMAIN addresses :
                                                    addresses[k].type \in DNSTypes}}
                      /\ r.ipAddresses \subseteq
                           {addresses[j].address : j \in DOMAIN addresses}

\* A decision, the controller's own or somebody else's, is never followed by a
\* second one, although every new watch presents the decided CSRs again and
\* another approver may decide while the node is being read.
DecidedOnce == \A c \in Csr : Len(csr[c].conditions) <= 1

\* No step replaces or withdraws a decision while its CSR exists: what Reconcile
\* sends is a copy from before it read the node, and the API server must refuse it
\* once another approver has decided, or the CSR was replaced under its name.
DecisionFinal ==
    [][\A c \in Csr : csr[c].conditions # <<>> /\ csr'[c].exists =>
          csr'[c].conditions = csr[c].conditions]_vars

\* A CSR that stays is decided eventually if its node stays initialised: no
\* failed read, conflict or closed watch loses it for good, because every new
\* watch presents it again ("Controller repeats this check approximately every
\* 5 minutes", helper.go).
PendingDecided ==
    \A c \in Csr :
        <>[](/\ csr[c].exists /\ csr[c].request.signer = "kubelet-serving"
             /\ csr[c].version < MaxVersion
             /\ ~cancelled
             /\ \A n \in Node : node[n].exists /\ node[n].addresses # <<>>)
            => <>[](~csr[c].exists \/ csr[c].conditions # <<>>)
=============================================================================
