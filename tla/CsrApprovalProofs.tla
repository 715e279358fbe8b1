------------------------- MODULE CsrApprovalProofs --------------------------
(***************************************************************************)
(* What the CSR approver promises, for any number of CSRs and nodes and    *)
(* any requests and address lists.                                         *)
(*                                                                         *)
(* The argument follows one event: it is taken up only undecided and in    *)
(* the right form (Taken), it gets one condition (Decided), and an         *)
(* approval rests on a list of addresses that the node had when it was     *)
(* read (Justified), which stays in past.                                  *)
(*                                                                         *)
(* That a decision stands needs another invariant (Copies): a copy that    *)
(* the API server still accepts is of an object without conditions.        *)
(***************************************************************************)
EXTENDS CsrApproval, FiniteSetTheorems, TLAPS

----------------------------------------------------------------------------
(* The checks.                                                             *)

\* A request that passes the validation of utils.go has the form Kubernetes asks for.
LEMMA FormServes ==
    ASSUME NEW r, r.parses, r.signer = "kubelet-serving", validateKubeletServingCSR(r)
    PROVE  KubeletServing(r)
  BY ZenonT(60) DEF validateKubeletServingCSR, KubeletServing, RequiredUsages

\* Every name and address of r is in the list, or is the name of the node.
Covers(addresses, r) ==
    /\ addresses # <<>>
    /\ r.dnsNames \subseteq {r.username.name} \cup
         {addresses[j].address : j \in {k \in DOMAIN addresses : addresses[k].type \in DNSTypes}}
    /\ r.ipAddresses \subseteq {addresses[j].address : j \in DOMAIN addresses}

LEMMA ChecksCover ==
    ASSUME NEW r, NEW addresses, addresses # <<>>, NodeChecks(r, r.username.name, addresses)
    PROVE  Covers(addresses, r)
  BY SMTT(60), Z3T(60) DEF NodeChecks, Covers, nodeDNSNames, nodeAddrs, GivesName, GivesIP

\* lists is past, before or after a step.
Justified(lists, r) ==
    /\ KubeletServing(r)
    /\ r.username.name \in Node
    /\ \E addresses \in lists[r.username.name] : Covers(addresses, r)

----------------------------------------------------------------------------
(* Types.                                                                  *)

Events == [name: Csr, object: Created]

\* Created and modified objects.
LEMMA NewTyped ==
    ASSUME NEW v \in 0 .. MaxVersion
    PROVE  /\ NoCsr \in Objects
           /\ [NoCsr EXCEPT !.version = v] \in Objects
           /\ \A r \in Requests :
                [NoCsr EXCEPT !.exists = TRUE, !.request = r, !.version = v] \in Created
<1>1. NoCsr \in Objects
  BY CsrAssumption DEF Objects, NoCsr
<1>2. [NoCsr EXCEPT !.version = v] \in Objects
  BY <1>1 DEF Objects
<1>3. ASSUME NEW r \in Requests
      PROVE  [NoCsr EXCEPT !.exists = TRUE, !.request = r, !.version = v] \in Created
  BY <1>1, ZenonT(60) DEF Created, Objects
<1>. QED
  BY <1>1, <1>2, <1>3, ZenonT(60)

LEMMA ChangedTyped ==
    ASSUME NEW object \in Created
    PROVE  /\ \A v \in 0 .. MaxVersion : [object EXCEPT !.version = v] \in Created
           /\ [object EXCEPT !.certificate = TRUE] \in Created
           /\ \A conditions \in Seq(Conditions) :
                [object EXCEPT !.conditions = conditions] \in Created
<1>1. object \in Objects /\ object.exists /\ object.request \in Requests
  BY DEF Created
<1>2. ASSUME NEW v \in 0 .. MaxVersion PROVE [object EXCEPT !.version = v] \in Created
  BY <1>1 DEF Created, Objects
<1>3. [object EXCEPT !.certificate = TRUE] \in Created
  BY <1>1, ZenonT(60) DEF Created, Objects
<1>4. ASSUME NEW conditions \in Seq(Conditions)
      PROVE  [object EXCEPT !.conditions = conditions] \in Created
  BY <1>1 DEF Created, Objects
<1>. QED
  BY <1>2, <1>3, <1>4

Verdict(approved) == Condition(IF approved THEN "Approved" ELSE "Denied", "ccm")

LEMMA DecisionTyped ==
    ASSUME NEW object \in Created, NEW approved \in BOOLEAN
    PROVE  /\ updateApproval(object, approved) \in Created
           /\ updateApproval(object, approved).request = object.request
           /\ updateApproval(object, approved).conditions =
                Append(object.conditions, Verdict(approved))
<1>1. object.conditions \in Seq(Conditions)
  BY DEF Created, Objects
<1>2. Verdict(approved) \in Conditions
  BY DEF Verdict, Condition, Conditions
<1>3. Append(object.conditions, Verdict(approved)) \in Seq(Conditions)
  BY <1>1, <1>2
<1>4. updateApproval(object, approved) =
        [object EXCEPT !.conditions = Append(object.conditions, Verdict(approved))]
  BY DEF updateApproval, Verdict
<1>. HIDE DEF Verdict
<1>5. updateApproval(object, approved) \in Created
  BY <1>3, <1>4, ChangedTyped, ZenonT(60)
<1>. QED
  BY <1>4, <1>5 DEF Created, Objects

\* The events of a new watch.
LEMMA ReplayTyped ==
    ASSUME TypeOK
    PROVE  Replays \subseteq Seq(Events)
<1>. DEFINE E == {Event(c, csr[c]) : c \in Existing}
            f == [c \in Existing |-> Event(c, csr[c])]
<1>1. E \subseteq Events
  BY DEF TypeOK, Existing, Event, Events
<1>2. IsFiniteSet(Existing)
  BY FS_Subset, CsrAssumption DEF Existing
<1>3. f \in Surjection(Existing, E)
  BY DEF Surjection
<1>. HIDE DEF f
<1>4. Cardinality(E) \in Nat
  BY <1>2, <1>3, FS_Surjection, FS_CardinalityType
<1>. SUFFICES ASSUME NEW s \in Replays PROVE s \in Seq(Events)
  OBVIOUS
<1>5. s \in [1 .. Cardinality(E) -> E]
  BY DEF Replays
<1>. HIDE DEF E
<1>. QED
  BY <1>1, <1>4, <1>5

\* TypeOK holds throughout: what the loop of controller.go handles is a copy of an
\* object that was created, also after a reconnect, and past has every address list
\* a node has.
THEOREM TypeCorrect == Spec => []TypeOK
<1>1. Init => TypeOK
  <2>. SUFFICES ASSUME Init PROVE TypeOK
    OBVIOUS
  <2>1. NoCsr \in Objects /\ NoNode \in Nodes /\ ~NoCsr.exists /\ ~NoNode.exists
    BY CsrAssumption DEF Objects, NoCsr, Nodes, NoNode
  <2>2. <<>> \in Seq([name: Csr, object: Created])
    OBVIOUS
  <2>. QED
    BY <2>1, <2>2, ZenonT(60) DEF Init, TypeOK
<1>2. TypeOK /\ [Next]_vars => TypeOK'
  <2>. SUFFICES ASSUME TypeOK, [Next]_vars PROVE TypeOK'
    OBVIOUS
  <2>0. stream \in Seq(Events)
    BY DEF TypeOK, Events
  <2>1. ASSUME NEW c \in Csr, NEW object \in Created, Modify(c, object) PROVE TypeOK'
    <3>1. csr[c].version + 1 \in 0 .. MaxVersion
      BY <2>1, CsrAssumption DEF Modify, TypeOK, Objects
    <3>2. [object EXCEPT !.version = csr[c].version + 1] \in Created
      BY <3>1, ChangedTyped, ZenonT(60)
    <3>. QED
      BY <2>1, <3>2, SMTT(60), Z3T(60) DEF Modify, TypeOK, Created, loopVars
  <2>2. ASSUME NEW c \in Csr, CreateCSR(c) PROVE TypeOK'
    <3>1. csr[c].version + 1 \in 0 .. MaxVersion
      BY <2>2, CsrAssumption DEF CreateCSR, TypeOK, Objects
    <3>2. PICK object \in Created :
            /\ csr' = [csr EXCEPT ![c] = object]
            /\ stream' = IF open THEN Append(stream, Event(c, object)) ELSE stream
      BY <2>2, <3>1, NewTyped, ZenonT(60) DEF CreateCSR
    <3>3. stream' \in Seq(Events) /\ (stream' # <<>> => open)
      <4>1. Event(c, object) \in Events
        BY DEF Event, Events
      <4>. QED
        BY <2>0, <3>2, <4>1 DEF TypeOK
    <3>. QED
      BY <2>2, <3>2, <3>3, ZenonT(60) DEF CreateCSR, TypeOK, Created, Events, loopVars
  <2>3. ASSUME NEW c \in Csr, OtherDecides(c) PROVE TypeOK'
    <3>1. csr[c] \in Created
      BY <2>3 DEF OtherDecides, Modify, TypeOK
    <3>2. PICK type \in {"Approved", "Denied"} :
            Modify(c, [csr[c] EXCEPT !.conditions = <<Condition(type, "other")>>])
      BY <2>3 DEF OtherDecides
    <3>3. <<Condition(type, "other")>> \in Seq(Conditions)
      BY DEF Condition, Conditions
    <3>. QED
      BY <2>1, <3>1, <3>2, <3>3, ChangedTyped, ZenonT(60)
  <2>4. ASSUME NEW c \in Csr, Sign(c) PROVE TypeOK'
    <3>1. csr[c] \in Created
      BY <2>4 DEF Sign, Modify, TypeOK
    <3>. QED
      BY <2>1, <2>4, <3>1, ChangedTyped DEF Sign
  <2>5. ASSUME NEW c \in Csr, DeleteCSR(c) PROVE TypeOK'
    <3>1. [NoCsr EXCEPT !.version = csr[c].version] \in Objects
      BY NewTyped, ZenonT(60) DEF TypeOK, Objects
    <3>2. ~[NoCsr EXCEPT !.version = csr[c].version].exists
      BY DEF NoCsr
    <3>. QED
      BY <2>5, <3>1, <3>2 DEF DeleteCSR, TypeOK, loopVars
  <2>6. ASSUME NEW n \in Node, NodeChanges(n) PROVE TypeOK'
    <3>0. /\ NoNode \in Nodes /\ ~NoNode.exists
          /\ \A a \in AddressLists : [exists |-> TRUE, addresses |-> a] \in Nodes
      BY DEF NoNode, Nodes
    <3>1. PICK object \in Nodes :
            SetNode(n, object) /\ (object.exists => object.addresses \in AddressLists)
      BY <2>6, <3>0, ZenonT(60) DEF NodeChanges
    <3>. QED
      BY <3>1 DEF SetNode, TypeOK, loopVars
  <2>7. ASSUME NEW event \in Events, NEW approved \in BOOLEAN, Decide(event, approved),
               UNCHANGED <<apiVars, cancelled, open>>, stream' \in Seq(Events),
               stream' # <<>> => open
        PROVE  TypeOK'
    <3>1. [event EXCEPT !.object = updateApproval(event.object, approved)] \in Events
      BY DecisionTyped DEF Events
    <3>. QED
      BY <2>7, <3>1 DEF Decide, TypeOK, Events, apiVars
  <2>8. CASE SelectEvent
    <3>1. Head(stream) \in Events /\ Tail(stream) \in Seq(Events) /\ open
      BY <2>0, <2>8 DEF SelectEvent, TypeOK
    <3>2. \/ Continue
          \/ Decide(Head(stream), FALSE)
          \/ pc' = "get" /\ current' = Head(stream)
      BY <2>8, ZenonT(60) DEF SelectEvent
    <3>3. stream' = Tail(stream) /\ UNCHANGED <<apiVars, cancelled, open>>
      BY <2>8 DEF SelectEvent
    <3>. QED
      BY <2>7, <3>1, <3>2, <3>3, ZenonT(60) DEF Continue, TypeOK, Events, apiVars
  <2>9. CASE GetNode
    <3>1. /\ current \in Events
          /\ UNCHANGED <<apiVars, cancelled, open, stream>>
          /\ Continue \/ \E approved \in BOOLEAN : Decide(current, approved)
      BY <2>9, ZenonT(60) DEF GetNode, TypeOK, Events
    <3>. QED
      BY <2>7, <3>1, ZenonT(60) DEF Continue, TypeOK, Events, apiVars
  <2>10. CASE UpdateApproval
    <3>1. current.name \in Csr /\ current.object \in Created
      BY <2>10 DEF UpdateApproval, TypeOK
    <3>2. current.object.version + 1 \in 0 .. MaxVersion
      BY <2>10, <3>1, CsrAssumption DEF UpdateApproval, Created, Objects
    <3>3. [current.object EXCEPT !.version = @ + 1] \in Created
      BY <3>1, <3>2, ChangedTyped, ZenonT(60)
    <3>. QED
      BY <2>10, <3>1, <3>3 DEF UpdateApproval, Continue, TypeOK, Created
  <2>11. CASE Watch
    <3>1. stream' \in Seq(Events)
      BY <2>11, ReplayTyped DEF Watch
    <3>. QED
      BY <2>11, <3>1 DEF Watch, TypeOK, Events, apiVars
  <2>12. CASE WatchFails \/ Retry \/ SelectDone \/ SelectClosed \/ GetFails \/ UpdateFails
    <3>1. /\ UNCHANGED <<csr, node, past, cancelled, open, stream>>
          /\ pc' \in {"connect", "sleep", "select", "returned"}
      BY <2>12 DEF WatchFails, Retry, SelectDone, SelectClosed, GetFails, UpdateFails, Continue,
           apiVars
    <3>. QED
      BY <3>1 DEF TypeOK
  <2>13. CASE WatchCloses
    <3>1. <<>> \in Seq([name: Csr, object: Created])
      OBVIOUS
    <3>. QED
      BY <2>13, <3>1, ZenonT(60) DEF WatchCloses, TypeOK, apiVars, loopVars
  <2>14. CASE Cancel \/ UNCHANGED vars
    <3>1. UNCHANGED <<apiVars, open, stream, loopVars>> /\ cancelled' \in {cancelled, TRUE}
      BY <2>14, ZenonT(60) DEF Cancel, vars, apiVars, loopVars
    <3>. QED
      BY <3>1, ZenonT(30) DEF TypeOK, apiVars, loopVars
  <2>. QED
    BY <2>2, <2>3, <2>4, <2>5, <2>6, <2>8, <2>9, <2>10, <2>11, <2>12, <2>13, <2>14
       DEF Next, Loop
<1>. QED
  BY <1>1, <1>2, PTL DEF Spec

----------------------------------------------------------------------------
(* Decisions.                                                              *)

\* What the loop takes up: undecided, and in the right form.
Taken(object) ==
    /\ object.conditions = <<>>
    /\ object.request.parses /\ object.request.signer = "kubelet-serving"
    /\ validateKubeletServingCSR(object.request)

\* Decided at most once, and if by an approval of the controller, justified.
Sound(lists, object) ==
    \/ object.conditions = <<>>
    \/ \E condition \in Conditions :
          /\ object.conditions = <<condition>>
          /\ condition = Condition("Approved", "ccm") => Justified(lists, object.request)

\* The invariants of the runs are not inductive: what an update will store is
\* settled when the event is received and the node read.
IInv ==
    /\ \A c \in Csr : Sound(past, csr[c])
    /\ pc = "get" => Taken(current.object)
    /\ pc = "update" => Sound(past, current.object)

\* past only grows.
LEMMA PastGrows ==
    ASSUME TypeOK, [Next]_vars
    PROVE  \A n \in Node : past[n] \subseteq past'[n]
<1>1. ASSUME NEW n \in Node, NodeChanges(n)
      PROVE  \A m \in Node : past[m] \subseteq past'[m]
  BY <1>1 DEF TypeOK, NodeChanges, SetNode
<1>2. ASSUME NEW c \in Csr, CreateCSR(c) \/ OtherDecides(c) \/ Sign(c) \/ DeleteCSR(c)
      PROVE  past' = past
  BY <1>2, ZenonT(60) DEF CreateCSR, OtherDecides, Sign, Modify, DeleteCSR
<1>3. ASSUME Loop \/ WatchCloses \/ Cancel \/ UNCHANGED vars PROVE past' = past
  BY <1>3, ZenonT(60) DEF Loop, vars, apiVars, Watch, WatchFails, Retry, SelectDone, SelectClosed,
         SelectEvent, GetNode, GetFails, UpdateApproval, UpdateFails, WatchCloses, Cancel
<1>. QED
  BY <1>1, <1>2, <1>3 DEF Next

LEMMA SoundStays ==
    ASSUME TypeOK, [Next]_vars, NEW object, Sound(past, object)
    PROVE  Sound(past', object)
<1>1. \A n \in Node : past[n] \subseteq past'[n]
  BY PastGrows
<1>2. \A r : Justified(past, r) => Justified(past', r)
  BY <1>1 DEF Justified
<1>. QED
  BY <1>2 DEF Sound

\* Neither the version nor the certificate of an object matters.
LEMMA SoundModified ==
    ASSUME NEW object \in Created, NEW lists, Sound(lists, object)
    PROVE  /\ \A v : Sound(lists, [object EXCEPT !.version = v])
           /\ \A v : Sound(lists, [[object EXCEPT !.certificate = TRUE] EXCEPT !.version = v])
<1>1. ASSUME NEW other, other.conditions = object.conditions, other.request = object.request
      PROVE  Sound(lists, other)
  BY <1>1 DEF Sound
<1>2. /\ \A v : /\ [object EXCEPT !.version = v].conditions = object.conditions
               /\ [object EXCEPT !.version = v].request = object.request
      /\ \A v : LET signed == [[object EXCEPT !.certificate = TRUE] EXCEPT !.version = v]
               IN  signed.conditions = object.conditions /\ signed.request = object.request
  BY DEF Created, Objects
<1>. QED
  BY <1>1, <1>2, ZenonT(60)

\* A decision is sound if an approval is justified.
LEMMA DecisionSound ==
    ASSUME NEW object \in Created, object.conditions = <<>>, NEW approved \in BOOLEAN,
           NEW lists, approved => Justified(lists, object.request)
    PROVE  Sound(lists, updateApproval(object, approved))
<1>1. updateApproval(object, approved).conditions = <<Verdict(approved)>>
  BY DecisionTyped
<1>2. Verdict(approved) \in Conditions
  BY DEF Verdict, Condition, Conditions
<1>3. Verdict(approved) = Condition("Approved", "ccm") => approved
  BY DEF Verdict, Condition
<1>. QED
  BY <1>1, <1>2, <1>3, DecisionTyped DEF Sound

\* GetNode decides on the addresses the node has at that moment.
LEMMA GetNodeSound ==
    ASSUME TypeOK, IInv, GetNode, pc' = "update"
    PROVE  Sound(past, current'.object)
<1>. DEFINE request == current.object.request
            n       == request.username.name
<1>1. /\ current \in [name: Csr, object: Created]
      /\ Taken(current.object)
  BY DEF TypeOK, IInv, GetNode
<1>2. request \in Requests /\ n \in Node
  BY <1>1, CsrAssumption, SMTT(60), Z3T(60) DEF Created, Taken
<1>. DEFINE approved == node[n].exists /\ NodeChecks(request, n, node[n].addresses)
<1>3. /\ ~(node[n].exists /\ node[n].addresses = <<>>)
      /\ current' = [current EXCEPT !.object = updateApproval(current.object, approved)]
  BY DEF GetNode, Continue, Decide
<1>4. approved \in BOOLEAN
  BY <1>2, SMTT(60), Z3T(60) DEF TypeOK, Nodes, NodeChecks
<1>5. ASSUME approved PROVE Justified(past, request)
  <2>1. node[n].addresses \in past[n]
    BY <1>2, <1>5, ZenonT(60) DEF TypeOK
  <2>2. Covers(node[n].addresses, request)
    BY <1>3, <1>5, ChecksCover
  <2>3. KubeletServing(request)
    BY <1>1, FormServes DEF Taken
  <2>. QED
    BY <1>2, <2>1, <2>2, <2>3, ZenonT(60) DEF Justified
<1>. HIDE DEF approved
<1>6. Sound(past, updateApproval(current.object, approved))
  BY <1>1, <1>4, <1>5, DecisionSound DEF Taken
<1>. QED
  BY <1>1, <1>3, <1>6

\* Every step keeps what is known of the objects at the API server and of the one in
\* hand.
LEMMA StepSound ==
    ASSUME TypeOK, IInv, [Next]_vars
    PROVE  IInv'
<1>1. \A object : Sound(past, object) => Sound(past', object)
  BY SoundStays
<1>2. ASSUME UNCHANGED <<csr, pc, current>> PROVE IInv'
  BY <1>1, <1>2 DEF IInv
<1>3. ASSUME NEW c \in Csr, NEW object, csr' = [csr EXCEPT ![c] = object], Sound(past, object),
             UNCHANGED <<pc, current>> \/ pc' = "select"
      PROVE  IInv'
  BY <1>1, <1>3 DEF IInv, TypeOK
<1>4. ASSUME UNCHANGED csr, pc' \notin {"get", "update"} PROVE IInv'
  BY <1>1, <1>4 DEF IInv
<1>5. ASSUME NEW c \in Csr, CreateCSR(c) PROVE IInv'
  <2>1. PICK object : /\ csr' = [csr EXCEPT ![c] = object]
                      /\ object.conditions = <<>>
    <3>1. \A r, v : [NoCsr EXCEPT !.exists = TRUE, !.request = r, !.version = v].conditions = <<>>
      BY DEF NoCsr
    <3>2. PICK r \in Requests :
            csr' = [csr EXCEPT ![c] = [NoCsr EXCEPT !.exists = TRUE, !.request = r,
                                                    !.version = csr[c].version + 1]]
      BY <1>5, ZenonT(60) DEF CreateCSR
    <3>. QED
      BY <3>1, <3>2, ZenonT(60)
  <2>. QED
    BY <1>3, <1>5, <2>1, ZenonT(60) DEF CreateCSR, Sound, loopVars
<1>6. ASSUME NEW c \in Csr, DeleteCSR(c) PROVE IInv'
  <2>1. [NoCsr EXCEPT !.version = csr[c].version].conditions = <<>>
    BY DEF NoCsr
  <2>. QED
    BY <1>3, <1>6, <2>1, ZenonT(60) DEF DeleteCSR, Sound, loopVars
<1>7. ASSUME NEW c \in Csr, OtherDecides(c) PROVE IInv'
  <2>1. PICK type \in {"Approved", "Denied"} :
          Modify(c, [csr[c] EXCEPT !.conditions = <<Condition(type, "other")>>])
    BY <1>7 DEF OtherDecides
  <2>. DEFINE object == [[csr[c] EXCEPT !.conditions = <<Condition(type, "other")>>]
                            EXCEPT !.version = csr[c].version + 1]
  <2>2. csr[c] \in Created
    BY <2>1 DEF Modify, TypeOK
  <2>3. object.conditions = <<Condition(type, "other")>>
    BY <2>2 DEF Created, Objects
  <2>4. /\ Condition(type, "other") \in Conditions
        /\ Condition(type, "other") # Condition("Approved", "ccm")
    BY DEF Condition, Conditions
  <2>5. Sound(past, object)
    BY <2>3, <2>4 DEF Sound
  <2>. QED
    BY <1>3, <2>1, <2>5, ZenonT(60) DEF Modify, loopVars
<1>8. ASSUME NEW c \in Csr, Sign(c) PROVE IInv'
  <2>1. csr[c] \in Created
    BY <1>8 DEF Sign, Modify, TypeOK
  <2>2. Sound(past, [[csr[c] EXCEPT !.certificate = TRUE] EXCEPT !.version = csr[c].version + 1])
    BY <2>1, SoundModified, ZenonT(60) DEF IInv
  <2>. QED
    BY <1>3, <1>8, <2>2, ZenonT(60) DEF Sign, Modify, loopVars
<1>9. CASE SelectEvent
  <2>. DEFINE event == Head(stream)
  <2>1. event \in [name: Csr, object: Created]
    <3>1. stream \in Seq(Events) /\ stream # <<>>
      BY <1>9 DEF SelectEvent, TypeOK, Events
    <3>2. Head(stream) \in Events
      BY <3>1
    <3>. QED
      BY <3>2 DEF Events
  <2>2. \/ pc' = "select"
        \/ /\ pc' = "update"
           /\ current' = [event EXCEPT !.object = updateApproval(event.object, FALSE)]
           /\ event.object.conditions = <<>>
        \/ pc' = "get" /\ current' = event /\ Taken(event.object)
    BY <1>9, ZenonT(60) DEF SelectEvent, Continue, Decide, Ignored, Taken
  <2>3. UNCHANGED csr
    BY <1>9 DEF SelectEvent, apiVars
  <2>. HIDE DEF event
  <2>4. CASE pc' = "update"
    <3>1. /\ current' = [event EXCEPT !.object = updateApproval(event.object, FALSE)]
          /\ event.object.conditions = <<>>
      BY <2>2, <2>4, ZenonT(60)
    <3>2. Sound(past, updateApproval(event.object, FALSE))
      BY <2>1, <3>1, DecisionSound, ZenonT(60)
    <3>3. Sound(past, current'.object)
      BY <2>1, <3>1, <3>2, ZenonT(60)
    <3>. QED
      BY <1>1, <2>3, <2>4, <3>3 DEF IInv
  <2>5. CASE pc' = "get"
    BY <1>1, <2>2, <2>3, <2>5 DEF IInv
  <2>. QED
    BY <1>4, <2>2, <2>3, <2>4, <2>5
<1>10. CASE GetNode
  <2>1. UNCHANGED csr /\ pc' \in {"select", "update"}
    BY <1>10 DEF GetNode, Continue, Decide, apiVars
  <2>2. CASE pc' = "update"
    BY <1>1, <1>10, <2>1, <2>2, GetNodeSound DEF IInv
  <2>. QED
    BY <1>4, <2>1, <2>2
<1>11. CASE UpdateApproval
  <2>1. /\ current.name \in Csr /\ current.object \in Created
        /\ Sound(past, current.object)
    BY <1>11 DEF UpdateApproval, TypeOK, IInv
  <2>2. Sound(past, [current.object EXCEPT !.version = @ + 1])
    BY <2>1, SoundModified, ZenonT(60)
  <2>. QED
    BY <1>3, <1>11, <2>1, <2>2, ZenonT(60) DEF UpdateApproval, Continue
<1>12. CASE Watch \/ WatchFails \/ Retry \/ SelectDone \/ SelectClosed \/ GetFails \/ UpdateFails
  BY <1>4, <1>12 DEF Watch, WatchFails, Retry, SelectDone, SelectClosed, GetFails, UpdateFails,
       Continue, apiVars
<1>13. CASE WatchCloses \/ Cancel \/ (\E n \in Node : NodeChanges(n)) \/ UNCHANGED vars
  BY <1>2, <1>13, ZenonT(60) DEF WatchCloses, Cancel, NodeChanges, SetNode, apiVars, loopVars, vars
<1>. QED
  BY <1>5, <1>6, <1>7, <1>8, <1>9, <1>10, <1>11, <1>12, <1>13 DEF Next, Loop

\* The inductive invariant holds throughout: types, and what updateApproval has
\* written, at the API server and in the copy Reconcile works on.
THEOREM Invariance == Spec => [](TypeOK /\ IInv)
<1>1. Init => IInv
  BY DEF Init, IInv, Sound, NoCsr
<1>2. TypeOK /\ IInv /\ [Next]_vars => IInv'
  BY StepSound
<1>. QED
  BY <1>1, <1>2, TypeCorrect, PTL DEF Spec

\* An approval of the controller rests on the form of the request and on addresses
\* the node had at one instant (Reconcile and CSRNodeChecks), for all requests,
\* address lists and interleavings of changes with watch, read and update.
THEOREM ApprovalsJustified == Spec => []ApprovalJustified
<1>1. TypeOK /\ IInv => ApprovalJustified
  <2>. SUFFICES ASSUME TypeOK, IInv, NEW c \in Csr, NEW i \in DOMAIN csr[c].conditions,
                       csr[c].conditions[i] = Condition("Approved", "ccm")
                PROVE  Justified(past, csr[c].request)
    BY DEF ApprovalJustified, Justified, Covers
  <2>1. Sound(past, csr[c])
    BY DEF IInv
  <2>2. csr[c].conditions # <<>>
    OBVIOUS
  <2>3. PICK condition \in Conditions :
          /\ csr[c].conditions = <<condition>>
          /\ condition = Condition("Approved", "ccm") => Justified(past, csr[c].request)
    BY <2>1, <2>2 DEF Sound
  <2>. QED
    BY <2>3
<1>. QED
  BY <1>1, Invariance, PTL

\* No CSR gets a second condition from Reconcile, although every watch presents the
\* decided ones again and others decide meanwhile.
THEOREM NoSecondDecision == Spec => []DecidedOnce
<1>1. IInv => DecidedOnce
  <2>. SUFFICES ASSUME IInv, NEW c \in Csr PROVE Len(csr[c].conditions) <= 1
    BY DEF DecidedOnce
  <2>1. Sound(past, csr[c])
    BY DEF IInv
  <2>2. Len(<<>>) = 0 /\ \A condition : Len(<<condition>>) = 1
    OBVIOUS
  <2>3. \/ csr[c].conditions = <<>>
        \/ \E condition : csr[c].conditions = <<condition>>
    BY <2>1 DEF Sound
  <2>4. Len(csr[c].conditions) \in {0, 1}
    BY <2>2, <2>3, ZenonT(60)
  <2>5. \A i \in {0, 1} : i <= 1
    OBVIOUS
  <2>. QED
    BY <2>4, <2>5, ZenonT(60)
<1>. QED
  BY <1>1, Invariance, PTL

----------------------------------------------------------------------------
(* Decisions stand.                                                        *)

\* A copy is never newer than what store has, and an object there of the same version
\* has the conditions the copy was made with.  store is csr, before or after a step.
Fresh(store, name, object, conditions) ==
    /\ object.version <= store[name].version
    /\ store[name].exists /\ store[name].version = object.version =>
         store[name].conditions = conditions

\* The version check of the API server protects a decision because every copy the loop
\* has is fresh, and the one it decides had no conditions.  A name without a CSR has no
\* conditions either.
Copies ==
    /\ \A c \in Csr : ~csr[c].exists => csr[c].conditions = <<>>
    /\ \A i \in DOMAIN stream :
         Fresh(csr, stream[i].name, stream[i].object, stream[i].object.conditions)
    /\ pc \in {"get", "update"} => Fresh(csr, current.name, current.object, <<>>)

\* A change gives an object a version that no copy has; a deletion keeps the version.
Supersedes(new, old) ==
    \/ new.exists /\ new.version > old.version
    \/ ~new.exists /\ new.version = old.version /\ new.conditions = <<>>

\* A copy stays fresh when the object it is of stays or is superseded.
LEMMA FreshStays ==
    ASSUME NEW store \in [Csr -> Objects], NEW next \in [Csr -> Objects], NEW c \in Csr,
           NEW object \in Created, NEW conditions, Fresh(store, c, object, conditions),
           next[c] = store[c] \/ Supersedes(next[c], store[c])
    PROVE  Fresh(next, c, object, conditions)
<1>1. store[c].version \in Nat /\ next[c].version \in Nat /\ object.version \in Nat
  BY CsrAssumption DEF Objects, Created
<1>. QED
  BY <1>1 DEF Fresh, Supersedes

\* Every change of the API server supersedes what was stored.
LEMMA ChangeSupersedes ==
    ASSUME TypeOK, [Next]_vars, NEW c \in Csr
    PROVE  csr'[c] = csr[c] \/ Supersedes(csr'[c], csr[c])
<1>0. /\ csr \in [Csr -> Objects] /\ csr[c].version \in Nat
      /\ csr[c].exists => csr[c] \in Created
  BY CsrAssumption DEF TypeOK, Objects
<1>1. ASSUME NEW d \in Csr, NEW object, csr' = [csr EXCEPT ![d] = object],
             object.exists, d = c => object.version = csr[c].version + 1
      PROVE  csr'[c] = csr[c] \/ Supersedes(csr'[c], csr[c])
  BY <1>0, <1>1 DEF Supersedes
<1>2. ASSUME NEW d \in Csr, CreateCSR(d) PROVE csr'[c] = csr[c] \/ Supersedes(csr'[c], csr[c])
  <2>1. PICK r \in Requests :
          csr' = [csr EXCEPT ![d] = [NoCsr EXCEPT !.exists = TRUE, !.request = r,
                                                  !.version = csr[d].version + 1]]
    BY <1>2, ZenonT(60) DEF CreateCSR
  <2>. DEFINE object == [NoCsr EXCEPT !.exists = TRUE, !.request = r,
                                      !.version = csr[d].version + 1]
  <2>2. object.exists /\ object.version = csr[d].version + 1
    BY DEF NoCsr
  <2>. QED
    BY <1>1, <2>1, <2>2, ZenonT(60)
<1>3. ASSUME NEW d \in Csr, DeleteCSR(d) PROVE csr'[c] = csr[c] \/ Supersedes(csr'[c], csr[c])
  <2>. DEFINE object == [NoCsr EXCEPT !.version = csr[d].version]
  <2>1. ~object.exists /\ object.version = csr[d].version /\ object.conditions = <<>>
    BY DEF NoCsr
  <2>. QED
    BY <1>0, <1>3, <2>1 DEF DeleteCSR, Supersedes
<1>4. ASSUME NEW d \in Csr, NEW object, Modify(d, object), object \in Created
      PROVE  csr'[c] = csr[c] \/ Supersedes(csr'[c], csr[c])
  <2>. DEFINE new == [object EXCEPT !.version = csr[d].version + 1]
  <2>1. new.exists /\ new.version = csr[d].version + 1
    BY <1>4 DEF Created, Objects
  <2>. QED
    BY <1>1, <1>4, <2>1, ZenonT(60) DEF Modify
<1>5. ASSUME NEW d \in Csr, OtherDecides(d) \/ Sign(d)
      PROVE  csr'[c] = csr[c] \/ Supersedes(csr'[c], csr[c])
  <2>1. csr[d] \in Created
    BY <1>5 DEF OtherDecides, Sign, Modify, TypeOK
  <2>2. \A type \in {"Approved", "Denied"} : <<Condition(type, "other")>> \in Seq(Conditions)
    BY DEF Condition, Conditions
  <2>. QED
    BY <1>4, <1>5, <2>1, <2>2, ChangedTyped, ZenonT(60) DEF OtherDecides, Sign
<1>6. CASE UpdateApproval
  <2>1. /\ current.name \in Csr /\ current.object \in Created
        /\ csr[current.name].version = current.object.version
        /\ csr' = [csr EXCEPT ![current.name] = [current.object EXCEPT !.version = @ + 1]]
    BY <1>6 DEF UpdateApproval, TypeOK
  <2>. DEFINE new == [current.object EXCEPT !.version = @ + 1]
  <2>2. new.exists /\ new.version = current.object.version + 1
    BY <2>1 DEF Created, Objects
  <2>. QED
    BY <1>1, <2>1, <2>2, ZenonT(60)
<1>7. CASE \/ Watch \/ WatchFails \/ Retry \/ SelectDone \/ SelectClosed \/ SelectEvent
           \/ GetNode \/ GetFails \/ UpdateFails \/ WatchCloses \/ Cancel
           \/ (\E n \in Node : NodeChanges(n)) \/ UNCHANGED vars
  BY <1>7, ZenonT(60)
     DEF Watch, WatchFails, Retry, SelectDone, SelectClosed, SelectEvent, GetNode, GetFails,
         UpdateFails, WatchCloses, Cancel, NodeChanges, SetNode, apiVars, vars
<1>. QED
  BY <1>2, <1>3, <1>5, <1>6, <1>7 DEF Next, Loop

\* A new watch presents what is stored, whatever the order.
LEMMA ReplayFresh ==
    ASSUME TypeOK, NEW s \in Replays, NEW i \in DOMAIN s
    PROVE  Fresh(csr, s[i].name, s[i].object, s[i].object.conditions)
<1>1. PICK c \in Existing : s[i] = Event(c, csr[c])
  BY DEF Replays
<1>2. s[i].name = c /\ s[i].object = csr[c] /\ csr[c].version \in Nat
  BY <1>1, CsrAssumption DEF Event, Existing, TypeOK, Objects
<1>. QED
  BY <1>2 DEF Fresh

\* A decision is added to the copy, which keeps the version it was read with.
LEMMA DecisionFresh ==
    ASSUME NEW event \in Events, NEW approved \in BOOLEAN, Decide(event, approved),
           NEW store, Fresh(store, event.name, event.object, <<>>)
    PROVE  Fresh(store, current'.name, current'.object, <<>>)
<1>1. current' = [event EXCEPT !.object = updateApproval(event.object, approved)]
  BY DEF Decide
<1>2. updateApproval(event.object, approved).version = event.object.version
  BY DEF updateApproval, Events, Created, Objects
<1>3. current'.name = event.name /\ current'.object.version = event.object.version
  BY <1>1, <1>2 DEF Events
<1>. QED
  BY <1>3 DEF Fresh

\* No step makes a copy stale without giving what is stored another version.
LEMMA CopiesStay ==
    ASSUME TypeOK, TypeOK', Copies, [Next]_vars
    PROVE  Copies'
<1>0. /\ csr \in [Csr -> Objects] /\ csr' \in [Csr -> Objects] /\ stream \in Seq(Events)
      /\ pc \in {"get", "update"} => current \in Events
  BY DEF TypeOK, Events
<1>1. \A i \in DOMAIN stream : stream[i].name \in Csr /\ stream[i].object \in Created
  <2>1. \A i \in DOMAIN stream : stream[i] \in Events
    BY <1>0
  <2>. QED
    BY <2>1 DEF Events
<1>2. \A i \in DOMAIN stream :
        Fresh(csr', stream[i].name, stream[i].object, stream[i].object.conditions)
  BY <1>0, <1>1, FreshStays, ChangeSupersedes DEF Copies
<1>3. pc \in {"get", "update"} => Fresh(csr', current.name, current.object, <<>>)
  BY <1>0, FreshStays, ChangeSupersedes DEF Copies, Events
<1>4. \A c \in Csr : ~csr'[c].exists => csr'[c].conditions = <<>>
  BY ChangeSupersedes DEF Copies, Supersedes
<1>. SUFFICES /\ \A i \in DOMAIN stream' :
                   Fresh(csr', stream'[i].name, stream'[i].object, stream'[i].object.conditions)
              /\ pc' \in {"get", "update"} => Fresh(csr', current'.name, current'.object, <<>>)
  BY <1>4 DEF Copies
<1>5. CASE UNCHANGED <<stream, pc, current>>
  BY <1>2, <1>3, <1>5
<1>6. ASSUME NEW c \in Csr, CreateCSR(c), stream' # stream
      PROVE  Copies'
  <2>1. PICK object : /\ csr' = [csr EXCEPT ![c] = object]
                      /\ stream' = Append(stream, Event(c, object))
    BY <1>6, ZenonT(60) DEF CreateCSR
  <2>2. csr'[c] = object /\ object.version \in Nat
    BY <1>0, <2>1, CsrAssumption DEF Objects
  <2>3. Fresh(csr', c, object, object.conditions)
    BY <2>2 DEF Fresh
  <2>4. Event(c, object).name = c /\ Event(c, object).object = object
    BY DEF Event
  <2>5. \A i \in DOMAIN stream' :
          \/ i \in DOMAIN stream /\ stream'[i] = stream[i]
          \/ stream'[i] = Event(c, object)
    <3>1. Event(c, object) \in Events
      BY <2>1, <1>0 DEF TypeOK, Events
    <3>. QED
      BY <1>0, <2>1, <3>1
  <2>6. UNCHANGED <<pc, current>>
    BY <1>6 DEF CreateCSR, loopVars
  <2>. QED
    BY <1>2, <1>3, <1>4, <2>3, <2>4, <2>5, <2>6 DEF Copies
<1>7. CASE Watch
  <2>1. csr' = csr /\ stream' \in Replays /\ pc' = "select"
    BY <1>7 DEF Watch, apiVars
  <2>. QED
    BY <2>1, ReplayFresh
<1>8. CASE SelectEvent
  <2>. DEFINE event == Head(stream)
  <2>1. csr' = csr /\ stream # <<>> /\ stream' = Tail(stream)
    BY <1>8 DEF SelectEvent, apiVars
  <2>2. event = stream[1] /\ 1 \in DOMAIN stream /\ event \in Events
    BY <1>0, <2>1
  <2>3. \A i \in DOMAIN stream' : i + 1 \in DOMAIN stream /\ stream'[i] = stream[i + 1]
    BY <1>0, <2>1
  <2>4. \/ pc' = "select"
        \/ event.object.conditions = <<>> /\ Decide(event, FALSE)
        \/ event.object.conditions = <<>> /\ pc' = "get" /\ current' = event
    BY <1>8, ZenonT(60) DEF SelectEvent, Continue, Ignored
  <2>. HIDE DEF event
  <2>5. event.object.conditions = <<>> => Fresh(csr', event.name, event.object, <<>>)
    BY <1>2, <2>2
  <2>6. pc' \in {"get", "update"} => Fresh(csr', current'.name, current'.object, <<>>)
    BY <2>2, <2>4, <2>5, DecisionFresh, ZenonT(60)
  <2>. QED
    BY <1>2, <2>3, <2>6
<1>9. CASE GetNode
  <2>1. csr' = csr /\ stream' = stream /\ pc = "get"
    BY <1>9 DEF GetNode, apiVars
  <2>2. pc' = "select" \/ \E approved \in BOOLEAN : Decide(current, approved)
    BY <1>9, ZenonT(60) DEF GetNode, Continue
  <2>. QED
    BY <1>0, <1>2, <1>3, <2>1, <2>2, DecisionFresh
<1>10. CASE WatchFails \/ Retry \/ SelectDone \/ SelectClosed \/ GetFails \/ UpdateApproval
           \/ UpdateFails \/ WatchCloses
  <2>1. /\ stream' = stream \/ stream' = <<>>
        /\ pc' \notin {"get", "update"} \/ UNCHANGED <<pc, current>>
    BY <1>10 DEF WatchFails, Retry, SelectDone, SelectClosed, GetFails, UpdateApproval,
                UpdateFails, WatchCloses, Continue, loopVars
  <2>. QED
    BY <1>2, <1>3, <2>1
<1>11. CASE \/ \E c \in Csr : OtherDecides(c) \/ Sign(c) \/ DeleteCSR(c)
            \/ Cancel \/ (\E n \in Node : NodeChanges(n)) \/ UNCHANGED vars
  <2>1. UNCHANGED <<stream, loopVars>>
    BY <1>11, ZenonT(60) DEF OtherDecides, Sign, Modify, DeleteCSR, Cancel, NodeChanges, SetNode,
                             loopVars, vars
  <2>. QED
    BY <1>5, <2>1 DEF loopVars
<1>12. CASE \E c \in Csr : CreateCSR(c)
  <2>1. UNCHANGED <<pc, current>>
    BY <1>12 DEF CreateCSR, loopVars
  <2>. QED
    BY <1>5, <1>6, <1>12, <2>1 DEF Copies
<1>. QED
  BY <1>7, <1>8, <1>9, <1>10, <1>11, <1>12 DEF Next, Loop

\* No step but a deletion changes or withdraws a decision.
LEMMA StepKeepsDecisions ==
    ASSUME TypeOK, Copies, [Next]_vars, NEW c \in Csr, csr[c].conditions # <<>>,
           csr'[c].exists
    PROVE  csr'[c].conditions = csr[c].conditions
<1>0. csr \in [Csr -> Objects] /\ csr[c] \in Objects /\ csr[c].exists
  BY DEF TypeOK, Copies
<1>1. ASSUME NEW d \in Csr, NEW object, csr' = [csr EXCEPT ![d] = object],
             d = c => object.conditions = csr[c].conditions
      PROVE  csr'[c].conditions = csr[c].conditions
  BY <1>0, <1>1
<1>2. CASE \E d \in Csr : CreateCSR(d)
  BY <1>0, <1>1, <1>2 DEF CreateCSR
<1>3. CASE \E d \in Csr : DeleteCSR(d)
  <2>1. PICK d \in Csr : csr' = [csr EXCEPT ![d] = [NoCsr EXCEPT !.version = csr[d].version]]
    BY <1>3, ZenonT(60) DEF DeleteCSR
  <2>2. ~[NoCsr EXCEPT !.version = csr[d].version].exists
    BY DEF NoCsr
  <2>. QED
    BY <1>0, <1>1, <2>1, <2>2
<1>4. CASE \E d \in Csr : OtherDecides(d)
  BY <1>1, <1>4 DEF OtherDecides, Modify
<1>5. CASE \E d \in Csr : Sign(d)
  <2>1. PICK d \in Csr :
          csr' = [csr EXCEPT ![d] = [[csr[d] EXCEPT !.certificate = TRUE]
                                       EXCEPT !.version = csr[d].version + 1]]
    BY <1>5, ZenonT(60) DEF Sign, Modify
  <2>2. d = c => [[csr[d] EXCEPT !.certificate = TRUE]
                    EXCEPT !.version = csr[d].version + 1].conditions = csr[c].conditions
    BY <1>0 DEF Objects
  <2>. QED
    BY <1>1, <2>1, <2>2
<1>6. CASE UpdateApproval
  <2>1. /\ current.name \in Csr /\ csr[current.name].exists
        /\ csr[current.name].version = current.object.version
        /\ Fresh(csr, current.name, current.object, <<>>)
        /\ csr' = [csr EXCEPT ![current.name] = [current.object EXCEPT !.version = @ + 1]]
    BY <1>6 DEF UpdateApproval, Copies, TypeOK
  <2>2. current.name # c
    BY <2>1, SMTT(60), Z3T(60) DEF Fresh
  <2>. QED
    BY <1>1, <2>1, <2>2
<1>7. CASE \/ Watch \/ WatchFails \/ Retry \/ SelectDone \/ SelectClosed \/ SelectEvent
           \/ GetNode \/ GetFails \/ UpdateFails \/ WatchCloses \/ Cancel
           \/ (\E n \in Node : NodeChanges(n)) \/ UNCHANGED vars
  BY <1>7, ZenonT(60)
     DEF Watch, WatchFails, Retry, SelectDone, SelectClosed, SelectEvent, GetNode, GetFails,
         UpdateFails, WatchCloses, Cancel, NodeChanges, SetNode, apiVars, vars
<1>. QED
  BY <1>2, <1>3, <1>4, <1>5, <1>6, <1>7 DEF Next, Loop

\* A decision stands while its CSR exists (Reconcile decides on a copy from before it
\* read the node, and UpdateApproval must not write over what came in between), for any
\* number of CSRs and any order of changes, lost watches and replays.
THEOREM DecisionsStand == Spec => DecisionFinal
<1>1. Init => Copies
  <2>1. \A c \in Csr : NoCsr.conditions = <<>>
    BY DEF NoCsr
  <2>. QED
    BY <2>1 DEF Init, Copies
<1>2. TypeOK /\ TypeOK' /\ Copies /\ [Next]_vars => Copies'
  BY CopiesStay
<1>3. TypeOK /\ Copies /\ [Next]_vars =>
        [\A c \in Csr : csr[c].conditions # <<>> /\ csr'[c].exists =>
           csr'[c].conditions = csr[c].conditions]_vars
  BY StepKeepsDecisions
<1>. QED
  BY <1>1, <1>2, <1>3, TypeCorrect, PTL DEF Spec, DecisionFinal

=============================================================================
