------------------------ MODULE NodeInstancesProofs ------------------------
(***************************************************************************)
(* What holds of the node instances for any number of goroutines that      *)
(* share the Talos client and of addresses of the node: the client is      *)
(* never left closed, and no write of a pass undoes a change that somebody *)
(* made to the node after the pass copied it.                              *)
(***************************************************************************)
EXTENDS NodeInstances, TLAPS

----------------------------------------------------------------------------
(* Types.                                                                  *)

\* The order of the reads and writes of InstanceMetadata.
LEMMA Order ==
    /\ AfterRead["metadata"] = "sysinfo" /\ AfterRead["sysinfo"] = "ifaces"
    /\ AfterRead["ifaces"] = "annotations"
    /\ AfterWrite["annotations"] = "taints" /\ AfterWrite["taints"] = "labels"
    /\ AfterWrite["labels"] = "return"
  BY DEF AfterRead, AfterWrite

\* Every step of a call of the client keeps the type of the client, and a call
\* that is under way is not forgotten.
LEMMA CallStepType ==
    ASSUME ClientTypeOK, NEW g \in Caller, CallStep(g)
    PROVE  /\ ClientTypeOK'
           /\ \A h \in Caller : call'[h] # "none" <=> call[h] # "none"
  BY DEF ClientTypeOK, CallStep, GetSucceeds, GetFails, VersionSucceeds, NewFails,
         NewSucceeds, CloseOld, StoreNew, Goto

\* A change of the Node object alone.
LEMMA StoreType ==
    ASSUME TypeOK, NEW object \in Nodes, Store(object)
    PROVE  TypeOK'
  BY DEF TypeOK, Store, ClientTypeOK, clientVars

\* A pass that goes on to step s, for a read with a new list of addresses.
LEMMA GoOnType ==
    ASSUME NEW p \in Passes, NEW s \in Steps
    PROVE  [p EXCEPT !.pc = s] \in Passes /\ [p EXCEPT !.pc = s].pc = s
  BY DEF Passes

LEMMA ReadOnType ==
    ASSUME NEW p \in Passes, NEW s \in Steps, NEW i \in 0 .. NodeIPs
    PROVE  [p EXCEPT !.pc = s, !.ips = i] \in Passes /\ [p EXCEPT !.pc = s, !.ips = i].pc = s
  BY DEF Passes

\* No pass.
LEMMA IdleType == Idle \in Passes /\ Idle.pc \notin ReadSteps
  BY InstancesAssumption DEF Idle, Passes, Steps, ReadSteps

\* A write that changes the keys of the node as it is.
LEMMA WriteType ==
    ASSUME TypeOK, pass.pc \in WriteSteps, NEW keys \in SUBSET Keys, Write(keys)
    PROVE  TypeOK'
<1>1. AfterWrite[pass.pc] \in Steps \ ReadSteps
  BY Order DEF WriteSteps, ReadSteps, Steps
<1>2. node' \in Nodes
  BY DEF Write, TypeOK, Nodes
<1>3. pass' \in Passes /\ pass'.pc \notin ReadSteps
  BY <1>1, GoOnType DEF Write, TypeOK
<1>4. pass.pc \notin ReadSteps
  BY DEF WriteSteps, ReadSteps
<1>. QED
  BY <1>2, <1>3, <1>4 DEF Write, TypeOK, ClientTypeOK, clientVars

\* A patch between the copy and the copy with k in addition adds k to the node as it
\* is, if the copy lacks k, and does nothing else.
LEMMA PatchAdds ==
    ASSUME NEW old, NEW live, NEW k, k \notin old
    PROVE  MergePatch(old, old \cup {k}, live) = live \cup {k}
  BY DEF MergePatch

\* Every write adds one of the managed keys to those that the node has by then.
LEMMA WritesAdd ==
    ASSUME syncNodeAnnotations \/ syncNodeTaints \/ syncNodeLabels
    PROVE  \E k \in Keys \ {"user"} : pass.pc \in WriteSteps /\ Write(node.keys \cup {k})
<1>1. CASE syncNodeAnnotations
  <2>1. MergePatch(pass.keys, pass.keys \cup {"annotation"}, node.keys) = node.keys \cup {"annotation"}
    BY <1>1, PatchAdds DEF syncNodeAnnotations, Wanted
  <2>. QED
    BY <1>1, <2>1 DEF syncNodeAnnotations, Keys, WriteSteps
<1>2. CASE syncNodeTaints
  BY <1>2 DEF syncNodeTaints, Keys, WriteSteps
<1>3. CASE syncNodeLabels
  <2>1. MergePatch(pass.keys, pass.keys \cup {"label"}, node.keys) = node.keys \cup {"label"}
    BY <1>3, PatchAdds DEF syncNodeLabels, Wanted
  <2>. QED
    BY <1>3, <2>1 DEF syncNodeLabels, Keys, WriteSteps
<1>. QED
  BY <1>1, <1>2, <1>3

\* TypeOK holds throughout: a pass is inside a call of the client exactly while it
\* reads (InstanceMetadata and the callers of the shared client).
THEOREM TypeCorrect == Spec => []TypeOK
<1>. USE InstancesAssumption
<1>1. Init => TypeOK
  BY DEF Init, TypeOK, ClientInit, ClientTypeOK, Absent, Idle, Nodes, Passes, Steps, ReadSteps
<1>2. TypeOK /\ [Next]_vars => TypeOK'
  <2>. SUFFICES ASSUME TypeOK, [Next]_vars PROVE TypeOK'
    OBVIOUS
  <2>1. CASE Register \/ Unregister \/ DeleteNode
    BY <2>1, StoreType DEF Register, Unregister, DeleteNode, Absent, Nodes
  <2>2. CASE Edit
    <3>1. PICK keys \in SUBSET Keys : Store([node EXCEPT !.keys = keys])
      BY <2>2 DEF Edit, TypeOK, Nodes, Keys
    <3>. QED
      BY <3>1, StoreType DEF TypeOK, Nodes
  <2>3. CASE Readiness \/ Age
    BY <2>3, StoreType DEF Readiness, Age, TypeOK, Nodes
  <2>4. CASE Begin
    <3>1. pass' \in Passes /\ pass'.pc \in ReadSteps
      BY <2>4 DEF Begin, Passes, Steps, ReadSteps, Keys, TypeOK, Nodes
    <3>. QED
      BY <2>4, <3>1 DEF Begin, Goto, TypeOK, ClientTypeOK
  <2>5. CASE NextAddress
    <3>1. pass' \in Passes /\ pass'.pc \in ReadSteps
      BY <2>5 DEF NextAddress, Passes, ReadSteps, TypeOK
    <3>. QED
      BY <2>5, <3>1 DEF NextAddress, Goto, TypeOK, ClientTypeOK
  <2>6. CASE ReadDone
    <3>. DEFINE next == AfterRead[pass.pc]
    <3>1. next \in Steps /\ 1 \in 0 .. NodeIPs
      BY <2>6, Order DEF ReadDone, Steps, ReadSteps, WriteSteps, InstancesAssumption
    <3>2. /\ pass' = [pass EXCEPT !.pc = next, !.ips = 1]
          /\ call' = [call EXCEPT ![Self] = IF next \in ReadSteps THEN "get" ELSE "none"]
          /\ UNCHANGED <<talos, node>>
      BY <2>6 DEF ReadDone, Goto
    <3>. HIDE DEF next
    <3>3. pass' \in Passes /\ pass'.pc = next
      BY <3>1, <3>2, ReadOnType DEF TypeOK
    <3>. QED
      BY <3>2, <3>3 DEF TypeOK, ClientTypeOK
  <2>7. CASE ReadFails \/ Rejected
    <3>1. pass' \in Passes /\ pass'.pc \notin ReadSteps
      BY <2>7, IdleType DEF ReadFails, Rejected, GiveUp
    <3>. QED
      BY <2>7, <3>1 DEF ReadFails, Rejected, GiveUp, Goto, TypeOK, ClientTypeOK
  <2>8. CASE syncNodeAnnotations \/ syncNodeTaints \/ syncNodeLabels
    <3>1. PICK k \in Keys \ {"user"} : pass.pc \in WriteSteps /\ Write(node.keys \cup {k})
      BY <2>8, WritesAdd
    <3>. QED
      BY <3>1, WriteType DEF TypeOK, Nodes
  <2>9. CASE NothingToWrite \/ WriteFails
    <3>1. AfterWrite[pass.pc] \in Steps \ ReadSteps /\ pass.pc \notin ReadSteps
      BY <2>9, Order DEF NothingToWrite, WriteFails, WriteSteps, ReadSteps, Steps
    <3>2. pass' \in Passes /\ pass'.pc \notin ReadSteps
      BY <2>9, <3>1, GoOnType DEF NothingToWrite, WriteFails, TypeOK
    <3>3. node' \in Nodes
      BY <2>9 DEF NothingToWrite, WriteFails, TypeOK, Nodes
    <3>. QED
      BY <2>9, <3>1, <3>2, <3>3
         DEF NothingToWrite, WriteFails, TypeOK, ClientTypeOK, clientVars
  <2>10. CASE Initialize \/ InitializeFails \/ Return
    <3>1. pass' \in Passes /\ pass'.pc \notin ReadSteps /\ pass.pc \notin ReadSteps
      BY <2>10, IdleType DEF Initialize, InitializeFails, Return, ReadSteps
    <3>2. node' \in Nodes
      BY <2>10 DEF Initialize, InitializeFails, Return, TypeOK, Nodes
    <3>. QED
      BY <2>10, <3>1, <3>2
         DEF Initialize, InitializeFails, Return, TypeOK, ClientTypeOK, clientVars
  <2>11. CASE Expire /\ UNCHANGED <<node, pass>>
    BY <2>11 DEF Expire, TypeOK, ClientTypeOK
  <2>12. ASSUME NEW g \in Others, OtherCall(g) PROVE TypeOK'
    BY <2>12 DEF OtherCall, Goto, TypeOK, ClientTypeOK, InstancesAssumption
  <2>13. ASSUME NEW g \in Caller, ClientStep(g) PROVE TypeOK'
    BY <2>13, CallStepType DEF ClientStep, TypeOK, InstancesAssumption
  <2>14. CASE UNCHANGED vars
    BY <2>14 DEF vars, clientVars, TypeOK, ClientTypeOK
  <2>. QED
    BY <2>1, <2>2, <2>3, <2>4, <2>5, <2>6, <2>7, <2>8, <2>9, <2>10, <2>11, <2>12, <2>13, <2>14
       DEF Next, PassStep
<1>. QED
  BY <1>1, <1>2, PTL DEF Spec

----------------------------------------------------------------------------
(* The shared client.                                                      *)

\* Whatever the goroutines do, c.talos is closed only while one of them is about to
\* replace it: refreshTalosClient needs no lock for that much.
THEOREM ClientNotLeftClosed == Spec => []NotLeftClosed
<1>1. Init => NotLeftClosed
  BY DEF Init, ClientInit, NotLeftClosed
<1>2. TypeOK /\ NotLeftClosed /\ [Next]_vars => NotLeftClosed'
  <2>. SUFFICES ASSUME TypeOK, NotLeftClosed, [Next]_vars PROVE NotLeftClosed'
    OBVIOUS
  <2>1. ASSUME NEW g \in Caller, Goto(g, "none") \/ Goto(g, "get"), call[g] # "set",
               talos' = talos
        PROVE  NotLeftClosed'
    BY <2>1 DEF Goto, NotLeftClosed, TypeOK, ClientTypeOK
  <2>2. CASE Begin \/ NextAddress \/ ReadDone \/ ReadFails \/ Rejected
    <3>1. /\ Goto(Self, "none") \/ Goto(Self, "get")
          /\ talos' = talos
      BY <2>2 DEF Begin, NextAddress, ReadDone, ReadFails, Rejected, GiveUp
    <3>2. call[Self] # "set"
      BY <2>2 DEF ReadSteps, Begin, NextAddress, ReadDone, ReadFails, Rejected, TypeOK
    <3>. QED
      BY <2>1, <3>1, <3>2, InstancesAssumption
  <2>3. ASSUME NEW g \in Others, OtherCall(g) PROVE NotLeftClosed'
    BY <2>1, <2>3, InstancesAssumption DEF OtherCall
  <2>4. CASE Expire
    BY <2>4 DEF Expire, NotLeftClosed
  <2>5. ASSUME NEW g \in Caller, ClientStep(g) PROVE NotLeftClosed'
    <3>1. CASE StoreNew(g)
      BY <3>1 DEF StoreNew, NotLeftClosed
    <3>2. CASE CloseOld(g)
      BY <3>2 DEF CloseOld, Goto, NotLeftClosed, TypeOK, ClientTypeOK
    <3>3. CASE GetSucceeds(g) \/ GetFails(g) \/ VersionSucceeds(g) \/ NewFails(g) \/ NewSucceeds(g)
      BY <3>3 DEF GetSucceeds, GetFails, VersionSucceeds, NewFails, NewSucceeds, Goto,
                  NotLeftClosed, TypeOK, ClientTypeOK
    <3>. QED
      BY <2>5, <3>1, <3>2, <3>3 DEF ClientStep, CallStep
  <2>6. CASE UNCHANGED clientVars
    BY <2>6 DEF clientVars, NotLeftClosed
  <2>. QED
    BY <2>2, <2>3, <2>4, <2>5, <2>6
       DEF Next, PassStep, vars, Register, Unregister, Edit, Readiness, Age, DeleteNode, Store,
           syncNodeAnnotations, syncNodeTaints, syncNodeLabels, Write, NothingToWrite,
           WriteFails, Initialize, InitializeFails, Return
<1>. QED
  BY <1>1, <1>2, TypeCorrect, PTL DEF Spec

----------------------------------------------------------------------------
(* Changes by others.                                                      *)

\* What a step of a pass may do to the node that is there before and after it.
OnlyAdds ==
    node.exists /\ node'.exists =>
        /\ node.keys \subseteq node'.keys
        /\ "user" \in node'.keys => "user" \in node.keys

\* The writes change the keys of the node as it is (WritesAdd), not as it was when it
\* was read, and the other steps of a pass leave them alone.
LEMMA PassOnlyAdds ==
    ASSUME TypeOK, PassStep
    PROVE  OnlyAdds
<1>1. CASE syncNodeAnnotations \/ syncNodeTaints \/ syncNodeLabels
  <2>1. PICK k \in Keys \ {"user"} : Write(node.keys \cup {k})
    BY <1>1, WritesAdd
  <2>. QED
    BY <2>1 DEF Write, OnlyAdds, TypeOK, Nodes
<1>2. CASE Initialize
  BY <1>2 DEF Initialize, OnlyAdds, TypeOK, Nodes
<1>3. CASE node' = node
  BY <1>3 DEF OnlyAdds
<1>. QED
  BY <1>1, <1>2, <1>3
     DEF PassStep, Begin, NextAddress, ReadDone, ReadFails, Rejected, GiveUp,
         NothingToWrite, WriteFails, InitializeFails, Return

\* The PATCHes of annotations, taints and labels never undo one another or what
\* somebody else has done to the node, however old the copy they start from.
THEOREM UpdatesNotLost == Spec => NoLostUpdate
<1>1. TypeOK /\ [Next]_vars => (pass' # pass => OnlyAdds)
  <2>. SUFFICES ASSUME TypeOK, [Next]_vars, pass' # pass PROVE OnlyAdds
    OBVIOUS
  <2>1. PassStep
    BY DEF Next, vars, Register, Unregister, Edit, Readiness, Age, DeleteNode, Store,
           OtherCall, ClientStep
  <2>. QED
    BY <2>1, PassOnlyAdds
<1>2. TypeOK /\ [Next]_vars =>
        [pass' # pass /\ node.exists /\ node'.exists =>
            /\ node.keys \subseteq node'.keys
            /\ "user" \in node'.keys => "user" \in node.keys]_vars
  BY <1>1 DEF OnlyAdds
<1>. QED
  BY <1>2, TypeCorrect, PTL DEF Spec, NoLostUpdate
=============================================================================
