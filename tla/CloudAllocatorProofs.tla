------------------------ MODULE CloudAllocatorProofs ------------------------
(***************************************************************************)
(* Types, bitmaps, the service range and the uniqueness of the pod CIDRs   *)
(* of the cloud allocator, for any number of nodes, workers, subnets and   *)
(* blocks.                                                                 *)
(*                                                                         *)
(* P is the set of values podCIDRs takes: all of PodCIDRs for the type     *)
(* invariant, a part of it for the other theorems.                         *)
(***************************************************************************)
EXTENDS CloudLemmas, CidrSetLemmas

----------------------------------------------------------------------------
(* The map of sets.                                                        *)

LEMMA FindsFree ==
    ASSUME SetsOK(cidrSets)
    PROVE  Finds /\ Records(cidrSets)
<1>1. ASSUME NEW s \in Known, ~NoCIDRsRemaining(cidrSets[s])
      PROVE  Candidate(cidrSets[s]) \in Blocks(maxCIDRs[s]) \ cidrSets[s].used
  <2>. WellFormed(cidrSets[s], maxCIDRs[s]) /\ maxCIDRs[s] \in Nat \ {0}
    BY MaxCIDRs DEF SetsOK, Known
  <2>. QED
    BY <1>1, CandidateIsFree
<1>. QED
  BY <1>1, RecordsOK DEF Finds

LEMMA PutOK ==
    ASSUME NEW sets, SetsOK(sets), NEW s \in DOMAIN sets, NEW v, WellFormed(v, maxCIDRs[s]),
           NEW sets2, Puts(sets, s, v, sets2)
    PROVE  SetsOK(sets2)
  BY OneSet, SMTT(60), Z3T(60) DEF SetsOK

\* occupyCIDR and releaseCIDRs keep the counters right.
LEMMA CallsOK ==
    ASSUME SetsOK(cidrSets), NEW cidr \in CIDRs
    PROVE  SetsOK(OccupyCIDR(cidr)) /\ SetsOK(ReleaseCIDR(cidr))
<1>1. CASE cidr.subnet \in Known
  <2>. PICK s, v, r : /\ s = cidr.subnet
                      /\ v = Occupy(cidrSets[s], cidr.blocks)
                      /\ r = Release(cidrSets[s], cidr.blocks)
    BY Zenon
  <2>. /\ s \in DOMAIN cidrSets /\ maxCIDRs[s] \in Nat \ {0}
       /\ cidr.blocks \in SUBSET Blocks(maxCIDRs[s]) /\ WellFormed(cidrSets[s], maxCIDRs[s])
    BY <1>1, MaxCIDRs DEF Known, SetsOK, CIDRs
  <2>. WellFormed(v, maxCIDRs[s]) /\ WellFormed(r, maxCIDRs[s])
    BY OccupyWellFormed, ReleaseWellFormed
  <2>. Puts(cidrSets, s, v, OccupyCIDR(cidr)) /\ Puts(cidrSets, s, r, ReleaseCIDR(cidr))
    BY <1>1 DEF OccupyCIDR, ReleaseCIDR, Puts
  <2>. QED
    BY PutOK
<1>2. CASE cidr.subnet \notin Known
  BY <1>2 DEF OccupyCIDR, ReleaseCIDR
<1>. QED
  BY <1>1, <1>2

\* So do AllocateNext,
LEMMA AllocateOK ==
    ASSUME SetsOK(cidrSets), NEW s \in Known, ~NoCIDRsRemaining(cidrSets[s]),
           cidrSets' = [cidrSets EXCEPT ![s] = AllocateNext(@)]
    PROVE  SetsOK(cidrSets')
<1>. /\ s \in DOMAIN cidrSets /\ maxCIDRs[s] \in Nat \ {0}
     /\ WellFormed(cidrSets[s], maxCIDRs[s])
  BY MaxCIDRs DEF Known, SetsOK
<1>. PICK v : v = AllocateNext(cidrSets[s])
  OBVIOUS
<1>. WellFormed(v, maxCIDRs[s])
  BY AllocateNextWellFormed
<1>. Puts(cidrSets, s, v, cidrSets')
  BY DEF Puts
<1>. QED
  BY PutOK

\* occupyNodeIPs
LEMMA OwnOK ==
    ASSUME NEW sets, SetsOK(sets), NEW n \in Node
    PROVE  SetsOK(OccupyNodeIPs(sets, n))
<1>. PICK sets2 : sets2 = OccupyNodeIPs(sets, n)
  OBVIOUS
<1>2. DOMAIN sets2 = DOMAIN sets
  BY DEF OccupyNodeIPs
<1>3. ASSUME NEW s \in DOMAIN sets PROVE WellFormed(sets2[s], maxCIDRs[s])
  <2>1. WellFormed(sets[s], maxCIDRs[s]) /\ maxCIDRs[s] \in Nat \ {0}
    BY MaxCIDRs DEF SetsOK
  <2>2. CASE s \in Global
    <3>. OwnBlocks[n][s] \in SUBSET Blocks(maxCIDRs[s])
      BY <2>2, CloudAssumption
    <3>. sets2[s] = Occupy(sets[s], OwnBlocks[n][s])
      BY <2>2 DEF OccupyNodeIPs
    <3>. QED
      BY <2>1, OccupyWellFormed, SMTT(60), Z3T(60)
  <2>3. CASE s \notin Global
    BY <2>1, <2>3 DEF OccupyNodeIPs
  <2>. QED
    BY <2>2, <2>3
<1>. QED
  BY <1>2, <1>3 DEF SetsOK

\* and addCIDRSet.
LEMMA AddOK ==
    ASSUME NEW sets, SetsOK(sets), NEW subnets \in SUBSET Subnets
    PROVE  SetsOK(AddCIDRSets(sets, subnets))
<1>. PICK sets2 : sets2 = AddCIDRSets(sets, subnets)
  OBVIOUS
<1>. /\ DOMAIN sets2 = DOMAIN sets \cup subnets
     /\ \A s \in DOMAIN sets : sets2[s] = sets[s]
     /\ \A s \in subnets \ DOMAIN sets : sets2[s] = NewCIDRSet(maxCIDRs[s])
  BY DEF AddCIDRSets
<1>. \A s \in subnets : WellFormed(NewCIDRSet(maxCIDRs[s]), maxCIDRs[s])
  BY MaxCIDRs, NewCIDRSetWellFormed
<1>. QED
  BY DEF SetsOK

\* The sets of a new process.
LEMMA StartSets ==
    ASSUME NEW s \in Configured
    PROVE  /\ WellFormed(FilterOutServiceRange(s), maxCIDRs[s])
           /\ \A c \in serviceCIDRs : c.base = s => c.blocks[s] \subseteq FilterOutServiceRange(s).used
<1>. PICK marked : marked = UNION {c.blocks[s] : c \in {d \in serviceCIDRs : d.base = s}}
  OBVIOUS
<1>. s \in Subnets /\ maxCIDRs[s] \in Nat \ {0} /\ marked \in SUBSET Blocks(maxCIDRs[s])
  BY CloudAssumption DEF Subnets
<1>. \A c \in serviceCIDRs : c.base = s => c.blocks[s] \subseteq marked
  OBVIOUS
<1>. /\ WellFormed(NewCIDRSet(maxCIDRs[s]), maxCIDRs[s])
     /\ NewCIDRSet(maxCIDRs[s]).used = {}
  BY NewCIDRSetWellFormed DEF NewCIDRSet
<1>. PICK new : new = NewCIDRSet(maxCIDRs[s])
  OBVIOUS
<1>. /\ WellFormed(Occupy(new, marked), maxCIDRs[s])
     /\ Occupy(new, marked).used = new.used \cup marked
  BY OccupyWellFormed, SMTT(60), Z3T(60)
<1>. FilterOutServiceRange(s) = Occupy(new, marked)
  BY DEF FilterOutServiceRange
<1>. QED
  OBVIOUS

----------------------------------------------------------------------------
(* Types.                                                                  *)

LEMMA WorkerTyped ==
    ASSUME NEW P, WorkerTypeOK(P), NEW w \in Actor, NEW r \in WorkerRecords(P), Shaped(r),
           Becomes(w, r)
    PROVE  WorkerTypeOK(P)'
  BY DEF WorkerTypeOK, Shaped, Becomes, Actor

LEMMA IdleTyped ==
    ASSUME NEW P, Admits(P)
    PROVE  /\ Idle \in WorkerRecords(P) /\ Shaped(Idle)
           /\ Failed \in WorkerRecords(P) /\ Shaped(Failed)
  BY Zenon DEF Admits, Idle, Failed, WorkerRecords, Shaped

LEMMA BeginTyped ==
    ASSUME NEW P, NEW n \in Node, NEW cidrs \in P, NEW pc \in {"occupy", "define", "release"}
    PROVE  Begin(pc, n, cidrs) \in WorkerRecords(P) /\ Shaped(Begin(pc, n, cidrs))
  BY Zenon DEF Begin, Idle, WorkerRecords, Shaped

LEMMA ReturnTyped ==
    ASSUME NEW P, Admits(P), Carries(P), NEW w \in Actor,
           worker[w].pc \notin {"idle", "failed"}, NEW failed, Return(w, failed)
    PROVE  WorkerTypeOK(P)' /\ queue' \subseteq Node
<1>. WorkerTypeOK(P)'
  BY ReturnBecomes, WorkerTyped, IdleTyped DEF Carries
<1>. worker[w].node \in Node /\ queue \subseteq Node
  BY DEF Carries, WorkerTypeOK, FeedTypeOK, Actor
<1>. QED
  BY ReturnBecomes

\* Every step of a worker keeps the types, if what it allocates stays in P.
LEMMA WorkerStepTyped ==
    ASSUME NEW P \in SUBSET PodCIDRs, Admits(P), Carries(P), Records(cidrSets),
           NEW w \in Actor, WorkerStep(w),
           AllocateCIDR(w) => Append(worker[w].cidrs, Choice(w)) \in P
    PROVE  Carries(P)'
<1>. DEFINE v == worker[w]
<1>0. /\ v \in WorkerRecords(P) /\ Shaped(v) /\ WorkerTypeOK(P) /\ v.cidrs \in P
      /\ worker \in [Actor -> WorkerRecords(P)]
  BY DEF Carries, WorkerTypeOK, Shaped, Actor, WorkerRecords
<1>1. ASSUME v.pc \notin {"idle", "failed"}, NEW failed, Return(w, failed),
             UNCHANGED <<apiVars, phase, informerVars, deleted, todo>>
      PROVE  Carries(P)'
  BY <1>1, ReturnTyped DEF Carries, FeedTypeOK, apiVars, informerVars
<1>2. ASSUME NEW r \in WorkerRecords(P), Shaped(r), Becomes(w, r), UNCHANGED <<feedVars, todo>>
      PROVE  Carries(P)'
  BY <1>0, <1>2, WorkerTyped DEF Carries, FeedTypeOK, feedVars
<1>4. CASE OccupyPodCIDRs(w)
  <2>. v.pc = "occupy" /\ UNCHANGED <<apiVars, phase, informerVars, deleted, todo>>
    BY <1>4 DEF OccupyPodCIDRs
  <2>2. CASE Return(w, FALSE)
    BY <1>1, <2>2, ZenonT(60)
  <2>3. CASE ~Return(w, FALSE)
    <3>. DEFINE k  == v.done + 1
                r1 == [v EXCEPT !.done = k]
                r2 == [v EXCEPT !.pc = "define"]
    <3>1. UNCHANGED queue /\ (Becomes(w, r1) \/ Becomes(w, r2))
      BY <1>4, <2>3, ZenonT(60) DEF OccupyPodCIDRs, Becomes
    <3>. k \in Nat
      BY <1>0, SMTT(60), Z3T(60) DEF WorkerRecords
    <3>. r1 \in WorkerRecords(P) /\ Shaped(r1) /\ r2 \in WorkerRecords(P) /\ Shaped(r2)
      BY <1>0 DEF WorkerRecords, Shaped
    <3>. HIDE DEF r1, r2
    <3>. QED
      BY <1>2, <3>1 DEF feedVars, apiVars, informerVars
  <2>. QED
    BY <2>2, <2>3, ZenonT(60)
<1>5. CASE Define(w)
  <2>. /\ v.pc = "define" /\ v.node \in Node
       /\ UNCHANGED <<apiVars, phase, informerVars, deleted, todo>>
    BY <1>0, <1>5 DEF Define, Shaped
  <2>2. CASE Return(w, TRUE)
    BY <1>1, <2>2, ZenonT(60)
  <2>3. ASSUME NEW subnet \in Subnets \cup {Host, "none"}, UNCHANGED queue,
               Becomes(w, Defined(v, subnet))
        PROVE  Carries(P)'
    <3>. PICK k : k = v.done + 1 /\ k \in Nat
      BY <1>0, SMTT(60), Z3T(60) DEF WorkerRecords
    <3>. DEFINE r1 == [v EXCEPT !.pc = "allocate", !.global = subnet]
                r2 == [v EXCEPT !.pc = "occupy", !.done = k]
    <3>1. Becomes(w, r1) \/ Becomes(w, r2)
      BY <2>3 DEF Defined
    <3>. r1 \in WorkerRecords(P) /\ Shaped(r1)
      BY <1>0, <2>3, ZenonT(60) DEF WorkerRecords, Shaped
    <3>. r2 \in WorkerRecords(P) /\ Shaped(r2)
      BY <1>0, Zenon DEF WorkerRecords, Shaped
    <3>. HIDE DEF r1, r2
    <3>. QED
      BY <1>2, <2>3, <3>1 DEF feedVars, apiVars, informerVars
  <2>. QED
    BY <1>0, <1>5, <2>2, <2>3, DefineBecomes, ZenonT(60)
<1>6. CASE DefineFails(w) \/ CIDRNotAvailable(w)
  BY <1>1, <1>6, ZenonT(60) DEF DefineFails, CIDRNotAvailable
<1>7. CASE AllocateCIDR(w)
  <2>. PICK cidrs : cidrs = Append(worker[w].cidrs, Choice(w))
    BY ZenonT(60)
  <2>2. cidrs \in P /\ v.pc = "allocate"
    BY <1>7 DEF AllocateCIDR
  <2>. Taken(w) \in WorkerRecords(P) /\ Shaped(Taken(w))
    BY <1>0, <2>2, ZenonT(60) DEF Taken, WorkerRecords, Shaped
  <2>. Becomes(w, Taken(w))
    BY <1>0, <1>7, AllocateBecomes
  <2>. QED
    BY <1>2, <1>7 DEF AllocateCIDR
<1>8. CASE UpdateCIDRsAllocation(w)
  <2>. /\ v.pc = "update" /\ UNCHANGED <<apiVars, phase, informerVars, deleted, todo>>
       /\ \/ \E failed : Return(w, failed)
          \/ \E pc \in {"patch", "giveback"} : UNCHANGED queue /\ worker' = [worker EXCEPT ![w].pc = pc]
    BY <1>8, ZenonT(60) DEF UpdateCIDRsAllocation
  <2>2. ASSUME NEW pc \in {"patch", "giveback"}, UNCHANGED queue, worker' = [worker EXCEPT ![w].pc = pc]
        PROVE  Carries(P)'
    <3>. DEFINE r == [v EXCEPT !.pc = pc]
    <3>. r \in WorkerRecords(P) /\ Shaped(r) /\ Becomes(w, r)
      BY <1>0, <2>2 DEF WorkerRecords, Shaped, Becomes
    <3>. HIDE DEF r
    <3>. QED
      BY <1>2, <2>2 DEF feedVars, apiVars, informerVars
  <2>. QED
    BY <1>1, <2>2
<1>9. CASE PatchNodeCIDRs(w)
  <2>. v.node \in Node /\ v.cidrs \in P /\ v.pc \notin {"idle", "failed"}
    BY <1>0, <1>9 DEF PatchNodeCIDRs, Shaped
  <2>. api' \in [Node -> Objects(P)] /\ events' \in [Node -> Seq(Objects(P))]
    BY <1>9, PatchTyped DEF PatchNodeCIDRs, Carries
  <2>. WorkerTypeOK(P)' /\ queue' \subseteq Node
    BY <1>9, ReturnTyped, ZenonT(60) DEF PatchNodeCIDRs
  <2>. QED
    BY <1>9 DEF PatchNodeCIDRs, Carries, FeedTypeOK
<1>10. ASSUME AfterFailedPatch(w), v.pc = "patch" PROVE WorkerTypeOK(P)'
  <2>. DEFINE r1 == [v EXCEPT !.done = v.done + 1]
              r2 == [v EXCEPT !.pc = "giveback", !.done = 0, !.requeue = TRUE]
  <2>1. Becomes(w, r1) \/ Becomes(w, r2)
    BY <1>10, Zenon DEF AfterFailedPatch, Becomes
  <2>. r1 \in WorkerRecords(P) /\ Shaped(r1)
    BY <1>0, <1>10, SMTT(60), Z3T(60) DEF WorkerRecords, Shaped
  <2>. r2 \in WorkerRecords(P) /\ Shaped(r2)
    BY <1>0, <1>10, ZenonT(60) DEF WorkerRecords, Shaped
  <2>. HIDE DEF r1, r2
  <2>. QED
    BY <1>0, <2>1, WorkerTyped
<1>11. CASE PatchFails(w)
  BY <1>10, <1>11 DEF PatchFails, Carries, FeedTypeOK, feedVars
<1>12. CASE PatchTimesOut(w)
  <2>. v.node \in Node /\ v.cidrs \in P
    BY <1>0, <1>12 DEF PatchTimesOut, Shaped
  <2>. inflight' \subseteq [node: Node, cidrs: P]
    BY <1>12, SMTT(60), Z3T(60) DEF PatchTimesOut, Carries, FeedTypeOK
  <2>. QED
    BY <1>10, <1>12 DEF PatchTimesOut, Carries, FeedTypeOK, informerVars
<1>13. CASE ReleaseCIDRs(w)
  <2>. DEFINE k == v.done + 1
              r == [v EXCEPT !.done = k]
  <2>. /\ v.pc \in {"giveback", "release"} /\ UNCHANGED <<apiVars, phase, informerVars, deleted, todo>>
       /\ (\E failed : Return(w, failed)) \/ (UNCHANGED queue /\ Becomes(w, r))
    BY <1>13 DEF ReleaseCIDRs, Becomes
  <2>. r \in WorkerRecords(P) /\ Shaped(r)
    BY <1>0, SMTT(60), Z3T(60) DEF WorkerRecords, Shaped
  <2>. HIDE DEF r
  <2>. QED
    BY <1>1, <1>2 DEF feedVars, apiVars, informerVars
<1>. QED
  BY <1>4, <1>5, <1>6, <1>7, <1>8, <1>9, <1>11, <1>12, <1>13 DEF WorkerStep

\* Every step of the process keeps the types.
LEMMA StepTyped ==
    ASSUME NEW P \in SUBSET PodCIDRs, Admits(P), Carries(P), Records(cidrSets), [Next]_vars,
           \A w \in Actor : AllocateCIDR(w) => Append(worker[w].cidrs, Choice(w)) \in P
    PROVE  Carries(P)'
<1>1. CASE Start
  <2>. todo' \subseteq [node: Node, cidrs: P]
    <3>. \A n \in listNodes : n \in Node /\ api[n].podCIDRs \in P
      BY DEF listNodes, Carries, FeedTypeOK, Objects
    <3>. QED
      BY <1>1, SMTT(60), Z3T(60) DEF Start
  <2>. QED
    BY <1>1 DEF Start, Carries, FeedTypeOK, WorkerTypeOK, apiVars, informerVars
<1>2. ASSUME Stop PROVE Carries(P)'
  <2>. FeedTypeOK(P)'
    BY <1>2, DieTyped DEF Stop, Carries
  <2>. WorkerTypeOK(P)'
    BY <1>2, IdleTyped DEF Stop, AllIdle, WorkerTypeOK, Shaped
  <2>. QED
    BY <1>2 DEF Carries, Stop
<1>3. CASE DeleteFunc
  <2>1. deleted # <<>> /\ deleted \in Seq(Notices(P))
    BY <1>3 DEF DeleteFunc, Carries, FeedTypeOK
  <2>2. WorkerTypeOK(P)' /\ UNCHANGED <<apiVars, phase, informerVars, todo>>
    BY <1>3 DEF DeleteFunc, Carries, WorkerTypeOK
  <2>. deleted' \in Seq(Notices(P)) /\ queue' \subseteq Node
    <3>. Tail(deleted) \in Seq(Notices(P)) /\ Head(deleted) \in Notices(P)
      BY <2>1, SMTT(60), Z3T(60)
    <3>. Head(deleted).node \in Node
      <4>. ~Head(deleted).tombstone
        BY <1>3 DEF DeleteFunc
      <4>. Head(deleted) # Tombstone
        BY SMTT(60), Z3T(60) DEF Tombstone
      <4>. QED
        BY Zenon DEF Notices
    <3>. QED
      BY <1>3, <2>1, Zenon DEF DeleteFunc, Carries, FeedTypeOK
  <2>. QED
    BY <2>2 DEF Carries, FeedTypeOK, apiVars, informerVars
<1>4. ASSUME NEW w \in Actor, WorkerStep(w) PROVE Carries(P)'
  BY <1>4, WorkerStepTyped
<1>5. ASSUME NEW w \in Worker, NEW n \in Node, SyncNode(w, n) PROVE Carries(P)'
  <2>1. cache[n].podCIDRs \in P
    BY DEF Carries, FeedTypeOK, Objects
  <2>. \/ Becomes(w, Idle)
       \/ \E pc \in {"occupy", "define", "release"} : Becomes(w, Begin(pc, n, cache[n].podCIDRs))
    BY <1>5, ZenonT(60) DEF SyncNode, Becomes
  <2>. WorkerTypeOK(P)'
    BY <2>1, WorkerTyped, IdleTyped, BeginTyped DEF Actor, Carries
  <2>. QED
    BY <1>5 DEF SyncNode, Carries, FeedTypeOK, apiVars, informerVars
<1>6. CASE StartNode
  <2>. PICK t \in todo : todo' = todo \ {t} /\ Becomes(Main, Begin("occupy", t.node, t.cidrs))
    BY <1>6, Zenon DEF StartNode, Becomes
  <2>. t.node \in Node /\ t.cidrs \in P
    BY DEF Carries
  <2>. WorkerTypeOK(P)'
    BY WorkerTyped, BeginTyped DEF Actor, Carries
  <2>. QED
    BY <1>6 DEF StartNode, Carries, FeedTypeOK, feedVars
<1>7. CASE StartDone
  BY <1>7 DEF StartDone, Carries, FeedTypeOK, WorkerTypeOK, apiVars, informerVars, ownVars
<1>8. CASE FeedStep /\ UNCHANGED ownVars
  BY <1>8, FeedTyped DEF Carries, WorkerTypeOK, ownVars
<1>9. CASE UNCHANGED vars
  BY <1>9 DEF vars, ownVars, feedVars, Carries, FeedTypeOK, WorkerTypeOK
<1>. QED
  BY <1>1, <1>2, <1>3, <1>4, <1>5, <1>6, <1>7, <1>8, <1>9
     DEF Next, Crash, StartFails, DeleteFuncPanics, Actor

\* Every set of the map agrees with its counter, whatever the step.
LEMMA SetsStep ==
    ASSUME NEW P \in SUBSET PodCIDRs, Carries(P), Quiet, SetsOK(cidrSets), [Next]_vars
    PROVE  SetsOK(cidrSets')
<1>1. \/ cidrSets' = NoSets
      \/ cidrSets' = [s \in Configured |-> FilterOutServiceRange(s)]
      \/ UNCHANGED cidrSets
      \/ Marks(P)
      \/ \E cidr : Entry(P, cidr) /\ cidrSets' = ReleaseCIDR(cidr)
  BY FindsFree, SetsChange
<1>2. CASE cidrSets' = NoSets
  BY <1>2 DEF NoSets, SetsOK
<1>3. CASE cidrSets' = [s \in Configured |-> FilterOutServiceRange(s)]
  <2>. \A s \in Configured : s \in Subnets /\ WellFormed(FilterOutServiceRange(s), maxCIDRs[s])
    BY StartSets DEF Subnets
  <2>. QED
    BY <1>3 DEF SetsOK
<1>4. ASSUME NEW cidr, Entry(P, cidr), cidrSets' \in {OccupyCIDR(cidr), ReleaseCIDR(cidr)}
      PROVE  SetsOK(cidrSets')
  BY <1>4, EntryFacts, CallsOK
<1>5. ASSUME NEW n \in Node, NEW found \in Discovery[n], DefinedSets(n, found, cidrSets')
      PROVE  SetsOK(cidrSets')
  <2>. SetsOK(AddCIDRSets(cidrSets, Added(found)))
    BY CloudAssumption, AddedSubnets, AddOK
  <2>. PICK sets : SetsOK(sets) /\ (cidrSets' = sets \/ cidrSets' = OccupyNodeIPs(sets, n))
    BY <1>5 DEF DefinedSets
  <2>. QED
    BY OwnOK
<1>6. CASE Marks(P)
  BY <1>4, <1>5, <1>6, AllocateOK DEF Marks
<1>. QED
  BY <1>1, <1>2, <1>3, <1>4, <1>6

\* What holds before the first start.
LEMMA InitTyped ==
    ASSUME NEW P \in SUBSET PodCIDRs, Admits(P), InitialCIDRs \subseteq P, Init
    PROVE  Carries(P) /\ SetsOK(cidrSets) /\ Quiet
<1>1. FeedTypeOK(P)
  BY FeedInitTyped DEF Init
<1>2. WorkerTypeOK(P)
  BY IdleTyped DEF Init, AllIdle, WorkerTypeOK, Shaped
<1>. SetsOK(cidrSets)
  BY DEF Init, NoSets, SetsOK
<1>. Quiet
  BY DEF Init, FeedInit, Quiet, FeedQuiet, AllIdle, Idle
<1>. QED
  BY <1>1, <1>2 DEF Carries, Init

\* Types and phases, the constructor and the workers of cloud_allocator.go included.
THEOREM TypesAndPhases == Spec => [](TypeOK /\ Quiet)
<1>0. Admits(PodCIDRs) /\ InitialCIDRs \subseteq PodCIDRs
  BY PodCIDRsAdmit, CloudAssumption
<1>1. Init => TypeOK /\ Quiet
  <2>. SUFFICES ASSUME Init PROVE TypeOK /\ Quiet
    OBVIOUS
  <2>. Carries(PodCIDRs) /\ SetsOK(cidrSets) /\ Quiet
    BY <1>0, InitTyped
  <2>. released \in Nat /\ starts \in 0 .. MaxStarts
    BY CloudAssumption, SMTT(60), Z3T(60) DEF Init
  <2>. QED
    BY DEF TypeOK, Carries, SetsOK, Known
<1>. TypeOK /\ Quiet /\ [Next]_vars => TypeOK' /\ Quiet'
  <2>. SUFFICES ASSUME TypeOK, Quiet, [Next]_vars PROVE TypeOK' /\ Quiet'
    OBVIOUS
  <2>. Carries(PodCIDRs) /\ SetsOK(cidrSets)
    BY DEF TypeOK, Carries, SetsOK, Known
  <2>2. ASSUME NEW w \in Actor, AllocateCIDR(w) PROVE Append(worker[w].cidrs, Choice(w)) \in PodCIDRs
    <3>. worker[w].cidrs \in PodCIDRs
      BY DEF Carries, WorkerTypeOK, WorkerRecords, Actor
    <3>. QED
      BY <2>2, ChoiceFacts, AppendTyped, FindsFree
  <2>3. Carries(PodCIDRs)'
    BY <1>0, <2>2, StepTyped, FindsFree
  <2>4. SetsOK(cidrSets') /\ Quiet'
    BY SetsStep, QuietStep
  <2>. released' \in Nat /\ starts' \in 0 .. MaxStarts
    <3>1. ASSUME NEW w \in Actor, WorkerStep(w) PROVE UNCHANGED <<released, starts>>
      BY <3>1, ActorStep DEF Carries
    <3>. /\ released' \in {released, released + 1, 0}
         /\ starts' = starts \/ (starts < MaxStarts /\ starts' = starts + 1)
      BY <3>1 DEF Next, vars, ownVars, Start, StartNode, StartDone, StartFails, Crash, DeleteFunc,
             DeleteFuncPanics, Stop, SyncNode, Actor
    <3>. QED
      BY CloudAssumption, SMTT(60), Z3T(60) DEF TypeOK
  <2>. QED
    BY <2>3, <2>4 DEF TypeOK, Carries, SetsOK, Known
<1>. QED
  BY <1>1, PTL DEF Spec

\* Every variable keeps its type and every set of the map agrees with its counter,
\* whenever cloud_allocator.go adds it, for any number of nodes, workers, subnets and
\* blocks, whatever PATCH requests fail, time out or land late, whatever the Talos API
\* reports, and however often the process restarts.
THEOREM TypeCorrect == Spec => []TypeOK
  BY TypesAndPhases, PTL

----------------------------------------------------------------------------
(* The service range.                                                      *)

\* What a node may carry without touching the service range.
Clean ==
    {cidrs \in PodCIDRs : \A k \in DOMAIN cidrs :
        cidrs[k].subnet \in Subnets => cidrs[k].blocks \cap Service(cidrs[k].subnet) = {}}

\* The nodes of the first list hold nothing of the service range, and every subnet
\* that a service CIDR touches is the configured one with its first address:
\* occupyCIDR marks it in no other, and addCIDRSet filters nothing.
OutsideService ==
    /\ InitialCIDRs \subseteq Clean
    /\ \A c \in serviceCIDRs, s \in Subnets :
         c.blocks[s] # {} => s \in Configured /\ c.base = s

\* The service range stays marked in a process that has built its bitmaps.
ServiceMarked ==
    phase # "down" => /\ Configured \subseteq Known
                      /\ \A s \in Known : Service(s) \subseteq cidrSets[s].used

LEMMA CleanAdmits == Admits(Clean) /\ Clean \in SUBSET PodCIDRs
<1>. <<>> \in Clean
  BY PodCIDRsAdmit, SMTT(60), Z3T(60) DEF Admits, Clean
<1>. QED
  BY CloudAssumption DEF Admits, Clean

LEMMA ServiceMarkedStep ==
    ASSUME OutsideService, Carries(Clean), SetsOK(cidrSets), Quiet, ServiceMarked, [Next]_vars
    PROVE  ServiceMarked'
<1>1. /\ SetsOK(cidrSets')
      /\ \/ phase' = "down" /\ cidrSets' = NoSets
         \/ phase' = "listing" /\ cidrSets' = [s \in Configured |-> FilterOutServiceRange(s)]
         \/ /\ phase' = "down" <=> phase = "down"
            /\ \/ UNCHANGED cidrSets
               \/ phase # "down" /\ Grows(cidrSets, cidrSets')
               \/ \E cidr : Entry(Clean, cidr) /\ cidrSets' = ReleaseCIDR(cidr)
  BY CleanAdmits, SetsChange, SetsStep, FindsFree
<1>2. CASE cidrSets' = [s \in Configured |-> FilterOutServiceRange(s)]
  <2>. \A s \in Configured : Service(s) \subseteq FilterOutServiceRange(s).used
    BY StartSets DEF OutsideService, Service, Subnets
  <2>. QED
    BY <1>2 DEF ServiceMarked, Known
<1>3. ASSUME phase # "down", Grows(cidrSets, cidrSets') PROVE ServiceMarked'
  <2>. \A s \in Known' : s \in Known \/ Service(s) = {}
    BY <1>1, <1>3 DEF ServiceMarked, OutsideService, Service, SetsOK, Known
  <2>. QED
    BY <1>3 DEF ServiceMarked, Grows, Known
<1>4. ASSUME phase # "down", NEW cidr, Entry(Clean, cidr), cidrSets' = ReleaseCIDR(cidr)
      PROVE  ServiceMarked'
  <2>1. cidr \in CIDRs
    BY <1>4, CleanAdmits, EntryFacts
  <2>2. cidr.subnet \in Subnets => cidr.blocks \cap Service(cidr.subnet) = {}
    BY <1>4 DEF Entry, Clean
  <2>. /\ DOMAIN cidrSets' = Known
       /\ \A s \in Known : cidrSets'[s].used =
            IF s = cidr.subnet THEN cidrSets[s].used \ cidr.blocks ELSE cidrSets[s].used
    BY <1>4, ReleaseSets, FindsFree, ZenonT(60)
  <2>. \A s \in Known : s \in Subnets
    BY DEF SetsOK, Known
  <2>. QED
    BY <1>4, <2>2, ZenonT(60) DEF ServiceMarked, Known
<1>. QED
  BY <1>1, <1>2, <1>3, <1>4 DEF ServiceMarked, Known

\* No PATCH of cloud_allocator.go ever assigns a block of the service range, with
\* finalizers, lost replies and restarts, if no node of the first list already holds
\* one and every service CIDR lies in the configured subnet of its first address (the
\* one case of filterOutServiceRange's comment that the code handles).  Inductively: all podCIDRs
\* anywhere (at the API server, in events, in the cache, in notices, in workers'
\* hands, in requests under way) avoid the range, and the range stays marked while
\* the process is up, whichever sets are added to the map.
THEOREM ServiceRangeKept ==
    ASSUME OutsideService
    PROVE  Spec => ServiceNeverAssigned
<1>. DEFINE IInv == Carries(Clean) /\ ServiceMarked
<1>1. Init => IInv
  BY CleanAdmits, InitTyped, ZenonT(60) DEF Init, FeedInit, OutsideService, ServiceMarked
<1>2. TypeOK /\ Quiet /\ IInv /\ [Next]_vars => IInv'
  <2>. SUFFICES ASSUME TypeOK, Quiet, IInv, [Next]_vars PROVE IInv'
    OBVIOUS
  <2>0. SetsOK(cidrSets)
    BY DEF TypeOK, SetsOK, Known
  <2>1. ASSUME NEW w \in Actor, AllocateCIDR(w) PROVE Append(worker[w].cidrs, Choice(w)) \in Clean
    <3>1. PICK cidrs : cidrs = worker[w].cidrs
      OBVIOUS
    <3>2. PICK cidr : cidr = Choice(w)
      OBVIOUS
    <3>3. cidrs \in Clean
      BY <3>1 DEF Carries, WorkerTypeOK, WorkerRecords, Actor
    <3>4. phase # "down"
      BY <2>1, ActorPhase DEF WorkerStep, Carries
    <3>5. cidr \in CIDRs /\ (cidr # Nil => cidr.blocks \cap Service(cidr.subnet) = {})
      <4>. /\ cidr \in CIDRs
           /\ cidr # Nil => /\ cidr.subnet \in Known
                            /\ cidr.blocks \cap cidrSets[cidr.subnet].used = {}
        BY <2>0, <2>1, <3>2, ChoiceFacts, FindsFree
      <4>. QED
        BY <3>4 DEF ServiceMarked
    <3>6. cidr.blocks \cap Service(cidr.subnet) = {}
      BY <3>5, SMTT(60), Z3T(60) DEF Nil
    <3>. Append(cidrs, cidr) \in Clean
      <4>. PICK all : all = Append(cidrs, cidr)
        BY ZenonT(60)
      <4>. cidrs \in PodCIDRs /\ \A k \in DOMAIN cidrs :
             cidrs[k].subnet \in Subnets => cidrs[k].blocks \cap Service(cidrs[k].subnet) = {}
        BY <3>3 DEF Clean
      <4>. all \in PodCIDRs /\ \A k \in DOMAIN all :
             all[k] = cidr \/ (k \in DOMAIN cidrs /\ all[k] = cidrs[k])
        BY <3>5, AppendTyped
      <4>. \A k \in DOMAIN all :
             all[k].subnet \in Subnets => all[k].blocks \cap Service(all[k].subnet) = {}
        BY <3>6
      <4>. QED
        BY Zenon DEF Clean
    <3>. QED
      BY <3>1, <3>2
  <2>. Carries(Clean)'
    BY <2>0, <2>1, CleanAdmits, StepTyped, FindsFree
  <2>. QED
    BY <2>0, ServiceMarkedStep
<1>. IInv' => \A n \in Node, s \in Subnets : Held(n, s)' \cap Service(s) = {}
  <2>. SUFFICES ASSUME IInv', NEW n \in Node, NEW s \in Subnets
                PROVE  Held(n, s)' \cap Service(s) = {}
    OBVIOUS
  <2>. api'[n].podCIDRs \in Clean
    BY DEF Carries, FeedTypeOK, Objects
  <2>. QED
    BY DEF Clean, Held, BlocksOf
<1>. TypeOK /\ Quiet /\ IInv /\ [Next]_vars
       => [\A n \in Node, s \in Subnets :
             Held(n, s) # Held(n, s)' => Held(n, s)' \cap Service(s) = {}]_vars
  BY <1>2
<1>. QED
  BY <1>1, <1>2, TypesAndPhases, PTL DEF Spec, ServiceNeverAssigned

----------------------------------------------------------------------------
(* Every block has one owner.                                              *)

\* The constructor.
LEMMA MainOKStep ==
    ASSUME OneRun, TypeOK, Quiet, MainOK, [Next]_vars
    PROVE  MainOK'
<1>. DEFINE First == starts = 0 => phase = "down" /\ FeedTypeOK(Static)
            Rest  == LET main == worker[Main]
                     IN  /\ todo \subseteq [node: Node, cidrs: Static \ {<<>>}]
                         /\ main.pc \in {"idle", "occupy", "define", "failed"}
                         /\ main.cidrs \in Static
                         /\ main.pc \in {"occupy", "define"} => main.cidrs # <<>>
                         /\ main.pc = "define" => /\ main.done + 1 \in DOMAIN main.cidrs
                                                  /\ main.cidrs[main.done + 1].subnet \notin Configured
<1>0. /\ WorkerTypeOK(PodCIDRs) /\ Records(cidrSets) /\ Carries(PodCIDRs) /\ Main \in Actor
      /\ First /\ Rest /\ <<>> \in Static /\ starts \in Nat
  BY StaticFacts, CloudAssumption, SMTT(60), Z3T(60) DEF TypeOK, Records, WellFormed, Known, Carries, Actor, MainOK, Admits
<1>1. phase' # "down" => Configured \subseteq Known'
  <2>. \/ phase' = "down"
       \/ cidrSets' = [s \in Configured |-> FilterOutServiceRange(s)]
       \/ /\ phase' = "down" <=> phase = "down"
          /\ \/ UNCHANGED cidrSets
             \/ phase # "down" /\ Grows(cidrSets, cidrSets')
             \/ \E cidr : Entry(PodCIDRs, cidr) /\ cidrSets' = ReleaseCIDR(cidr)
    BY <1>0, SetsChange, ZenonT(60)
  <2>2. ASSUME NEW cidr, Entry(PodCIDRs, cidr), cidrSets' = ReleaseCIDR(cidr)
        PROVE  DOMAIN cidrSets' = Known
    BY <1>0, <2>2, EntryFacts, ReleaseSets, ZenonT(60)
  <2>. QED
    BY <2>2, Zenon DEF MainOK, Grows, Known
<1>2. ASSUME UNCHANGED starts, phase # "down" PROVE First'
  BY <1>0, <1>2, ZenonT(60)
<1>3. ASSUME worker'[Main] = worker[Main], UNCHANGED todo PROVE Rest'
  BY <1>0, <1>3, Zenon
<1>4. ASSUME First', Rest' PROVE MainOK'
  BY <1>1, <1>4, ZenonT(60) DEF MainOK
<1>5. CASE Start
  <2>. starts = 0 /\ starts' # 0
    <3>. starts \in Nat
      BY <1>0
    <3>. QED
      BY <1>5, CloudAssumption, SMTT(60), Z3T(60) DEF Start, OneRun
  <2>2. \A n \in Node : api[n].podCIDRs \in Static
    BY <1>0 DEF FeedTypeOK, Objects
  <2>. todo' \subseteq [node: Node, cidrs: Static \ {<<>>}]
    BY <1>5, <2>2, SMTT(60), Z3T(60) DEF Start, listNodes
  <2>. worker'[Main] = worker[Main]
    BY <1>5 DEF Start
  <2>. QED
    BY <1>0, <1>4, ZenonT(60)
<1>6. CASE StartNode
  <2>. PICK t \in todo : todo' = todo \ {t} /\ Becomes(Main, Begin("occupy", t.node, t.cidrs))
    BY <1>6, ZenonT(60) DEF StartNode, Becomes
  <2>2. PICK v : v = Begin("occupy", t.node, t.cidrs)
    OBVIOUS
  <2>3. v.pc = "occupy" /\ v.cidrs = t.cidrs
    BY <2>2 DEF Begin, Idle
  <2>4. worker'[Main] = v
    BY <1>0, <2>2, OneActor, ZenonT(60)
  <2>. t.cidrs \in Static \ {<<>>}
    BY <1>0, Zenon
  <2>. Rest'
    BY <1>0, <2>3, <2>4, Zenon
  <2>. QED
    BY <1>2, <1>4, <1>6, ZenonT(60) DEF StartNode
<1>7. CASE WorkerStep(Main)
  <2>1. phase = "listing" /\ UNCHANGED <<todo, starts>>
    BY <1>7, MainBecomes, ZenonT(60)
  <2>2. PICK v : Becomes(Main, v) /\ MainMove(v)
    BY <1>7, MainBecomes
  <2>3. worker'[Main] = v
    BY <1>0, <2>2, OneActor, ZenonT(60)
  <2>4. worker[Main].pc \in {"occupy", "define"}
    BY <1>7, MainBecomes, ZenonT(60)
  <2>5. CASE v \in {Failed, Idle}
    <3>. v.pc \in {"failed", "idle"} /\ v.cidrs = <<>>
      BY <2>5, SMTT(60), Z3T(60) DEF Failed, Idle
    <3>. Rest'
      BY <1>0, <2>1, <2>3
    <3>. QED
      BY <1>2, <1>4, <2>1, ZenonT(60)
  <2>6. CASE v \notin {Failed, Idle}
    <3>. Rest'
      BY <1>0, <2>1, <2>2, <2>3, <2>4, <2>6, ZenonT(60) DEF MainMove
    <3>. QED
      BY <1>2, <1>4, <2>1, ZenonT(60)
  <2>. QED
    BY <2>5, <2>6
<1>8. ASSUME NEW w \in Worker, WorkerStep(w) \/ \E n \in Node : SyncNode(w, n) PROVE MainOK'
  <2>0. w \in Actor /\ Main \in Actor \ {w}
    BY MainIsNoWorker DEF Actor
  <2>. worker'[Main] = worker[Main] /\ UNCHANGED <<todo, starts>> /\ phase # "down"
    <3>1. CASE WorkerStep(w)
      BY <1>0, <2>0, <3>1, ActorStep, ActorPhase, ZenonT(60)
    <3>2. CASE \E n \in Node : SyncNode(w, n)
      <4>. PICK v : Becomes(w, v)
        BY <3>2, Zenon DEF SyncNode, Becomes
      <4>. worker'[Main] = worker[Main]
        BY <1>0, <2>0, OneActor, Zenon
      <4>. QED
        BY <3>2 DEF SyncNode
    <3>. QED
      BY <1>8, <3>1, <3>2
  <2>. QED
    BY <1>2, <1>3, <1>4, ZenonT(60)
<1>9. CASE StartDone \/ DeleteFunc
  BY <1>2, <1>3, <1>4, <1>9, ZenonT(60) DEF StartDone, DeleteFunc, ownVars
<1>10. CASE Stop /\ phase # "down"
  <2>. worker'[Main] = Idle /\ todo' = {} /\ UNCHANGED starts
    BY <1>10 DEF Stop, AllIdle
  <2>. Idle.pc = "idle" /\ Idle.cidrs = <<>>
    BY DEF Idle
  <2>. Rest'
    BY <1>0, Zenon
  <2>. QED
    BY <1>2, <1>4, <1>10, ZenonT(60)
<1>11. CASE FeedStep /\ UNCHANGED ownVars
  <2>. worker'[Main] = worker[Main] /\ UNCHANGED <<todo, starts>>
    BY <1>11 DEF ownVars
  <2>2. ASSUME starts = 0 PROVE phase' = "down" /\ FeedTypeOK(Static)'
    BY <1>0, <1>11, <2>2, FeedPhase, FeedTyped, StaticFacts, ZenonT(60)
  <2>. First'
    BY <2>2
  <2>. QED
    BY <1>3, <1>4, ZenonT(60)
<1>12. CASE UNCHANGED vars
  <2>. worker'[Main] = worker[Main] /\ UNCHANGED <<todo, starts, phase>>
    BY <1>12 DEF vars, ownVars, feedVars
  <2>. First'
    BY <1>0, <1>12, ZenonT(60) DEF vars, ownVars, feedVars, apiVars, informerVars, FeedTypeOK
  <2>. QED
    BY <1>3, <1>4
<1>. StartFails \/ Crash \/ DeleteFuncPanics => Stop /\ phase # "down"
  BY DEF StartFails, Crash, DeleteFuncPanics, Quiet
<1>. HIDE DEF First, Rest
<1>. QED
  BY <1>5, <1>6, <1>7, <1>8, <1>9, <1>10, <1>11, <1>12 DEF Next

IInv == Quiet /\ Carries(Distinct) /\ FeedCalm(PodCIDRs) /\ Chain /\ NoRelease /\ MainOK /\ Claims

LEMMA InitInvariant ==
    ASSUME OneRun, TypeOK, Init
    PROVE  IInv
<1>1. Carries(Distinct) /\ Quiet
  <2>. Distinct \in SUBSET PodCIDRs /\ Admits(Distinct) /\ InitialCIDRs \subseteq Distinct
    BY StaticFacts DEF OneRun
  <2>. QED
    BY InitTyped
<1>2. FeedCalm(PodCIDRs)
  BY PodCIDRsAdmit, CloudAssumption, FeedInitCalm DEF Init
<1>3. phase = "down" /\ Chain
  BY DEF Init, FeedInit, Chain
<1>4. \A w \in Actor : worker[w] = Idle
  BY DEF Init, AllIdle, Actor
<1>5. NoRelease
  BY <1>4, SMTT(60), Z3T(60) DEF NoRelease, Idle, Actor
<1>6. MainOK
  <2>1. FeedTypeOK(Static)
    BY StaticFacts, FeedInitTyped DEF Init, OneRun
  <2>. worker[Main].pc = "idle" /\ worker[Main].cidrs = <<>> /\ todo = {}
    BY <1>4, SMTT(60), Z3T(60) DEF Idle, Actor, Init
  <2>. <<>> \in Static
    BY StaticFacts DEF Admits
  <2>. QED
    BY <1>3, <2>1 DEF MainOK
<1>7. ASSUME NEW s \in Subnets, NEW r, NEW hand, NEW used, Now(s, r, hand, used)
      PROVE  Sound(s, r, hand, used)
  <2>1. \A m, n \in Node : m # n => Holds(Left(s), m) \cap Holds(Left(s), n) = {}
    <3>. \A n \in Node : api[n].podCIDRs \in PodCIDRs
      BY ZenonT(60) DEF TypeOK, FeedTypeOK, Objects
    <3>. \A n \in Node : Holds(Left(s), n) = Held(n, s)
      BY LeftAll DEF Holds, Held
    <3>. QED
      BY DEF Init
  <2>. \A w \in Worker : hand[w] = {}
    BY <1>4, <1>7, IdleHand DEF Now, Hands, Actor
  <2>. Exclusive(Left(s), r, Worker, hand)
    BY <1>1, <1>3, <2>1, QuietClaims, ZenonT(60) DEF Quiet
  <2>. QED
    BY <1>3 DEF Sound, Up
<1>. QED
  BY <1>1, <1>2, <1>3, <1>5, <1>6, <1>7 DEF IInv, Claims

LEMMA InvariantStep ==
    ASSUME OneRun, TypeOK, IInv, [Next]_vars
    PROVE  IInv'
<1>. /\ Quiet /\ Carries(Distinct) /\ FeedCalm(PodCIDRs) /\ Chain /\ NoRelease /\ MainOK /\ Claims
     /\ FeedTypeOK(Distinct) /\ WorkerTypeOK(PodCIDRs) /\ Carries(PodCIDRs) /\ SetsOK(cidrSets)
     /\ Finds /\ Records(cidrSets)
  BY FindsFree DEF IInv, Carries, SetsOK, TypeOK, Known
<1>1. Quiet' /\ FeedCalm(PodCIDRs)' /\ Chain' /\ NoRelease' /\ MainOK'
  BY QuietStep, CalmStep, NoReleaseStep, MainOKStep
<1>2. Carries(Distinct)'
  <2>. \A w \in Actor : AllocateCIDR(w) => Append(worker[w].cidrs, Choice(w)) \in Distinct
    <3>. ~AllocateCIDR(Main)
      BY Zenon DEF AllocateCIDR, MainOK
    <3>. QED
      BY TakesDistinct DEF Actor
  <2>. Distinct \in SUBSET PodCIDRs /\ Admits(Distinct)
    BY StaticFacts
  <2>. QED
    BY StepTyped
<1>. Claims'
  <2>1. CASE StartDone \/ UNCHANGED vars
    <3>. UNCHANGED <<api, events, cache, deleted, released, worker, todo, cidrSets>>
      BY <2>1, ZenonT(60) DEF StartDone, vars, feedVars, ownVars, apiVars, informerVars
    <3>. Up' => Up
      BY <2>1 DEF StartDone, vars, feedVars, ownVars, Up
    <3>. QED
      BY StillStep
  <2>2. ASSUME NEW w \in Actor, WorkerStep(w) PROVE Claims'
    BY <2>2, MainClaims, WorkerClaims DEF Actor, NoRelease
  <2>. QED
    BY <2>1, <2>2, StartClaims, StartNodeClaims, StopClaims, DeleteFuncClaims, SyncNodeClaims, FeedKeepsClaims, ZenonT(60)
       DEF Next, StartFails, Crash, DeleteFuncPanics, Actor
<1>. QED
  BY <1>1, <1>2 DEF IInv

\* IInv is an invariant of one run of the process without finalizers and lost replies.
THEOREM Invariance ==
    ASSUME OneRun
    PROVE  Spec => [](TypeOK /\ IInv)
<1>. TypeOK /\ Init => IInv
  BY InitInvariant
<1>. TypeOK /\ IInv /\ [Next]_vars => IInv'
  BY InvariantStep
<1>. QED
  BY TypeCorrect, PTL DEF Spec

\* No two nodes ever hold overlapping pod CIDRs, in the configured subnets and in those
\* that cloud_allocator.go discovers while workers allocate, whatever the interleaving
\* of workers, of the sets they add to the map, of DeleteFunc and of failed requests.
THEOREM PodCIDRsUnique ==
    ASSUME OneRun
    PROVE  Spec => []UniquePodCIDRs
<1>. TypeOK /\ IInv => UniquePodCIDRs
  <2>. SUFFICES ASSUME TypeOK, IInv, NEW m \in Node, NEW n \in Node, NEW s \in Subnets, m # n
                PROVE  Held(m, s) \cap Held(n, s) = {}
    BY DEF UniquePodCIDRs
  <2>. \A x \in Node : Holds(Left(s), x) = Held(x, s)
    BY LeftAll, Zenon DEF Holds, Held, TypeOK, FeedTypeOK, Objects
  <2>. Holds(Left(s), m) \cap Holds(Left(s), n) = {}
    BY ZenonT(60) DEF IInv, Claims, Now, Sound, Exclusive
  <2>. QED
    OBVIOUS
<1>. QED
  BY Invariance, PTL

\* Between AllocateNext and the PATCH, a worker's blocks are marked and belong to no
\* other worker and to no node, although other workers add sets and mark addresses.
THEOREM HandsStayExclusive ==
    ASSUME OneRun
    PROVE  Spec => []HandsExclusive
<1>. TypeOK /\ IInv => HandsExclusive
  <2>. SUFFICES ASSUME TypeOK, IInv, NEW w \in Worker, NEW s \in Known
                PROVE  /\ InHand(w, s) \subseteq cidrSets[s].used
                       /\ \A v \in Worker \ {w} : InHand(w, s) \cap InHand(v, s) = {}
                       /\ \A n \in Node : InHand(w, s) \cap Held(n, s) = {}
    BY ZenonT(60) DEF HandsExclusive
  <2>1. s \in Subnets /\ Quiet
    BY DEF TypeOK, IInv
  <2>2. \A n \in Node : Holds(Left(s), n) = Held(n, s)
    BY LeftAll, ZenonT(60) DEF Holds, Held, TypeOK, FeedTypeOK, Objects
  <2>3. PICK r, hand, used : /\ r = released /\ hand = Hands(worker, s)
                             /\ used = Promised(cidrSets, worker[Main], todo, s)
    OBVIOUS
  <2>4. Sound(s, r, hand, used)
    BY <2>1, <2>3 DEF IInv, Claims, Now
  <2>5. \A v \in Worker : hand[v] = InHand(v, s)
    <3>1. ASSUME NEW v \in Worker PROVE HandOf(worker[v], s) = InHand(v, s)
      <4>. worker[v].cidrs \in PodCIDRs /\ worker[v].done \in Nat
        BY DEF TypeOK, WorkerTypeOK, WorkerRecords
      <4>. /\ Left(s)[worker[v].cidrs][0] = BlocksOf(worker[v].cidrs, s, Nat)
           /\ Left(s)[worker[v].cidrs][worker[v].done]
                = BlocksOf(worker[v].cidrs, s, {k \in Nat : k > worker[v].done})
        BY LeftAll, ZenonT(60) DEF Left
      <4>. QED
        BY DEF HandOf, InHand
    <3>. QED
      BY <2>3, <3>1 DEF Hands
  <2>. InHand(w, s) \subseteq cidrSets[s].used
    <3>1. CASE phase = "running"
      <4>. Up /\ used = cidrSets[s].used
        BY <2>1, <2>3, <3>1, RunningPromise, Zenon DEF Known
      <4>. QED
        BY <2>4, <2>5, Zenon DEF Sound, Marked
    <3>2. CASE phase # "running"
      BY <2>1, <3>2 DEF Quiet, InHand
    <3>. QED
      BY <3>1, <3>2
  <2>6. \A v \in Worker \ {w} : hand[w] \cap hand[v] = {}
    BY <2>4, ZenonT(60) DEF Sound, Exclusive
  <2>7. \A n \in Node : Holds(Left(s), n) \cap hand[w] = {}
    BY <2>4, Zenon DEF Sound, Exclusive
  <2>. QED
    BY <2>2, <2>5, <2>6, <2>7
<1>. QED
  BY Invariance, PTL
=============================================================================
