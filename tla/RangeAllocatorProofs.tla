------------------------ MODULE RangeAllocatorProofs ------------------------
(***************************************************************************)
(* Types, bitmaps, the service range and the uniqueness of the pod CIDRs   *)
(* of the range allocator, for any number of nodes, workers, cluster CIDRs *)
(* and blocks.                                                             *)
(*                                                                         *)
(* P is the set of values podCIDRs takes: all of PodCIDRs for the type     *)
(* invariant, a part of it for the service range.                          *)
(***************************************************************************)
EXTENDS RangeAllocator, FeedLemmas, CidrSetLemmas

----------------------------------------------------------------------------
(* Types.                                                                  *)

Carries(P) == FeedTypeOK(P) /\ WorkerTypeOK(P)

\* One worker changes its record.
Shaped(r) ==
    /\ r.pc # "idle" => r.node \in Node
    /\ r.pc = "allocate" => Len(r.cidrs) < clusterCIDRs
    /\ r.pc \in {"update", "patch", "giveback"} => Len(r.cidrs) = clusterCIDRs

LEMMA WorkerTyped ==
    ASSUME NEW P, WorkerTypeOK(P), NEW w \in Worker, NEW r \in WorkerRecords(P), Shaped(r),
           worker' = [worker EXCEPT ![w] = r]
    PROVE  WorkerTypeOK(P)'
  BY DEF WorkerTypeOK, Shaped

LEMMA IdleTyped ==
    ASSUME NEW P, Admits(P)
    PROVE  Idle \in WorkerRecords(P) /\ Shaped(Idle)
  BY DEF Admits, Idle, WorkerRecords, Shaped

\* syncNode returns.
LEMMA ReturnTyped ==
    ASSUME NEW P, Admits(P), Carries(P), NEW w \in Worker, worker[w].pc # "idle",
           NEW failed, Return(w, failed)
    PROVE  WorkerTypeOK(P)' /\ queue' \subseteq Node
<1>. WorkerTypeOK(P)'
  BY WorkerTyped, IdleTyped, Zenon DEF Return, Carries
<1>. worker[w].node \in Node /\ queue \subseteq Node
  BY DEF Carries, WorkerTypeOK, FeedTypeOK
<1>. QED
  BY DEF Return

\* Every step of a worker keeps the types, if what it allocates stays in P.
LEMMA WorkerStepTyped ==
    ASSUME NEW P \in SUBSET PodCIDRs, Admits(P), Carries(P), NEW w \in Worker, WorkerStep(w),
           AllocateCIDR(w) =>
               Append(worker[w].cidrs, {Candidate(cidrSets[Len(worker[w].cidrs) + 1])}) \in P
    PROVE  Carries(P)'
<1>. DEFINE v == worker[w]
<1>0. /\ v \in WorkerRecords(P)
      /\ Shaped(v)
      /\ v.cidrs \in Seq(SUBSET Nat)
      /\ WorkerTypeOK(P)
  BY DEF Carries, WorkerTypeOK, WorkerRecords, PodCIDRs, Shaped
<1>1. ASSUME NEW failed, Return(w, failed), v.pc # "idle",
             UNCHANGED <<apiVars, phase, informerVars, deleted>>
      PROVE  Carries(P)'
  BY <1>1, ReturnTyped DEF Carries, FeedTypeOK, apiVars, informerVars
<1>2. ASSUME WorkerTypeOK(P)', UNCHANGED feedVars
      PROVE  Carries(P)'
  BY <1>2 DEF Carries, FeedTypeOK, feedVars
<1>3. ASSUME NEW k \in Nat, worker' = [worker EXCEPT ![w].done = k]
      PROVE  WorkerTypeOK(P)'
  <2>. DEFINE r == [v EXCEPT !.done = k]
  <2>. r \in WorkerRecords(P) /\ Shaped(r)
    BY <1>0 DEF WorkerRecords, Shaped
  <2>. worker' = [worker EXCEPT ![w] = r]
    BY <1>3
  <2>. HIDE DEF r
  <2>. QED
    BY <1>0, WorkerTyped, Zenon
<1>4. ASSUME NEW pc, WalkCIDRs(w, pc), pc # "idle" PROVE Carries(P)'
  <2>. v.done + 1 \in Nat
    BY <1>0, SMTT(60), Z3T(60) DEF WorkerRecords
  <2>. QED
    BY <1>1, <1>2, <1>3, <1>4, Zenon DEF WalkCIDRs, apiVars, informerVars, feedVars
<1>5. CASE AllocateCIDR(w)
  <2>. DEFINE k     == Len(v.cidrs) + 1
              cidrs == Append(v.cidrs, {Candidate(cidrSets[k])})
              pc    == IF k = clusterCIDRs THEN "update" ELSE "allocate"
              r     == [v EXCEPT !.cidrs = cidrs, !.pc = pc]
  <2>. cidrs \in P /\ v.pc = "allocate"
    BY <1>5 DEF AllocateCIDR
  <2>2. worker' = [worker EXCEPT ![w].cidrs = cidrs, ![w].pc = pc]
    BY <1>5 DEF AllocateCIDR
  <2>3. worker' = [worker EXCEPT ![w] = r]
    BY <1>0, <2>2, Zenon DEF WorkerTypeOK
  <2>4. Len(v.cidrs) \in Nat /\ Len(v.cidrs) < clusterCIDRs /\ clusterCIDRs \in Nat
    BY <1>0, AllocatorAssumption, SMTT(60), Z3T(60) DEF Shaped
  <2>5. Len(cidrs) = k
    BY <1>0, SMTT(60), Z3T(60)
  <2>. HIDE DEF cidrs
  <2>6. r \in WorkerRecords(P)
    BY <1>0, Zenon DEF WorkerRecords
  <2>. Shaped(r)
    BY <1>0, <2>4, <2>5, SMTT(60), Z3T(60) DEF WorkerRecords, Shaped
  <2>. HIDE DEF r
  <2>. WorkerTypeOK(P)'
    BY <1>0, <2>3, <2>6, WorkerTyped, Zenon
  <2>. QED
    BY <1>2, <1>5 DEF AllocateCIDR, apiVars, informerVars, feedVars
<1>6. CASE CIDRNotAvailable(w)
  BY <1>1, <1>6, Zenon DEF CIDRNotAvailable
<1>7. ASSUME v.pc \in {"update", "patch", "giveback"},
             NEW pc \in {"patch", "giveback"}, NEW done \in Nat, NEW requeue \in BOOLEAN,
             worker' = [worker EXCEPT ![w] = [v EXCEPT !.pc = pc, !.done = done,
                                                       !.requeue = requeue]]
      PROVE  WorkerTypeOK(P)'
  <2>. DEFINE r == [v EXCEPT !.pc = pc, !.done = done, !.requeue = requeue]
  <2>. r \in WorkerRecords(P) /\ Shaped(r)
    BY <1>0, <1>7, Zenon DEF WorkerRecords, Shaped
  <2>. worker' = [worker EXCEPT ![w] = r]
    BY <1>7
  <2>. HIDE DEF r
  <2>. QED
    BY <1>0, WorkerTyped, Zenon
<1>8. CASE UpdateCIDRsAllocation(w)
  <2>1. ASSUME NEW pc \in {"patch", "giveback"}, worker' = [worker EXCEPT ![w].pc = pc]
        PROVE  WorkerTypeOK(P)'
    <3>. worker' = [worker EXCEPT ![w] = [v EXCEPT !.pc = pc, !.done = v.done,
                                                   !.requeue = v.requeue]]
      BY <1>0, <2>1, Zenon DEF WorkerRecords
    <3>. QED
      BY <1>0, <1>7, <1>8, Zenon DEF WorkerRecords, UpdateCIDRsAllocation
  <2>. QED
    BY <1>1, <1>2, <1>8, <2>1, Zenon DEF UpdateCIDRsAllocation, apiVars, informerVars, feedVars
<1>9. ASSUME AfterFailedPatch(w), v.pc = "patch" PROVE WorkerTypeOK(P)'
  <2>. DEFINE attempts == v.done + 1
  <2>1. attempts \in Nat
    BY <1>0, SMTT(60), Z3T(60) DEF WorkerRecords
  <2>2. CASE attempts < cidrUpdateRetries
    <3>. worker' = [worker EXCEPT ![w] = [v EXCEPT !.pc = "patch", !.done = attempts,
                                                   !.requeue = v.requeue]]
      BY <1>0, <1>9, <2>2, Zenon DEF AfterFailedPatch, WorkerRecords
    <3>. QED
      BY <1>0, <1>7, <1>9, <2>1, Zenon DEF WorkerRecords
  <2>3. CASE ~(attempts < cidrUpdateRetries)
    <3>. worker' = [worker EXCEPT ![w] = [v EXCEPT !.pc = "giveback", !.done = 0,
                                                   !.requeue = TRUE]]
      BY <1>9, <2>3 DEF AfterFailedPatch
    <3>. QED
      BY <1>0, <1>7, <1>9, Zenon
  <2>. QED
    BY <2>2, <2>3
<1>10. CASE PatchFails(w)
  BY <1>2, <1>9, <1>10 DEF PatchFails, apiVars, informerVars, feedVars
<1>11. CASE PatchTimesOut(w)
  <2>. v.node \in Node /\ v.cidrs \in P
    BY <1>0, <1>11 DEF PatchTimesOut, WorkerRecords, Shaped
  <2>. inflight' \subseteq [node: Node, cidrs: P]
    BY <1>11, SMTT(60), Z3T(60) DEF PatchTimesOut, Carries, FeedTypeOK
  <2>. QED
    BY <1>9, <1>11 DEF PatchTimesOut, Carries, FeedTypeOK, informerVars
<1>12. CASE PatchNodeCIDRs(w)
  <2>1. v.node \in Node /\ v.cidrs \in P
    BY <1>0, <1>12 DEF PatchNodeCIDRs, WorkerRecords, Shaped
  <2>. /\ api' \in [Node -> Objects(P)]
       /\ events' \in [Node -> Seq(Objects(P))]
    BY <1>12, <2>1, PatchTyped DEF PatchNodeCIDRs, Carries
  <2>. WorkerTypeOK(P)' /\ queue' \subseteq Node
    BY <1>12, ReturnTyped, Zenon DEF PatchNodeCIDRs
  <2>. QED
    BY <1>12 DEF PatchNodeCIDRs, Carries, FeedTypeOK
<1>13. CASE GiveBack(w)
  <2>. v.done + 1 \in Nat
    BY <1>0 DEF WorkerRecords
  <2>. QED
    BY <1>1, <1>2, <1>3, <1>13 DEF GiveBack, apiVars, informerVars, feedVars
<1>14. ASSUME NEW n \in Node, SyncNode(w, n) PROVE Carries(P)'
  <2>. DEFINE r(pc) == [Idle EXCEPT !.pc = pc, !.node = n, !.cidrs = cache[n].podCIDRs]
  <2>1. cache[n].podCIDRs \in P
    BY DEF Carries, FeedTypeOK, Objects
  <2>2. \A pc \in {"occupy", "release"} : r(pc) \in WorkerRecords(P) /\ Shaped(r(pc))
    BY <2>1, Zenon DEF Idle, WorkerRecords, Shaped
  <2>3. cache[n].podCIDRs = <<>> => r("allocate") \in WorkerRecords(P) /\ Shaped(r("allocate"))
    <3>1. r("allocate") \in WorkerRecords(P)
      BY <2>1, Zenon DEF Idle, WorkerRecords
    <3>. /\ r("allocate").pc = "allocate" /\ r("allocate").node = n
         /\ r("allocate").cidrs = cache[n].podCIDRs
      BY DEF Idle
    <3>. Len(<<>>) < clusterCIDRs
      BY AllocatorAssumption, SMTT(60), Z3T(60)
    <3>. QED
      BY <3>1 DEF Shaped
  <2>. PICK s \in WorkerRecords(P) : Shaped(s) /\ worker' = [worker EXCEPT ![w] = s]
    <3>. \/ worker' = [worker EXCEPT ![w] = Idle]
         \/ \E pc \in {"occupy", "release"} : worker' = [worker EXCEPT ![w] = r(pc)]
         \/ cache[n].podCIDRs = <<>> /\ worker' = [worker EXCEPT ![w] = r("allocate")]
      BY <1>14, Zenon DEF SyncNode
    <3>. QED
      BY <2>2, <2>3, IdleTyped
  <2>. WorkerTypeOK(P)'
    BY <1>0, WorkerTyped, Zenon
  <2>. QED
    BY <1>14 DEF SyncNode, Carries, FeedTypeOK, apiVars, informerVars
<1>. QED
  BY <1>4, <1>5, <1>6, <1>8, <1>10, <1>11, <1>12, <1>13, <1>14
     DEF WorkerStep, OccupyCIDRs, ReleaseCIDR

\* Every step of the process keeps the types.
LEMMA StepTyped ==
    ASSUME NEW P \in SUBSET PodCIDRs, Admits(P), Carries(P), [Next]_vars,
           \A w \in Worker : AllocateCIDR(w) =>
               Append(worker[w].cidrs, {Candidate(cidrSets[Len(worker[w].cidrs) + 1])}) \in P
    PROVE  Carries(P)'
<1>1. CASE Start
  BY <1>1 DEF Start, Carries, FeedTypeOK, WorkerTypeOK, apiVars, informerVars
<1>2. ASSUME Stop PROVE Carries(P)'
  <2>. FeedTypeOK(P)'
    BY <1>2, DieTyped DEF Stop, Carries
  <2>. WorkerTypeOK(P)'
    BY <1>2, IdleTyped DEF Stop, WorkerTypeOK, Shaped
  <2>. QED
    BY DEF Carries
<1>3. CASE DeleteFunc
  <2>1. deleted # <<>> /\ deleted \in Seq(Notices(P))
    BY <1>3 DEF DeleteFunc, Carries, FeedTypeOK
  <2>2. WorkerTypeOK(P)'
    BY <1>3 DEF DeleteFunc, Carries, WorkerTypeOK
  <2>3. CASE UNCHANGED <<deleted, queue>>
    BY <1>3, <2>2, <2>3 DEF DeleteFunc, Carries, FeedTypeOK, apiVars, informerVars
  <2>4. CASE DeleteFuncDone
    <3>. Tail(deleted) \in Seq(Notices(P)) /\ Head(deleted) \in Notices(P)
      BY <2>1, SMTT(60), Z3T(60)
    <3>. Head(deleted).node \in Node
      <4>. ~Head(deleted).tombstone
        BY <1>3 DEF DeleteFunc
      <4>. Head(deleted) # Tombstone
        BY SMTT(60), Z3T(60) DEF Tombstone
      <4>. QED
        BY Zenon DEF Notices
    <3>. QED
      BY <1>3, <2>2, <2>4
         DEF DeleteFunc, DeleteFuncDone, Carries, FeedTypeOK, apiVars, informerVars
  <2>. QED
    BY <1>3, <2>3, <2>4 DEF DeleteFunc
<1>4. ASSUME NEW w \in Worker, WorkerStep(w) PROVE Carries(P)'
  BY <1>4, WorkerStepTyped, Zenon
<1>5. CASE FeedStep /\ UNCHANGED <<released, cidrSets, worker>>
  BY <1>5, FeedTyped DEF Carries, WorkerTypeOK
<1>6. CASE UNCHANGED vars
  BY <1>6 DEF vars, feedVars, Carries, FeedTypeOK, WorkerTypeOK
<1>. QED
  BY <1>1, <1>2, <1>3, <1>4, <1>5, <1>6 DEF Next, Crash, DeleteFuncPanics

\* What the types say of one worker.
LEMMA WorkerFacts ==
    ASSUME TypeOK, NEW w \in Worker
    PROVE  /\ worker[w] \in WorkerRecords(PodCIDRs)
           /\ worker[w].cidrs \in PodCIDRs /\ worker[w].cidrs \in Seq(SUBSET Nat)
           /\ worker[w].done \in Nat
           /\ \A k \in DOMAIN worker[w].cidrs \cap Sets :
                worker[w].cidrs[k] \in SUBSET Blocks(maxCIDRs[k])
           /\ worker[w].pc # "idle" => worker[w].node \in Node
           /\ worker[w].pc = "allocate" => Len(worker[w].cidrs) + 1 \in Sets
           /\ worker[w].pc \in {"update", "patch", "giveback"} => DOMAIN worker[w].cidrs = Sets
<1>1. worker[w] \in WorkerRecords(PodCIDRs)
  BY DEF TypeOK, WorkerTypeOK
<1>2. worker[w].cidrs \in PodCIDRs /\ worker[w].done \in Nat
  BY <1>1 DEF WorkerRecords
<1>. /\ worker[w].cidrs \in Seq(SUBSET Nat)
     /\ \A k \in DOMAIN worker[w].cidrs \cap Sets :
          worker[w].cidrs[k] \in SUBSET Blocks(maxCIDRs[k])
  BY <1>2 DEF PodCIDRs
<1>. Len(worker[w].cidrs) \in Nat /\ DOMAIN worker[w].cidrs = 1 .. Len(worker[w].cidrs)
  BY SMTT(60), Z3T(60)
<1>. Len(worker[w].cidrs) < clusterCIDRs => Len(worker[w].cidrs) + 1 \in Sets
  BY AllocatorAssumption, SMTT(60), Z3T(60) DEF Sets
<1>. Len(worker[w].cidrs) = clusterCIDRs => DOMAIN worker[w].cidrs = Sets
  BY DEF Sets
<1>. QED
  BY <1>1, <1>2 DEF TypeOK, WorkerTypeOK

----------------------------------------------------------------------------
(* Between two runs of the process.                                        *)

\* Events, notices and syncs exist only in a running process.
Quiet == FeedQuiet /\ (phase # "running" => worker = [w \in Worker |-> Idle])

\* A worker only takes steps in a running process, and they leave it running.
LEMMA WorkerRuns ==
    ASSUME Quiet, NEW w \in Worker, WorkerStep(w)
    PROVE  phase = "running" /\ phase' = "running"
<1>. phase = "running" \/ worker[w].pc = "idle"
  BY SMTT(60), Z3T(60) DEF Quiet, Idle
<1>. phase' = phase /\ (worker[w].pc = "idle" => phase = "running")
  BY Zenon DEF WorkerStep, OccupyCIDRs, ReleaseCIDR, WalkCIDRs, AllocateCIDR, CIDRNotAvailable,
         UpdateCIDRsAllocation, PatchNodeCIDRs, PatchFails, PatchTimesOut, GiveBack, SyncNode
<1>. QED
  OBVIOUS

LEMMA QuietStep ==
    ASSUME Quiet, [Next]_vars
    PROVE  Quiet'
<1>1. CASE UNCHANGED vars
  BY <1>1 DEF Quiet, FeedQuiet, vars, feedVars
<1>2. CASE Start
  BY <1>2 DEF Start, Quiet, FeedQuiet, informerVars
<1>3. ASSUME Stop PROVE Quiet'
  BY <1>3 DEF Stop, Die, Quiet, FeedQuiet
<1>4. CASE DeleteFunc
  BY <1>4 DEF DeleteFunc, Quiet, FeedQuiet
<1>5. ASSUME NEW w \in Worker, WorkerStep(w) PROVE Quiet'
  BY <1>5, WorkerRuns, SMTT(30) DEF Quiet, FeedQuiet
<1>6. CASE FeedStep /\ UNCHANGED <<released, cidrSets, worker>>
  <2>. FeedQuiet' /\ (phase' # "running" => phase # "running")
    BY <1>6, FeedQuietStep, FeedPhase DEF Quiet
  <2>. QED
    BY <1>6 DEF Quiet
<1>. QED
  BY <1>1, <1>2, <1>3, <1>4, <1>5, <1>6 DEF Next, Crash, DeleteFuncPanics

----------------------------------------------------------------------------
(* The bitmaps.                                                            *)

SetsOK ==
    /\ cidrSets = [k \in Sets |-> cidrSets[k]]
    /\ \A k \in Sets : WellFormed(cidrSets[k], maxCIDRs[k])

\* A call changes one set.
LEMMA OneSet ==
    ASSUME SetsOK, NEW k \in Sets, NEW s, WellFormed(s, maxCIDRs[k]),
           cidrSets' = [cidrSets EXCEPT ![k] = s]
    PROVE  /\ SetsOK'
           /\ cidrSets'[k] = s
           /\ \A j \in Sets \ {k} : cidrSets'[j] = cidrSets[j]
<1>. DEFINE old == [j \in Sets |-> cidrSets[j]]
<1>1. cidrSets = old
  BY DEF SetsOK
<1>. cidrSets' = [j \in Sets |-> IF j = k THEN s ELSE cidrSets[j]]
  <2>. [old EXCEPT ![k] = s] = [j \in Sets |-> IF j = k THEN s ELSE cidrSets[j]]
    BY Zenon
  <2>. QED
    BY <1>1, Zenon
<1>. QED
  BY DEF SetsOK

LEMMA MaxType == \A k \in Sets : maxCIDRs[k] \in Nat \ {0}
  BY AllocatorAssumption

\* Release, Occupy and AllocateNext on the k-th set, as the handlers call them.
LEMMA ReleaseSet ==
    ASSUME SetsOK, NEW k \in Sets, NEW cidr,
           cidrSets' = [cidrSets EXCEPT ![k] = Release(@, cidr)]
    PROVE  /\ SetsOK'
           /\ cidrSets'[k].used = cidrSets[k].used \ cidr
           /\ \A j \in Sets \ {k} : cidrSets'[j] = cidrSets[j]
  BY OneSet, ReleaseWellFormed, MaxType, SMTT(60), Z3T(60) DEF SetsOK

LEMMA OccupySet ==
    ASSUME SetsOK, NEW k \in Sets, NEW cidr \in SUBSET Blocks(maxCIDRs[k]),
           cidrSets' = [cidrSets EXCEPT ![k] = Occupy(@, cidr)]
    PROVE  /\ SetsOK'
           /\ cidrSets'[k].used = cidrSets[k].used \cup cidr
           /\ \A j \in Sets \ {k} : cidrSets'[j] = cidrSets[j]
  BY OneSet, OccupyWellFormed, MaxType, SMTT(60), Z3T(60) DEF SetsOK

LEMMA AllocateSet ==
    ASSUME SetsOK, NEW k \in Sets, ~NoCIDRsRemaining(cidrSets[k]),
           cidrSets' = [cidrSets EXCEPT ![k] = AllocateNext(@)]
    PROVE  /\ SetsOK'
           /\ cidrSets'[k].used = cidrSets[k].used \cup {Candidate(cidrSets[k])}
           /\ Candidate(cidrSets[k]) \in Blocks(maxCIDRs[k]) \ cidrSets[k].used
           /\ \A j \in Sets \ {k} : cidrSets'[j] = cidrSets[j]
  BY OneSet, AllocateNextWellFormed, CandidateIsFree, MaxType DEF SetsOK

\* The constructor marks the service range and what the listed nodes hold.
LEMMA StartSets ==
    ASSUME TypeOK, Start
    PROVE  /\ SetsOK'
           /\ \A k \in Sets : cidrSets'[k].used = Service[k] \cup Listed(k)
<1>1. \A k \in Sets : Service[k] \in SUBSET Blocks(maxCIDRs[k])
  BY AllocatorAssumption
<1>2. \A k \in Sets : Listed(k) \in SUBSET Blocks(maxCIDRs[k])
  <2>. \A n \in Node : api[n].podCIDRs \in PodCIDRs
    BY DEF TypeOK, FeedTypeOK, Objects
  <2>. \A n \in Node, k \in Sets :
         k \in DOMAIN api[n].podCIDRs => api[n].podCIDRs[k] \subseteq Blocks(maxCIDRs[k])
    BY DEF PodCIDRs
  <2>. QED
    BY DEF Listed, listNodes
<1>3. \A k \in Sets : /\ WellFormed(FilterOutServiceRange(k), maxCIDRs[k])
                       /\ FilterOutServiceRange(k).used = Service[k]
  <2>. TAKE k \in Sets
  <2>. DEFINE s == NewCIDRSet(maxCIDRs[k])
              max == maxCIDRs[k]
              service == Service[k]
  <2>1. WellFormed(s, max) /\ s.used = {}
    BY NewCIDRSetWellFormed, MaxType DEF NewCIDRSet
  <2>2. max \in Nat \ {0} /\ service \in SUBSET Blocks(max)
    BY <1>1, MaxType
  <2>3. FilterOutServiceRange(k) = Occupy(s, service)
    BY DEF FilterOutServiceRange
  <2>. HIDE DEF s, max, service
  <2>. WellFormed(Occupy(s, service), max) /\ Occupy(s, service).used = s.used \cup service
    BY <2>1, <2>2, OccupyWellFormed, Zenon
  <2>. WellFormed(FilterOutServiceRange(k), max) /\ FilterOutServiceRange(k).used = service
    BY <2>1, <2>3
  <2>. QED
    BY DEF max, service
<1>. \A k \in Sets :
       /\ WellFormed(Occupy(FilterOutServiceRange(k), Listed(k)), maxCIDRs[k])
       /\ Occupy(FilterOutServiceRange(k), Listed(k)).used = Service[k] \cup Listed(k)
  BY <1>2, <1>3, OccupyWellFormed, MaxType, SMTT(60), Z3T(60)
<1>. cidrSets' = [k \in Sets |-> Occupy(FilterOutServiceRange(k), Listed(k))]
  BY DEF Start
<1>. QED
  BY DEF SetsOK

LEMMA EmptySetsOK ==
    ASSUME cidrSets' = EmptySets
    PROVE  SetsOK'
  BY NewCIDRSetWellFormed, MaxType DEF EmptySets, SetsOK

\* Every step leaves the bitmaps well formed.
LEMMA SetsStep ==
    ASSUME TypeOK, [Next]_vars
    PROVE  SetsOK'
<1>0. SetsOK
  BY DEF TypeOK, SetsOK
<1>1. ASSUME UNCHANGED cidrSets PROVE SetsOK'
  BY <1>0, <1>1 DEF SetsOK
<1>2. CASE Start
  BY <1>2, StartSets
<1>3. ASSUME Stop PROVE SetsOK'
  BY <1>3, EmptySetsOK DEF Stop
<1>4. CASE DeleteFunc
  BY <1>0, <1>1, <1>4, ReleaseSet, SMTT(30) DEF DeleteFunc, InCluster
<1>5. ASSUME NEW w \in Worker, WorkerStep(w) PROVE SetsOK'
  <2>. DEFINE k == worker[w].done + 1
  <2>2. CASE OccupyCIDRs(w)
    <3>1. CASE UNCHANGED cidrSets
      BY <1>1, <3>1
    <3>2. CASE InCluster(worker[w].cidrs, k)
               /\ cidrSets' = [cidrSets EXCEPT ![k] = Occupy(@, worker[w].cidrs[k])]
      <4>. k \in Sets /\ worker[w].cidrs[k] \in SUBSET Blocks(maxCIDRs[k])
        BY <3>2, WorkerFacts DEF InCluster
      <4>. HIDE DEF k
      <4>. QED
        BY <1>0, <3>2, OccupySet, ZenonT(60)
    <3>. QED
      BY <2>2, <3>1, <3>2, Zenon DEF OccupyCIDRs, WalkCIDRs
  <2>3. CASE ReleaseCIDR(w)
    BY <1>0, <1>1, <2>3, ReleaseSet, Zenon DEF ReleaseCIDR, WalkCIDRs, InCluster
  <2>4. CASE AllocateCIDR(w)
    <3>. Len(worker[w].cidrs) + 1 \in Sets
      BY <2>4, WorkerFacts DEF AllocateCIDR
    <3>. QED
      BY <1>0, <2>4, AllocateSet, ZenonT(60) DEF AllocateCIDR
  <2>5. CASE GiveBack(w)
    <3>. DOMAIN worker[w].cidrs = Sets
      BY <2>5, WorkerFacts DEF GiveBack
    <3>. QED
      BY <1>0, <1>1, <2>5, ReleaseSet DEF GiveBack
  <2>. QED
    BY <1>1, <1>5, <2>2, <2>3, <2>4, <2>5, ZenonT(60)
       DEF WorkerStep, CIDRNotAvailable, UpdateCIDRsAllocation, PatchNodeCIDRs, PatchFails,
           PatchTimesOut, SyncNode
<1>. QED
  BY <1>1, <1>2, <1>3, <1>4, <1>5 DEF Next, vars, Crash, DeleteFuncPanics

\* A worker takes a free block of the cluster CIDR it is at.
LEMMA TakesFreeBlock ==
    ASSUME TypeOK, NEW w \in Worker, AllocateCIDR(w)
    PROVE  LET k == Len(worker[w].cidrs) + 1
           IN  /\ k \in Sets
               /\ Candidate(cidrSets[k]) \in Blocks(maxCIDRs[k]) \ cidrSets[k].used
<1>. Len(worker[w].cidrs) + 1 \in Sets
  BY WorkerFacts DEF AllocateCIDR
<1>. QED
  BY CandidateIsFree, MaxType DEF AllocateCIDR, TypeOK

LEMMA AllocatedTyped ==
    ASSUME TypeOK, NEW w \in Worker, AllocateCIDR(w)
    PROVE  Append(worker[w].cidrs, {Candidate(cidrSets[Len(worker[w].cidrs) + 1])}) \in PodCIDRs
<1>. DEFINE cidrs == worker[w].cidrs
            k     == Len(cidrs) + 1
            b     == Candidate(cidrSets[k])
<1>. /\ cidrs \in Seq(SUBSET Nat)
     /\ \A j \in DOMAIN cidrs \cap Sets : cidrs[j] \subseteq Blocks(maxCIDRs[j])
  BY WorkerFacts
<1>2. k \in Sets /\ b \in Blocks(maxCIDRs[k])
  BY TakesFreeBlock
<1>3. {b} \subseteq Nat
  BY <1>2, MaxType, SMTT(60), Z3T(60) DEF Blocks
<1>. HIDE DEF b, cidrs
<1>4. Append(cidrs, {b}) \in Seq(SUBSET Nat)
  BY <1>3, SMTT(60), Z3T(60)
<1>. \A j \in DOMAIN Append(cidrs, {b}) :
       IF j = k THEN Append(cidrs, {b})[j] = {b}
                ELSE j \in DOMAIN cidrs /\ Append(cidrs, {b})[j] = cidrs[j]
  BY SMTT(60), Z3T(60)
<1>. Append(cidrs, {b}) \in PodCIDRs
  BY <1>2, <1>4, Zenon DEF PodCIDRs
<1>. QED
  BY DEF b, cidrs

LEMMA PodCIDRsAdmit == Admits(PodCIDRs)
  BY AllocatorAssumption, SMTT(60), Z3T(60) DEF Admits, PodCIDRs

\* Every variable keeps its type and every bitmap agrees with its counter, for
\* any number of nodes, workers, cluster CIDRs and blocks, whatever PATCH
\* requests fail, time out or land late, and however often the process of
\* range_allocator.go restarts.
THEOREM TypeCorrect == Spec => []TypeOK
<1>0. Admits(PodCIDRs)
  BY PodCIDRsAdmit
<1>1. Init => TypeOK
  <2>. SUFFICES ASSUME Init PROVE TypeOK
    OBVIOUS
  <2>1. FeedTypeOK(PodCIDRs)
    BY <1>0, AllocatorAssumption, FeedInitTyped DEF Init
  <2>. WorkerTypeOK(PodCIDRs)
    BY <1>0, IdleTyped DEF Init, WorkerTypeOK, Shaped
  <2>. cidrSets = [k \in Sets |-> cidrSets[k]] /\ \A k \in Sets : WellFormed(cidrSets[k], maxCIDRs[k])
    BY NewCIDRSetWellFormed, MaxType DEF Init, EmptySets
  <2>. QED
    BY <2>1 DEF Init, TypeOK
<1>. TypeOK /\ [Next]_vars => TypeOK'
  <2>. SUFFICES ASSUME TypeOK, [Next]_vars PROVE TypeOK'
    OBVIOUS
  <2>2. Carries(PodCIDRs)'
    BY <1>0, AllocatedTyped, StepTyped, Zenon DEF TypeOK, Carries
  <2>. released' \in Nat
    <3>. released' \in {released, released + 1, 0}
      BY ZenonT(30) DEF Next, vars, Start, Crash, DeleteFunc, DeleteFuncDone, DeleteFuncPanics, Stop,
             WorkerStep, OccupyCIDRs, ReleaseCIDR, WalkCIDRs, AllocateCIDR, CIDRNotAvailable,
             UpdateCIDRsAllocation, PatchNodeCIDRs, PatchFails, PatchTimesOut, GiveBack, SyncNode
    <3>. QED
      BY SMTT(60), Z3T(60) DEF TypeOK
  <2>. QED
    BY <2>2, SetsStep DEF TypeOK, Carries, SetsOK
<1>. QED
  BY <1>1, PTL DEF Spec

----------------------------------------------------------------------------
(* The service range.                                                      *)

\* What a node may carry without touching the service range.
Clean == {cidrs \in PodCIDRs : \A k \in DOMAIN cidrs \cap Sets : cidrs[k] \cap Service[k] = {}}

\* The nodes of the first list hold nothing of the service range.
OutsideService == InitialCIDRs \subseteq Clean

\* The service range stays marked in a process that has built its bitmaps.
ServiceMarked == phase # "down" => \A k \in Sets : Service[k] \subseteq cidrSets[k].used

LEMMA CleanAdmits == Admits(Clean)
<1>. Admits(PodCIDRs)
  BY PodCIDRsAdmit
<1>. RegisteredCIDRs \subseteq Clean
  BY AllocatorAssumption DEF Clean
<1>. QED
  BY SMTT(60), Z3T(60) DEF Admits, Clean

LEMMA ServiceMarkedStep ==
    ASSUME TypeOK, Quiet, Carries(Clean), ServiceMarked, [Next]_vars
    PROVE  ServiceMarked'
<1>0. SetsOK
  BY DEF TypeOK, SetsOK
<1>1. ASSUME UNCHANGED cidrSets, phase # "down" PROVE ServiceMarked'
  BY <1>1 DEF ServiceMarked
<1>2. ASSUME NEW k \in Sets, Service[k] \subseteq cidrSets'[k].used,
             \A j \in Sets \ {k} : cidrSets'[j] = cidrSets[j], phase # "down"
      PROVE  ServiceMarked'
  BY <1>2 DEF ServiceMarked
<1>3. ASSUME phase # "down", NEW k \in Sets, NEW cidr, cidr \cap Service[k] = {},
             cidrSets' = [cidrSets EXCEPT ![k] = Release(@, cidr)]
      PROVE  ServiceMarked'
  <2>. /\ cidrSets'[k].used = cidrSets[k].used \ cidr
       /\ \A j \in Sets \ {k} : cidrSets'[j] = cidrSets[j]
    BY <1>0, <1>3, ReleaseSet, ZenonT(60)
  <2>. QED
    BY <1>2, <1>3 DEF ServiceMarked
<1>4. CASE Start
  BY <1>4, StartSets DEF ServiceMarked
<1>5. ASSUME Stop PROVE ServiceMarked'
  BY <1>5 DEF Stop, Die, ServiceMarked
<1>6. CASE DeleteFunc
  <2>1. CASE UNCHANGED cidrSets
    BY <1>1, <1>6, <2>1 DEF DeleteFunc
  <2>2. CASE cidrSets' # cidrSets
    <3>. DEFINE cidrs == Head(deleted).cidrs
                k     == released + 1
    <3>. /\ deleted # <<>> /\ ~Head(deleted).tombstone /\ phase = "running"
         /\ InCluster(cidrs, k)
         /\ cidrSets' = [cidrSets EXCEPT ![k] = Release(@, cidrs[k])]
      BY <1>6, <2>2 DEF DeleteFunc
    <3>2. Head(deleted) \in Notices(Clean) /\ Head(deleted) # Tombstone
      BY SMTT(60), Z3T(60) DEF Carries, FeedTypeOK, Tombstone
    <3>. cidrs \in Clean
      BY <3>2, Zenon DEF Notices
    <3>. k \in Sets /\ cidrs[k] \cap Service[k] = {}
      BY DEF Clean, InCluster
    <3>. HIDE DEF cidrs, k
    <3>. QED
      BY <1>3, Zenon
  <2>. QED
    BY <2>1, <2>2
<1>7. ASSUME NEW w \in Worker, WorkerStep(w) PROVE ServiceMarked'
  <2>. DEFINE cidrs == worker[w].cidrs
              k     == worker[w].done + 1
  <2>0. phase # "down"
    BY <1>7, WorkerRuns
  <2>1. cidrs \in Clean
    BY DEF Carries, WorkerTypeOK, WorkerRecords
  <2>2. \A j \in DOMAIN cidrs \cap Sets :
          cidrs[j] \cap Service[j] = {} /\ cidrs[j] \in SUBSET Blocks(maxCIDRs[j])
    BY <2>1 DEF Clean, PodCIDRs
  <2>3. ASSUME NEW j \in DOMAIN cidrs \cap Sets,
               cidrSets' = [cidrSets EXCEPT ![j] = Release(@, cidrs[j])]
        PROVE  ServiceMarked'
    BY <1>3, <2>0, <2>2, <2>3, ZenonT(60)
  <2>4. ASSUME NEW j \in DOMAIN cidrs \cap Sets,
               cidrSets' = [cidrSets EXCEPT ![j] = Occupy(@, cidrs[j])]
        PROVE  ServiceMarked'
    <3>1. PICK cidr \in SUBSET Blocks(maxCIDRs[j]) : cidr = cidrs[j]
      BY <2>2
    <3>. j \in Sets /\ cidrSets' = [cidrSets EXCEPT ![j] = Occupy(@, cidr)]
      BY <2>4, <3>1
    <3>. /\ cidrSets'[j].used = cidrSets[j].used \cup cidr
         /\ \A i \in Sets \ {j} : cidrSets'[i] = cidrSets[i]
      BY <1>0, OccupySet, Zenon
    <3>. QED
      BY <1>2, <2>0 DEF ServiceMarked
  <2>5. CASE AllocateCIDR(w)
    <3>. DEFINE j == Len(cidrs) + 1
    <3>. /\ j \in Sets /\ ~NoCIDRsRemaining(cidrSets[j])
         /\ cidrSets' = [cidrSets EXCEPT ![j] = AllocateNext(@)]
      BY <2>5, WorkerFacts DEF AllocateCIDR
    <3>. HIDE DEF j
    <3>. /\ cidrSets'[j].used = cidrSets[j].used \cup {Candidate(cidrSets[j])}
         /\ \A i \in Sets \ {j} : cidrSets'[i] = cidrSets[i]
      BY <1>0, AllocateSet, Zenon
    <3>. QED
      BY <1>2, <2>0 DEF ServiceMarked
  <2>6. CASE OccupyCIDRs(w)
    BY <1>1, <2>0, <2>4, <2>6, ZenonT(60) DEF OccupyCIDRs, WalkCIDRs, InCluster
  <2>7. CASE ReleaseCIDR(w)
    BY <1>1, <2>0, <2>3, <2>7, ZenonT(60) DEF ReleaseCIDR, WalkCIDRs, InCluster
  <2>8. CASE GiveBack(w)
    <3>. DOMAIN cidrs = Sets
      BY <2>8, WorkerFacts DEF GiveBack
    <3>. QED
      BY <1>1, <2>0, <2>3, <2>8 DEF GiveBack
  <2>. QED
    BY <1>1, <1>7, <2>0, <2>5, <2>6, <2>7, <2>8, ZenonT(60)
       DEF WorkerStep, CIDRNotAvailable, UpdateCIDRsAllocation, PatchNodeCIDRs, PatchFails,
           PatchTimesOut, SyncNode
<1>8. CASE (FeedStep /\ UNCHANGED <<released, cidrSets, worker>>) \/ UNCHANGED vars
  <2>. UNCHANGED cidrSets /\ (phase' # "down" => phase # "down")
    BY <1>8, FeedPhase DEF vars, feedVars
  <2>. QED
    BY DEF ServiceMarked
<1>. QED
  BY <1>4, <1>5, <1>6, <1>7, <1>8 DEF Next, Crash, DeleteFuncPanics

\* No PATCH of range_allocator.go ever assigns a block of the service range, with
\* finalizers, lost replies and restarts, if no node of the first list already
\* holds one.  Inductively: all podCIDRs anywhere (at the API server, in events,
\* in the cache, in notices, in workers' hands, in requests under way) avoid the
\* range, and the range stays marked while the process is up.
THEOREM ServiceRangeKept ==
    ASSUME OutsideService
    PROVE  Spec => ServiceNeverAssigned
<1>. DEFINE IInv == Carries(Clean) /\ Quiet /\ ServiceMarked
<1>1. Init => IInv
  <2>. SUFFICES ASSUME Init PROVE IInv
    OBVIOUS
  <2>. FeedTypeOK(Clean)
    BY CleanAdmits, FeedInitTyped DEF Init, OutsideService
  <2>. WorkerTypeOK(Clean)
    BY CleanAdmits, IdleTyped DEF Init, WorkerTypeOK, Shaped
  <2>. QED
    BY DEF Init, FeedInit, Carries, Quiet, FeedQuiet, ServiceMarked
<1>2. TypeOK /\ TypeOK' /\ IInv /\ [Next]_vars => IInv'
  <2>. SUFFICES ASSUME TypeOK, TypeOK', IInv, [Next]_vars PROVE IInv'
    OBVIOUS
  <2>1. ASSUME NEW w \in Worker, AllocateCIDR(w)
        PROVE  Append(worker[w].cidrs, {Candidate(cidrSets[Len(worker[w].cidrs) + 1])}) \in Clean
    <3>. DEFINE cidrs == worker[w].cidrs
                k     == Len(cidrs) + 1
                b     == Candidate(cidrSets[k])
    <3>1. /\ cidrs \in Seq(SUBSET Nat)
          /\ \A j \in DOMAIN cidrs \cap Sets : cidrs[j] \cap Service[j] = {}
      BY WorkerFacts DEF Carries, WorkerTypeOK, WorkerRecords, Clean
    <3>2. k \in Sets /\ b \in Blocks(maxCIDRs[k]) \ cidrSets[k].used
      BY <2>1, TakesFreeBlock
    <3>3. phase # "down"
      BY <2>1, WorkerRuns DEF WorkerStep
    <3>4. {b} \cap Service[k] = {}
      BY <3>2, <3>3 DEF ServiceMarked
    <3>5. Append(cidrs, {b}) \in PodCIDRs
      BY <2>1, AllocatedTyped, Zenon
    <3>. HIDE DEF b, cidrs
    <3>. \A j \in DOMAIN Append(cidrs, {b}) :
           IF j = k THEN Append(cidrs, {b})[j] = {b}
                    ELSE j \in DOMAIN cidrs /\ Append(cidrs, {b})[j] = cidrs[j]
      BY <3>1, SMTT(60), Z3T(60)
    <3>. Append(cidrs, {b}) \in Clean
      BY <3>1, <3>4, <3>5, Zenon DEF Clean
    <3>. QED
      BY DEF b, cidrs
  <2>. Carries(Clean)'
    <3>. Clean \in SUBSET PodCIDRs
      BY DEF Clean
    <3>. QED
      BY <2>1, CleanAdmits, StepTyped
  <2>. QED
    BY QuietStep, ServiceMarkedStep
<1>. IInv' /\ TypeOK' => \A n \in Node, k \in Sets : Held(n, k)' \cap Service[k] = {}
  <2>. SUFFICES ASSUME IInv', NEW n \in Node, NEW k \in Sets
                PROVE  Held(n, k)' \cap Service[k] = {}
    OBVIOUS
  <2>. api'[n].podCIDRs \in Clean
    BY DEF Carries, FeedTypeOK, Objects
  <2>. QED
    BY DEF Clean, Held
<1>. TypeOK /\ TypeOK' /\ IInv /\ [Next]_vars
       => [\A n \in Node, k \in Sets :
             Held(n, k) # Held(n, k)' => Held(n, k)' \cap Service[k] = {}]_vars
  BY <1>2
<1>. QED
  BY <1>1, <1>2, TypeCorrect, PTL DEF Spec, ServiceNeverAssigned

----------------------------------------------------------------------------
(* No two nodes hold a block in common, if nodes have no finalizers and    *)
(* every reply of the API server arrives: a block is released only by the  *)
(* one claim that has it.                                                  *)

\* What the theorems are about: nodes go at once, and replies are not lost.
NoFaults == ~Finalizers /\ ~LostReplies

\* Without finalizers no worker releases the CIDRs of a node under deletion.
NoRelease == \A w \in Worker : worker[w].pc # "release"

----------------------------------------------------------------------------
(* The claims on the k-th cluster CIDR.                                    *)

Left(k) ==
    [cidrs \in PodCIDRs |-> [d \in Nat |-> IF k \in DOMAIN cidrs /\ k > d THEN cidrs[k] ELSE {}]]

\* What the record v of a worker says it has in hand, and what the workers have.
HandOf(v, k) ==
    IF /\ k \in DOMAIN v.cidrs
       /\ \/ v.pc \in {"allocate", "update", "patch"}
          \/ v.pc = "giveback" /\ k > v.done
    THEN v.cidrs[k] ELSE {}

Hands(workers, k) == [w \in Worker |-> HandOf(workers[w], k)]

\* r, hand and used stand for what the variables say now.
Claimed(k) ==
    \A r, hand : r = released /\ hand = Hands(worker, k) => Exclusive(Left(k), r, Worker, hand)

Reserved(k) ==
    \A r, hand, used : r = released /\ hand = Hands(worker, k) /\ used = cidrSets[k].used
                         => Marked(Left(k), r, Worker, hand, used)

Claims ==
    /\ \A k \in Pos : Claimed(k)
    /\ phase # "down" => \A k \in Sets : Reserved(k)

LEMMA SetsPos == \A k \in Sets : k \in Pos
  BY AllocatorAssumption, SMTT(60), Z3T(60) DEF Sets, Pos

LEMMA LeftCovers == \A k \in Pos : Covers(PodCIDRs, Left(k))
<1>. SUFFICES ASSUME NEW k \in Pos PROVE Covers(PodCIDRs, Left(k))
  OBVIOUS
<1>1. <<>> \in PodCIDRs /\ DOMAIN <<>> = {}
  BY SMTT(60), Z3T(60) DEF PodCIDRs
<1>2. \A d \in Nat : Left(k)[<<>>][d] = {}
  BY <1>1 DEF Left
<1>3. ASSUME NEW cidrs \in PodCIDRs, NEW d \in Nat, NEW e \in Nat, d <= e
      PROVE  Left(k)[cidrs][e] \subseteq Left(k)[cidrs][d]
  <2>. k > e => k > d
    BY <1>3, SMTT(60), Z3T(60) DEF Pos
  <2>. QED
    BY DEF Left
<1>. QED
  BY <1>2, <1>3 DEF Covers

\* Whoever else assigns CIDRs stays out of the cluster CIDRs.
LEMMA RegisteredLeft == \A k \in Pos : \A cidrs \in RegisteredCIDRs : Left(k)[cidrs][0] = {}
  BY AllocatorAssumption DEF Left

\* A node holds the k-th of its CIDRs.
LEMMA HeldIsHeld ==
    ASSUME TypeOK, NEW n \in Node, NEW k \in Pos
    PROVE  Holds(Left(k), n) = Held(n, k)
<1>. api[n].podCIDRs \in PodCIDRs
  BY DEF TypeOK, FeedTypeOK, Objects
<1>. k > 0
  BY PosPositive, Zenon
<1>. QED
  BY DEF Left, Holds, Held

\* One worker changes its record.
Becomes(a, v) == worker' = [worker EXCEPT ![a] = v]

LEMMA HandStep ==
    ASSUME TypeOK, NEW a \in Worker, NEW v, Becomes(a, v)
    PROVE  \A k : /\ Hands(worker, k)[a] = HandOf(worker[a], k)
                  /\ Hands(worker', k)[a] = HandOf(v, k)
                  /\ \A w \in Worker \ {a} : Hands(worker', k)[w] = Hands(worker, k)[w]
<1>. worker'[a] = v /\ \A w \in Worker \ {a} : worker'[w] = worker[w]
  BY DEF TypeOK, WorkerTypeOK, Becomes
<1>. QED
  BY DEF Hands

----------------------------------------------------------------------------
(* Steps that take no block and release none.                              *)

\* No claim grows and no block is unmarked.
LEMMA ShrinkingStep ==
    ASSUME Claims, phase' # "down" => phase # "down",
           \A k \in Pos : \A r, r2, hand, hand2 :
               r = released /\ r2 = released' /\ hand = Hands(worker, k) /\ hand2 = Hands(worker', k)
                 => Shrunk(Left(k), r, Worker, hand, r2, hand2),
           phase' # "down" => \A k \in Sets : cidrSets[k].used \subseteq cidrSets'[k].used
    PROVE  Claims'
<1>1. ASSUME NEW k \in Pos PROVE Claimed(k)'
  <2>. PICK r, r2, hand, hand2 :
         r = released /\ r2 = released' /\ hand = Hands(worker, k) /\ hand2 = Hands(worker', k)
    OBVIOUS
  <2>. Exclusive(Left(k), r, Worker, hand) /\ Shrunk(Left(k), r, Worker, hand, r2, hand2)
    BY DEF Claims, Claimed
  <2>. Exclusive(Left(k), r2, Worker, hand2)'
    BY ShrunkClaims
  <2>. QED
    BY DEF Claimed
<1>2. ASSUME NEW k \in Sets, phase' # "down" PROVE Reserved(k)'
  <2>. PICK r, r2, hand, hand2, used, used2 :
         /\ r = released /\ r2 = released' /\ hand = Hands(worker, k) /\ hand2 = Hands(worker', k)
         /\ used = cidrSets[k].used /\ used2 = cidrSets'[k].used
    OBVIOUS
  <2>. /\ Marked(Left(k), r, Worker, hand, used) /\ used \subseteq used2
       /\ Shrunk(Left(k), r, Worker, hand, r2, hand2)
    BY <1>2, SetsPos DEF Claims, Reserved
  <2>. Marked(Left(k), r2, Worker, hand2, used2)'
    BY ShrunkClaims, Zenon
  <2>. QED
    BY DEF Reserved
<1>. QED
  BY <1>1, <1>2 DEF Claims

\* A step of a worker that takes no block, assigns none and releases none.
LEMMA HandShrinks ==
    ASSUME TypeOK, Quiet, Claims, NEW a \in Worker, WorkerStep(a),
           NEW v, Becomes(a, v),
           UNCHANGED <<apiVars, informerVars, deleted, released>>,
           \A k \in Pos : HandOf(v, k) \subseteq HandOf(worker[a], k),
           \A k \in Sets : cidrSets[k].used \subseteq cidrSets'[k].used
    PROVE  Claims'
<1>1. ASSUME NEW k \in Pos, NEW r, NEW r2, NEW hand, NEW hand2,
             r = released, r2 = released', hand = Hands(worker, k), hand2 = Hands(worker', k)
      PROVE  Shrunk(Left(k), r, Worker, hand, r2, hand2)
  <2>1. \A w \in Worker : hand2[w] \subseteq hand[w]
    <3>. /\ Hands(worker, k)[a] = HandOf(worker[a], k) /\ Hands(worker', k)[a] = HandOf(v, k)
         /\ \A w \in Worker \ {a} : Hands(worker', k)[w] = Hands(worker, k)[w]
      BY HandStep, SMTT(60), Z3T(60)
    <3>. QED
      BY <1>1
  <2>. r \in Nat /\ r2 = r /\ UNCHANGED <<api, events, cache, deleted>> /\ r <= r
    BY <1>1, SMTT(60), Z3T(60) DEF TypeOK, apiVars, informerVars
  <2>. FeedTypeOK(PodCIDRs) /\ Covers(PodCIDRs, Left(k))
    BY LeftCovers DEF TypeOK
  <2>. QED
    BY <2>1, Unmoved, ZenonT(60)
<1>. phase = "running" /\ phase' = "running"
  BY WorkerRuns
<1>. QED
  BY <1>1, ShrinkingStep

\* The steps of NodeFeed.
LEMMA FeedKeepsClaims ==
    ASSUME NoFaults, TypeOK, Quiet, FeedCalm(PodCIDRs), Chain, Claims,
           FeedStep, UNCHANGED <<released, cidrSets, worker>>
    PROVE  Claims'
<1>. /\ ~Finalizers /\ Admits(PodCIDRs) /\ FeedTypeOK(PodCIDRs) /\ FeedQuiet
     /\ released \in Nat
  BY PodCIDRsAdmit DEF NoFaults, TypeOK, Quiet
<1>1. ASSUME NEW k \in Pos, NEW r \in Nat, NEW hand
      PROVE  /\ Exclusive(Left(k), r, Worker, hand) => Exclusive(Left(k), r, Worker, hand)'
             /\ \A used : Marked(Left(k), r, Worker, hand, used)
                            => Marked(Left(k), r, Worker, hand, used)'
  <2>. Covers(PodCIDRs, Left(k)) /\ \A cidrs \in RegisteredCIDRs : Left(k)[cidrs][0] = {}
    BY LeftCovers, RegisteredLeft
  <2>. QED
    BY FeedClaims, Zenon
<1>2. ASSUME NEW k \in Pos PROVE Hands(worker', k) = Hands(worker, k)
  OBVIOUS
<1>. \A k \in Pos : Claimed(k)'
  BY <1>1, <1>2 DEF Claims, Claimed
<1>4. ASSUME phase' # "down", NEW k \in Sets PROVE Reserved(k)'
  BY <1>1, <1>2, <1>4, SetsPos, FeedPhase, ZenonT(60) DEF Claims, Reserved
<1>. QED
  BY <1>4 DEF Claims

LEMMA StopClaims ==
    ASSUME Claims, Stop
    PROVE  Claims'
<1>. phase' = "down" /\ released' = 0 /\ Die
  BY DEF Stop, Die
<1>2. ASSUME NEW k \in Pos, NEW hand2, hand2 = Hands(worker', k)
      PROVE  \A w \in Worker : hand2[w] = {}
  BY <1>2 DEF Stop, Hands, HandOf, Idle
<1>3. ASSUME NEW k \in Pos, NEW r, NEW r2, NEW hand, NEW hand2,
             r = released, r2 = released', hand = Hands(worker, k), hand2 = Hands(worker', k)
      PROVE  Shrunk(Left(k), r, Worker, hand, r2, hand2)
  <2>. Shrunk(Left(k), r, Worker, hand, 0, hand2)
    BY <1>2, <1>3, DieClaims
  <2>. QED
    BY <1>3
<1>. QED
  BY <1>3, ShrinkingStep

\* The constructor marks what the listed nodes hold.
LEMMA StartClaims ==
    ASSUME TypeOK, Quiet, FeedCalm(PodCIDRs), Claims, Start
    PROVE  Claims'
<1>1. /\ phase = "down" /\ phase' = "listed"
      /\ UNCHANGED <<api, events, cache, deleted, released, worker>>
  BY DEF Start, apiVars, informerVars
<1>2. ASSUME NEW k \in Pos
      PROVE  /\ Hands(worker', k) = Hands(worker, k)
             /\ \A w \in Worker : Hands(worker, k)[w] = {}
  BY <1>1, SMTT(60), Z3T(60) DEF Quiet, Hands, HandOf, Idle
<1>3. ASSUME NEW k \in Pos, NEW r \in Nat, NEW hand PROVE Shrunk(Left(k), r, Worker, hand, r, hand)
  BY <1>1, <1>3, LeftCovers, Unmoved, SMTT(60), Z3T(60) DEF TypeOK
<1>4. ASSUME NEW k \in Pos PROVE Claimed(k)'
  <2>. PICK r, hand : r = released /\ hand = Hands(worker, k)
    OBVIOUS
  <2>. Exclusive(Left(k), r, Worker, hand) /\ r \in Nat
    BY DEF Claims, Claimed, TypeOK
  <2>. Exclusive(Left(k), r, Worker, hand)'
    BY <1>3, ShrunkClaims
  <2>. QED
    BY <1>1, <1>2 DEF Claimed
<1>5. ASSUME NEW k \in Sets PROVE Reserved(k)'
  <2>0. k \in Pos
    BY SetsPos
  <2>1. PICK r, hand, used : r = released /\ hand = Hands(worker, k) /\ used = cidrSets'[k].used
    OBVIOUS
  <2>2. \A n \in Node : Holds(Left(k), n) \subseteq used
    <3>. TAKE n \in Node
    <3>1. Listed(k) \subseteq used
      BY <2>1, StartSets
    <3>. Holds(Left(k), n) = Held(n, k)
      BY <2>0, HeldIsHeld
    <3>3. CASE api[n].exists
      BY <3>1, <3>3 DEF Held, Listed, listNodes
    <3>4. CASE ~api[n].exists
      <4>. api[n].podCIDRs = <<>>
        BY <3>4 DEF FeedCalm, Calm
      <4>. QED
        BY SMTT(60), Z3T(60) DEF Held
    <3>. QED
      BY <3>3, <3>4
  <2>. Marked(Left(k), r, Worker, hand, used)
    BY <1>1, <1>2, <2>0, <2>1, <2>2, QuietClaims, ZenonT(60) DEF Quiet
  <2>. Marked(Left(k), r, Worker, hand, used)'
    BY <1>3, <2>0, <2>1, ShrunkClaims DEF TypeOK
  <2>. QED
    BY <1>1, <1>2, <2>0, <2>1, ZenonT(60) DEF Reserved
<1>. QED
  BY <1>4, <1>5 DEF Claims

----------------------------------------------------------------------------
(* Steps that take, assign or release blocks.                              *)

\* DeleteFunc releases what the first notice claims, or is done with it.
LEMMA DeleteFuncClaims ==
    ASSUME TypeOK, Claims, DeleteFunc
    PROVE  Claims'
<1>0. /\ deleted \in Seq(Notices(PodCIDRs)) /\ deleted # <<>> /\ released \in Nat
      /\ phase = "running" /\ phase' = phase
      /\ UNCHANGED <<api, events, cache, worker>>
      /\ FeedTypeOK(PodCIDRs)
  BY DEF DeleteFunc, TypeOK, FeedTypeOK, apiVars, informerVars
<1>1. \A k \in Pos : Hands(worker', k) = Hands(worker, k)
  BY <1>0
<1>2. ASSUME NEW cidrs, cidrs = Head(deleted).cidrs, NEW c, c = released + 1,
             InCluster(cidrs, c),
             cidrSets' = [cidrSets EXCEPT ![c] = Release(@, cidrs[c])],
             released' = c,
             UNCHANGED deleted
      PROVE  Claims'
  <2>1. c \in Sets /\ c \in DOMAIN cidrs /\ c \in Pos /\ c \in Nat
    BY <1>0, <1>2, SMTT(60), Z3T(60) DEF InCluster, Pos
  <2>2. /\ cidrSets'[c].used = cidrSets[c].used \ cidrs[c]
        /\ \A k \in Sets \ {c} : cidrSets'[k] = cidrSets[k]
    <3>. SetsOK
      BY DEF TypeOK, SetsOK
    <3>. QED
      BY <1>2, <2>1, ReleaseSet, ZenonT(60)
  <2>3. ASSUME NEW k \in Pos, NEW r, r = released, NEW hand, hand = Hands(worker, k)
        PROVE  /\ Exclusive(Left(k), r, Worker, hand)
               /\ Shrunk(Left(k), r, Worker, hand, c, hand)
               /\ Exclusive(Left(k), c, Worker, hand)'
    <3>1. Exclusive(Left(k), r, Worker, hand)
      BY <2>3 DEF Claims, Claimed
    <3>2. r \in Nat /\ r <= c
      BY <1>0, <1>2, <2>3, SMTT(60), Z3T(60)
    <3>. Covers(PodCIDRs, Left(k))
      BY LeftCovers
    <3>. Shrunk(Left(k), r, Worker, hand, c, hand)
      BY <1>0, <1>2, <2>1, <3>2, Unmoved
    <3>. QED
      BY <3>1, ShrunkClaims
  <2>4. \A k \in Pos : Claimed(k)'
    BY <1>1, <1>2, <2>3 DEF Claimed
  <2>5. ASSUME NEW k \in Sets PROVE Reserved(k)'
    <3>1. PICK r, hand, used : r = released /\ hand = Hands(worker, k) /\ used = cidrSets[k].used
      OBVIOUS
    <3>2. k \in Pos /\ Marked(Left(k), r, Worker, hand, used)
      BY <1>0, <3>1, SetsPos DEF Claims, Reserved
    <3>3. CASE k # c
      <4>. Marked(Left(k), c, Worker, hand, used)'
        BY <2>3, <3>1, <3>2, ShrunkClaims, ZenonT(60)
      <4>. QED
        BY <1>1, <1>2, <2>2, <3>1, <3>2, <3>3 DEF Reserved
    <3>4. CASE k = c
      <4>1. PICK cidr : cidr = cidrs[c]
        OBVIOUS
      <4>. cidr \subseteq Notice(Left(k), r, 1) /\ Notice(Left(k), c, 1)' = {}
        <5>1. /\ 1 \in DOMAIN deleted /\ Head(deleted) = deleted[1]
              /\ Head(deleted) \in Notices(PodCIDRs)
          BY <1>0, SMTT(60), Z3T(60)
        <5>2. cidrs \in PodCIDRs
          <6>. ~Head(deleted).tombstone
            BY DEF DeleteFunc
          <6>. Head(deleted) # Tombstone
            BY SMTT(60), Z3T(60) DEF Tombstone
          <6>. QED
            BY <1>2, <5>1, Zenon DEF Notices
        <5>. Left(k)[cidrs][r] = cidrs[c] /\ Left(k)[cidrs][c] = {}
          <6>. r \in Nat /\ c > r /\ ~(c > c)
            BY <1>0, <1>2, <3>1, SMTT(60), Z3T(60)
          <6>. QED
            BY <2>1, <3>4, <5>2 DEF Left
        <5>. QED
          BY <1>2, <4>1, <5>1 DEF Notice
      <4>. Marked(Left(k), c, Worker, hand, used \ cidr)'
        BY <2>3, <3>1, <3>2, NoticeReleased, ZenonT(60)
      <4>. QED
        BY <1>1, <1>2, <2>2, <3>1, <3>2, <3>4, <4>1, ZenonT(60) DEF Reserved
    <3>. QED
      BY <3>3, <3>4
  <2>. QED
    BY <2>4, <2>5 DEF Claims
<1>3. CASE DeleteFuncDone /\ UNCHANGED cidrSets
  <2>. deleted' = Tail(deleted) /\ released' = 0
    BY <1>3 DEF DeleteFuncDone
  <2>2. ASSUME NEW k \in Pos, NEW r \in Nat, NEW hand
        PROVE  /\ Exclusive(Left(k), r, Worker, hand) => Exclusive(Left(k), 0, Worker, hand)'
               /\ \A used : Marked(Left(k), r, Worker, hand, used)
                              => Marked(Left(k), 0, Worker, hand, used)'
    BY <1>0, LeftCovers, WorkedOff
  <2>. \A k \in Pos : Claimed(k)'
    BY <1>0, <1>1, <2>2 DEF Claims, Claimed
  <2>. \A k \in Sets : Reserved(k)'
    BY <1>0, <1>1, <1>3, <2>2, SetsPos, Zenon DEF Claims, Reserved
  <2>. QED
    BY DEF Claims
<1>. QED
  BY <1>2, <1>3 DEF DeleteFunc

\* A worker takes a block that was free.
LEMMA AllocateClaims ==
    ASSUME TypeOK, Quiet, Claims, NEW a \in Worker, AllocateCIDR(a)
    PROVE  Claims'
<1>. DEFINE v  == worker[a]
            l  == Len(v.cidrs)
            pc == IF l + 1 = clusterCIDRs THEN "update" ELSE v.pc
<1>0. phase = "running"
  BY WorkerRuns DEF WorkerStep
<1>1. PICK c, b : c = l + 1 /\ b = Candidate(cidrSets[c])
  OBVIOUS
<1>. DEFINE cs == Append(v.cidrs, {b})
            r2 == [v EXCEPT !.cidrs = cs, !.pc = pc]
<1>2. c \in Sets /\ b \notin cidrSets[c].used
  BY <1>1, TakesFreeBlock
<1>3. v \in WorkerRecords(PodCIDRs) /\ v.cidrs \in Seq(SUBSET Nat) /\ v.pc = "allocate"
  BY WorkerFacts DEF AllocateCIDR
<1>4. Becomes(a, r2)
  BY <1>1, Zenon DEF AllocateCIDR, TypeOK, WorkerTypeOK, Becomes
<1>5. /\ cidrSets'[c].used = cidrSets[c].used \cup {b}
      /\ \A k \in Sets \ {c} : cidrSets'[k] = cidrSets[k]
  BY <1>1, <1>2, AllocateSet, ZenonT(60) DEF AllocateCIDR, TypeOK, SetsOK
<1>6. /\ DOMAIN v.cidrs = 1 .. l /\ l \in Nat
      /\ DOMAIN cs = 1 .. l + 1
      /\ cs[l + 1] = {b}
      /\ \A k \in 1 .. l : cs[k] = v.cidrs[k]
  BY <1>3, SMTT(60), Z3T(60)
<1>. HIDE DEF cs
<1>7. r2.cidrs = cs /\ r2.pc = pc
  BY <1>3 DEF WorkerRecords
<1>. HIDE DEF r2
<1>8. HandOf(r2, c) \subseteq {b}
  BY <1>1, <1>6, <1>7, SMTT(30) DEF HandOf
<1>9. \A k \in Pos \ {c} : HandOf(r2, k) \subseteq HandOf(v, k)
  BY <1>1, <1>3, <1>6, <1>7, SMTT(60), Z3T(60) DEF HandOf
<1>10. /\ UNCHANGED <<api, events, cache, deleted, released>> /\ phase' = phase
       /\ released \in Nat /\ released <= released /\ FeedTypeOK(PodCIDRs)
  BY SMTT(60), Z3T(60) DEF AllocateCIDR, apiVars, informerVars, TypeOK
<1>11. ASSUME NEW k \in Pos, NEW r, r = released, NEW hand, hand = Hands(worker, k),
              NEW hand2, hand2 = Hands(worker', k), k # c
       PROVE  Shrunk(Left(k), r, Worker, hand, r, hand2)
  <2>. \A w \in Worker : hand2[w] \subseteq hand[w]
    <3>. /\ Hands(worker, k)[a] = HandOf(v, k) /\ Hands(worker', k)[a] = HandOf(r2, k)
         /\ \A w \in Worker \ {a} : Hands(worker', k)[w] = Hands(worker, k)[w]
      BY <1>4, HandStep, SMTT(60), Z3T(60)
    <3>. QED
      BY <1>9, <1>11
  <2>. QED
    BY <1>10, <1>11, LeftCovers, Unmoved, ZenonT(60)
<1>12. ASSUME NEW r, r = released, NEW hand, hand = Hands(worker, c), NEW hand2, hand2 = Hands(worker', c),
              NEW used, used = cidrSets[c].used
       PROVE  /\ Exclusive(Left(c), r, Worker, hand2)'
              /\ Marked(Left(c), r, Worker, hand2, used \cup {b})'
  <2>1. Exclusive(Left(c), r, Worker, hand) /\ Marked(Left(c), r, Worker, hand, used)
    BY <1>0, <1>2, <1>12, SetsPos DEF Claims, Claimed, Reserved
  <2>. hand2[a] \subseteq hand[a] \cup {b} /\ \A w \in Worker \ {a} : hand2[w] \subseteq hand[w]
    <3>. /\ Hands(worker', c)[a] = HandOf(r2, c)
         /\ \A w \in Worker \ {a} : Hands(worker', c)[w] = Hands(worker, c)[w]
      BY <1>4, HandStep, SMTT(60), Z3T(60)
    <3>. QED
      BY <1>8, <1>12
  <2>. QED
    BY <1>2, <1>10, <1>12, <2>1, Grabbed, ZenonT(60)
<1>13. ASSUME NEW k \in Pos PROVE Claimed(k)'
  <2>. PICK r, hand, hand2, used : /\ r = released /\ hand = Hands(worker, k) /\ hand2 = Hands(worker', k)
                                   /\ used = cidrSets[k].used
    OBVIOUS
  <2>. Exclusive(Left(k), r, Worker, hand2)'
    <3>1. CASE k = c
      BY <1>12, <3>1, Zenon
    <3>2. CASE k # c
      <4>. Exclusive(Left(k), r, Worker, hand)
        BY DEF Claims, Claimed
      <4>. QED
        BY <1>11, <3>2, ShrunkClaims
    <3>. QED
      BY <3>1, <3>2
  <2>. QED
    BY <1>10 DEF Claimed
<1>14. ASSUME NEW k \in Sets PROVE Reserved(k)'
  <2>. PICK r, hand, hand2, used : /\ r = released /\ hand = Hands(worker, k) /\ hand2 = Hands(worker', k)
                                   /\ used = cidrSets[k].used
    OBVIOUS
  <2>2. CASE k = c
    <3>. Marked(Left(k), r, Worker, hand2, used \cup {b})'
      BY <1>12, <2>2, ZenonT(60)
    <3>. QED
      BY <1>5, <1>10, <2>2 DEF Reserved
  <2>3. CASE k # c
    <3>. Marked(Left(k), r, Worker, hand, used) /\ k \in Pos
      BY <1>0, SetsPos DEF Claims, Reserved
    <3>. Marked(Left(k), r, Worker, hand2, used)'
      BY <1>11, <2>3, ShrunkClaims, Zenon
    <3>. QED
      BY <1>5, <1>10, <2>3 DEF Reserved
  <2>. QED
    BY <2>2, <2>3
<1>. QED
  BY <1>13, <1>14 DEF Claims

\* A PATCH turns what the worker has in hand into what the node holds.
LEMMA PatchKeepsClaims ==
    ASSUME NoFaults, TypeOK, Quiet, FeedCalm(PodCIDRs), Chain, Claims,
           NEW a \in Worker, PatchNodeCIDRs(a)
    PROVE  Claims'
<1>0. /\ phase = "running" /\ phase' = phase /\ released' = released /\ released \in Nat
      /\ UNCHANGED <<cache, deleted, cidrSets>>
      /\ ~Finalizers /\ Admits(PodCIDRs) /\ FeedTypeOK(PodCIDRs)
  BY WorkerRuns, PodCIDRsAdmit, Zenon DEF WorkerStep, PatchNodeCIDRs, TypeOK, NoFaults
<1>1. PICK x, cidrs : x = worker[a].node /\ cidrs = worker[a].cidrs
  OBVIOUS
<1>2. /\ x \in Node /\ cidrs \in PodCIDRs /\ worker[a].pc = "patch"
      /\ Accepts(x, cidrs) /\ ApplyPatch(x, cidrs)
  BY <1>1, WorkerFacts, ZenonT(60) DEF PatchNodeCIDRs
<1>3. Becomes(a, Idle)
  BY DEF PatchNodeCIDRs, Return, Becomes
<1>4. ASSUME NEW k \in Pos, NEW hand, hand = Hands(worker, k), NEW hand2, hand2 = Hands(worker', k),
             NEW r \in Nat
      PROVE  /\ Exclusive(Left(k), r, Worker, hand) => Exclusive(Left(k), r, Worker, hand2)'
             /\ \A used : Marked(Left(k), r, Worker, hand, used)
                            => Marked(Left(k), r, Worker, hand2, used)'
  <2>1. /\ Hands(worker, k)[a] = HandOf(worker[a], k) /\ Hands(worker', k)[a] = HandOf(Idle, k)
        /\ \A w \in Worker \ {a} : Hands(worker', k)[w] = Hands(worker, k)[w]
    BY <1>3, HandStep, SMTT(60), Z3T(60)
  <2>2. HandOf(Idle, k) = {}
    BY DEF HandOf, Idle
  <2>3. Left(k)[cidrs][0] \subseteq HandOf(worker[a], k)
    BY <1>1, <1>2 DEF Left, HandOf
  <2>. /\ Left(k)[cidrs][0] \subseteq hand[a] /\ hand2[a] = {}
       /\ \A w \in Worker \ {a} : hand2[w] \subseteq hand[w]
    BY <1>4, <2>1, <2>2, <2>3
  <2>. Covers(PodCIDRs, Left(k))
    BY LeftCovers
  <2>. QED
    BY <1>0, <1>2, PatchClaims, ZenonT(60)
<1>5. ASSUME NEW k \in Pos PROVE Claimed(k)'
  BY <1>0, <1>4 DEF Claims, Claimed
<1>6. ASSUME NEW k \in Sets PROVE Reserved(k)'
  BY <1>0, <1>4, SetsPos DEF Claims, Reserved
<1>. QED
  BY <1>5, <1>6 DEF Claims

\* A worker gives back one of the blocks it has in hand, or is done.
LEMMA GiveBackClaims ==
    ASSUME TypeOK, Quiet, Claims, NEW a \in Worker, GiveBack(a)
    PROVE  Claims'
<1>. DEFINE v == worker[a]
<1>0. /\ phase = "running" /\ phase' = phase /\ v.pc = "giveback"
      /\ UNCHANGED <<apiVars, informerVars, deleted, released>>
      /\ WorkerStep(a)
  BY WorkerRuns DEF WorkerStep, GiveBack
<1>1. v \in WorkerRecords(PodCIDRs) /\ v.done \in Nat /\ DOMAIN v.cidrs = Sets
  BY <1>0, WorkerFacts, ZenonT(60)
<1>2. ASSUME NEW c, c = v.done + 1, c \in DOMAIN v.cidrs,
             cidrSets' = [cidrSets EXCEPT ![c] = Release(@, v.cidrs[c])],
             worker' = [worker EXCEPT ![a].done = c]
      PROVE  Claims'
  <2>. DEFINE v2 == [v EXCEPT !.done = c]
  <2>1. Becomes(a, v2)
    BY <1>2 DEF Becomes
  <2>2. v2.cidrs = v.cidrs /\ v2.pc = v.pc /\ v2.done = c
    BY <1>1 DEF WorkerRecords
  <2>. HIDE DEF v2
  <2>3. c \in Sets /\ c \in Pos
    BY <1>1, <1>2, SMTT(60), Z3T(60) DEF Pos
  <2>4. /\ \A k \in Pos : HandOf(v2, k) \subseteq HandOf(v, k)
        /\ HandOf(v2, c) = {} /\ HandOf(v, c) = v.cidrs[c]
    <3>. (\A k \in Pos : k > c => k > v.done) /\ c > v.done /\ ~(c > c)
      BY <1>1, <1>2, SMTT(60), Z3T(60) DEF Pos
    <3>. QED
      BY <1>0, <1>2, <2>2, SMTT(30) DEF HandOf
  <2>5. /\ cidrSets'[c].used = cidrSets[c].used \ v.cidrs[c]
        /\ \A k \in Sets \ {c} : cidrSets'[k] = cidrSets[k]
    <3>. SetsOK
      BY DEF TypeOK, SetsOK
    <3>. QED
      BY <1>2, <2>3, ReleaseSet, Zenon
  <2>6. ASSUME NEW k \in Pos, NEW r, r = released, NEW hand, hand = Hands(worker, k),
               NEW hand2, hand2 = Hands(worker', k)
        PROVE  /\ Exclusive(Left(k), r, Worker, hand)
               /\ Shrunk(Left(k), r, Worker, hand, r, hand2)
               /\ Exclusive(Left(k), r, Worker, hand2)'
               /\ hand[a] = HandOf(v, k) /\ hand2[a] = HandOf(v2, k)
    <3>1. /\ Hands(worker, k)[a] = HandOf(v, k) /\ Hands(worker', k)[a] = HandOf(v2, k)
          /\ \A w \in Worker \ {a} : Hands(worker', k)[w] = Hands(worker, k)[w]
      BY <2>1, HandStep
    <3>2. \A w \in Worker : hand2[w] \subseteq hand[w]
      BY <2>4, <2>6, <3>1, ZenonT(60)
    <3>3. /\ UNCHANGED <<api, events, cache, deleted>> /\ r \in Nat /\ r <= r
          /\ FeedTypeOK(PodCIDRs)
      BY <1>0, <2>6, SMTT(60), Z3T(60) DEF apiVars, informerVars, TypeOK
    <3>. Shrunk(Left(k), r, Worker, hand, r, hand2)
      BY <3>2, <3>3, LeftCovers, Unmoved, ZenonT(60)
    <3>. Exclusive(Left(k), r, Worker, hand)
      BY <2>6 DEF Claims, Claimed
    <3>. QED
      BY <2>6, <3>1, ShrunkClaims, ZenonT(60)
  <2>7. ASSUME NEW k \in Pos PROVE Claimed(k)'
    BY <1>0, <2>6, ZenonT(60) DEF Claimed
  <2>8. ASSUME NEW k \in Sets PROVE Reserved(k)'
    <3>. PICK r, hand, hand2, used : /\ r = released /\ used = cidrSets[k].used
                                     /\ hand = Hands(worker, k) /\ hand2 = Hands(worker', k)
      OBVIOUS
    <3>2. k \in Pos /\ Marked(Left(k), r, Worker, hand, used)
      BY <1>0, SetsPos DEF Claims, Reserved
    <3>3. CASE k # c
      <4>. Marked(Left(k), r, Worker, hand2, used)'
        BY <2>6, <3>2, ShrunkClaims, ZenonT(60)
      <4>. QED
        BY <1>0, <2>5, <3>3 DEF Reserved
    <3>4. CASE k = c
      <4>. PICK cidr : cidr = v.cidrs[c]
        OBVIOUS
      <4>. cidr \subseteq hand[a] /\ hand2[a] \cap cidr = {}
        BY <2>4, <2>6, <3>2, <3>4, ZenonT(60)
      <4>. Marked(Left(k), r, Worker, hand2, used \ cidr)'
        BY <2>6, <3>2, HandReleased, Zenon
      <4>. QED
        BY <1>0, <2>5, <3>4, Zenon DEF Reserved
    <3>. QED
      BY <3>3, <3>4
  <2>. QED
    BY <2>7, <2>8 DEF Claims
<1>3. ASSUME NEW failed, Return(a, failed), UNCHANGED cidrSets PROVE Claims'
  <2>. Becomes(a, Idle) /\ \A k \in Pos : HandOf(Idle, k) = {}
    BY <1>3 DEF Return, HandOf, Idle, Becomes
  <2>. QED
    BY <1>0, <1>3, HandShrinks, ZenonT(60)
<1>. QED
  BY <1>2, <1>3 DEF GiveBack

\* Every step of a worker.
LEMMA WorkerClaims ==
    ASSUME NoFaults, TypeOK, Quiet, FeedCalm(PodCIDRs), NoRelease, Chain, Claims,
           NEW a \in Worker, WorkerStep(a)
    PROVE  Claims'
<1>. DEFINE v == worker[a]
<1>0. v \in WorkerRecords(PodCIDRs) /\ v.pc # "release" /\ v.done \in Nat
  BY WorkerFacts DEF NoRelease
<1>1. ASSUME NEW r, Becomes(a, r),
             \A k \in Pos : HandOf(r, k) \subseteq HandOf(v, k),
             UNCHANGED <<apiVars, phase, informerVars, deleted, released, cidrSets>>
      PROVE  Claims'
  BY <1>1, HandShrinks
<1>2. \A k \in Pos : HandOf(Idle, k) = {}
  BY DEF HandOf, Idle
<1>3. ASSUME NEW failed, Return(a, failed),
             UNCHANGED <<apiVars, phase, informerVars, deleted, released, cidrSets>>
      PROVE  Claims'
  BY <1>1, <1>2, <1>3, Zenon DEF Return, Becomes
<1>4. CASE OccupyCIDRs(a)
  <2>1. v.pc = "occupy"
    BY <1>4 DEF OccupyCIDRs, WalkCIDRs
  <2>2. ASSUME NEW c, c = v.done + 1, InCluster(v.cidrs, c),
               cidrSets' = [cidrSets EXCEPT ![c] = Occupy(@, v.cidrs[c])],
               worker' = [worker EXCEPT ![a].done = c],
               UNCHANGED <<apiVars, phase, informerVars, deleted, released>>
        PROVE  Claims'
    <3>. DEFINE r == [v EXCEPT !.done = c]
    <3>1. c \in Sets /\ v.cidrs[c] \in SUBSET Blocks(maxCIDRs[c])
      BY <2>2, WorkerFacts DEF InCluster
    <3>2. SetsOK
      BY DEF TypeOK, SetsOK
    <3>3. \A k \in Sets : cidrSets[k].used \subseteq cidrSets'[k].used
      <4>. /\ cidrSets'[c].used = cidrSets[c].used \cup v.cidrs[c]
           /\ \A k \in Sets \ {c} : cidrSets'[k] = cidrSets[k]
        BY <2>2, <3>1, <3>2, OccupySet, ZenonT(30)
      <4>. QED
        BY SMTT(30)
    <3>. Becomes(a, r) /\ r.pc = "occupy"
      BY <1>0, <2>1, <2>2 DEF WorkerRecords, Becomes
    <3>. HIDE DEF r
    <3>. \A k \in Pos : HandOf(r, k) = {}
      BY DEF HandOf
    <3>. QED
      BY <1>4, <2>2, <3>3, HandShrinks DEF WorkerStep
  <2>. QED
    BY <1>3, <1>4, <2>2, ZenonT(30) DEF OccupyCIDRs, WalkCIDRs
<1>5. CASE CIDRNotAvailable(a)
  BY <1>3, <1>5, Zenon DEF CIDRNotAvailable
<1>6. CASE UpdateCIDRsAllocation(a)
  <2>1. ASSUME NEW pc \in {"patch", "giveback"}, worker' = [worker EXCEPT ![a].pc = pc]
        PROVE  Claims'
    <3>. DEFINE r == [v EXCEPT !.pc = pc]
    <3>. Becomes(a, r) /\ r.pc = pc /\ r.cidrs = v.cidrs /\ v.pc = "update"
      BY <1>0, <1>6, <2>1 DEF WorkerRecords, UpdateCIDRsAllocation, Becomes
    <3>. HIDE DEF r
    <3>. \A k \in Pos : HandOf(r, k) \subseteq HandOf(v, k)
      BY DEF HandOf
    <3>. QED
      BY <1>1, <1>6 DEF UpdateCIDRsAllocation
  <2>. QED
    BY <1>3, <1>6, <2>1, ZenonT(60) DEF UpdateCIDRsAllocation
<1>7. CASE PatchFails(a)
  <2>. DEFINE attempts == v.done + 1
              r == [v EXCEPT !.done = attempts]
              s == [v EXCEPT !.pc = "giveback", !.done = 0, !.requeue = TRUE]
  <2>1. Becomes(a, r) \/ Becomes(a, s)
    BY <1>7, Zenon DEF PatchFails, AfterFailedPatch, Becomes
  <2>2. r.pc = v.pc /\ r.cidrs = v.cidrs /\ s.pc = "giveback" /\ s.cidrs = v.cidrs /\ s.done = 0
    BY <1>0 DEF WorkerRecords
  <2>. v.pc = "patch"
    BY <1>7 DEF PatchFails
  <2>. HIDE DEF r, s
  <2>3. \A k : HandOf(v, k) = IF k \in DOMAIN v.cidrs THEN v.cidrs[k] ELSE {}
    BY Zenon DEF HandOf
  <2>4. \A k : HandOf(r, k) \subseteq HandOf(v, k)
    BY <2>2, <2>3, Zenon DEF HandOf
  <2>5. \A k : HandOf(s, k) \subseteq HandOf(v, k)
    BY <2>2, <2>3, Zenon DEF HandOf
  <2>. QED
    BY <1>1, <1>7, <2>1, <2>4, <2>5, ZenonT(60) DEF PatchFails
<1>8. ASSUME NEW n \in Node, SyncNode(a, n) PROVE Claims'
  <2>. DEFINE r(pc) == [Idle EXCEPT !.pc = pc, !.node = n, !.cidrs = cache[n].podCIDRs]
  <2>1. ~cache[n].deleting
    BY DEF FeedCalm, Calm
  <2>2. \/ Becomes(a, Idle)
        \/ Becomes(a, r("occupy"))
        \/ cache[n].podCIDRs = <<>> /\ Becomes(a, r("allocate"))
    BY <1>8, <2>1, Zenon DEF SyncNode, Becomes
  <2>. /\ r("occupy").pc = "occupy" /\ r("allocate").pc = "allocate"
       /\ r("allocate").cidrs = cache[n].podCIDRs
    BY DEF Idle
  <2>. HIDE DEF r
  <2>. \A k \in Pos : HandOf(r("occupy"), k) = {}
    BY DEF HandOf
  <2>. cache[n].podCIDRs = <<>> => \A k \in Pos : HandOf(r("allocate"), k) = {}
    BY SMTT(60), Z3T(60) DEF HandOf
  <2>. QED
    BY <1>1, <1>2, <1>8, <2>2 DEF SyncNode
<1>. ~ReleaseCIDR(a) /\ ~PatchTimesOut(a)
  BY <1>0, ZenonT(60) DEF ReleaseCIDR, WalkCIDRs, PatchTimesOut, NoFaults
<1>. QED
  BY <1>4, <1>5, <1>6, <1>7, <1>8, AllocateClaims, PatchKeepsClaims, GiveBackClaims
     DEF WorkerStep

----------------------------------------------------------------------------
(* The invariant.                                                          *)

\* Without finalizers a sync never releases.
LEMMA NoReleaseStep ==
    ASSUME TypeOK, FeedCalm(PodCIDRs), NoRelease, [Next]_vars
    PROVE  NoRelease'
<1>1. ASSUME UNCHANGED worker PROVE NoRelease'
  BY <1>1 DEF NoRelease
<1>2. ASSUME Stop PROVE NoRelease'
  BY <1>2 DEF Stop, NoRelease, Idle
<1>3. ASSUME NEW w \in Worker, WorkerStep(w) PROVE NoRelease'
  <2>0. worker \in [Worker -> WorkerRecords(PodCIDRs)] /\ worker[w] \in WorkerRecords(PodCIDRs)
    BY DEF TypeOK, WorkerTypeOK
  <2>1. ASSUME NEW r, Becomes(w, r), r.pc # "release" PROVE NoRelease'
    BY <2>0, <2>1 DEF NoRelease, Becomes
  <2>2. ASSUME NEW failed, Return(w, failed) PROVE NoRelease'
    <3>. Idle.pc # "release"
      BY DEF Idle
    <3>. QED
      BY <2>1, <2>2, ZenonT(60) DEF Return, Becomes
  <2>3. worker[w].pc # "release"
    BY DEF NoRelease
  <2>4. ASSUME NEW d, worker' = [worker EXCEPT ![w].done = d] PROVE NoRelease'
    <3>. [worker[w] EXCEPT !.done = d].pc = worker[w].pc
      BY <2>0 DEF WorkerRecords
    <3>. QED
      BY <2>1, <2>3, <2>4, Zenon DEF Becomes
  <2>5. ASSUME NEW pc \in {"update", "patch", "giveback"}, worker' = [worker EXCEPT ![w].pc = pc]
        PROVE  NoRelease'
    <3>. [worker[w] EXCEPT !.pc = pc].pc = pc
      BY <2>0 DEF WorkerRecords
    <3>. QED
      BY <2>1, <2>5, Zenon DEF Becomes
  <2>6. CASE OccupyCIDRs(w) \/ ReleaseCIDR(w) \/ GiveBack(w)
    BY <2>2, <2>4, <2>6, ZenonT(60) DEF OccupyCIDRs, ReleaseCIDR, WalkCIDRs, GiveBack
  <2>8. CASE AllocateCIDR(w)
    <3>. DEFINE k  == Len(worker[w].cidrs) + 1
                cs == Append(worker[w].cidrs, {Candidate(cidrSets[k])})
                pc == IF k = clusterCIDRs THEN "update" ELSE worker[w].pc
                r  == [worker[w] EXCEPT !.cidrs = cs, !.pc = pc]
    <3>1. Becomes(w, r)
      BY <2>0, <2>8, ZenonT(60) DEF AllocateCIDR, Becomes
    <3>. pc # "release"
      BY <2>3
    <3>. HIDE DEF cs, pc
    <3>. r.pc = pc
      BY <2>0 DEF WorkerRecords
    <3>. HIDE DEF r
    <3>. QED
      BY <2>1, <3>1
  <2>9. CASE CIDRNotAvailable(w) \/ UpdateCIDRsAllocation(w) \/ PatchNodeCIDRs(w)
    BY <2>2, <2>5, <2>9, ZenonT(60) DEF CIDRNotAvailable, UpdateCIDRsAllocation, PatchNodeCIDRs
  <2>12. CASE PatchFails(w) \/ PatchTimesOut(w)
    <3>. DEFINE attempts == worker[w].done + 1
                r == [worker[w] EXCEPT !.done = attempts]
                s == [worker[w] EXCEPT !.pc = "giveback", !.done = 0, !.requeue = TRUE]
    <3>. Becomes(w, r) \/ Becomes(w, s)
      BY <2>12 DEF PatchFails, PatchTimesOut, AfterFailedPatch, Becomes
    <3>. r.pc = worker[w].pc /\ s.pc = "giveback"
      BY <2>0 DEF WorkerRecords
    <3>. HIDE DEF r, s
    <3>. QED
      BY <2>1, <2>3
  <2>15. ASSUME NEW n \in Node, SyncNode(w, n) PROVE NoRelease'
    <3>. DEFINE r(pc) == [Idle EXCEPT !.pc = pc, !.node = n, !.cidrs = cache[n].podCIDRs]
    <3>1. ~cache[n].deleting
      BY DEF FeedCalm, Calm
    <3>. \/ Becomes(w, Idle)
         \/ Becomes(w, r("occupy"))
         \/ Becomes(w, r("allocate"))
      BY <2>15, <3>1, Zenon DEF SyncNode, Becomes
    <3>. Idle.pc = "idle" /\ r("occupy").pc = "occupy" /\ r("allocate").pc = "allocate"
      BY DEF Idle
    <3>. HIDE DEF r
    <3>. QED
      BY <2>1
  <2>. QED
    BY <1>3, <2>6, <2>8, <2>9, <2>12, <2>15 DEF WorkerStep
<1>. QED
  BY <1>1, <1>2, <1>3 DEF Next, vars, Start, Crash, DeleteFunc, DeleteFuncPanics

\* Objects and chain: a worker changes them by a PATCH alone.
LEMMA CalmStep ==
    ASSUME NoFaults, TypeOK, Quiet, FeedCalm(PodCIDRs), Chain, [Next]_vars
    PROVE  FeedCalm(PodCIDRs)' /\ Chain'
<1>0. ~Finalizers /\ Admits(PodCIDRs) /\ FeedTypeOK(PodCIDRs) /\ FeedQuiet
  BY PodCIDRsAdmit DEF NoFaults, TypeOK, Quiet
<1>1. ASSUME UNCHANGED <<api, inflight, events, cache>>, phase' = phase \/ phase' # "running"
      PROVE  FeedCalm(PodCIDRs)' /\ Chain'
  BY <1>1 DEF FeedCalm, Chain, LastSeen
<1>2. CASE Start \/ DeleteFunc \/ UNCHANGED vars
  BY <1>1, <1>2, ZenonT(60) DEF Start, DeleteFunc, apiVars, informerVars, vars, feedVars
<1>3. ASSUME Stop PROVE FeedCalm(PodCIDRs)' /\ Chain'
  <2>. FeedCalm(PodCIDRs)'
    BY <1>0, <1>3, DieCalm DEF Stop
  <2>. QED
    BY <1>3 DEF Stop, Die, Chain
<1>4. ASSUME NEW w \in Worker, WorkerStep(w), ~PatchNodeCIDRs(w)
      PROVE  FeedCalm(PodCIDRs)' /\ Chain'
  BY <1>1, <1>4, ZenonT(60)
     DEF WorkerStep, OccupyCIDRs, ReleaseCIDR, WalkCIDRs, AllocateCIDR, CIDRNotAvailable,
         UpdateCIDRsAllocation, PatchFails, PatchTimesOut, GiveBack, SyncNode, NoFaults,
         apiVars, informerVars
<1>5. ASSUME NEW w \in Worker, PatchNodeCIDRs(w)
      PROVE  FeedCalm(PodCIDRs)' /\ Chain'
  <2>. PICK n \in Node, cidrs \in PodCIDRs : Accepts(n, cidrs) /\ ApplyPatch(n, cidrs)
    <3>. worker[w].node \in Node /\ worker[w].cidrs \in PodCIDRs
      BY <1>5, WorkerFacts, Zenon DEF PatchNodeCIDRs
    <3>. QED
      BY <1>5, ZenonT(60) DEF PatchNodeCIDRs
  <2>. UNCHANGED <<inflight, phase, cache>>
    BY <1>5, Zenon DEF PatchNodeCIDRs
  <2>. api' \in [Node -> Calm(PodCIDRs)] /\ events' \in [Node -> Seq(Calm(PodCIDRs))]
    BY PatchCalm
  <2>. Chain'
    BY <1>0, PatchChain
  <2>. QED
    BY DEF FeedCalm
<1>6. CASE FeedStep
  BY <1>0, <1>6, FeedCalmStep, FeedChain
<1>. QED
  BY <1>2, <1>3, <1>4, <1>5, <1>6 DEF Next, Crash, DeleteFuncPanics

IInv == Quiet /\ FeedCalm(PodCIDRs) /\ NoRelease /\ Chain /\ Claims

LEMMA InitInvariant == TypeOK /\ Init => IInv
<1>. SUFFICES ASSUME TypeOK, Init PROVE IInv
  OBVIOUS
<1>1. Quiet /\ Chain /\ phase = "down"
  BY DEF Init, FeedInit, Quiet, FeedQuiet, Chain
<1>2. FeedCalm(PodCIDRs)
  BY PodCIDRsAdmit, AllocatorAssumption, FeedInitCalm, ZenonT(60) DEF Init
<1>3. NoRelease
  BY DEF Init, NoRelease, Idle
<1>4. ASSUME NEW k \in Pos PROVE Claimed(k)
  <2>1. PICK r, hand : r = released /\ hand = Hands(worker, k)
    OBVIOUS
  <2>2. \A m, n \in Node : m # n => Holds(Left(k), m) \cap Holds(Left(k), n) = {}
    <3>. \A m, n \in Node : m # n => Held(m, k) \cap Held(n, k) = {}
      BY ZenonT(60) DEF Init, Disjoint, Held
    <3>. \A n \in Node : Holds(Left(k), n) = Held(n, k)
      BY HeldIsHeld
    <3>. QED
      OBVIOUS
  <2>. \A w \in Worker : hand[w] = {}
    BY <2>1 DEF Init, Hands, HandOf, Idle
  <2>. Exclusive(Left(k), r, Worker, hand)
    BY <1>1, <2>2, QuietClaims, Zenon DEF Quiet
  <2>. QED
    BY <2>1 DEF Claimed
<1>. QED
  BY <1>1, <1>2, <1>3, <1>4 DEF IInv, Claims

LEMMA InvariantStep ==
    ASSUME NoFaults, TypeOK, IInv, [Next]_vars
    PROVE  IInv'
<1>0. Quiet /\ FeedCalm(PodCIDRs) /\ NoRelease /\ Chain /\ Claims
  BY DEF IInv
<1>1. Quiet' /\ FeedCalm(PodCIDRs)' /\ NoRelease' /\ Chain'
  BY <1>0, QuietStep, CalmStep, NoReleaseStep
<1>2. CASE UNCHANGED vars
  <2>1. ASSUME NEW k \in Pos, NEW r, NEW r2, NEW hand, NEW hand2,
               r = released, r2 = released', hand = Hands(worker, k), hand2 = Hands(worker', k)
        PROVE  Shrunk(Left(k), r, Worker, hand, r2, hand2)
    BY <1>2, <2>1 DEF Shrunk, Holds, Doomed, Before, Notice, vars, feedVars
  <2>. Claims'
    BY <1>0, <1>2, <2>1, ShrinkingStep, ZenonT(60) DEF vars, feedVars
  <2>. QED
    BY <1>1 DEF IInv
<1>3. CASE Next
  <2>. Claims'
    BY <1>0, <1>3, StartClaims, StopClaims, DeleteFuncClaims, WorkerClaims, FeedKeepsClaims
       DEF Next, Crash, DeleteFuncPanics
  <2>. QED
    BY <1>1 DEF IInv
<1>. QED
  BY <1>2, <1>3

\* IInv is an invariant of every process without finalizers and lost replies.
THEOREM Invariance ==
    ASSUME NoFaults
    PROVE  Spec => [](TypeOK /\ IInv)
<1>. Init => (TypeOK => IInv)
  BY InitInvariant
<1>. TypeOK /\ IInv /\ [Next]_vars => IInv'
  BY InvariantStep
<1>. QED
  BY TypeCorrect, PTL DEF Spec

\* No two nodes ever hold overlapping pod CIDRs: whatever the interleaving of
\* workers with stale node objects, of DeleteFunc, of failed PATCH requests and of
\* restarts in range_allocator.go, a block has at most one claim.
THEOREM PodCIDRsUnique ==
    ASSUME NoFaults
    PROVE  Spec => []UniquePodCIDRs
<1>. TypeOK /\ IInv => UniquePodCIDRs
  <2>. SUFFICES ASSUME TypeOK, IInv, NEW m \in Node, NEW n \in Node, m # n,
                       NEW k \in DOMAIN api[m].podCIDRs \cap DOMAIN api[n].podCIDRs
                PROVE  api[m].podCIDRs[k] \cap api[n].podCIDRs[k] = {}
    BY DEF UniquePodCIDRs, Disjoint
  <2>1. api[m].podCIDRs \in Seq(SUBSET Nat)
    BY DEF TypeOK, FeedTypeOK, Objects, PodCIDRs
  <2>. k \in Pos
    BY <2>1, SMTT(60), Z3T(60) DEF Pos
  <2>. Holds(Left(k), m) \cap Holds(Left(k), n) = {}
    BY Zenon DEF IInv, Claims, Claimed, Exclusive
  <2>. Held(m, k) \cap Held(n, k) = {}
    BY HeldIsHeld
  <2>. QED
    BY DEF Held
<1>. QED
  BY Invariance, PTL

\* Every block a node holds stays marked in the bitmaps of range_allocator.go while
\* the process is up, so AllocateNext never offers it to another node.
THEOREM HeldStaysReserved ==
    ASSUME NoFaults
    PROVE  Spec => []HeldReserved
<1>. TypeOK /\ IInv => HeldReserved
  <2>. SUFFICES ASSUME TypeOK, IInv, phase # "down", NEW n \in Node, NEW k \in Sets
                PROVE  Held(n, k) \subseteq cidrSets[k].used
    BY DEF HeldReserved
  <2>. Holds(Left(k), n) \subseteq cidrSets[k].used
    BY ZenonT(60) DEF IInv, Claims, Reserved, Marked
  <2>. QED
    BY SetsPos, HeldIsHeld
<1>. QED
  BY Invariance, PTL

\* Between AllocateNext and the PATCH, a worker's blocks are marked and belong to no
\* other worker and to no node.
THEOREM HandsStayExclusive ==
    ASSUME NoFaults
    PROVE  Spec => []HandsExclusive
<1>. TypeOK /\ IInv => HandsExclusive
  <2>. SUFFICES ASSUME TypeOK, IInv, NEW w \in Worker, NEW k \in Sets
                PROVE  /\ InHand(w, k) \subseteq cidrSets[k].used
                       /\ \A v \in Worker \ {w} : InHand(w, k) \cap InHand(v, k) = {}
                       /\ \A n \in Node : InHand(w, k) \cap Held(n, k) = {}
    BY DEF HandsExclusive
  <2>1. k \in Pos
    BY SetsPos
  <2>2. PICK r, hand : r = released /\ hand = Hands(worker, k)
    OBVIOUS
  <2>3. \A v \in Worker : hand[v] = InHand(v, k)
    BY <2>2 DEF Hands, HandOf, InHand
  <2>4. Exclusive(Left(k), r, Worker, hand)
    BY <2>1, <2>2 DEF IInv, Claims, Claimed
  <2>5. \A n \in Node : Holds(Left(k), n) = Held(n, k)
    BY <2>1, HeldIsHeld
  <2>. InHand(w, k) \subseteq cidrSets[k].used
    <3>1. CASE phase = "running"
      <4>. Marked(Left(k), r, Worker, hand, cidrSets[k].used)
        BY <2>2, <3>1 DEF IInv, Claims, Reserved
      <4>. QED
        BY <2>3, ZenonT(60) DEF Marked
    <3>2. CASE phase # "running"
      <4>. worker[w] = Idle
        BY <3>2, Zenon DEF IInv, Quiet
      <4>. QED
        BY SMTT(60), Z3T(60) DEF InHand, Idle
    <3>. QED
      BY <3>1, <3>2
  <2>6. \A v \in Worker \ {w} : hand[w] \cap hand[v] = {}
    BY <2>4, Zenon DEF Exclusive
  <2>7. \A n \in Node : Holds(Left(k), n) \cap hand[w] = {}
    BY <2>4, Zenon DEF Exclusive
  <2>. QED
    BY <2>3, <2>5, <2>6, <2>7
<1>. QED
  BY Invariance, PTL
=============================================================================
