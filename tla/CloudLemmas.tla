---------------------------- MODULE CloudLemmas ----------------------------
(***************************************************************************)
(* What the steps of the cloud allocator do to the map of sets, to the     *)
(* records of the workers and of the constructor, and to the blocks that   *)
(* each of them, each node and each notice of a deleted node stands for.   *)
(*                                                                         *)
(* The types are a hypothesis here; CloudAllocatorProofs establishes them. *)
(***************************************************************************)
EXTENDS CloudAllocator, FeedLemmas

Actor == Worker \cup {Main}

----------------------------------------------------------------------------
(* The map of sets.                                                        *)

SetsOK(sets) ==
    /\ DOMAIN sets \subseteq Subnets
    /\ \A s \in DOMAIN sets : WellFormed(sets[s], maxCIDRs[s])

\* Every set of the map is a record of its type.
Records(sets) ==
    /\ DOMAIN sets \subseteq Subnets
    /\ \A s \in DOMAIN sets : sets[s] \in CidrSets(maxCIDRs[s])

\* No set goes away, and no bit is cleared.
Grows(sets, sets2) ==
    /\ DOMAIN sets \subseteq DOMAIN sets2
    /\ \A s \in DOMAIN sets : sets[s].used \subseteq sets2[s].used

\* The scan of AllocateNext ends on a free block.
Finds ==
    \A s \in Known : ~NoCIDRsRemaining(cidrSets[s]) =>
        Candidate(cidrSets[s]) \in Blocks(maxCIDRs[s]) \ cidrSets[s].used

LEMMA NatReflexive == \A r \in Nat : r <= r
  BY SMTT(60), Z3T(60)

LEMMA NextNumber ==
    ASSUME NEW n \in Nat
    PROVE  \E k : k = n + 1 /\ k \in Nat /\ k > 0 /\ n <= k
  OBVIOUS

\* The entries of a list of CIDRs are CIDRs.
LEMMA EntryTyped ==
    ASSUME NEW cidrs \in PodCIDRs
    PROVE  /\ \A k \in DOMAIN cidrs : cidrs[k] \in CIDRs
           /\ \A k \in Nat : k > 0 => (k \in DOMAIN cidrs <=> k <= Len(cidrs))
           /\ \A k \in Nat : k > Len(cidrs) => k \notin DOMAIN cidrs
  BY DEF PodCIDRs

LEMMA HeadTyped ==
    ASSUME NEW S, NEW q \in Seq(S), q # <<>>
    PROVE  1 \in DOMAIN q /\ Head(q) = q[1] /\ Head(q) \in S
  OBVIOUS

LEMMA MaxCIDRs == \A s \in Subnets : maxCIDRs[s] \in Nat \ {0}
  BY CloudAssumption

LEMMA RecordsOK ==
    ASSUME NEW sets, SetsOK(sets)
    PROVE  Records(sets)
  BY DEF SetsOK, Records, WellFormed

LEMMA UsedBits ==
    ASSUME NEW max, NEW set \in CidrSets(max), NEW blocks
    PROVE  /\ Occupy(set, blocks).used = set.used \cup blocks
           /\ Release(set, blocks).used = set.used \ blocks
           /\ AllocateNext(set).used = set.used \cup {Candidate(set)}
  BY DEF CidrSets, Occupy, Release, AllocateNext

\* A call changes one set.
Puts(sets, s, v, sets2) == sets2 = [sets EXCEPT ![s] = v]

LEMMA OneSet ==
    ASSUME NEW sets, NEW s \in DOMAIN sets, NEW v, NEW sets2, Puts(sets, s, v, sets2)
    PROVE  /\ DOMAIN sets2 = DOMAIN sets
           /\ sets2[s] = v
           /\ \A t \in DOMAIN sets \ {s} : sets2[t] = sets[t]
  BY DEF Puts

\* occupyCIDR marks the blocks of the CIDR in the set that contains it.
LEMMA OccupySets ==
    ASSUME Records(cidrSets), NEW cidr
    PROVE  /\ DOMAIN OccupyCIDR(cidr) = Known
           /\ \A s \in Known : OccupyCIDR(cidr)[s].used =
                IF s = cidr.subnet THEN cidrSets[s].used \cup cidr.blocks ELSE cidrSets[s].used
           /\ Grows(cidrSets, OccupyCIDR(cidr))
<1>1. CASE cidr.subnet \in Known
  <2>. PICK s, v : s = cidr.subnet /\ v = Occupy(cidrSets[s], cidr.blocks)
    OBVIOUS
  <2>. s \in DOMAIN cidrSets /\ v.used = cidrSets[s].used \cup cidr.blocks
    BY <1>1, UsedBits DEF Known, Records
  <2>. Puts(cidrSets, s, v, OccupyCIDR(cidr))
    BY <1>1 DEF OccupyCIDR, Puts
  <2>. /\ DOMAIN OccupyCIDR(cidr) = DOMAIN cidrSets
       /\ OccupyCIDR(cidr)[s] = v
       /\ \A t \in DOMAIN cidrSets \ {s} : OccupyCIDR(cidr)[t] = cidrSets[t]
    BY OneSet, SMTT(60), Z3T(60)
  <2>. QED
    BY Zenon DEF Known, Grows
<1>2. CASE cidr.subnet \notin Known
  BY <1>2 DEF OccupyCIDR, Known, Grows
<1>. QED
  BY <1>1, <1>2

\* releaseCIDRs and DeleteFunc clear them.
LEMMA ReleaseSets ==
    ASSUME Records(cidrSets), NEW cidr
    PROVE  /\ DOMAIN ReleaseCIDR(cidr) = Known
           /\ \A s \in Known : ReleaseCIDR(cidr)[s].used =
                IF s = cidr.subnet THEN cidrSets[s].used \ cidr.blocks ELSE cidrSets[s].used
<1>1. CASE cidr.subnet \in Known
  <2>. PICK s, v : s = cidr.subnet /\ v = Release(cidrSets[s], cidr.blocks)
    OBVIOUS
  <2>. s \in DOMAIN cidrSets /\ v.used = cidrSets[s].used \ cidr.blocks
    BY <1>1, UsedBits DEF Known, Records
  <2>. Puts(cidrSets, s, v, ReleaseCIDR(cidr))
    BY <1>1 DEF ReleaseCIDR, Puts
  <2>. /\ DOMAIN ReleaseCIDR(cidr) = DOMAIN cidrSets
       /\ ReleaseCIDR(cidr)[s] = v
       /\ \A t \in DOMAIN cidrSets \ {s} : ReleaseCIDR(cidr)[t] = cidrSets[t]
    BY OneSet, SMTT(60), Z3T(60)
  <2>. QED
    BY DEF Known
<1>2. CASE cidr.subnet \notin Known
  BY <1>2 DEF ReleaseCIDR, Known
<1>. QED
  BY <1>1, <1>2

\* AllocateNext marks the block it returns.
LEMMA AllocateSets ==
    ASSUME Records(cidrSets), NEW s \in Known,
           cidrSets' = [cidrSets EXCEPT ![s] = AllocateNext(@)]
    PROVE  /\ DOMAIN cidrSets' = Known
           /\ cidrSets'[s].used = cidrSets[s].used \cup {Candidate(cidrSets[s])}
           /\ \A t \in Known \ {s} : cidrSets'[t] = cidrSets[t]
           /\ Grows(cidrSets, cidrSets')
<1>. PICK v : v = AllocateNext(cidrSets[s])
  OBVIOUS
<1>. s \in DOMAIN cidrSets /\ v.used = cidrSets[s].used \cup {Candidate(cidrSets[s])}
  BY UsedBits DEF Known, Records
<1>. Puts(cidrSets, s, v, cidrSets')
  BY DEF Puts
<1>. /\ DOMAIN cidrSets' = DOMAIN cidrSets /\ cidrSets'[s] = v
     /\ \A t \in DOMAIN cidrSets \ {s} : cidrSets'[t] = cidrSets[t]
  BY OneSet
<1>. QED
  BY DEF Known, Grows

\* occupyNodeIPs only sets bits.
LEMMA OwnSets ==
    ASSUME NEW sets, Records(sets), NEW n \in Node
    PROVE  Grows(sets, OccupyNodeIPs(sets, n))
<1>. PICK sets2 : sets2 = OccupyNodeIPs(sets, n)
  OBVIOUS
<1>2. DOMAIN sets2 = DOMAIN sets
  BY DEF OccupyNodeIPs
<1>3. ASSUME NEW s \in DOMAIN sets PROVE sets[s].used \subseteq sets2[s].used
  <2>. sets2[s] = sets[s] \/ sets2[s] = Occupy(sets[s], OwnBlocks[n][s])
    BY DEF OccupyNodeIPs
  <2>. QED
    BY UsedBits, SMTT(60), Z3T(60) DEF Records
<1>. QED
  BY <1>2, <1>3 DEF Grows

\* addCIDRSet only adds sets.
LEMMA AddSets ==
    ASSUME NEW sets, Records(sets), NEW subnets \in SUBSET Subnets
    PROVE  Records(AddCIDRSets(sets, subnets)) /\ Grows(sets, AddCIDRSets(sets, subnets))
<1>. PICK sets2 : sets2 = AddCIDRSets(sets, subnets)
  OBVIOUS
<1>2. /\ DOMAIN sets2 = DOMAIN sets \cup subnets
      /\ \A s \in DOMAIN sets : sets2[s] = sets[s]
      /\ \A s \in subnets \ DOMAIN sets : sets2[s] = NewCIDRSet(maxCIDRs[s])
  BY DEF AddCIDRSets
<1>. \A s \in subnets : NewCIDRSet(maxCIDRs[s]) \in CidrSets(maxCIDRs[s])
  <2>1. ASSUME NEW max \in Nat \ {0} PROVE NewCIDRSet(max) \in CidrSets(max)
    BY SMTT(60), Z3T(60) DEF NewCIDRSet, CidrSets, Blocks
  <2>. QED
    BY <2>1, MaxCIDRs
<1>. QED
  BY <1>2 DEF Records, Grows

LEMMA AddedSubnets ==
    ASSUME NEW found \in Seq(Global \cup {Host})
    PROVE  Added(found) \in SUBSET Subnets
  BY SMTT(60), Z3T(60) DEF Added, Subnets

\* What defineNodeGlobalCIDRs makes of the map.
DefinedSets(n, found, sets2) ==
    \E sets \in {cidrSets, AddCIDRSets(cidrSets, Added(found))} :
        sets2 = sets \/ sets2 = OccupyNodeIPs(sets, n)

LEMMA DefineSets ==
    ASSUME Records(cidrSets), NEW n \in Node, NEW found \in Discovery[n],
           NEW outcome \in DefineNodeGlobalCIDRs(n, found)
    PROVE  /\ DefinedSets(n, found, outcome.sets) /\ Grows(cidrSets, outcome.sets)
           /\ outcome.subnet # "error" => outcome.subnet \in Subnets \cup {Host, "none"}
<1>0. found \in Seq(Global \cup {Host}) /\ Grows(cidrSets, cidrSets)
  BY CloudAssumption DEF Grows
<1>1. ASSUME NEW sets, NEW subnet, outcome = Outcome(sets, subnet)
      PROVE  outcome.sets = sets /\ outcome.subnet = subnet
  BY <1>1 DEF Outcome
<1>2. CASE found = <<>>
  <2>. outcome = Outcome(cidrSets, "none")
    BY <1>2, SMTT(60), Z3T(60) DEF DefineNodeGlobalCIDRs
  <2>. QED
    BY <1>0, <1>1 DEF DefinedSets
<1>. DEFINE matching == {found[i] : i \in DOMAIN found} \cap Known \cap Global
            added    == AddCIDRSets(cidrSets, Added(found))
<1>3. CASE found # <<>> /\ matching # {}
  <2>. PICK s \in matching : outcome = Outcome(OccupyNodeIPs(cidrSets, n), s)
    BY <1>3 DEF DefineNodeGlobalCIDRs
  <2>. QED
    BY <1>1, OwnSets DEF Subnets, DefinedSets
<1>4. CASE found # <<>> /\ matching = {}
  <2>. Records(added) /\ Grows(cidrSets, added)
    BY <1>0, AddSets, AddedSubnets
  <2>2. outcome = Outcome(added, "error") \/ outcome = Outcome(OccupyNodeIPs(added, n), found[1])
    BY <1>4 DEF DefineNodeGlobalCIDRs
  <2>3. found[1] \in Global \cup {Host}
    BY <1>0, <1>4, SMTT(60), Z3T(60)
  <2>4. outcome.sets \in {added, OccupyNodeIPs(added, n)} => DefinedSets(n, found, outcome.sets)
    BY DEF DefinedSets
  <2>. HIDE DEF added
  <2>. Grows(added, OccupyNodeIPs(added, n))
    BY OwnSets
  <2>. Grows(cidrSets, OccupyNodeIPs(added, n))
    BY DEF Grows
  <2>. QED
    BY <1>1, <2>2, <2>3, <2>4 DEF Subnets
<1>. QED
  BY <1>2, <1>3, <1>4

----------------------------------------------------------------------------
(* The records of the workers and of the constructor.                      *)

Carries(P) == FeedTypeOK(P) /\ todo \subseteq [node: Node, cidrs: P] /\ WorkerTypeOK(P)

\* The record of one worker, or of the constructor, changes.
Becomes(w, r) == worker' = [worker EXCEPT ![w] = r]

Shaped(r) == r.pc \in {"idle", "failed"} \/ r.node \in Node

Failed == [Idle EXCEPT !.pc = "failed"]

\* syncNode returns.
LEMMA ReturnBecomes ==
    ASSUME NEW w, NEW failed, Return(w, failed)
    PROVE  /\ Becomes(w, Idle) \/ (w = Main /\ Becomes(w, Failed))
           /\ queue' = queue \/ queue' = queue \cup {worker[w].node}
  BY Zenon DEF Return, Becomes, Failed

\* The entry that AllocateOrOccupyCIDR adds to allocatedCIDRs.
Choice(w) ==
    LET s == Target(w)
    IN  IF s \in Known THEN [subnet |-> s, blocks |-> {Candidate(cidrSets[s])}] ELSE Nil

Taken(w) ==
    [worker[w] EXCEPT
        !.cidrs = Append(worker[w].cidrs, Choice(w)),
        !.pc    = IF Len(worker[w].cidrs) + 1 = Len(clusterCIDRs) THEN "update" ELSE "allocate"]

LEMMA AllocateBecomes ==
    ASSUME NEW P, WorkerTypeOK(P), NEW w \in Actor, AllocateCIDR(w)
    PROVE  Becomes(w, Taken(w))
<1>0. worker \in [Actor -> WorkerRecords(P)]
  BY DEF WorkerTypeOK, Actor
<1>. TakeCIDR(w, Choice(w)) /\ worker[w].pc = "allocate"
  BY DEF AllocateCIDR, Choice
<1>. PICK cidr : cidr = Choice(w)
  OBVIOUS
<1>. TakeCIDR(w, cidr)
  OBVIOUS
<1>. QED
  BY <1>0, Zenon DEF Becomes, TakeCIDR, Taken

\* What defineNodeGlobalCIDRs returns to.
Defined(v, subnet) ==
    IF v.cidrs = <<>> THEN [v EXCEPT !.pc = "allocate", !.global = subnet]
    ELSE [v EXCEPT !.pc = "occupy", !.done = v.done + 1]

LEMMA DefineBecomes ==
    ASSUME NEW P, WorkerTypeOK(P), Records(cidrSets), NEW w \in Actor, Define(w)
    PROVE  /\ Grows(cidrSets, cidrSets')
           /\ \E n \in Node : \E found \in Discovery[n] : DefinedSets(n, found, cidrSets')
           /\ \/ Return(w, TRUE)
              \/ /\ UNCHANGED queue
                 /\ \E subnet \in Subnets \cup {Host, "none"} : Becomes(w, Defined(worker[w], subnet))
<1>0. worker[w].node \in Node /\ worker[w].pc = "define"
  BY DEF WorkerTypeOK, Define, Actor
<1>1. PICK n : n = worker[w].node
  OBVIOUS
<1>2. PICK found \in Discovery[n] : \E outcome \in DefineNodeGlobalCIDRs(n, found) :
        /\ cidrSets' = outcome.sets
        /\ \/ /\ outcome.subnet = "error"
              /\ Return(w, TRUE)
           \/ /\ outcome.subnet # "error"
              /\ worker' = [worker EXCEPT ![w] =
                   IF @.cidrs = <<>> THEN [@ EXCEPT !.pc = "allocate", !.global = outcome.subnet]
                   ELSE [@ EXCEPT !.pc = "occupy", !.done = worker[w].done + 1]]
              /\ UNCHANGED queue
  BY <1>1, Zenon DEF Define
<1>. PICK outcome \in DefineNodeGlobalCIDRs(n, found) :
       /\ cidrSets' = outcome.sets
       /\ \/ /\ outcome.subnet = "error"
             /\ Return(w, TRUE)
          \/ /\ outcome.subnet # "error"
             /\ worker' = [worker EXCEPT ![w] =
                  IF @.cidrs = <<>> THEN [@ EXCEPT !.pc = "allocate", !.global = outcome.subnet]
                  ELSE [@ EXCEPT !.pc = "occupy", !.done = worker[w].done + 1]]
             /\ UNCHANGED queue
  BY <1>2, Zenon
<1>4. /\ DefinedSets(n, found, outcome.sets) /\ Grows(cidrSets, outcome.sets)
      /\ outcome.subnet # "error" => outcome.subnet \in Subnets \cup {Host, "none"}
  BY <1>0, <1>1, DefineSets
<1>. PICK subnet : subnet = outcome.subnet
  OBVIOUS
<1>. Return(w, TRUE) \/ (subnet # "error" /\ UNCHANGED queue /\ Becomes(w, Defined(worker[w], subnet)))
  <2>1. CASE worker[w].cidrs = <<>>
    BY <2>1, Zenon DEF Becomes, Defined
  <2>2. CASE worker[w].cidrs # <<>>
    BY <2>2, Zenon DEF Becomes, Defined
  <2>. QED
    BY <2>1, <2>2, Zenon
<1>. QED
  BY <1>0, <1>1, <1>4, Zenon

----------------------------------------------------------------------------
(* Phases.                                                                 *)

\* Workers exist only in a running process, and the constructor before it runs.
Quiet ==
    /\ FeedQuiet
    /\ phase # "running" => \A w \in Worker : worker[w].pc = "idle"
    /\ phase # "listing" => worker[Main].pc = "idle" /\ todo = {}

LEMMA MainIsNoWorker == \A w \in Worker : w # Main
  BY CloudAssumption

\* One record changes at a time.
LEMMA OneActor ==
    ASSUME NEW P, WorkerTypeOK(P), NEW w \in Actor, NEW r, Becomes(w, r)
    PROVE  worker'[w] = r /\ \A v \in Actor \ {w} : worker'[v] = worker[v]
  BY DEF WorkerTypeOK, Actor, Becomes

LEMMA ActorStep ==
    ASSUME NEW P, WorkerTypeOK(P), NEW w \in Actor, WorkerStep(w)
    PROVE  /\ worker[w].pc \notin {"idle", "failed"}
           /\ \A v \in Actor \ {w} : worker'[v] = worker[v]
           /\ UNCHANGED <<phase, cache, deleted, todo, released, starts>>
<1>1. /\ worker[w].pc \notin {"idle", "failed"}
      /\ UNCHANGED <<phase, cache, deleted, todo, released, starts>>
  BY Zenon DEF WorkerStep, OccupyPodCIDRs, Define, DefineFails, AllocateCIDR, CIDRNotAvailable,
         UpdateCIDRsAllocation, PatchNodeCIDRs, PatchFails, PatchTimesOut, ReleaseCIDRs,
         feedVars, informerVars
<1>. \E r : worker' = [worker EXCEPT ![w] = r]
  <2>1. CASE AllocateCIDR(w)
    BY <2>1, AllocateBecomes DEF Becomes
  <2>2. CASE ~AllocateCIDR(w)
    BY <2>2, Zenon DEF WorkerStep, OccupyPodCIDRs, Define, DefineFails, CIDRNotAvailable,
         UpdateCIDRsAllocation, PatchNodeCIDRs, PatchFails, PatchTimesOut, ReleaseCIDRs,
         AfterFailedPatch, Return
  <2>. QED
    BY <2>1, <2>2
<1>. QED
  BY <1>1, OneActor DEF Becomes

\* A worker takes steps in a running process only, the constructor while it lists.
LEMMA ActorPhase ==
    ASSUME NEW P, WorkerTypeOK(P), Quiet, NEW w \in Actor, WorkerStep(w)
    PROVE  IF w = Main THEN phase = "listing" ELSE w \in Worker /\ phase = "running"
<1>. worker[w].pc # "idle"
  BY ActorStep
<1>. QED
  BY MainIsNoWorker DEF Quiet, Actor

\* A CIDR that occurs in P.
Entry(P, cidr) == \E cidrs \in P : \E k \in DOMAIN cidrs : cidr = cidrs[k]

LEMMA EntryFacts ==
    ASSUME NEW P \in SUBSET PodCIDRs, NEW cidr, Entry(P, cidr)
    PROVE  cidr \in CIDRs
  BY SMTT(60), Z3T(60) DEF Entry, PodCIDRs

\* A step that sets bits or adds sets: occupyCIDR, defineNodeGlobalCIDRs, AllocateNext.
Marks(P) ==
    \/ \E cidr : Entry(P, cidr) /\ cidrSets' = OccupyCIDR(cidr)
    \/ \E n \in Node : \E found \in Discovery[n] : DefinedSets(n, found, cidrSets')
    \/ \E s \in Known : /\ ~NoCIDRsRemaining(cidrSets[s])
                        /\ cidrSets' = [cidrSets EXCEPT ![s] = AllocateNext(@)]

\* A step sets bits and adds sets, clears those of one CIDR, or starts or ends the
\* process.
LEMMA SetsChange ==
    ASSUME NEW P \in SUBSET PodCIDRs, Carries(P), Quiet, Records(cidrSets), [Next]_vars
    PROVE  \/ phase' = "down" /\ cidrSets' = NoSets
           \/ phase' = "listing" /\ cidrSets' = [s \in Configured |-> FilterOutServiceRange(s)]
           \/ /\ phase' = "down" <=> phase = "down"
              /\ \/ UNCHANGED cidrSets
                 \/ phase # "down" /\ Grows(cidrSets, cidrSets') /\ Marks(P)
                 \/ \E cidr : Entry(P, cidr) /\ cidrSets' = ReleaseCIDR(cidr)
<1>0. WorkerTypeOK(P)
  BY DEF Carries
<1>1. CASE Start
  BY <1>1 DEF Start
<1>2. ASSUME Stop PROVE phase' = "down" /\ cidrSets' = NoSets
  BY <1>2 DEF Stop, Die, NoSets
<1>3. CASE DeleteFunc
  <2>. phase' = phase /\ deleted # <<>> /\ ~Head(deleted).tombstone
    BY <1>3 DEF DeleteFunc
  <2>2. UNCHANGED cidrSets \/ \E k \in DOMAIN Head(deleted).cidrs :
                                cidrSets' = ReleaseCIDR(Head(deleted).cidrs[k])
    BY <1>3 DEF DeleteFunc
  <2>. Head(deleted).cidrs \in P
    <3>. Head(deleted) \in Notices(P) /\ Head(deleted) # Tombstone
      BY SMTT(60), Z3T(60) DEF Carries, FeedTypeOK, Tombstone
    <3>. QED
      BY Zenon DEF Notices
  <2>. QED
    BY <2>2 DEF Entry
<1>4. ASSUME NEW w \in Actor, WorkerStep(w)
      PROVE  /\ phase' = "down" <=> phase = "down"
             /\ \/ UNCHANGED cidrSets
                \/ phase # "down" /\ Grows(cidrSets, cidrSets') /\ Marks(P)
                \/ \E cidr : Entry(P, cidr) /\ cidrSets' = ReleaseCIDR(cidr)
  <2>1. phase' = phase /\ phase # "down"
    BY <1>0, <1>4, ActorStep, ActorPhase
  <2>2. worker[w].cidrs \in P
    BY <1>0 DEF WorkerTypeOK, WorkerRecords, Actor
  <2>3. \A k \in DOMAIN worker[w].cidrs : Entry(P, worker[w].cidrs[k])
    BY <2>2 DEF Entry
  <2>4. CASE OccupyPodCIDRs(w)
    <3>. UNCHANGED cidrSets \/ \E k \in DOMAIN worker[w].cidrs :
                                 cidrSets' = OccupyCIDR(worker[w].cidrs[k])
      <4>. worker[w].done \in Nat /\ worker[w].cidrs \in Seq(CIDRs)
        BY <1>0, <2>2 DEF WorkerTypeOK, WorkerRecords, Actor, PodCIDRs
      <4>. worker[w].done + 1 <= Len(worker[w].cidrs) => worker[w].done + 1 \in DOMAIN worker[w].cidrs
        BY SMTT(60), Z3T(60)
      <4>. QED
        BY <2>4, Zenon DEF OccupyPodCIDRs
    <3>2. ASSUME NEW cidr, Entry(P, cidr), cidrSets' = OccupyCIDR(cidr)
          PROVE  Grows(cidrSets, cidrSets') /\ Marks(P)
      BY <3>2, OccupySets DEF Marks
    <3>. QED
      BY <2>1, <2>3, <3>2
  <2>5. CASE Define(w)
    <3>. /\ Grows(cidrSets, cidrSets')
         /\ \E n \in Node : \E found \in Discovery[n] : DefinedSets(n, found, cidrSets')
      BY <1>0, <2>5, DefineBecomes, Zenon
    <3>. QED
      BY <2>1 DEF Marks
  <2>6. CASE AllocateCIDR(w)
    <3>. UNCHANGED cidrSets \/ \E s \in Known : /\ ~NoCIDRsRemaining(cidrSets[s])
                                               /\ cidrSets' = [cidrSets EXCEPT ![s] = AllocateNext(@)]
      BY <2>6 DEF AllocateCIDR
    <3>2. ASSUME NEW s \in Known, ~NoCIDRsRemaining(cidrSets[s]),
                 cidrSets' = [cidrSets EXCEPT ![s] = AllocateNext(@)]
          PROVE  Grows(cidrSets, cidrSets') /\ Marks(P)
      BY <3>2, AllocateSets, Zenon DEF Marks
    <3>. QED
      BY <2>1, <3>2
  <2>7. CASE ReleaseCIDRs(w)
    <3>. UNCHANGED cidrSets \/ \E k \in DOMAIN worker[w].cidrs :
                                 cidrSets' = ReleaseCIDR(worker[w].cidrs[k])
      BY <2>7 DEF ReleaseCIDRs
    <3>. QED
      BY <2>1, <2>3
  <2>8. CASE UNCHANGED cidrSets
    BY <2>1, <2>8
  <2>. QED
    BY <1>4, <2>4, <2>5, <2>6, <2>7, <2>8, Zenon
       DEF WorkerStep, DefineFails, CIDRNotAvailable, UpdateCIDRsAllocation, PatchNodeCIDRs,
           PatchFails, PatchTimesOut
<1>5. CASE (\E w \in Worker, n \in Node : SyncNode(w, n)) \/ StartNode \/ StartDone \/ UNCHANGED vars
  BY <1>5 DEF SyncNode, StartNode, StartDone, feedVars, ownVars, vars
<1>6. CASE FeedStep /\ UNCHANGED ownVars
  BY <1>6, FeedPhase DEF ownVars
<1>. QED
  BY <1>1, <1>2, <1>3, <1>4, <1>5, <1>6
     DEF Next, Crash, StartFails, DeleteFuncPanics, Actor

\* What AllocateNext adds to the CIDRs in hand.
LEMMA ChoiceFacts ==
    ASSUME Records(cidrSets), Finds, NEW w, AllocateCIDR(w)
    PROVE  /\ Choice(w) \in CIDRs
           /\ Choice(w) # Nil => /\ Choice(w).subnet \in Known
                                 /\ Choice(w).blocks \cap cidrSets[Choice(w).subnet].used = {}
<1>1. PICK s : s = Target(w)
  OBVIOUS
<1>2. CASE s \in Known
  <2>1. ~NoCIDRsRemaining(cidrSets[s])
    BY <1>1, <1>2 DEF AllocateCIDR
  <2>. PICK b : b = Candidate(cidrSets[s])
    OBVIOUS
  <2>. b \in Blocks(maxCIDRs[s]) /\ b \notin cidrSets[s].used /\ s \in Subnets
    BY <1>2, <2>1 DEF Finds, Records, Known
  <2>. Choice(w) = [subnet |-> s, blocks |-> {b}]
    BY <1>1, <1>2 DEF Choice
  <2>. b \in Nat
    BY MaxCIDRs, SMTT(60), Z3T(60) DEF Blocks
  <2>. QED
    BY <1>2, SMTT(60), Z3T(60) DEF CIDRs
<1>3. CASE s \notin Known
  <2>. Choice(w) = Nil
    BY <1>1, <1>3 DEF Choice
  <2>. Nil \in CIDRs
    BY DEF Nil, CIDRs
  <2>. QED
    OBVIOUS
<1>. QED
  BY <1>2, <1>3

LEMMA PodCIDRsAdmit == Admits(PodCIDRs)
  BY CloudAssumption, SMTT(60), Z3T(60) DEF Admits, PodCIDRs

LEMMA AppendTyped ==
    ASSUME NEW cidrs \in PodCIDRs, NEW cidr \in CIDRs
    PROVE  /\ Append(cidrs, cidr) \in PodCIDRs
           /\ \A k \in DOMAIN Append(cidrs, cidr) :
                \/ k = Len(cidrs) + 1 /\ Append(cidrs, cidr)[k] = cidr
                \/ k \in DOMAIN cidrs /\ Append(cidrs, cidr)[k] = cidrs[k]
  BY SMTT(60), Z3T(60) DEF PodCIDRs

----------------------------------------------------------------------------
(* What the theorems assume.                                               *)

\* CIDRs that do not overlap each other.
Distinct ==
    {cidrs \in PodCIDRs : \A j, k \in DOMAIN cidrs :
        j # k /\ cidrs[j].subnet = cidrs[k].subnet => cidrs[j].blocks \cap cidrs[k].blocks = {}}

\* What the constructor can occupy: at most two CIDRs, none of them in a subnet that
\* is yet to be discovered.
Static ==
    {cidrs \in Distinct :
        /\ Len(cidrs) <= 2
        /\ \A k \in DOMAIN cidrs : cidrs[k].subnet \notin Subnets \ Configured}

\* Nodes go at once, replies are not lost, and the process is not restarted: the next
\* one would not know the sets of discovered subnets.
OneRun ==
    /\ ~Finalizers /\ ~LostReplies
    /\ MaxStarts <= 1
    /\ InitialCIDRs \subseteq Static

----------------------------------------------------------------------------
(* The claims on a subnet.                                                 *)

Left(s) == [cidrs \in PodCIDRs |-> [d \in Nat |-> BlocksOf(cidrs, s, {k \in Nat : k > d})]]

\* What the record v of a worker says it has in hand, and what the workers have.
HandOf(v, s) ==
    CASE v.pc \in {"allocate", "update", "patch"} -> Left(s)[v.cidrs][0]
      [] v.pc = "giveback" -> Left(s)[v.cidrs][v.done]
      [] OTHER -> {}

Hands(workers, s) == [w \in Worker |-> HandOf(workers[w], s)]

\* What the constructor, with record main and list jobs, has yet to mark.
Listed(jobs, s) == UNION {Left(s)[t.cidrs][0] : t \in jobs}

Pending(main, jobs, s) ==
    Listed(jobs, s)
      \cup (IF main.pc \in {"occupy", "define"} THEN Left(s)[main.cidrs][main.done] ELSE {})

\* What is marked or about to be.
Promised(sets, main, jobs, s) ==
    IF s \in DOMAIN sets THEN sets[s].used \cup Pending(main, jobs, s) ELSE {}

\* The bitmaps count as long as the constructor has not failed.
Up == phase # "down" /\ worker[Main].pc # "failed"

\* r, hand and used are what the variables say now.
Now(s, r, hand, used) ==
    /\ r = released
    /\ hand = Hands(worker, s)
    /\ used = Promised(cidrSets, worker[Main], todo, s)

Sound(s, r, hand, used) ==
    /\ Exclusive(Left(s), r, Worker, hand)
    /\ Up => Marked(Left(s), r, Worker, hand, used)

Claims == \A s \in Subnets : \A r, hand, used : Now(s, r, hand, used) => Sound(s, r, hand, used)

----------------------------------------------------------------------------
(* What is left of a node's CIDRs.                                         *)

\* The part of one CIDR that lies in s.
Part(cidr, s) == IF cidr.subnet = s THEN cidr.blocks ELSE {}

LEMMA LeftIs ==
    ASSUME NEW s, NEW cidrs \in PodCIDRs, NEW d \in Nat
    PROVE  \A b : b \in Left(s)[cidrs][d]
                    <=> \E k \in DOMAIN cidrs : k > d /\ b \in Part(cidrs[k], s)
<1>. DOMAIN cidrs \subseteq Nat
  BY SMTT(60), Z3T(60) DEF PodCIDRs
<1>. Left(s)[cidrs][d] = BlocksOf(cidrs, s, {k \in Nat : k > d})
  BY DEF Left
<1>. QED
  BY DEF BlocksOf, Part

LEMMA Positions ==
    ASSUME NEW cidrs \in PodCIDRs
    PROVE  \A k \in DOMAIN cidrs : k \in Nat /\ k > 0
  BY SMTT(60), Z3T(60) DEF PodCIDRs

LEMMA LeftStart ==
    ASSUME NEW s, NEW cidrs \in PodCIDRs
    PROVE  \A b : b \in Left(s)[cidrs][0] <=> \E k \in DOMAIN cidrs : b \in Part(cidrs[k], s)
  BY LeftIs, Positions

LEMMA LeftCovers == \A s : Covers(PodCIDRs, Left(s))
<1>. SUFFICES ASSUME NEW s PROVE Covers(PodCIDRs, Left(s))
  OBVIOUS
<1>1. \A d \in Nat : Left(s)[<<>>][d] = {}
  <2>. <<>> \in PodCIDRs /\ DOMAIN <<>> = {}
    BY SMTT(60), Z3T(60) DEF PodCIDRs
  <2>. QED
    BY LeftIs
<1>2. ASSUME NEW cidrs \in PodCIDRs, NEW d \in Nat, NEW e \in Nat, d <= e
      PROVE  Left(s)[cidrs][e] \subseteq Left(s)[cidrs][d]
  <2>. \A k \in DOMAIN cidrs : k > e => k > d
    BY <1>2, SMTT(60), Z3T(60) DEF PodCIDRs
  <2>. QED
    BY LeftIs
<1>. QED
  BY <1>1, <1>2 DEF Covers

LEMMA LeftWithin ==
    ASSUME NEW s, NEW cidrs \in PodCIDRs, NEW d \in Nat
    PROVE  Left(s)[cidrs][d] \subseteq Left(s)[cidrs][0]
  BY LeftCovers, SMTT(60), Z3T(60) DEF Covers

LEMMA LeftEmpty == \A s : \A d \in Nat : Left(s)[<<>>][d] = {}
  BY LeftCovers DEF Covers

\* All of the CIDRs.
LEMMA LeftAll ==
    ASSUME NEW s, NEW cidrs \in PodCIDRs
    PROVE  Left(s)[cidrs][0] = BlocksOf(cidrs, s, Nat)
<1>. DOMAIN cidrs \cap {k \in Nat : k > 0} = DOMAIN cidrs \cap Nat
  BY SMTT(60), Z3T(60) DEF PodCIDRs
<1>. QED
  BY DEF Left, BlocksOf

\* One more CIDR.
LEMMA LeftAppend ==
    ASSUME NEW s, NEW cidrs \in PodCIDRs, NEW cidr \in CIDRs
    PROVE  Left(s)[Append(cidrs, cidr)][0] = Left(s)[cidrs][0] \cup Part(cidr, s)
<1>. PICK all : all = Append(cidrs, cidr)
  BY Zenon
<1>. all \in PodCIDRs /\ DOMAIN all = DOMAIN cidrs \cup {Len(cidrs) + 1}
     /\ all[Len(cidrs) + 1] = cidr /\ \A k \in DOMAIN cidrs : all[k] = cidrs[k]
  BY SMTT(60), Z3T(60) DEF PodCIDRs
<1>. HIDE DEF CIDRs
<1>1. /\ \A b : b \in Left(s)[all][0] <=> \E k \in DOMAIN all : b \in Part(all[k], s)
      /\ \A b : b \in Left(s)[cidrs][0] <=> \E k \in DOMAIN cidrs : b \in Part(cidrs[k], s)
  BY LeftStart, Zenon
<1>. \A b : b \in Left(s)[all][0] <=> b \in Left(s)[cidrs][0] \/ b \in Part(cidr, s)
  BY <1>1, Zenon
<1>. QED
  OBVIOUS

\* One CIDR less.
LEMMA LeftNext ==
    ASSUME NEW s, NEW cidrs \in PodCIDRs, NEW d \in Nat, d + 1 \in DOMAIN cidrs
    PROVE  /\ Left(s)[cidrs][d] = Left(s)[cidrs][d + 1] \cup Part(cidrs[d + 1], s)
           /\ cidrs \in Distinct => Left(s)[cidrs][d + 1] \cap Part(cidrs[d + 1], s) = {}
<1>1. \A k \in DOMAIN cidrs : k > d <=> k > d + 1 \/ k = d + 1
  BY SMTT(60), Z3T(60) DEF PodCIDRs
<1>. d + 1 \in Nat /\ d + 1 > d
  BY SMTT(60), Z3T(60)
<1>3. \A b : b \in Left(s)[cidrs][d] <=> b \in Left(s)[cidrs][d + 1] \/ b \in Part(cidrs[d + 1], s)
  BY <1>1, LeftIs
<1>4. ASSUME cidrs \in Distinct, NEW b, b \in Left(s)[cidrs][d + 1], b \in Part(cidrs[d + 1], s)
      PROVE  FALSE
  <2>. PICK k \in DOMAIN cidrs : k > d + 1 /\ b \in Part(cidrs[k], s)
    BY <1>4, LeftIs
  <2>. k # d + 1
    BY SMTT(60), Z3T(60)
  <2>. QED
    BY <1>4 DEF Distinct, Part
<1>. QED
  BY <1>3, <1>4

LEMMA LeftEnd ==
    ASSUME NEW s, NEW cidrs \in PodCIDRs, NEW d \in Nat, d + 1 \notin DOMAIN cidrs
    PROVE  Left(s)[cidrs][d] = {}
<1>. \A k \in DOMAIN cidrs : ~(k > d)
  BY SMTT(60), Z3T(60) DEF PodCIDRs
<1>. QED
  BY LeftIs

----------------------------------------------------------------------------
(* Steps in which no claim grows.                                          *)

\* What is true of the claims on every subnet after a step.
Kept ==
    \A s \in Subnets : \A r, hand, used, r2, hand2, used2 :
        /\ Now(s, r, hand, used) /\ Sound(s, r, hand, used)
        /\ Now(s, r2, hand2, used2)'
        => Sound(s, r2, hand2, used2)'

LEMMA ClaimsStep ==
    ASSUME Claims, Kept
    PROVE  Claims'
<1>. SUFFICES ASSUME NEW s \in Subnets, NEW r2, NEW hand2, NEW used2, Now(s, r2, hand2, used2)'
              PROVE  Sound(s, r2, hand2, used2)'
  BY DEF Claims
<1>1. PICK r, hand, used : r = released /\ hand = Hands(worker, s)
                           /\ used = Promised(cidrSets, worker[Main], todo, s)
  OBVIOUS
<1>. Now(s, r, hand, used)
  BY <1>1 DEF Now
<1>. Sound(s, r, hand, used)
  BY DEF Claims
<1>. QED
  BY DEF Kept

LEMMA SoundFacts ==
    ASSUME NEW s, NEW r, NEW hand, NEW used, NEW r2, NEW hand2, NEW used2,
           Sound(s, r, hand, used),
           Exclusive(Left(s), r, Worker, hand) => Exclusive(Left(s), r2, Worker, hand2)',
           Up' => Up,
           Up' /\ Exclusive(Left(s), r, Worker, hand) /\ Marked(Left(s), r, Worker, hand, used)
             => Marked(Left(s), r2, Worker, hand2, used2)'
    PROVE  Sound(s, r2, hand2, used2)'
  BY DEF Sound

\* Nothing happens outside the process.
LEMMA StillStep ==
    ASSUME TypeOK, Claims, UNCHANGED <<api, events, cache, deleted, released>>, Up' => Up,
           \A s \in Subnets : \A w \in Worker : HandOf(worker'[w], s) \subseteq HandOf(worker[w], s),
           Up' => \A s \in Subnets : Promised(cidrSets, worker[Main], todo, s)
                                       \subseteq Promised(cidrSets', worker'[Main], todo', s)
    PROVE  Claims'
<1>1. ASSUME NEW s \in Subnets, NEW r, NEW hand, NEW used, NEW r2, NEW hand2, NEW used2,
             Now(s, r, hand, used), Sound(s, r, hand, used), Now(s, r2, hand2, used2)'
      PROVE  Sound(s, r2, hand2, used2)'
  <2>. /\ r = released /\ hand = Hands(worker, s)
       /\ used = Promised(cidrSets, worker[Main], todo, s)
       /\ r2 = released' /\ hand2 = Hands(worker', s)
       /\ used2 = Promised(cidrSets', worker'[Main], todo', s)
    BY <1>1 DEF Now
  <2>2. \A w \in Worker : hand2[w] \subseteq hand[w]
    BY DEF Hands
  <2>3. r \in Nat /\ r2 = r /\ r <= r2 /\ FeedTypeOK(PodCIDRs)
    BY NatReflexive, ZenonT(60) DEF TypeOK
  <2>. Shrunk(Left(s), r, Worker, hand, r2, hand2)
    BY <2>2, <2>3, LeftCovers, Unmoved
  <2>. Exclusive(Left(s), r, Worker, hand) => Exclusive(Left(s), r2, Worker, hand2)'
    BY ShrunkClaims
  <2>. Up' /\ Marked(Left(s), r, Worker, hand, used) => Marked(Left(s), r2, Worker, hand2, used2)'
    BY ShrunkClaims
  <2>. QED
    BY <1>1, SoundFacts
<1>. QED
  BY <1>1, ClaimsStep DEF Kept

\* Sets that grow promise as much as before.
LEMMA PromisedGrows ==
    ASSUME NEW sets, NEW sets2, Grows(sets, sets2), NEW main, NEW jobs, NEW s
    PROVE  Promised(sets, main, jobs, s) \subseteq Promised(sets2, main, jobs, s)
  BY DEF Promised, Grows

\* A step of a worker that takes no block, assigns none and releases none.
LEMMA HandShrinks ==
    ASSUME TypeOK, Claims, NEW a \in Worker, NEW v, Becomes(a, v),
           UNCHANGED <<api, events, cache, deleted, released, phase, todo>>,
           \A s \in Subnets : HandOf(v, s) \subseteq HandOf(worker[a], s),
           Grows(cidrSets, cidrSets')
    PROVE  Claims'
<1>. a \in Actor /\ WorkerTypeOK(PodCIDRs) /\ Main \in Actor \ {a} /\ Worker \subseteq Actor
  BY MainIsNoWorker, Zenon DEF Actor, TypeOK
<1>1. worker'[a] = v /\ \A w \in Actor \ {a} : worker'[w] = worker[w]
  BY OneActor
<1>2. \A s \in Subnets : \A w \in Worker : HandOf(worker'[w], s) \subseteq HandOf(worker[w], s)
  BY <1>1
<1>. worker'[Main] = worker[Main]
  BY <1>1
<1>. Up' => Up
  BY DEF Up
<1>. \A s \in Subnets : Promised(cidrSets, worker[Main], todo, s)
                          \subseteq Promised(cidrSets', worker'[Main], todo', s)
  BY PromisedGrows
<1>. QED
  BY <1>2, StillStep, ZenonT(60)

\* A step of the constructor: what it has marked it need not mark any more.
LEMMA MainShrinks ==
    ASSUME TypeOK, Claims, NEW v, Becomes(Main, v), worker[Main].pc # "failed",
           UNCHANGED <<api, events, cache, deleted, released, phase>>,
           v.pc # "failed" => \A s \in Subnets : Promised(cidrSets, worker[Main], todo, s)
                                                   \subseteq Promised(cidrSets', v, todo', s)
    PROVE  Claims'
<1>0. Main \in Actor /\ WorkerTypeOK(PodCIDRs) /\ Worker \subseteq Actor \ {Main}
  BY MainIsNoWorker, ZenonT(60) DEF Actor, TypeOK
<1>. worker'[Main] = v /\ \A w \in Actor \ {Main} : worker'[w] = worker[w]
  BY <1>0, OneActor, ZenonT(60)
<1>2. \A s \in Subnets : \A w \in Worker : HandOf(worker'[w], s) \subseteq HandOf(worker[w], s)
  BY <1>0
<1>. Up' => Up /\ v.pc # "failed"
  BY DEF Up
<1>. Up' => \A s \in Subnets : Promised(cidrSets, worker[Main], todo, s)
                          \subseteq Promised(cidrSets', worker'[Main], todo', s)
  OBVIOUS
<1>. QED
  BY <1>2, StillStep

----------------------------------------------------------------------------
(* Steps of the API server and of the informer, start and end.             *)

LEMMA FeedKeepsClaims ==
    ASSUME OneRun, TypeOK, Quiet, FeedCalm(PodCIDRs), Chain, Claims, FeedStep, UNCHANGED ownVars
    PROVE  Claims'
<1>0. /\ ~Finalizers /\ Admits(PodCIDRs) /\ FeedTypeOK(PodCIDRs) /\ FeedQuiet /\ released \in Nat
      /\ UNCHANGED <<cidrSets, todo, released, worker>>
  BY PodCIDRsAdmit DEF OneRun, TypeOK, Quiet, ownVars
<1>1. ASSUME NEW s \in Subnets, NEW r \in Nat, NEW hand
      PROVE  /\ Exclusive(Left(s), r, Worker, hand) => Exclusive(Left(s), r, Worker, hand)'
             /\ \A used : Marked(Left(s), r, Worker, hand, used)
                            => Marked(Left(s), r, Worker, hand, used)'
  <2>. Covers(PodCIDRs, Left(s)) /\ \A cidrs \in RegisteredCIDRs : Left(s)[cidrs][0] = {}
    BY LeftCovers, LeftEmpty, CloudAssumption
  <2>. QED
    BY <1>0, FeedClaims, Zenon
<1>2. Up' => Up
  BY <1>0, FeedPhase DEF Up
<1>3. ASSUME NEW s \in Subnets, NEW r, NEW hand, NEW used, NEW r2, NEW hand2, NEW used2,
             Now(s, r, hand, used), Sound(s, r, hand, used), Now(s, r2, hand2, used2)'
      PROVE  Sound(s, r2, hand2, used2)'
  <2>. r2 = r /\ hand2 = hand /\ used2 = used /\ r \in Nat
    BY <1>0, <1>3 DEF Now
  <2>. Exclusive(Left(s), r, Worker, hand) => Exclusive(Left(s), r2, Worker, hand2)'
    BY <1>1
  <2>. Marked(Left(s), r, Worker, hand, used) => Marked(Left(s), r2, Worker, hand2, used2)'
    BY <1>1
  <2>. QED
    BY <1>2, <1>3, SoundFacts
<1>. QED
  BY <1>3, ClaimsStep DEF Kept

LEMMA IdleHand == \A s : HandOf(Idle, s) = {} /\ HandOf(Failed, s) = {}
  BY DEF HandOf, Idle, Failed

LEMMA StopClaims ==
    ASSUME Claims, Stop
    PROVE  Claims'
<1>. phase' = "down" /\ released' = 0 /\ Die /\ \A w \in Worker : worker'[w] = Idle
  BY DEF Stop, Die, AllIdle
<1>2. ~(Up')
  BY DEF Up
<1>3. ASSUME NEW s \in Subnets, NEW r, NEW hand, NEW used, NEW r2, NEW hand2, NEW used2,
             Now(s, r, hand, used), Sound(s, r, hand, used), Now(s, r2, hand2, used2)'
      PROVE  Sound(s, r2, hand2, used2)'
  <2>. r2 = 0 /\ hand2 = Hands(worker', s)
    BY <1>3 DEF Now
  <2>2. \A w \in Worker : hand2[w] = {}
    BY IdleHand DEF Hands
  <2>. Shrunk(Left(s), r, Worker, hand, r2, hand2)
    BY <2>2, DieClaims, Zenon
  <2>. Exclusive(Left(s), r, Worker, hand) => Exclusive(Left(s), r2, Worker, hand2)'
    BY ShrunkClaims
  <2>. QED
    BY <1>2, <1>3, SoundFacts
<1>. QED
  BY <1>3, ClaimsStep DEF Kept

\* The constructor: it lists nodes once, and leaves a configured subnet only for an
\* entry that none of the subnets contains.
MainOK ==
    LET main == worker[Main]
    IN  /\ starts = 0 => phase = "down" /\ FeedTypeOK(Static)
        /\ todo \subseteq [node: Node, cidrs: Static \ {<<>>}]
        /\ main.pc \in {"idle", "occupy", "define", "failed"}
        /\ main.cidrs \in Static
        /\ main.pc \in {"occupy", "define"} => main.cidrs # <<>>
        /\ main.pc = "define" => /\ main.done + 1 \in DOMAIN main.cidrs
                                 /\ main.cidrs[main.done + 1].subnet \notin Configured
        /\ phase # "down" => Configured \subseteq Known

LEMMA StaticFacts ==
    /\ Static \subseteq Distinct /\ Distinct \subseteq PodCIDRs /\ Static \subseteq PodCIDRs
    /\ Admits(Static) /\ Admits(Distinct)
<1>1. Static \subseteq Distinct /\ Distinct \subseteq PodCIDRs
  BY DEF Static, Distinct
<1>. <<>> \in PodCIDRs /\ DOMAIN <<>> = {} /\ Len(<<>>) <= 2
  BY SMTT(60), Z3T(60) DEF PodCIDRs
<1>. <<>> \in Distinct
  BY DEF Distinct
<1>. <<>> \in Static
  BY DEF Static
<1>. QED
  BY <1>1, CloudAssumption DEF Admits

\* An entry outside the subnets has no part in one.
LEMMA StaticPart ==
    ASSUME NEW cidrs \in Static, NEW k \in DOMAIN cidrs, NEW s \in Subnets,
           s \notin Configured \/ cidrs[k].subnet \notin Configured
    PROVE  Part(cidrs[k], s) = {}
  BY DEF Static, Part

LEMMA StaticLeft ==
    ASSUME NEW cidrs \in Static, NEW s \in Subnets \ Configured, NEW d \in Nat
    PROVE  Left(s)[cidrs][d] = {}
  BY LeftIs, StaticPart, StaticFacts, SMTT(60), Z3T(60)

\* The constructor is going to mark what the listed nodes hold.
LEMMA StartPromises ==
    ASSUME OneRun, TypeOK, FeedCalm(PodCIDRs), MainOK, Start, NEW s \in Subnets, NEW n \in Node
    PROVE  Holds(Left(s), n) \subseteq Promised(cidrSets', worker'[Main], todo', s)
<1>1. /\ cidrSets' = [t \in Configured |-> FilterOutServiceRange(t)]
      /\ todo' = {[node |-> m, cidrs |-> api[m].podCIDRs] :
                    m \in {m \in listNodes : api[m].podCIDRs # <<>>}}
  BY DEF Start
<1>2. starts = 0
  <2>1. starts \in 0 .. MaxStarts /\ starts < MaxStarts /\ MaxStarts <= 1
    BY Zenon DEF Start, OneRun, TypeOK
  <2>2. MaxStarts \in Nat
    BY CloudAssumption, Zenon
  <2>. QED
    BY <2>1, <2>2, SMTT(60), Z3T(60)
<1>3. api[n].podCIDRs \in Static
  BY <1>2 DEF MainOK, FeedTypeOK, Objects
<1>4. CASE s \notin Configured
  BY <1>3, <1>4, StaticLeft DEF Holds
<1>5. CASE api[n].podCIDRs = <<>>
  BY <1>5, LeftEmpty DEF Holds
<1>6. CASE s \in Configured /\ api[n].podCIDRs # <<>>
  <2>1. n \in listNodes
    BY <1>6 DEF listNodes, FeedCalm, Calm
  <2>. PICK t \in todo' : t.cidrs = api[n].podCIDRs
    <3>. PICK t : t = [node |-> n, cidrs |-> api[n].podCIDRs]
      BY Zenon
    <3>. t \in todo'
      BY <1>1, <1>6, <2>1
    <3>. QED
      OBVIOUS
  <2>. Left(s)[t.cidrs][0] \subseteq Pending(worker'[Main], todo', s)
    BY DEF Pending, Listed
  <2>. s \in DOMAIN cidrSets'
    BY <1>1, <1>6
  <2>. QED
    BY DEF Holds, Promised
<1>. QED
  BY <1>4, <1>5, <1>6

LEMMA StartClaims ==
    ASSUME OneRun, TypeOK, Quiet, FeedCalm(PodCIDRs), MainOK, Claims, Start
    PROVE  Claims'
<1>. /\ phase = "down" /\ UNCHANGED <<api, events, cache, deleted, released, worker>>
     /\ FeedTypeOK(PodCIDRs) /\ released \in Nat
  BY DEF Start, apiVars, informerVars, TypeOK
<1>2. \A w \in Worker : worker[w].pc = "idle"
  BY DEF Quiet
<1>3. ASSUME NEW s \in Subnets, NEW r, NEW hand, NEW used, NEW r2, NEW hand2, NEW used2,
             Now(s, r, hand, used), Sound(s, r, hand, used), Now(s, r2, hand2, used2)'
      PROVE  Sound(s, r2, hand2, used2)'
  <2>1. /\ r = released /\ r2 = released /\ hand = Hands(worker, s) /\ hand2 = Hands(worker, s)
        /\ used2 = Promised(cidrSets', worker'[Main], todo', s)
    BY <1>3 DEF Now
  <2>2. r \in Nat /\ r2 = r /\ r <= r2 /\ \A w \in Worker : hand2[w] = {} /\ hand[w] = {}
    <3>. r \in Nat /\ r2 = r /\ r <= r2
      BY <2>1, NatReflexive, ZenonT(60)
    <3>. QED
      BY <1>2, <2>1 DEF Hands, HandOf
  <2>3. Shrunk(Left(s), r, Worker, hand, r2, hand2)
    BY <2>2, LeftCovers, Unmoved
  <2>4. \A n \in Node : Holds(Left(s), n) \subseteq used2
    BY <2>1, StartPromises
  <2>5. Marked(Left(s), r, Worker, hand, used2)
    BY <2>2, <2>4, QuietClaims, Zenon DEF Quiet
  <2>. Marked(Left(s), r2, Worker, hand2, used2)'
    BY <2>3, <2>5, ShrunkClaims
  <2>. Exclusive(Left(s), r2, Worker, hand2)'
    BY <1>3, <2>3, ShrunkClaims DEF Sound
  <2>. QED
    BY DEF Sound
<1>. QED
  BY <1>3, ClaimsStep DEF Kept

----------------------------------------------------------------------------
(* The constructor.                                                        *)

\* A node moves from the list into the constructor's hands.
LEMMA StartNodeClaims ==
    ASSUME TypeOK, MainOK, Claims, StartNode
    PROVE  Claims'
<1>1. PICK t \in todo : todo' = todo \ {t} /\ Becomes(Main, Begin("occupy", t.node, t.cidrs))
  BY Zenon DEF StartNode, Becomes
<1>2. PICK v : v = Begin("occupy", t.node, t.cidrs)
  OBVIOUS
<1>3. v.pc = "occupy" /\ v.cidrs = t.cidrs /\ v.done = 0
  BY <1>2 DEF Begin, Idle
<1>. worker[Main].pc = "idle" /\ UNCHANGED <<cidrSets, phase, released, api, events, cache, deleted>>
  BY DEF StartNode, feedVars, apiVars, informerVars
<1>5. ASSUME NEW s PROVE Pending(worker[Main], todo, s) \subseteq Pending(v, todo', s)
  <2>1. Pending(worker[Main], todo, s) = Listed(todo, s)
    BY DEF Pending
  <2>. Pending(v, todo', s) = Listed(todo', s) \cup Left(s)[t.cidrs][0]
    BY <1>3 DEF Pending
  <2>. Listed(todo, s) \subseteq Listed(todo', s) \cup Left(s)[t.cidrs][0]
    BY <1>1 DEF Listed
  <2>. QED
    BY <2>1
<1>. \A s : Promised(cidrSets, worker[Main], todo, s) \subseteq Promised(cidrSets', v, todo', s)
  BY <1>5 DEF Promised
<1>. QED
  BY <1>1, <1>2, MainShrinks, Zenon

\* The constructor is done with an entry, or with a node.
LEMMA MainMoves ==
    ASSUME MainOK, worker[Main].pc \in {"occupy", "define"}, worker[Main].done \in Nat,
           NEW v, UNCHANGED todo, Grows(cidrSets, cidrSets'),
           \/ /\ v.pc \in {"occupy", "define"} /\ v.cidrs = worker[Main].cidrs
              /\ v.done = worker[Main].done
           \/ /\ v.pc \in {"occupy", "define"} /\ v.cidrs = worker[Main].cidrs
              /\ v.done = worker[Main].done + 1
              /\ worker[Main].done + 1 \in DOMAIN worker[Main].cidrs
              /\ \A s \in Subnets :
                   LET part == Part(worker[Main].cidrs[worker[Main].done + 1], s)
                   IN  part # {} => s \in DOMAIN cidrSets' /\ part \subseteq cidrSets'[s].used
           \/ worker[Main].done + 1 \notin DOMAIN worker[Main].cidrs
    PROVE  \A s \in Subnets : Promised(cidrSets, worker[Main], todo, s)
                                \subseteq Promised(cidrSets', v, todo', s)
<1>. SUFFICES ASSUME NEW s \in Subnets
              PROVE  Promised(cidrSets, worker[Main], todo, s) \subseteq Promised(cidrSets', v, todo', s)
  BY ZenonT(60)
<1>1. PICK cidrs, d : cidrs = worker[Main].cidrs /\ d = worker[Main].done
  OBVIOUS
<1>2. cidrs \in PodCIDRs /\ d \in Nat
  BY <1>1, StaticFacts, ZenonT(60) DEF MainOK
<1>3. Pending(worker[Main], todo, s) = Listed(todo, s) \cup Left(s)[cidrs][d]
  BY <1>1, ZenonT(60) DEF Pending
<1>4. Listed(todo', s) = Listed(todo, s)
  OBVIOUS
<1>5. Listed(todo, s) \subseteq Pending(v, todo', s)
  BY <1>4, ZenonT(60) DEF Pending
<1>6. CASE v.pc \in {"occupy", "define"} /\ v.cidrs = cidrs /\ v.done = d
  <2>. Left(s)[cidrs][d] \subseteq Pending(v, todo', s)
    BY <1>6, ZenonT(60) DEF Pending
  <2>. QED
    BY <1>3, <1>5, ZenonT(60) DEF Promised, Grows
<1>7. CASE /\ v.pc \in {"occupy", "define"} /\ v.cidrs = cidrs /\ v.done = d + 1
           /\ d + 1 \in DOMAIN cidrs
           /\ Part(cidrs[d + 1], s) # {} => /\ s \in DOMAIN cidrSets'
                                            /\ Part(cidrs[d + 1], s) \subseteq cidrSets'[s].used
  <2>. Left(s)[cidrs][d + 1] \subseteq Pending(v, todo', s)
    BY <1>7, Zenon DEF Pending
  <2>. Left(s)[cidrs][d] = Left(s)[cidrs][d + 1] \cup Part(cidrs[d + 1], s)
    BY <1>2, <1>7, LeftNext, ZenonT(60)
  <2>. QED
    BY <1>3, <1>5, <1>7, Zenon DEF Promised, Grows
<1>8. CASE d + 1 \notin DOMAIN cidrs
  <2>. Left(s)[cidrs][d] = {}
    BY <1>2, <1>8, LeftEnd
  <2>. QED
    BY <1>3, <1>5, ZenonT(60) DEF Promised, Grows
<1>. QED
  BY <1>1, <1>6, <1>7, <1>8, ZenonT(60)

\* What a step of the constructor makes of its record.
MainMove(v) ==
    LET main == worker[Main]
        k    == main.done + 1
    IN  \/ v = Failed
        \/ v = Idle /\ k \notin DOMAIN main.cidrs
        \/ /\ v.pc = "define" /\ v.cidrs = main.cidrs /\ v.done = main.done
           /\ k \in DOMAIN main.cidrs /\ main.cidrs[k].subnet \notin Configured
        \/ /\ v.pc = "occupy" /\ v.cidrs = main.cidrs /\ v.done = k
           /\ k \in DOMAIN main.cidrs
           /\ \A s \in Subnets : Part(main.cidrs[k], s) # {} =>
                s \in DOMAIN cidrSets' /\ Part(main.cidrs[k], s) \subseteq cidrSets'[s].used

LEMMA MainReturns ==
    ASSUME NEW failed \in BOOLEAN, Return(Main, failed)
    PROVE  IF failed THEN Becomes(Main, Failed) ELSE Becomes(Main, Idle)
  BY DEF Return, Becomes, Failed

\* occupyPodCIDRs returns, marks one CIDR, or finds no set for it.
LEMMA OccupyBecomes ==
    ASSUME NEW w, OccupyPodCIDRs(w), NEW k, k = worker[w].done + 1
    PROVE  \/ /\ Len(worker[w].cidrs) > 2 \/ k > Len(worker[w].cidrs)
              /\ Return(w, FALSE) /\ UNCHANGED cidrSets
           \/ /\ k <= Len(worker[w].cidrs)
              /\ cidrSets' = OccupyCIDR(worker[w].cidrs[k])
              /\ IF worker[w].cidrs[k].subnet \in Known
                 THEN Becomes(w, [worker[w] EXCEPT !.done = k])
                 ELSE Becomes(w, [worker[w] EXCEPT !.pc = "define"])
<1>1. CASE worker[w].cidrs[k].subnet \in Known
  BY <1>1, Zenon DEF OccupyPodCIDRs, Becomes
<1>2. CASE worker[w].cidrs[k].subnet \notin Known
  BY <1>2, ZenonT(60) DEF OccupyPodCIDRs, Becomes
<1>. QED
  BY <1>1, <1>2, Zenon

LEMMA MainBecomes ==
    ASSUME TypeOK, Quiet, MainOK, WorkerStep(Main)
    PROVE  /\ worker[Main].pc \in {"occupy", "define"} /\ worker[Main].done \in Nat
           /\ phase = "listing"
           /\ UNCHANGED <<api, inflight, events, cache, deleted, released, phase, todo, starts>>
           /\ Grows(cidrSets, cidrSets')
           /\ \E v : Becomes(Main, v) /\ MainMove(v)
<1>. DEFINE main == worker[Main]
<1>0. /\ Main \in Actor /\ WorkerTypeOK(PodCIDRs) /\ Records(cidrSets)
      /\ main \in WorkerRecords(PodCIDRs) /\ main.done \in Nat
      /\ main.cidrs \in Static /\ main.cidrs \in Seq(CIDRs)
  <2>. main \in WorkerRecords(PodCIDRs)
    BY DEF TypeOK, WorkerTypeOK
  <2>. main.done \in Nat
    BY DEF WorkerRecords
  <2>. QED
    BY StaticFacts, ZenonT(60) DEF Actor, TypeOK, Records, WellFormed, Known, MainOK, PodCIDRs
<1>1. phase = "listing" /\ Configured \subseteq Known
  BY <1>0, ActorPhase, ZenonT(60) DEF MainOK
<1>2. main.pc \in {"occupy", "define"}
  BY <1>0, ActorStep, ZenonT(60) DEF MainOK
<1>3. OccupyPodCIDRs(Main) \/ Define(Main) \/ DefineFails(Main)
  BY <1>2, Zenon DEF WorkerStep, AllocateCIDR, CIDRNotAvailable, UpdateCIDRsAllocation,
              PatchNodeCIDRs, PatchFails, PatchTimesOut, ReleaseCIDRs
<1>4. UNCHANGED <<api, inflight, events, cache, deleted, released, phase, todo, starts>>
  BY <1>3, Zenon DEF OccupyPodCIDRs, Define, DefineFails, apiVars, informerVars
<1>5. Grows(cidrSets, cidrSets)
  BY DEF Grows
<1>6. Len(main.cidrs) <= 2 /\ Len(main.cidrs) \in Nat /\ DOMAIN main.cidrs = 1 .. Len(main.cidrs)
  BY <1>0, SMTT(60), Z3T(60) DEF Static
<1>7. CASE DefineFails(Main)
  BY <1>0, <1>1, <1>2, <1>4, <1>5, <1>7, MainReturns, Zenon DEF DefineFails, MainMove
<1>8. CASE Define(Main)
  <2>1. /\ Grows(cidrSets, cidrSets')
        /\ \/ Return(Main, TRUE)
           \/ \E subnet \in Subnets \cup {Host, "none"} : Becomes(Main, Defined(main, subnet))
    BY <1>0, <1>8, DefineBecomes, Zenon
  <2>2. main.pc = "define"
    BY <1>8 DEF Define
  <2>3. /\ main.cidrs # <<>> /\ main.done + 1 \in DOMAIN main.cidrs
        /\ main.cidrs[main.done + 1].subnet \notin Configured
    BY <2>2 DEF MainOK
  <2>4. ASSUME NEW subnet, Becomes(Main, Defined(main, subnet))
        PROVE  \E v : Becomes(Main, v) /\ MainMove(v)
    <3>. PICK k : k = main.done + 1
      OBVIOUS
    <3>. PICK v : v = [main EXCEPT !.pc = "occupy", !.done = k]
      OBVIOUS
    <3>3. v.pc = "occupy" /\ v.cidrs = main.cidrs /\ v.done = k
      BY <1>0 DEF WorkerRecords
    <3>. Becomes(Main, v)
      BY <2>3, <2>4 DEF Defined
    <3>. \A s \in Subnets : Part(main.cidrs[k], s) = {}
      BY <1>0, <2>3, StaticPart
    <3>. QED
      BY <2>3, <3>3, Zenon DEF MainMove
  <2>. Return(Main, TRUE) => \E v : Becomes(Main, v) /\ MainMove(v)
    BY MainReturns, Zenon DEF MainMove
  <2>. QED
    BY <1>0, <1>1, <1>2, <1>4, <2>1, <2>4, ZenonT(60)
<1>9. CASE OccupyPodCIDRs(Main)
  <2>1. PICK k : k = main.done + 1 /\ k \in Nat /\ k > 0
    BY <1>0, NextNumber, ZenonT(60)
  <2>2. \/ (Len(main.cidrs) > 2 \/ k > Len(main.cidrs)) /\ Return(Main, FALSE) /\ UNCHANGED cidrSets
        \/ /\ k <= Len(main.cidrs)
           /\ cidrSets' = OccupyCIDR(main.cidrs[k])
           /\ IF main.cidrs[k].subnet \in Known THEN Becomes(Main, [main EXCEPT !.done = k])
              ELSE Becomes(Main, [main EXCEPT !.pc = "define"])
    BY <1>9, <2>1, OccupyBecomes, Zenon
  <2>3. CASE (Len(main.cidrs) > 2 \/ k > Len(main.cidrs)) /\ Return(Main, FALSE) /\ UNCHANGED cidrSets
    <3>1. k \notin DOMAIN main.cidrs
      BY <1>6, <2>1, <2>3, EntryTyped, SMTT(60), Z3T(60)
    <3>. Becomes(Main, Idle)
      BY <2>3, MainReturns, ZenonT(60)
    <3>. MainMove(Idle)
      BY <2>1, <3>1 DEF MainMove
    <3>. QED
      BY <1>0, <1>1, <1>2, <1>4, <1>5, <2>3, ZenonT(60)
  <2>4. CASE /\ k <= Len(main.cidrs)
             /\ cidrSets' = OccupyCIDR(main.cidrs[k])
             /\ IF main.cidrs[k].subnet \in Known THEN Becomes(Main, [main EXCEPT !.done = k])
                ELSE Becomes(Main, [main EXCEPT !.pc = "define"])
    <3>1. k \in DOMAIN main.cidrs /\ main.cidrs[k] \in CIDRs
      <4>. k \in DOMAIN main.cidrs
        BY <1>0, <2>1, <2>4, EntryTyped, ZenonT(60) DEF PodCIDRs
      <4>. QED
        BY <1>0, EntryTyped, ZenonT(60) DEF PodCIDRs
    <3>2. PICK cidr : cidr = main.cidrs[k] /\ cidr \in CIDRs
      BY <3>1
    <3>3. /\ DOMAIN cidrSets' = Known
          /\ \A s \in Known : cidrSets'[s].used =
               IF s = cidr.subnet THEN cidrSets[s].used \cup cidr.blocks ELSE cidrSets[s].used
      BY <1>0, <2>4, <3>2, OccupySets, Zenon
    <3>4. Grows(cidrSets, cidrSets')
      BY <3>3, Zenon DEF Grows, Known
    <3>5. CASE cidr.subnet \in Known
      <4>1. PICK v : v = [main EXCEPT !.done = k]
        BY Zenon
      <4>2. v.pc = main.pc /\ v.cidrs = main.cidrs /\ v.done = k
        BY <1>0, <4>1 DEF WorkerRecords
      <4>3. main.pc = "occupy"
        BY <1>9 DEF OccupyPodCIDRs
      <4>4. \A s \in Subnets : Part(cidr, s) # {} =>
              s \in DOMAIN cidrSets' /\ Part(cidr, s) \subseteq cidrSets'[s].used
        BY <3>3, <3>5, Zenon DEF Part
      <4>. Becomes(Main, v)
        BY <2>4, <3>2, <3>5, <4>1
      <4>. MainMove(v)
        BY <2>1, <3>1, <3>2, <4>2, <4>3, <4>4, ZenonT(60) DEF MainMove
      <4>. QED
        BY <1>0, <1>1, <1>2, <1>4, <3>4, Zenon
    <3>6. CASE cidr.subnet \notin Known
      <4>. PICK v : v = [main EXCEPT !.pc = "define"]
        BY Zenon
      <4>2. v.pc = "define" /\ v.cidrs = main.cidrs /\ v.done = main.done
        BY <1>0 DEF WorkerRecords
      <4>. Becomes(Main, v)
        BY <2>4, <3>2, <3>6
      <4>. MainMove(v)
        BY <1>1, <2>1, <3>1, <3>2, <3>6, <4>2, ZenonT(60) DEF MainMove
      <4>. QED
        BY <1>0, <1>1, <1>2, <1>4, <3>4
    <3>. QED
      BY <3>5, <3>6, Zenon
  <2>. QED
    BY <2>2, <2>3, <2>4, ZenonT(60)
<1>. QED
  BY <1>3, <1>7, <1>8, <1>9

LEMMA MainClaims ==
    ASSUME TypeOK, Quiet, MainOK, Claims, WorkerStep(Main)
    PROVE  Claims'
<1>. /\ worker[Main].pc \in {"occupy", "define"} /\ worker[Main].done \in Nat
     /\ UNCHANGED <<api, events, cache, deleted, released, phase, todo>>
     /\ Grows(cidrSets, cidrSets')
  BY MainBecomes, ZenonT(60)
<1>. PICK v : Becomes(Main, v) /\ MainMove(v)
  BY MainBecomes, ZenonT(60)
<1>3. CASE v = Failed
  <2>. v.pc = "failed"
    BY <1>3 DEF Failed, Idle
  <2>. QED
    BY MainShrinks
<1>4. CASE v # Failed
  <2>. \A s \in Subnets : Promised(cidrSets, worker[Main], todo, s)
                            \subseteq Promised(cidrSets', v, todo', s)
    BY <1>4, MainMoves, Zenon DEF MainMove
  <2>. QED
    BY MainShrinks, ZenonT(60)
<1>. QED
  BY <1>3, <1>4

----------------------------------------------------------------------------
(* Steps that take, assign or release blocks.                              *)

\* In a running process the constructor has nothing left to mark.
LEMMA RunningPromise ==
    ASSUME Quiet, phase = "running", NEW sets, NEW s
    PROVE  /\ Up
           /\ Promised(sets, worker[Main], todo, s) = IF s \in DOMAIN sets THEN sets[s].used ELSE {}
<1>. worker[Main].pc = "idle" /\ todo = {}
  BY DEF Quiet
<1>. Pending(worker[Main], todo, s) = {}
  BY DEF Pending, Listed
<1>. QED
  BY DEF Up, Promised

LEMMA ReleasePromise ==
    ASSUME Records(cidrSets), Quiet, phase = "running", NEW cidr \in CIDRs,
           cidrSets' = ReleaseCIDR(cidr), worker'[Main] = worker[Main], todo' = todo, NEW s
    PROVE  Promised(cidrSets', worker'[Main], todo', s)
             = Promised(cidrSets, worker[Main], todo, s) \ Part(cidr, s)
<1>. /\ DOMAIN cidrSets' = DOMAIN cidrSets
     /\ \A t \in DOMAIN cidrSets : cidrSets'[t].used =
          IF t = cidr.subnet THEN cidrSets[t].used \ cidr.blocks ELSE cidrSets[t].used
  BY ReleaseSets, Zenon DEF Known
<1>. /\ Promised(cidrSets, worker[Main], todo, s) = IF s \in DOMAIN cidrSets THEN cidrSets[s].used ELSE {}
     /\ Promised(cidrSets', worker[Main], todo, s) = IF s \in DOMAIN cidrSets' THEN cidrSets'[s].used ELSE {}
  BY RunningPromise
<1>. QED
  BY ZenonT(60) DEF Part

\* The first notice, after DeleteFunc has released one of its CIDRs.
LEMMA NoticePart ==
    ASSUME FeedTypeOK(Distinct), DeleteFunc, NEW k, k = released + 1, released \in Nat,
           k \in DOMAIN Head(deleted).cidrs, UNCHANGED deleted, NEW s, NEW r, r = released
    PROVE  /\ Head(deleted).cidrs[k] \in CIDRs
           /\ Part(Head(deleted).cidrs[k], s) \subseteq Notice(Left(s), r, 1)
           /\ Notice(Left(s), k, 1)' \cap Part(Head(deleted).cidrs[k], s) = {}
<1>1. deleted \in Seq(Notices(Distinct)) /\ deleted # <<>>
  BY Zenon DEF FeedTypeOK, DeleteFunc
<1>2. 1 \in DOMAIN deleted /\ Head(deleted) = deleted[1] /\ Head(deleted) \in Notices(Distinct)
  BY <1>1, HeadTyped, ZenonT(60)
<1>. PICK cidrs : cidrs = Head(deleted).cidrs
  OBVIOUS
<1>. cidrs \in Distinct
  <2>. Head(deleted) # Tombstone
    <3>1. Tombstone.tombstone /\ ~Head(deleted).tombstone
      BY DEF Tombstone, DeleteFunc
    <3>. QED
      BY <3>1, ZenonT(60)
  <2>. QED
    BY <1>2, ZenonT(60) DEF Notices
<1>. cidrs \in PodCIDRs /\ cidrs[k] \in CIDRs
  BY StaticFacts, EntryTyped, ZenonT(60)
<1>3. /\ Left(s)[cidrs][r] = Left(s)[cidrs][k] \cup Part(cidrs[k], s)
      /\ Left(s)[cidrs][k] \cap Part(cidrs[k], s) = {}
  BY LeftNext
<1>4. Notice(Left(s), r, 1) = Left(s)[cidrs][r]
  BY <1>2, ZenonT(60) DEF Notice
<1>5. Notice(Left(s), k, 1)' = Left(s)[cidrs][k]
  BY <1>2 DEF Notice
<1>6. Part(cidrs[k], s) \subseteq Notice(Left(s), r, 1)
  <2>. Part(cidrs[k], s) \subseteq Left(s)[cidrs][r]
    BY <1>3, Zenon
  <2>. QED
    BY <1>4, Zenon
<1>7. Notice(Left(s), k, 1)' \cap Part(cidrs[k], s) = {}
  BY <1>3, <1>5, ZenonT(60)
<1>. QED
  BY <1>6, <1>7, Zenon

\* DeleteFunc releases what the first notice claims, or is done with it.
LEMMA DeleteFuncClaims ==
    ASSUME TypeOK, Quiet, FeedTypeOK(Distinct), Claims, DeleteFunc
    PROVE  Claims'
<1>0. /\ deleted # <<>> /\ released \in Nat /\ FeedTypeOK(PodCIDRs) /\ Records(cidrSets)
      /\ phase = "running" /\ UNCHANGED <<api, events, cache, worker, phase, todo>>
  BY ZenonT(60) DEF DeleteFunc, TypeOK, apiVars, informerVars, Records, WellFormed, Known
<1>1. (Up' => Up) /\ worker'[Main] = worker[Main]
  BY <1>0 DEF Up
<1>2. PICK k : k = released + 1 /\ k \in Nat /\ released <= k
  BY <1>0, NextNumber, ZenonT(60)
<1>3. CASE /\ k \in DOMAIN Head(deleted).cidrs
           /\ cidrSets' = ReleaseCIDR(Head(deleted).cidrs[k])
           /\ released' = k
           /\ UNCHANGED deleted
  <2>1. ASSUME NEW s \in Subnets, NEW r, NEW hand, NEW used, NEW r2, NEW hand2, NEW used2,
               Now(s, r, hand, used), Sound(s, r, hand, used), Now(s, r2, hand2, used2)'
        PROVE  Sound(s, r2, hand2, used2)'
    <3>1. /\ r = released /\ r2 = k /\ hand = Hands(worker, s) /\ hand2 = hand
          /\ used = Promised(cidrSets, worker[Main], todo, s)
          /\ used2 = Promised(cidrSets', worker'[Main], todo', s)
      <4>. /\ r = released /\ r2 = released' /\ hand = Hands(worker, s) /\ hand2 = Hands(worker', s)
           /\ used = Promised(cidrSets, worker[Main], todo, s)
           /\ used2 = Promised(cidrSets', worker'[Main], todo', s)
        BY <2>1 DEF Now
      <4>. QED
        BY <1>0, <1>3, Zenon
    <3>2. PICK cidr : cidr = Head(deleted).cidrs[k]
      OBVIOUS
    <3>3. PICK part : part = Part(cidr, s)
      OBVIOUS
    <3>4. cidr \in CIDRs /\ part \subseteq Notice(Left(s), r, 1) /\ Notice(Left(s), r2, 1)' \cap part = {}
      BY <1>0, <1>2, <1>3, <3>1, <3>2, <3>3, NoticePart, ZenonT(60)
    <3>5. used2 = used \ part
      BY <1>0, <1>1, <1>3, <3>1, <3>2, <3>3, <3>4, ReleasePromise, ZenonT(60)
    <3>. Shrunk(Left(s), r, Worker, hand, r2, hand2)
      BY <1>0, <1>2, <1>3, <3>1, LeftCovers, Unmoved, ZenonT(60)
    <3>. Exclusive(Left(s), r, Worker, hand) => Exclusive(Left(s), r2, Worker, hand2)'
      BY ShrunkClaims
    <3>. Exclusive(Left(s), r, Worker, hand) /\ Marked(Left(s), r, Worker, hand, used)
           => Marked(Left(s), r2, Worker, hand2, used2)'
      BY <3>4, <3>5, NoticeReleased
    <3>. QED
      BY <1>1, <2>1, SoundFacts, Zenon
  <2>. QED
    BY <2>1, ClaimsStep DEF Kept
<1>4. CASE released' = 0 /\ deleted' = Tail(deleted) /\ UNCHANGED cidrSets
  <2>1. ASSUME NEW s \in Subnets, NEW r, NEW hand, NEW used, NEW r2, NEW hand2, NEW used2,
               Now(s, r, hand, used), Sound(s, r, hand, used), Now(s, r2, hand2, used2)'
        PROVE  Sound(s, r2, hand2, used2)'
    <3>. r \in Nat /\ r2 = 0 /\ hand2 = hand /\ used2 = used
      BY <1>0, <1>4, <2>1 DEF Now
    <3>. /\ Exclusive(Left(s), r, Worker, hand) => Exclusive(Left(s), 0, Worker, hand)'
         /\ Marked(Left(s), r, Worker, hand, used) => Marked(Left(s), 0, Worker, hand, used)'
      BY <1>0, <1>4, LeftCovers, WorkedOff
    <3>. QED
      BY <1>1, <2>1, SoundFacts, ZenonT(60)
  <2>. QED
    BY <2>1, ClaimsStep DEF Kept
<1>. QED
  BY <1>2, <1>3, <1>4, ZenonT(60) DEF DeleteFunc

\* The facts about a worker that every step below starts from.
LEMMA WorkerFacts ==
    ASSUME TypeOK, Carries(Distinct), Quiet, NEW a \in Worker, WorkerStep(a)
    PROVE  /\ phase = "running" /\ a \in Actor /\ Main \in Actor \ {a} /\ Worker \subseteq Actor
           /\ UNCHANGED <<phase, cache, deleted, todo, released, starts>>
           /\ worker'[Main] = worker[Main] /\ (Up' => Up)
           /\ \A w \in Worker \ {a} : worker'[w] = worker[w]
           /\ worker[a] \in WorkerRecords(PodCIDRs) /\ worker[a].node \in Node
           /\ worker[a].cidrs \in Distinct /\ worker[a].cidrs \in PodCIDRs /\ worker[a].done \in Nat
           /\ Records(cidrSets) /\ FeedTypeOK(PodCIDRs) /\ released \in Nat
<1>. a \in Actor /\ WorkerTypeOK(PodCIDRs) /\ Main \in Actor \ {a} /\ Worker \subseteq Actor /\ a # Main
  BY MainIsNoWorker, ZenonT(60) DEF Actor, TypeOK
<1>. /\ worker[a].pc \notin {"idle", "failed"}
     /\ \A v \in Actor \ {a} : worker'[v] = worker[v]
     /\ UNCHANGED <<phase, cache, deleted, todo, released, starts>>
  BY ActorStep, ZenonT(60)
<1>3. phase = "running"
  BY ActorPhase, ZenonT(60)
<1>. worker[a] \in WorkerRecords(PodCIDRs) /\ worker[a] \in WorkerRecords(Distinct) /\ worker[a].node \in Node
  BY DEF WorkerTypeOK, Actor, Carries
<1>5. worker[a].cidrs \in Distinct /\ worker[a].cidrs \in PodCIDRs /\ worker[a].done \in Nat
  BY StaticFacts, ZenonT(60) DEF WorkerRecords
<1>. Records(cidrSets) /\ FeedTypeOK(PodCIDRs) /\ released \in Nat
  BY ZenonT(60) DEF TypeOK, Records, WellFormed, Known
<1>. worker'[Main] = worker[Main] /\ (Up' => Up)
  BY ZenonT(60) DEF Up
<1>. QED
  BY <1>3, <1>5, ZenonT(60)

\* The hands of all workers when the record of a becomes v.
LEMMA HandStep ==
    ASSUME TypeOK, Carries(Distinct), Quiet, NEW a \in Worker, WorkerStep(a), NEW v, Becomes(a, v), NEW s
    PROVE  /\ Hands(worker, s)[a] = HandOf(worker[a], s) /\ Hands(worker', s)[a] = HandOf(v, s)
           /\ \A w \in Worker \ {a} : Hands(worker', s)[w] = Hands(worker, s)[w]
<1>. worker'[a] = v
  BY WorkerFacts, OneActor, ZenonT(60) DEF Carries
<1>. \A w \in Worker \ {a} : worker'[w] = worker[w]
  BY WorkerFacts, ZenonT(60)
<1>. QED
  BY ZenonT(60) DEF Hands

\* part is nothing, or one block that was not in use.
Gains(used, used2, part) ==
    used2 = used \cup part /\ (part = {} \/ \E b : part = {b} /\ b \notin used)

\* What AllocateNext adds to the bitmaps.
LEMMA AllocatePromise ==
    ASSUME Records(cidrSets), Finds, Quiet, phase = "running", NEW a, AllocateCIDR(a),
           worker'[Main] = worker[Main], todo' = todo, NEW s
    PROVE  Gains(Promised(cidrSets, worker[Main], todo, s),
                 Promised(cidrSets', worker'[Main], todo', s), Part(Choice(a), s))
<1>0. PICK part, used : part = Part(Choice(a), s) /\ used = Promised(cidrSets, worker[Main], todo, s)
  OBVIOUS
<1>. SUFFICES /\ Promised(cidrSets', worker'[Main], todo', s) = used \cup part
              /\ part = {} \/ \E b : part = {b} /\ b \notin used
  BY <1>0, ZenonT(60) DEF Gains
<1>1. /\ used = IF s \in DOMAIN cidrSets THEN cidrSets[s].used ELSE {}
      /\ Promised(cidrSets', worker[Main], todo, s) = IF s \in DOMAIN cidrSets' THEN cidrSets'[s].used ELSE {}
  BY <1>0, RunningPromise
<1>2. CASE Target(a) \in Known
  <2>. PICK t : t = Target(a) /\ t \in Known
    BY <1>2
  <2>2. /\ ~NoCIDRsRemaining(cidrSets[t])
        /\ cidrSets' = [cidrSets EXCEPT ![t] = AllocateNext(@)]
    BY DEF AllocateCIDR
  <2>. PICK b : b = Candidate(cidrSets[t])
    OBVIOUS
  <2>4. /\ DOMAIN cidrSets' = Known /\ b \notin cidrSets[t].used
        /\ cidrSets'[t].used = cidrSets[t].used \cup {b}
        /\ \A u \in Known \ {t} : cidrSets'[u] = cidrSets[u]
    BY <2>2, AllocateSets, ZenonT(60) DEF Finds
  <2>. Choice(a).subnet = t /\ Choice(a).blocks = {b}
    BY Zenon DEF Choice
  <2>. part = IF s = t THEN {b} ELSE {}
    BY <1>0, Zenon DEF Part
  <2>. QED
    BY <1>1, <2>4, ZenonT(60) DEF Known
<1>3. CASE Target(a) \notin Known
  <2>. UNCHANGED cidrSets
    BY <1>3, Zenon DEF AllocateCIDR
  <2>. part = {}
    BY <1>0, <1>3, Zenon DEF Choice, Nil, Part
  <2>. QED
    BY <1>1, ZenonT(60)
<1>. QED
  BY <1>2, <1>3, ZenonT(60)

\* A worker takes a block that was free.
LEMMA AllocateClaims ==
    ASSUME TypeOK, Finds, Carries(Distinct), Quiet, Claims, NEW a \in Worker, AllocateCIDR(a)
    PROVE  Claims'
<1>. DEFINE v == Taken(a)
<1>0. WorkerStep(a)
  BY DEF WorkerStep
<1>1. /\ phase = "running" /\ a \in Actor /\ worker'[Main] = worker[Main] /\ (Up' => Up)
      /\ UNCHANGED <<deleted, cache, todo, released>>
      /\ worker[a] \in WorkerRecords(PodCIDRs) /\ worker[a].cidrs \in PodCIDRs
      /\ Records(cidrSets) /\ FeedTypeOK(PodCIDRs) /\ released \in Nat
  BY <1>0, WorkerFacts, ZenonT(60)
<1>2. UNCHANGED <<api, events>>
  BY ZenonT(60) DEF AllocateCIDR, feedVars, apiVars, informerVars
<1>3. Becomes(a, v) /\ Choice(a) \in CIDRs
  BY <1>1, AllocateBecomes, ChoiceFacts, ZenonT(60) DEF TypeOK
<1>4. /\ v.cidrs = Append(worker[a].cidrs, Choice(a)) /\ v.pc \in {"allocate", "update"}
      /\ worker[a].pc = "allocate"
  <2>. v.cidrs = Append(worker[a].cidrs, Choice(a))
    BY <1>1 DEF Taken, WorkerRecords
  <2>. v.pc \in {"allocate", "update"}
    BY <1>1 DEF Taken, WorkerRecords
  <2>. QED
    BY Zenon DEF AllocateCIDR
<1>. HIDE DEF v
<1>5. ASSUME NEW s PROVE HandOf(v, s) = HandOf(worker[a], s) \cup Part(Choice(a), s)
  <2>. HandOf(v, s) = Left(s)[v.cidrs][0] /\ HandOf(worker[a], s) = Left(s)[worker[a].cidrs][0]
    BY <1>4 DEF HandOf
  <2>. QED
    BY <1>1, <1>3, <1>4, LeftAppend, ZenonT(60)
<1>6. ASSUME NEW s \in Subnets, NEW r, NEW hand, NEW used, NEW r2, NEW hand2, NEW used2,
             Now(s, r, hand, used), Sound(s, r, hand, used), Now(s, r2, hand2, used2)'
      PROVE  Sound(s, r2, hand2, used2)'
  <2>0. /\ r = released /\ r2 = released'
        /\ hand = Hands(worker, s) /\ hand2 = Hands(worker', s)
        /\ used = Promised(cidrSets, worker[Main], todo, s)
        /\ used2 = Promised(cidrSets', worker'[Main], todo', s)
    BY <1>6 DEF Now
  <2>1. r \in Nat /\ r2 = r /\ r <= r2
    BY <1>1, <2>0, NatReflexive, Zenon
  <2>2. PICK part : part = Part(Choice(a), s)
    OBVIOUS
  <2>3. used2 = used \cup part /\ (part = {} \/ \E b : part = {b} /\ b \notin used)
    <3>0. Records(cidrSets) /\ phase = "running" /\ worker'[Main] = worker[Main] /\ todo' = todo
      BY <1>1, Zenon
    <3>1. Gains(Promised(cidrSets, worker[Main], todo, s),
                Promised(cidrSets', worker'[Main], todo', s), Part(Choice(a), s))
      BY <3>0, AllocatePromise, ZenonT(60)
    <3>. QED
      BY <2>0, <2>2, <3>1, ZenonT(60) DEF Gains
  <2>4. hand2[a] = hand[a] \cup part /\ \A w \in Worker \ {a} : hand2[w] = hand[w]
    <3>. /\ Hands(worker, s)[a] = HandOf(worker[a], s) /\ Hands(worker', s)[a] = HandOf(v, s)
         /\ \A w \in Worker \ {a} : Hands(worker', s)[w] = Hands(worker, s)[w]
      BY <1>0, <1>3, HandStep, Zenon
    <3>. QED
      BY <1>5, <2>0, <2>2, Zenon
  <2>5. CASE part = {}
    <3>1. \A w \in Worker : hand2[w] \subseteq hand[w]
      BY <2>4, <2>5
    <3>. Shrunk(Left(s), r, Worker, hand, r2, hand2)
      BY <1>1, <1>2, <2>1, <3>1, LeftCovers, Unmoved, ZenonT(60)
    <3>. Exclusive(Left(s), r, Worker, hand) => Exclusive(Left(s), r2, Worker, hand2)'
      BY ShrunkClaims
    <3>. Marked(Left(s), r, Worker, hand, used) => Marked(Left(s), r2, Worker, hand2, used2)'
      BY <2>3, ShrunkClaims
    <3>. QED
      BY <1>1, <1>6, SoundFacts, Zenon
  <2>6. CASE part # {}
    <3>. PICK b : part = {b} /\ b \notin used
      BY <2>3, <2>6
    <3>2. Exclusive(Left(s), r, Worker, hand) /\ Marked(Left(s), r, Worker, hand, used)
      BY <1>1, <1>6, RunningPromise, ZenonT(60) DEF Sound
    <3>. hand2[a] \subseteq hand[a] \cup {b} /\ \A w \in Worker \ {a} : hand2[w] \subseteq hand[w]
      BY <2>4
    <3>. /\ Exclusive(Left(s), r, Worker, hand2)'
         /\ Marked(Left(s), r, Worker, hand2, used \cup {b})'
      BY <1>1, <1>2, <3>2, Grabbed, Zenon
    <3>. QED
      BY <2>1, <2>3, ZenonT(60) DEF Sound
  <2>. QED
    BY <2>5, <2>6
<1>. QED
  BY <1>6, ClaimsStep DEF Kept

\* The block taken is not among those in hand.
LEMMA TakesDistinct ==
    ASSUME TypeOK, Finds, Carries(Distinct), Quiet, Claims, NEW a \in Worker, AllocateCIDR(a)
    PROVE  Append(worker[a].cidrs, Choice(a)) \in Distinct
<1>0. WorkerStep(a)
  BY SMTT(60), Z3T(60) DEF WorkerStep
<1>. /\ phase = "running" /\ worker[a].cidrs \in Distinct /\ worker[a].cidrs \in PodCIDRs
     /\ Records(cidrSets)
  BY <1>0, WorkerFacts, Zenon
<1>2. PICK cidrs, cidr, all : cidrs = worker[a].cidrs /\ cidr = Choice(a) /\ all = Append(cidrs, cidr)
  BY Zenon
<1>3. /\ cidr \in CIDRs
      /\ cidr # Nil => cidr.subnet \in Known /\ cidr.blocks \cap cidrSets[cidr.subnet].used = {}
  BY <1>2, ChoiceFacts, ZenonT(60)
<1>4. /\ all \in PodCIDRs
      /\ \A k \in DOMAIN all : \/ k = Len(cidrs) + 1 /\ all[k] = cidr
                               \/ k \in DOMAIN cidrs /\ all[k] = cidrs[k]
  BY <1>2, <1>3, AppendTyped, SMTT(60), Z3T(60)
<1>5. ASSUME NEW j \in DOMAIN cidrs, cidrs[j].subnet = cidr.subnet
      PROVE  cidrs[j].blocks \cap cidr.blocks = {}
  <2>1. CASE cidr = Nil
    BY <2>1 DEF Nil
  <2>2. CASE cidr # Nil
    <3>. PICK s : s = cidr.subnet /\ s \in Known /\ s \in Subnets
      BY <1>3, <2>2 DEF Records, Known
    <3>. PICK r, hand, used : /\ r = released /\ hand = Hands(worker, s)
                              /\ used = Promised(cidrSets, worker[Main], todo, s)
      BY ZenonT(60)
    <3>3. Marked(Left(s), r, Worker, hand, used)
      BY RunningPromise, Zenon DEF Claims, Now, Sound
    <3>4. hand[a] \subseteq cidrSets[s].used
      BY <3>3, RunningPromise, ZenonT(60) DEF Marked, Known
    <3>5. hand[a] = Left(s)[cidrs][0]
      BY <1>2 DEF Hands, HandOf, AllocateCIDR
    <3>. cidrs[j].blocks \subseteq Left(s)[cidrs][0]
      <4>. Part(cidrs[j], s) = cidrs[j].blocks
        BY <1>2, <1>5, Zenon DEF Part
      <4>. QED
        BY <1>2, LeftStart, Zenon
    <3>. QED
      BY <1>3, <2>2, <3>4, <3>5, ZenonT(60)
  <2>. QED
    BY <2>1, <2>2
<1>. \A i, j \in DOMAIN cidrs :
       i # j /\ cidrs[i].subnet = cidrs[j].subnet => cidrs[i].blocks \cap cidrs[j].blocks = {}
  BY <1>2, ZenonT(60) DEF Distinct
<1>. \A i, j \in DOMAIN all :
       i # j /\ all[i].subnet = all[j].subnet => all[i].blocks \cap all[j].blocks = {}
  BY <1>4, <1>5, ZenonT(60)
<1>. QED
  BY <1>2, <1>4, ZenonT(60) DEF Distinct

\* An acknowledged PATCH: what was in hand is held by the node.
LEMMA PatchKeepsClaims ==
    ASSUME OneRun, TypeOK, Carries(Distinct), Quiet, FeedCalm(PodCIDRs), Chain, Claims,
           NEW a \in Worker, PatchNodeCIDRs(a)
    PROVE  Claims'
<1>0. WorkerStep(a)
  BY DEF WorkerStep
<1>1. /\ phase = "running" /\ a \in Actor /\ a # Main /\ worker'[Main] = worker[Main] /\ (Up' => Up)
      /\ UNCHANGED <<phase, cache, deleted, todo, released>>
      /\ worker[a].node \in Node /\ worker[a].cidrs \in PodCIDRs
      /\ FeedTypeOK(PodCIDRs) /\ released \in Nat
  BY <1>0, WorkerFacts, ZenonT(60)
<1>2. PICK n \in Node, cidrs \in PodCIDRs :
        /\ n = worker[a].node /\ cidrs = worker[a].cidrs
        /\ Accepts(n, cidrs) /\ ApplyPatch(n, cidrs)
  BY <1>1, Zenon DEF PatchNodeCIDRs
<1>3. worker[a].pc = "patch" /\ Return(a, FALSE) /\ UNCHANGED cidrSets
  BY Zenon DEF PatchNodeCIDRs
<1>4. Becomes(a, Idle)
  BY <1>1, <1>3, ReturnBecomes, Zenon
<1>5. ASSUME NEW s \in Subnets, NEW r, NEW hand, NEW used, NEW r2, NEW hand2, NEW used2,
             Now(s, r, hand, used), Sound(s, r, hand, used), Now(s, r2, hand2, used2)'
      PROVE  Sound(s, r2, hand2, used2)'
  <2>1. /\ r = released /\ r2 = released' /\ hand = Hands(worker, s) /\ hand2 = Hands(worker', s)
        /\ used = Promised(cidrSets, worker[Main], todo, s)
        /\ used2 = Promised(cidrSets', worker'[Main], todo', s)
    BY <1>5 DEF Now
  <2>. /\ r \in Nat /\ r2 = r /\ hand = Hands(worker, s) /\ hand2 = Hands(worker', s)
       /\ used2 = used
    BY <1>1, <1>3, <2>1, Zenon
  <2>2. /\ Hands(worker, s)[a] = HandOf(worker[a], s) /\ Hands(worker', s)[a] = HandOf(Idle, s)
        /\ \A w \in Worker \ {a} : Hands(worker', s)[w] = Hands(worker, s)[w]
    BY <1>0, <1>4, HandStep, Zenon
  <2>3. HandOf(worker[a], s) = Left(s)[cidrs][0]
    BY <1>2, <1>3 DEF HandOf
  <2>4. /\ Left(s)[cidrs][0] \subseteq hand[a] /\ hand2[a] = {}
        /\ \A w \in Worker \ {a} : hand2[w] \subseteq hand[w]
    BY <2>2, <2>3, IdleHand, Zenon
  <2>5. ~Finalizers /\ Admits(PodCIDRs) /\ Covers(PodCIDRs, Left(s))
    BY PodCIDRsAdmit, LeftCovers DEF OneRun
  <2>. /\ Exclusive(Left(s), r, Worker, hand) => Exclusive(Left(s), r, Worker, hand2)'
       /\ \A all : Marked(Left(s), r, Worker, hand, all) => Marked(Left(s), r, Worker, hand2, all)'
    BY <1>1, <1>2, <2>4, <2>5, PatchClaims, ZenonT(60)
  <2>. Exclusive(Left(s), r, Worker, hand) => Exclusive(Left(s), r2, Worker, hand2)'
    OBVIOUS
  <2>. Marked(Left(s), r, Worker, hand, used) => Marked(Left(s), r2, Worker, hand2, used2)'
    OBVIOUS
  <2>. QED
    BY <1>1, <1>5, SoundFacts, ZenonT(60)
<1>. QED
  BY <1>5, ClaimsStep DEF Kept

LEMMA ReturnClaims ==
    ASSUME TypeOK, Claims, NEW a \in Worker, NEW failed, Return(a, failed),
           UNCHANGED <<api, events, cache, deleted, released, phase, todo, cidrSets>>
    PROVE  Claims'
<1>. Becomes(a, Idle)
  BY MainIsNoWorker, ReturnBecomes
<1>. Grows(cidrSets, cidrSets')
  BY DEF Grows
<1>. QED
  BY IdleHand, HandShrinks

\* releaseCIDRs after a PATCH that did not succeed.
LEMMA GiveBackClaims ==
    ASSUME TypeOK, Carries(Distinct), Quiet, Claims,
           NEW a \in Worker, ReleaseCIDRs(a), worker[a].pc # "release"
    PROVE  Claims'
<1>0. WorkerStep(a)
  BY DEF WorkerStep
<1>1. /\ phase = "running" /\ worker'[Main] = worker[Main] /\ (Up' => Up)
      /\ UNCHANGED <<phase, cache, deleted, todo, released>>
      /\ worker[a] \in WorkerRecords(PodCIDRs) /\ worker[a].done \in Nat
      /\ worker[a].cidrs \in Distinct /\ worker[a].cidrs \in PodCIDRs
      /\ Records(cidrSets) /\ FeedTypeOK(PodCIDRs) /\ released \in Nat
  BY <1>0, WorkerFacts, Zenon
<1>2. worker[a].pc = "giveback" /\ UNCHANGED <<api, events>>
  BY DEF ReleaseCIDRs, apiVars, informerVars
<1>3. PICK cidrs, d, k : cidrs = worker[a].cidrs /\ d = worker[a].done /\ k = d + 1
  OBVIOUS
<1>4. CASE /\ k \in DOMAIN cidrs
           /\ cidrSets' = ReleaseCIDR(cidrs[k])
           /\ worker' = [worker EXCEPT ![a].done = k]
  <2>1. PICK v : v = [worker[a] EXCEPT !.done = k]
    BY Zenon
  <2>2. Becomes(a, v)
    BY <1>4, <2>1 DEF Becomes
  <2>3. v.pc = "giveback" /\ v.cidrs = cidrs /\ v.done = k
    BY <1>1, <1>2, <1>3, <2>1 DEF WorkerRecords
  <2>4. PICK cidr : cidr = cidrs[k] /\ cidr \in CIDRs
    BY <1>1, <1>3, <1>4, EntryTyped, ZenonT(60)
  <2>5. ASSUME NEW s
        PROVE  /\ HandOf(worker[a], s) = HandOf(v, s) \cup Part(cidr, s)
               /\ HandOf(v, s) \cap Part(cidr, s) = {}
    <3>1. HandOf(worker[a], s) = Left(s)[cidrs][d] /\ HandOf(v, s) = Left(s)[cidrs][k]
      BY <1>2, <1>3, <2>3 DEF HandOf
    <3>. QED
      <4>. cidrs \in PodCIDRs /\ cidrs \in Distinct /\ d \in Nat /\ d + 1 \in DOMAIN cidrs
        BY <1>1, <1>3, <1>4
      <4>. /\ Left(s)[cidrs][d] = Left(s)[cidrs][d + 1] \cup Part(cidrs[d + 1], s)
           /\ Left(s)[cidrs][d + 1] \cap Part(cidrs[d + 1], s) = {}
        BY LeftNext
      <4>. QED
        BY <1>3, <2>4, <3>1, Zenon
  <2>6. ASSUME NEW s \in Subnets, NEW r, NEW hand, NEW used, NEW r2, NEW hand2, NEW used2,
               Now(s, r, hand, used), Sound(s, r, hand, used), Now(s, r2, hand2, used2)'
        PROVE  Sound(s, r2, hand2, used2)'
    <3>0. /\ r = released /\ r2 = released'
          /\ hand = Hands(worker, s) /\ hand2 = Hands(worker', s)
          /\ used = Promised(cidrSets, worker[Main], todo, s)
          /\ used2 = Promised(cidrSets', worker'[Main], todo', s)
      BY <2>6, ZenonT(60) DEF Now
    <3>1. r \in Nat /\ r2 = r /\ r <= r2
      BY <1>1, <3>0, NatReflexive, Zenon
    <3>2. PICK part : part = Part(cidr, s)
      BY Zenon
    <3>3. used2 = used \ part
      BY <1>1, <1>4, <2>4, <3>0, <3>2, ReleasePromise
    <3>4. /\ hand[a] = hand2[a] \cup part /\ hand2[a] \cap part = {}
          /\ \A w \in Worker \ {a} : hand2[w] = hand[w]
      <4>. /\ Hands(worker, s)[a] = HandOf(worker[a], s) /\ Hands(worker', s)[a] = HandOf(v, s)
           /\ \A w \in Worker \ {a} : Hands(worker', s)[w] = Hands(worker, s)[w]
        BY <1>0, <2>2, HandStep, ZenonT(60)
      <4>. QED
        BY <2>5, <3>0, <3>2, ZenonT(60)
    <3>5. \A w \in Worker : hand2[w] \subseteq hand[w]
      BY <3>4
    <3>. Shrunk(Left(s), r, Worker, hand, r2, hand2)
      BY <1>1, <1>2, <3>1, <3>5, LeftCovers, Unmoved, Zenon
    <3>7. Exclusive(Left(s), r, Worker, hand) => Exclusive(Left(s), r2, Worker, hand2)'
      BY ShrunkClaims, Zenon
    <3>. part \subseteq hand[a] /\ hand2[a] \cap part = {}
      BY <3>4, Zenon
    <3>. Exclusive(Left(s), r, Worker, hand) /\ Marked(Left(s), r, Worker, hand, used)
           => Marked(Left(s), r2, Worker, hand2, used2)'
      BY <3>3, HandReleased, Zenon
    <3>. QED
      BY <1>1, <2>6, <3>7, SoundFacts, ZenonT(60)
  <2>. QED
    BY <2>6, ClaimsStep, Zenon DEF Kept
<1>5. CASE UNCHANGED cidrSets /\ \E failed : Return(a, failed)
  BY <1>1, <1>2, <1>5, ReturnClaims, ZenonT(60)
<1>. QED
  BY <1>3, <1>4, <1>5 DEF ReleaseCIDRs

\* A worker takes a node from the queue.
LEMMA SyncNodeClaims ==
    ASSUME TypeOK, FeedCalm(PodCIDRs), Claims, NEW a \in Worker, NEW n \in Node, SyncNode(a, n)
    PROVE  Claims'
<1>1. UNCHANGED <<api, events, cache, deleted, released, phase, todo, cidrSets>>
  BY DEF SyncNode, apiVars, informerVars
<1>2. Grows(cidrSets, cidrSets')
  BY <1>1 DEF Grows
<1>3. ~cache[n].deleting
  BY Zenon DEF FeedCalm, Calm
<1>4. \/ Becomes(a, Idle)
      \/ Becomes(a, Begin("define", n, cache[n].podCIDRs))
      \/ Becomes(a, Begin("occupy", n, cache[n].podCIDRs))
  BY <1>3, Zenon DEF SyncNode, Becomes
<1>5. ASSUME NEW s, NEW pc \in {"define", "occupy"}, NEW cidrs PROVE HandOf(Begin(pc, n, cidrs), s) = {}
  <2>. Begin(pc, n, cidrs).pc = pc
    BY DEF Begin, Idle
  <2>. QED
    BY DEF HandOf
<1>6. ASSUME NEW v, Becomes(a, v), \A s \in Subnets : HandOf(v, s) = {} PROVE Claims'
  BY <1>1, <1>2, <1>6, HandShrinks
<1>. QED
  BY <1>4, <1>5, <1>6, IdleHand

\* Every step of a worker.
LEMMA WorkerClaims ==
    ASSUME OneRun, TypeOK, Finds, Carries(Distinct), Quiet, FeedCalm(PodCIDRs), Chain, Claims,
           NEW a \in Worker, WorkerStep(a), worker[a].pc # "release"
    PROVE  Claims'
<1>. DEFINE v == worker[a]
<1>0. /\ a \in Actor /\ v \in WorkerRecords(PodCIDRs) /\ v.done \in Nat
      /\ v.cidrs \in PodCIDRs /\ v.cidrs \in Seq(CIDRs)
      /\ UNCHANGED <<phase, cache, deleted, todo, released>>
      /\ Records(cidrSets) /\ WorkerTypeOK(PodCIDRs)
  BY WorkerFacts, Zenon DEF TypeOK, PodCIDRs
<1>1. Grows(cidrSets, cidrSets)
  BY DEF Grows
<1>2. ASSUME NEW r, Becomes(a, r), UNCHANGED <<api, events>>, Grows(cidrSets, cidrSets'),
             \A s \in Subnets : HandOf(r, s) \subseteq HandOf(v, s)
      PROVE  Claims'
  BY <1>0, <1>2, HandShrinks, ZenonT(60)
<1>3. ASSUME NEW failed, Return(a, failed), UNCHANGED <<api, events, cidrSets>>
      PROVE  Claims'
  BY <1>0, <1>3, ReturnClaims, Zenon
<1>4. CASE OccupyPodCIDRs(a)
  <2>1. v.pc = "occupy" /\ UNCHANGED <<api, events>>
    BY <1>4 DEF OccupyPodCIDRs, apiVars, informerVars
  <2>2. PICK k : k = v.done + 1 /\ k \in Nat /\ k > 0
    <3>. v.done \in Nat
      BY <1>0, Zenon
    <3>. QED
      BY SMTT(60), Z3T(60)
  <2>3. \/ (Len(v.cidrs) > 2 \/ k > Len(v.cidrs)) /\ Return(a, FALSE) /\ UNCHANGED cidrSets
        \/ /\ k <= Len(v.cidrs)
           /\ cidrSets' = OccupyCIDR(v.cidrs[k])
           /\ IF v.cidrs[k].subnet \in Known THEN Becomes(a, [v EXCEPT !.done = k])
              ELSE Becomes(a, [v EXCEPT !.pc = "define"])
    BY <1>4, <2>2, OccupyBecomes, Zenon
  <2>4. CASE /\ k <= Len(v.cidrs) /\ cidrSets' = OccupyCIDR(v.cidrs[k])
             /\ Becomes(a, [v EXCEPT !.done = k]) \/ Becomes(a, [v EXCEPT !.pc = "define"])
    <3>1. PICK cidr : cidr = v.cidrs[k] /\ cidr \in CIDRs
      BY <1>0, <2>2, <2>4, SMTT(60), Z3T(60)
    <3>2. /\ DOMAIN cidrSets' = Known
          /\ \A s \in Known : cidrSets'[s].used =
               IF s = cidr.subnet THEN cidrSets[s].used \cup cidr.blocks ELSE cidrSets[s].used
      BY <1>0, <2>4, <3>1, OccupySets, Zenon
    <3>3. Grows(cidrSets, cidrSets')
      BY <3>2, Zenon DEF Grows, Known
    <3>. PICK r : Becomes(a, r) /\ (r = [v EXCEPT !.done = k] \/ r = [v EXCEPT !.pc = "define"])
      BY <2>4
    <3>. r.pc \in {"occupy", "define"}
      BY <1>0, <2>1 DEF WorkerRecords
    <3>. \A s \in Subnets : HandOf(r, s) = {}
      BY DEF HandOf
    <3>. QED
      BY <1>2, <2>1, <3>3
  <2>. QED
    BY <1>3, <2>1, <2>3, <2>4, ZenonT(60)
<1>5. CASE Define(a)
  <2>1. v.pc = "define" /\ UNCHANGED <<api, events>>
    BY <1>5 DEF Define, apiVars, informerVars
  <2>2. /\ Grows(cidrSets, cidrSets')
        /\ \/ Return(a, TRUE)
           \/ \E subnet \in Subnets \cup {Host, "none"} : Becomes(a, Defined(v, subnet))
    BY <1>0, <1>5, DefineBecomes, Zenon
  <2>3. Return(a, TRUE) => Becomes(a, Idle)
    BY MainIsNoWorker, ReturnBecomes, ZenonT(60)
  <2>4. ASSUME NEW subnet, NEW s PROVE HandOf(Defined(v, subnet), s) = {}
    <3>. PICK k, r : k = v.done + 1 /\ r = Defined(v, subnet)
      OBVIOUS
    <3>2. CASE v.cidrs = <<>>
      <4>. r.pc = "allocate" /\ r.cidrs = <<>>
        BY <1>0, <3>2 DEF Defined, WorkerRecords
      <4>. QED
        BY LeftEmpty DEF HandOf
    <3>3. CASE v.cidrs # <<>>
      <4>. r.pc = "occupy"
        BY <1>0, <3>3 DEF Defined, WorkerRecords
      <4>. QED
        BY DEF HandOf
    <3>. QED
      BY <3>2, <3>3, ZenonT(60)
  <2>. \A s : HandOf(Idle, s) = {}
    BY IdleHand
  <2>. QED
    BY <1>2, <2>1, <2>2, <2>3, <2>4, Zenon
<1>6. CASE DefineFails(a) \/ CIDRNotAvailable(a)
  BY <1>3, <1>6, Zenon DEF DefineFails, CIDRNotAvailable, apiVars, informerVars
<1>7. CASE UpdateCIDRsAllocation(a)
  <2>1. v.pc = "update" /\ UNCHANGED <<api, events, cidrSets>>
    BY <1>7 DEF UpdateCIDRsAllocation, apiVars, informerVars
  <2>2. ASSUME NEW pc \in {"patch", "giveback"}, worker' = [worker EXCEPT ![a].pc = pc]
        PROVE  Claims'
    <3>1. PICK r : r = [v EXCEPT !.pc = pc]
      BY Zenon
    <3>2. Becomes(a, r)
      BY <2>2, <3>1 DEF Becomes
    <3>3. r.pc = pc /\ r.cidrs = v.cidrs /\ r.done = v.done
      BY <1>0, <3>1 DEF WorkerRecords
    <3>4. ASSUME NEW s PROVE HandOf(r, s) \subseteq HandOf(v, s)
      <4>1. HandOf(v, s) = Left(s)[v.cidrs][0]
        BY <2>1 DEF HandOf
      <4>. HandOf(r, s) \in {Left(s)[v.cidrs][0], Left(s)[v.cidrs][v.done]}
        BY <2>2, <3>3 DEF HandOf
      <4>. Left(s)[v.cidrs][v.done] \subseteq Left(s)[v.cidrs][0]
        BY <1>0, LeftWithin, Zenon
      <4>. QED
        BY <4>1, ZenonT(60)
    <3>. QED
      BY <1>1, <1>2, <2>1, <3>2, <3>4, ZenonT(60)
  <2>. QED
    BY <1>3, <1>7, <2>1, <2>2, Zenon DEF UpdateCIDRsAllocation
<1>8. CASE PatchFails(a)
  <2>. v.pc = "patch" /\ UNCHANGED <<api, events, cidrSets>>
    BY <1>8, ZenonT(60) DEF PatchFails, feedVars, apiVars, informerVars
  <2>2. PICK k : k = v.done + 1
    OBVIOUS
  <2>. PICK r : /\ Becomes(a, r)
                /\ \/ r = [v EXCEPT !.done = k]
                   \/ r = [v EXCEPT !.pc = "giveback", !.done = 0, !.requeue = TRUE]
    BY <1>8, <2>2, Zenon DEF PatchFails, AfterFailedPatch, Becomes
  <2>. r.cidrs = v.cidrs /\ (r.pc = "patch" \/ (r.pc = "giveback" /\ r.done = 0))
    BY <1>0, Zenon DEF WorkerRecords
  <2>. \A s : HandOf(r, s) \subseteq HandOf(v, s)
    BY DEF HandOf
  <2>. QED
    BY <1>1, <1>2
<1>. ~PatchTimesOut(a)
  BY DEF PatchTimesOut, OneRun
<1>. QED
  BY <1>4, <1>5, <1>6, <1>7, <1>8, AllocateClaims, PatchKeepsClaims, GiveBackClaims, ZenonT(60)
     DEF WorkerStep

----------------------------------------------------------------------------
(* The rest of the invariant.                                              *)

\* No step breaks the phases: workers run in a running process alone, and the constructor
\* only before it.
LEMMA QuietStep ==
    ASSUME NEW P, Carries(P), Quiet, [Next]_vars
    PROVE  Quiet'
<1>0. WorkerTypeOK(P) /\ worker \in [Actor -> WorkerRecords(P)]
  BY DEF Carries, WorkerTypeOK, Actor
<1>1. CASE UNCHANGED vars
  BY <1>1, ZenonT(60) DEF Quiet, FeedQuiet, vars, feedVars, ownVars
<1>2. CASE Start
  BY <1>2, ZenonT(60) DEF Start, Quiet, FeedQuiet, informerVars
<1>3. ASSUME Stop PROVE Quiet'
  BY <1>3, ZenonT(60) DEF Stop, Die, Quiet, FeedQuiet, AllIdle, Idle
<1>4. CASE DeleteFunc
  BY <1>4, ZenonT(60) DEF DeleteFunc, Quiet, FeedQuiet
<1>5. ASSUME NEW w \in Actor, WorkerStep(w) PROVE Quiet'
  <2>1. \A v \in Actor \ {w} : worker'[v] = worker[v]
    BY <1>0, <1>5, ActorStep, ZenonT(60)
  <2>. UNCHANGED <<phase, deleted, todo>> /\ (phase # "running" => events' = events)
    <3>. UNCHANGED <<phase, deleted, todo>>
      BY <1>0, <1>5, ActorStep, ZenonT(60)
    <3>. QED
      BY <1>5, Zenon
         DEF WorkerStep, OccupyPodCIDRs, Define, DefineFails, AllocateCIDR, CIDRNotAvailable,
             UpdateCIDRsAllocation, PatchNodeCIDRs, PatchFails, PatchTimesOut, ReleaseCIDRs,
             feedVars, informerVars, ApplyPatch, Store
  <2>. IF w = Main THEN phase = "listing" ELSE w \in Worker /\ phase = "running"
    BY <1>0, <1>5, ActorPhase
  <2>. QED
    BY <2>1, MainIsNoWorker DEF Quiet, FeedQuiet, Actor
<1>6. ASSUME NEW w \in Worker, NEW n \in Node, SyncNode(w, n) PROVE Quiet'
  <2>1. phase = "running" /\ phase' = phase /\ todo' = todo
    BY <1>6 DEF SyncNode
  <2>. \E r : Becomes(w, r)
    BY <1>6, Zenon DEF SyncNode, Becomes
  <2>. worker'[Main] = worker[Main]
    BY <1>0, OneActor, MainIsNoWorker DEF Actor
  <2>. QED
    BY <2>1 DEF Quiet, FeedQuiet
<1>7. CASE StartNode
  <2>. phase = "listing" /\ UNCHANGED feedVars /\ \E r : Becomes(Main, r)
    BY <1>7, Zenon DEF StartNode, Becomes
  <2>. \A w \in Worker : worker'[w] = worker[w]
    BY <1>0, OneActor, MainIsNoWorker DEF Actor
  <2>. QED
    BY DEF Quiet, FeedQuiet, feedVars
<1>8. CASE StartDone
  BY <1>8, ZenonT(60) DEF StartDone, Quiet, FeedQuiet, informerVars, ownVars
<1>9. CASE FeedStep /\ UNCHANGED ownVars
  <2>. FeedQuiet' /\ (phase' = phase \/ (phase = "listed" /\ phase' = "running"))
    BY <1>9, FeedQuietStep, FeedPhase DEF Quiet
  <2>. QED
    BY <1>9 DEF Quiet, ownVars
<1>. QED
  BY <1>1, <1>2, <1>3, <1>4, <1>5, <1>6, <1>7, <1>8, <1>9
     DEF Next, Crash, StartFails, DeleteFuncPanics, Actor

\* Without finalizers a sync never releases.
NoRelease == \A w \in Worker : worker[w].pc # "release"

LEMMA NoReleaseStep ==
    ASSUME TypeOK, Quiet, FeedCalm(PodCIDRs), NoRelease, [Next]_vars
    PROVE  NoRelease'
<1>0. WorkerTypeOK(PodCIDRs) /\ Worker \subseteq Actor
  BY ZenonT(60) DEF TypeOK, Actor
<1>1. ASSUME \A w \in Worker : worker'[w] = worker[w] PROVE NoRelease'
  BY <1>1 DEF NoRelease
<1>2. ASSUME Stop PROVE NoRelease'
  BY <1>2, Zenon DEF Stop, NoRelease, AllIdle, Idle
<1>3. CASE StartNode
  <2>. PICK v : Becomes(Main, v)
    BY <1>3, ZenonT(60) DEF StartNode, Becomes
  <2>. QED
    BY <1>0, <1>1, OneActor, MainIsNoWorker, ZenonT(60) DEF Actor
<1>4. ASSUME NEW w \in Worker, NEW v, Becomes(w, v), v.pc # "release" PROVE NoRelease'
  BY <1>0, <1>4, OneActor, ZenonT(60) DEF NoRelease
<1>5. Idle.pc # "release" /\ Failed.pc # "release"
  BY DEF Idle, Failed
<1>6. ASSUME NEW w \in Worker, NEW n \in Node, SyncNode(w, n) PROVE NoRelease'
  <2>1. ~cache[n].deleting
    BY DEF FeedCalm, Calm
  <2>. \/ Becomes(w, Idle)
       \/ Becomes(w, Begin("define", n, cache[n].podCIDRs))
       \/ Becomes(w, Begin("occupy", n, cache[n].podCIDRs))
    BY <1>6, <2>1, ZenonT(60) DEF SyncNode, Becomes
  <2>. \A pc, cidrs : Begin(pc, n, cidrs).pc = pc
    BY DEF Begin, Idle
  <2>. QED
    BY <1>4, <1>5
<1>7. ASSUME NEW w \in Worker, WorkerStep(w) PROVE NoRelease'
  <2>0. w \in Actor /\ worker[w] \in WorkerRecords(PodCIDRs) /\ worker[w].pc # "release"
    BY <1>0 DEF WorkerTypeOK, Actor, NoRelease
  <2>1. ASSUME NEW failed, Return(w, failed) PROVE NoRelease'
    BY <1>4, <1>5, <2>1, ReturnBecomes, ZenonT(60)
  <2>2. ASSUME NEW k, Becomes(w, [worker[w] EXCEPT !.done = k]) PROVE NoRelease'
    <3>. [worker[w] EXCEPT !.done = k].pc = worker[w].pc
      BY <2>0 DEF WorkerRecords
    <3>. QED
      BY <1>4, <2>0, <2>2, ZenonT(60)
  <2>3. ASSUME NEW pc \in {"define", "patch", "giveback"}, Becomes(w, [worker[w] EXCEPT !.pc = pc])
        PROVE  NoRelease'
    <3>. [worker[w] EXCEPT !.pc = pc].pc = pc
      BY <2>0 DEF WorkerRecords
    <3>. QED
      BY <1>4, <2>3, ZenonT(60)
  <2>4. CASE OccupyPodCIDRs(w)
    <3>. PICK k : k = worker[w].done + 1
      BY Zenon
    <3>. \/ Return(w, FALSE) \/ Becomes(w, [worker[w] EXCEPT !.done = k])
         \/ Becomes(w, [worker[w] EXCEPT !.pc = "define"])
      BY <2>4, OccupyBecomes, ZenonT(60)
    <3>. QED
      BY <2>1, <2>2, <2>3, Zenon
  <2>5. CASE Define(w)
    <3>1. \/ Return(w, TRUE)
          \/ \E subnet \in Subnets \cup {Host, "none"} : Becomes(w, Defined(worker[w], subnet))
      BY <1>0, <2>0, <2>5, DefineBecomes, Zenon DEF TypeOK, Records, WellFormed, Known
    <3>2. ASSUME NEW subnet PROVE Defined(worker[w], subnet).pc # "release"
      BY <2>0 DEF Defined, WorkerRecords
    <3>. QED
      BY <1>4, <2>1, <3>1, <3>2, Zenon
  <2>6. CASE AllocateCIDR(w)
    <3>. Becomes(w, Taken(w))
      BY <1>0, <2>0, <2>6, AllocateBecomes, Zenon
    <3>. Taken(w).pc # "release"
      BY <2>0 DEF Taken, WorkerRecords
    <3>. QED
      BY <1>4
  <2>7. CASE UpdateCIDRsAllocation(w)
    <3>. \/ \E failed : Return(w, failed)
         \/ \E pc \in {"patch", "giveback"} : worker' = [worker EXCEPT ![w].pc = pc]
      BY <2>7, Zenon DEF UpdateCIDRsAllocation
    <3>. QED
      BY <2>1, <2>3 DEF Becomes
  <2>8. CASE PatchFails(w) \/ PatchTimesOut(w)
    <3>. PICK k, r : /\ Becomes(w, r)
                     /\ \/ r = [worker[w] EXCEPT !.done = k]
                        \/ r = [worker[w] EXCEPT !.pc = "giveback", !.done = 0, !.requeue = TRUE]
      BY <2>8 DEF PatchFails, PatchTimesOut, AfterFailedPatch, Becomes
    <3>. r.pc # "release"
      BY <2>0, Zenon DEF WorkerRecords
    <3>. QED
      BY <1>4
  <2>9. CASE ReleaseCIDRs(w)
    <3>. \/ \E failed : Return(w, failed)
         \/ \E k : worker' = [worker EXCEPT ![w].done = k]
      BY <2>9 DEF ReleaseCIDRs
    <3>. QED
      BY <2>1, <2>2 DEF Becomes
  <2>. QED
    BY <1>7, <2>1, <2>4, <2>5, <2>6, <2>7, <2>8, <2>9, ZenonT(60)
       DEF WorkerStep, DefineFails, CIDRNotAvailable, PatchNodeCIDRs
<1>8. ASSUME WorkerStep(Main) PROVE NoRelease'
  BY <1>0, <1>1, <1>8, ActorStep, MainIsNoWorker DEF Actor
<1>. QED
  BY <1>1, <1>2, <1>3, <1>6, <1>7, <1>8, ZenonT(60)
     DEF Next, vars, ownVars, Start, StartDone, StartFails, Crash, DeleteFunc, DeleteFuncPanics

\* Objects and chain: a worker changes them by a PATCH alone.
LEMMA CalmStep ==
    ASSUME OneRun, TypeOK, Quiet, FeedCalm(PodCIDRs), Chain, [Next]_vars
    PROVE  FeedCalm(PodCIDRs)' /\ Chain'
<1>0. ~Finalizers /\ Admits(PodCIDRs) /\ FeedTypeOK(PodCIDRs) /\ FeedQuiet /\ WorkerTypeOK(PodCIDRs)
  BY PodCIDRsAdmit DEF OneRun, TypeOK, Quiet
<1>1. ASSUME UNCHANGED <<api, inflight, events, cache>>, phase' = phase \/ phase' # "running"
      PROVE  FeedCalm(PodCIDRs)' /\ Chain'
  BY <1>1 DEF FeedCalm, Chain, LastSeen
<1>2. CASE \/ Start \/ StartNode \/ StartDone \/ DeleteFunc \/ UNCHANGED vars
           \/ \E w \in Worker, n \in Node : SyncNode(w, n)
  BY <1>1, <1>2 DEF Start, StartNode, StartDone, DeleteFunc, SyncNode, apiVars, informerVars,
                    vars, feedVars
<1>3. ASSUME Stop PROVE FeedCalm(PodCIDRs)' /\ Chain'
  <2>. FeedCalm(PodCIDRs)'
    BY <1>0, <1>3, DieCalm DEF Stop
  <2>. QED
    BY <1>3 DEF Stop, Die, Chain
<1>4. ASSUME NEW w \in Actor, WorkerStep(w), ~PatchNodeCIDRs(w)
      PROVE  FeedCalm(PodCIDRs)' /\ Chain'
  BY <1>1, <1>4, ZenonT(60)
     DEF WorkerStep, OccupyPodCIDRs, Define, DefineFails, AllocateCIDR, CIDRNotAvailable,
         UpdateCIDRsAllocation, PatchFails, PatchTimesOut, ReleaseCIDRs, OneRun,
         feedVars, apiVars, informerVars
<1>5. ASSUME NEW w \in Actor, PatchNodeCIDRs(w)
      PROVE  FeedCalm(PodCIDRs)' /\ Chain'
  <2>. PICK n \in Node, cidrs \in PodCIDRs : Accepts(n, cidrs) /\ ApplyPatch(n, cidrs)
    <3>. worker[w].node \in Node /\ worker[w].cidrs \in PodCIDRs
      BY <1>0, <1>5 DEF PatchNodeCIDRs, WorkerTypeOK, WorkerRecords, Actor
    <3>. QED
      BY <1>5, ZenonT(60) DEF PatchNodeCIDRs
  <2>. UNCHANGED <<inflight, phase, cache>>
    BY <1>5, Zenon DEF PatchNodeCIDRs
  <2>. api' \in [Node -> Calm(PodCIDRs)] /\ events' \in [Node -> Seq(Calm(PodCIDRs))]
    BY PatchCalm
  <2>. Chain'
    BY <1>0, PatchChain
  <2>. QED
    BY DEF FeedCalm
<1>6. CASE FeedStep
  BY <1>0, <1>6, FeedCalmStep, FeedChain
<1>. QED
  BY <1>2, <1>3, <1>4, <1>5, <1>6 DEF Next, StartFails, Crash, DeleteFuncPanics, Actor

=============================================================================
