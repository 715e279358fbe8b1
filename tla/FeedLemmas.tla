----------------------------- MODULE FeedLemmas -----------------------------
(***************************************************************************)
(* What the steps around a CIDR allocator do, whichever allocator it is:   *)
(* types, Node objects, the chain from the API server to the informer's    *)
(* cache, and the blocks of nodes that are on their way out.               *)
(*                                                                         *)
(* P is the set of values podCIDRs takes.                                  *)
(***************************************************************************)
EXTENDS NodeFeed, TLAPS

----------------------------------------------------------------------------
(* Types.                                                                  *)

\* P holds what nodes register with, and <<>>.
Admits(P) == <<>> \in P /\ RegisteredCIDRs \subseteq P

\* The API server's part of a step that stores an object.
LEMMA StoreTyped ==
    ASSUME NEW P, FeedTypeOK(P), NEW n \in Node, NEW object \in Objects(P), Store(n, object)
    PROVE  /\ api' \in [Node -> Objects(P)]
           /\ events' \in [Node -> Seq(Objects(P))]
  BY DEF Store, FeedTypeOK

LEMMA AbsentTyped ==
    ASSUME NEW P, Admits(P)
    PROVE  /\ Absent \in Objects(P)
           /\ \A cidrs \in P : \A t \in BOOLEAN : Present(cidrs, t) \in Objects(P)
  BY DEF Admits, Absent, Present, Objects

\* A PATCH of podCIDRs.
LEMMA PatchTyped ==
    ASSUME NEW P, FeedTypeOK(P), NEW n \in Node, NEW cidrs \in P, ApplyPatch(n, cidrs)
    PROVE  /\ api' \in [Node -> Objects(P)]
           /\ events' \in [Node -> Seq(Objects(P))]
<1>1. CASE UNCHANGED <<api, events>>
  BY <1>1 DEF FeedTypeOK
<1>2. CASE Store(n, [api[n] EXCEPT !.podCIDRs = cidrs])
  <2>1. api[n] \in Objects(P)
    BY DEF FeedTypeOK
  <2>2. [api[n] EXCEPT !.podCIDRs = cidrs] \in Objects(P)
    BY <2>1 DEF Objects
  <2>. QED
    BY <1>2, <2>2, StoreTyped
<1>. QED
  BY <1>1, <1>2 DEF ApplyPatch

\* Every step of NodeFeed keeps the types.
LEMMA FeedTyped ==
    ASSUME NEW P, Admits(P), FeedTypeOK(P), FeedStep
    PROVE  FeedTypeOK(P)'
<1>1. ASSUME NEW n \in Node, NEW object \in Objects(P), Store(n, object),
             UNCHANGED <<inflight, phase, cache, deleted, queue>>
      PROVE  FeedTypeOK(P)'
  BY <1>1, StoreTyped, Zenon DEF FeedTypeOK
<1>2. ASSUME NEW n \in Node, CreateNode(n) PROVE FeedTypeOK(P)'
  BY <1>1, <1>2, AbsentTyped, FeedAssumption DEF CreateNode, Admits
<1>3. ASSUME NEW n \in Node, RemoveTaint(n) PROVE FeedTypeOK(P)'
  <2>1. [api[n] EXCEPT !.tainted = FALSE] \in Objects(P)
    BY Zenon DEF FeedTypeOK, Objects
  <2>. QED
    BY <1>1, <1>3, <2>1 DEF RemoveTaint
<1>4. ASSUME NEW n \in Node, RemoveNode(n) PROVE FeedTypeOK(P)'
  BY <1>1, <1>4, AbsentTyped DEF RemoveNode
<1>5. ASSUME NEW n \in Node, MarkDeleting(n) PROVE FeedTypeOK(P)'
  <2>1. [api[n] EXCEPT !.deleting = TRUE] \in Objects(P)
    BY Zenon DEF FeedTypeOK, Objects
  <2>. QED
    BY <1>1, <1>5, <2>1 DEF MarkDeleting
<1>6. ASSUME NEW n \in Node, Deliver(n) PROVE FeedTypeOK(P)'
  <2>1. Head(events[n]) \in Objects(P) /\ Tail(events[n]) \in Seq(Objects(P))
    BY <1>6 DEF Deliver, FeedTypeOK
  <2>2. Deletion(n, cache[n].podCIDRs) \in Notices(P)
    BY DEF Deletion, Notices, FeedTypeOK, Objects
  <2>3. deleted' \in Seq(Notices(P)) /\ queue' \subseteq Node
    <3>1. CASE Head(events[n]).exists
      BY <1>6, <3>1 DEF Deliver, FeedTypeOK
    <3>2. CASE ~Head(events[n]).exists
      <4>1. deleted' = Append(deleted, Deletion(n, cache[n].podCIDRs)) /\ queue' = queue
        BY <1>6, <3>2 DEF Deliver
      <4>. QED
        BY <2>2, <4>1 DEF FeedTypeOK
    <3>. QED
      BY <3>1, <3>2
  <2>. QED
    BY <1>6, <2>1, <2>3 DEF Deliver, FeedTypeOK, apiVars
<1>7. ASSUME NEW n \in Node, Resync(n) PROVE FeedTypeOK(P)'
  BY <1>7 DEF Resync, FeedTypeOK, apiVars, informerVars
<1>8. CASE Relist
  <2>1. Tombstone \in Notices(P)
    BY DEF Notices
  <2>. QED
    BY <1>8, <2>1 DEF Relist, FeedTypeOK, apiVars
<1>9. CASE CacheSync
  BY <1>9 DEF CacheSync, FeedTypeOK, apiVars
<1>10. ASSUME NEW p \in inflight, LatePatch(p) PROVE FeedTypeOK(P)'
  <2>1. p.node \in Node /\ p.cidrs \in P
    BY DEF FeedTypeOK
  <2>2. /\ api' \in [Node -> Objects(P)]
        /\ events' \in [Node -> Seq(Objects(P))]
    <3>1. CASE UNCHANGED <<api, events>>
      BY <3>1 DEF FeedTypeOK
    <3>2. CASE ApplyPatch(p.node, p.cidrs)
      BY <2>1, <3>2, PatchTyped
    <3>. QED
      BY <1>10, <3>1, <3>2 DEF LatePatch
  <2>. QED
    BY <1>10, <2>2 DEF LatePatch, FeedTypeOK
<1>. QED
  BY <1>2, <1>3, <1>4, <1>5, <1>6, <1>7, <1>8, <1>9, <1>10 DEF FeedStep

\* The first state, and the end of the process.
LEMMA FeedInitTyped ==
    ASSUME NEW P, Admits(P), InitialCIDRs \subseteq P, FeedInit
    PROVE  FeedTypeOK(P)
<1>1. {Absent} \cup {Present(cidrs, FALSE) : cidrs \in InitialCIDRs} \subseteq Objects(P)
  BY AbsentTyped, Zenon
<1>2. api \in [Node -> Objects(P)]
  BY <1>1, Zenon DEF FeedInit
<1>. QED
  BY <1>2, AbsentTyped DEF FeedInit, FeedTypeOK

LEMMA DieTyped ==
    ASSUME NEW P, Admits(P), FeedTypeOK(P), Die
    PROVE  FeedTypeOK(P)'
  BY AbsentTyped DEF Die, FeedTypeOK, apiVars

\* Events and notices exist only in a running process.
FeedQuiet ==
    phase # "running" => events = [n \in Node |-> <<>>] /\ deleted = <<>>

\* The informer's first list is the only change of phase.
LEMMA FeedPhase ==
    ASSUME FeedStep
    PROVE  phase' = phase \/ (phase = "listed" /\ phase' = "running")
  BY Zenon DEF FeedStep, Relist, CacheSync, CreateNode, RemoveTaint, RemoveNode, MarkDeleting,
         Deliver, Resync, LatePatch

LEMMA FeedQuietStep ==
    ASSUME FeedQuiet, FeedStep
    PROVE  FeedQuiet'
<1>1. ASSUME phase' = phase, deleted' = deleted, phase # "running" => events' = events
      PROVE  FeedQuiet'
  BY <1>1 DEF FeedQuiet
<1>2. ASSUME phase' = "running" PROVE FeedQuiet'
  BY <1>2 DEF FeedQuiet
<1>. QED
  BY <1>1, <1>2, Zenon
     DEF FeedStep, Relist, CacheSync, CreateNode, RemoveTaint, RemoveNode, MarkDeleting,
         Deliver, Resync, LatePatch, ApplyPatch, Store, apiVars, informerVars

----------------------------------------------------------------------------
(* Node objects, when nodes go at once and every reply arrives.            *)

\* No object is being deleted, and one that is gone holds nothing.
Calm(P) == {o \in Objects(P) : ~o.deleting /\ (~o.exists => o.podCIDRs = <<>>)}

FeedCalm(P) ==
    /\ api \in [Node -> Calm(P)]
    /\ events \in [Node -> Seq(Calm(P))]
    /\ cache \in [Node -> Calm(P)]
    /\ inflight = {}

LEMMA CalmAbsent ==
    ASSUME NEW P, Admits(P)
    PROVE  /\ Absent \in Calm(P)
           /\ \A cidrs \in P : \A t \in BOOLEAN : Present(cidrs, t) \in Calm(P)
<1>1. /\ Absent \in Objects(P)
      /\ \A cidrs \in P : \A t \in BOOLEAN : Present(cidrs, t) \in Objects(P)
  BY AbsentTyped
<1>. QED
  BY <1>1 DEF Calm, Absent, Present

LEMMA FeedInitCalm ==
    ASSUME NEW P, Admits(P), InitialCIDRs \subseteq P, FeedInit
    PROVE  FeedCalm(P)
<1>1. {Absent} \cup {Present(cidrs, FALSE) : cidrs \in InitialCIDRs} \subseteq Calm(P)
  BY CalmAbsent, Zenon
<1>2. api \in [Node -> Calm(P)]
  BY <1>1, Zenon DEF FeedInit
<1>3. <<>> \in Seq(Calm(P))
  OBVIOUS
<1>. QED
  BY <1>2, <1>3, CalmAbsent DEF FeedInit, FeedCalm

LEMMA DieCalm ==
    ASSUME NEW P, Admits(P), FeedCalm(P), Die
    PROVE  FeedCalm(P)'
<1>1. <<>> \in Seq(Calm(P))
  OBVIOUS
<1>. QED
  BY <1>1, CalmAbsent DEF Die, FeedCalm, apiVars

\* A change at the API server, as CreateNode, RemoveNode, RemoveTaint and a PATCH
\* make it.
LEMMA StoreCalm ==
    ASSUME NEW P, FeedCalm(P), NEW n \in Node, NEW object \in Calm(P), Store(n, object)
    PROVE  api' \in [Node -> Calm(P)] /\ events' \in [Node -> Seq(Calm(P))]
  BY DEF Store, FeedCalm

\* An accepted PATCH changes nothing, or stores the node with its CIDRs.
LEMMA PatchStores ==
    ASSUME NEW P, FeedCalm(P), NEW n \in Node, NEW cidrs \in P,
           Accepts(n, cidrs), ApplyPatch(n, cidrs)
    PROVE  \/ UNCHANGED <<api, events>>
           \/ \E object \in Calm(P) :
                Store(n, object) /\ object.exists /\ object.podCIDRs = cidrs
<1>1. api[n] \in Calm(P) /\ api[n].exists
  BY DEF FeedCalm, Accepts
<1>2. api[n] \in Objects(P) /\ ~api[n].deleting
  BY <1>1 DEF Calm
<1>. DEFINE o == [api[n] EXCEPT !.podCIDRs = cidrs]
<1>3. o \in Objects(P) /\ ~o.deleting /\ o.exists /\ o.podCIDRs = cidrs
  BY <1>1, <1>2 DEF Objects
<1>4. UNCHANGED <<api, events>> \/ Store(n, o)
  BY DEF ApplyPatch
<1>. HIDE DEF o
<1>5. o \in Calm(P)
  BY <1>3 DEF Calm
<1>. QED
  BY <1>3, <1>4, <1>5

LEMMA PatchCalm ==
    ASSUME NEW P, FeedCalm(P), NEW n \in Node, NEW cidrs \in P,
           Accepts(n, cidrs), ApplyPatch(n, cidrs)
    PROVE  api' \in [Node -> Calm(P)] /\ events' \in [Node -> Seq(Calm(P))]
<1>1. CASE UNCHANGED <<api, events>>
  BY <1>1 DEF FeedCalm
<1>2. ASSUME NEW object \in Calm(P), Store(n, object)
      PROVE  api' \in [Node -> Calm(P)] /\ events' \in [Node -> Seq(Calm(P))]
  BY <1>2, StoreCalm
<1>. QED
  BY <1>1, <1>2, PatchStores

\* What a step of NodeFeed stores: the object of a node that is created or removed,
\* or one with the same CIDRs.
Stored(n, object) ==
    \/ object = Absent
    \/ \E cidrs \in RegisteredCIDRs : object = Present(cidrs, Tainted)
    \/ object.exists /\ object.podCIDRs = api[n].podCIDRs

LEMMA FeedStores ==
    ASSUME ~Finalizers, NEW P, Admits(P), FeedCalm(P), FeedStep
    PROVE  /\ UNCHANGED inflight
           /\ \/ UNCHANGED api /\ (Relist \/ CacheSync \/ \E n \in Node : Deliver(n) \/ Resync(n))
              \/ \E n \in Node, object \in Calm(P) :
                   /\ Store(n, object) /\ Stored(n, object)
                   /\ UNCHANGED <<phase, cache, deleted, queue>>
<1>0. inflight = {}
  BY DEF FeedCalm
<1>1. CASE Relist \/ CacheSync \/ \E n \in Node : Deliver(n) \/ Resync(n)
  BY <1>1 DEF Relist, CacheSync, Deliver, Resync, apiVars
<1>2. ASSUME NEW n \in Node, CreateNode(n)
      PROVE  /\ UNCHANGED <<inflight, phase, cache, deleted, queue>>
             /\ \E cidrs \in RegisteredCIDRs :
                  Present(cidrs, Tainted) \in Calm(P) /\ Store(n, Present(cidrs, Tainted))
  BY <1>2, CalmAbsent, FeedAssumption DEF CreateNode, Admits
<1>3. ASSUME NEW n \in Node, RemoveTaint(n)
      PROVE  /\ UNCHANGED <<inflight, phase, cache, deleted, queue>>
             /\ \E object \in Calm(P) : /\ Store(n, object)
                                        /\ object.exists /\ object.podCIDRs = api[n].podCIDRs
  <2>. DEFINE o == [api[n] EXCEPT !.tainted = FALSE]
  <2>1. Store(n, o) /\ UNCHANGED <<inflight, phase, cache, deleted, queue>> /\ api[n].exists
    BY <1>3 DEF RemoveTaint
  <2>2. api[n] \in Objects(P) /\ ~api[n].deleting
    BY DEF FeedCalm, Calm
  <2>3. o \in Objects(P) /\ ~o.deleting /\ o.exists /\ o.podCIDRs = api[n].podCIDRs
    BY <2>1, <2>2, Zenon DEF Objects
  <2>. HIDE DEF o
  <2>4. o \in Calm(P)
    BY <2>3 DEF Calm
  <2>. QED
    BY <2>1, <2>3, <2>4
<1>4. ASSUME NEW n \in Node, RemoveNode(n)
      PROVE  /\ UNCHANGED <<inflight, phase, cache, deleted, queue>>
             /\ Absent \in Calm(P) /\ Store(n, Absent)
  BY <1>4, CalmAbsent DEF RemoveNode
<1>5. \A n \in Node : ~MarkDeleting(n)
  BY DEF MarkDeleting
<1>. QED
  BY <1>0, <1>1, <1>2, <1>3, <1>4, <1>5, SMTT(30) DEF FeedStep, Stored

\* Every step of NodeFeed keeps the objects calm.
LEMMA FeedCalmStep ==
    ASSUME ~Finalizers, NEW P, Admits(P), FeedCalm(P), FeedStep
    PROVE  FeedCalm(P)'
<1>0. UNCHANGED inflight
  BY FeedStores
<1>1. ASSUME NEW n \in Node, NEW object \in Calm(P), Store(n, object), UNCHANGED cache
      PROVE  FeedCalm(P)'
  BY <1>0, <1>1, StoreCalm DEF FeedCalm
<1>2. ASSUME UNCHANGED api, Relist \/ CacheSync PROVE FeedCalm(P)'
  <2>1. cache' = api /\ (events' = events \/ events' = [n \in Node |-> <<>>])
    BY <1>2 DEF Relist, CacheSync
  <2>2. events' \in [Node -> Seq(Calm(P))]
    <3>1. <<>> \in Seq(Calm(P))
      OBVIOUS
    <3>. QED
      BY <2>1, <3>1, Zenon DEF FeedCalm
  <2>. QED
    BY <1>0, <1>2, <2>1, <2>2 DEF FeedCalm
<1>3. ASSUME UNCHANGED api, NEW n \in Node, Deliver(n) PROVE FeedCalm(P)'
  <2>1. events[n] \in Seq(Calm(P)) /\ events[n] # <<>>
    BY <1>3 DEF Deliver, FeedCalm
  <2>2. Head(events[n]) \in Calm(P) /\ Tail(events[n]) \in Seq(Calm(P))
    BY <2>1
  <2>. QED
    BY <1>0, <1>3, <2>2 DEF Deliver, FeedCalm
<1>4. ASSUME UNCHANGED api, NEW n \in Node, Resync(n) PROVE FeedCalm(P)'
  BY <1>0, <1>4 DEF Resync, FeedCalm, informerVars
<1>. QED
  BY <1>1, <1>2, <1>3, <1>4, FeedStores

----------------------------------------------------------------------------
(* The chain to the cache.                                                 *)

Pos == Nat \ {0}

\* Positions start at 1.
LEMMA PosPositive == \A k \in Pos : k > 0
  BY DEF Pos

\* The last state of n on its way to the cache.
LastSeen(n) == IF events[n] = <<>> THEN cache[n] ELSE events[n][Len(events[n])]

\* In a running process the cache catches up with the API server.
Chain == phase = "running" => \A n \in Node : LastSeen(n) = api[n]

LEMMA TailFacts ==
    ASSUME NEW S, NEW s \in Seq(S), s # <<>>
    PROVE  /\ Tail(s) \in Seq(S)
           /\ Len(s) \in Pos
           /\ Len(Tail(s)) = Len(s) - 1
           /\ \A i \in 1 .. Len(s) - 1 : Tail(s)[i] = s[i + 1]
           /\ Tail(s) = <<>> <=> Len(s) = 1
           /\ Head(s) = s[1]
<1>1. Tail(s) \in Seq(S) /\ Len(s) \in Nat /\ Len(Tail(s)) = Len(s) - 1 /\ Head(s) = s[1]
  OBVIOUS
<1>2. Len(s) # 0
  OBVIOUS
<1>3. \A i \in 1 .. Len(s) - 1 : Tail(s)[i] = s[i + 1]
  OBVIOUS
<1>4. \A u \in Seq(S) : u = <<>> <=> Len(u) = 0
  OBVIOUS
<1>. QED
  BY <1>1, <1>2, <1>3, <1>4 DEF Pos

\* A stored change is the last one on its way to the cache.
LEMMA StoreChain ==
    ASSUME NEW P, FeedTypeOK(P), Chain, NEW n \in Node, NEW object, Store(n, object),
           UNCHANGED <<phase, cache>>
    PROVE  Chain'
<1>. SUFFICES ASSUME phase = "running", NEW m \in Node PROVE LastSeen(m)' = api'[m]
  BY DEF Chain
<1>1. /\ api' = [api EXCEPT ![n] = object]
      /\ events' = [events EXCEPT ![n] = Append(@, object)]
      /\ \A l \in Node : LastSeen(l) = api[l]
  BY DEF Store, Chain
<1>2. /\ api \in [Node -> Objects(P)]
      /\ events \in [Node -> Seq(Objects(P))]
  BY DEF FeedTypeOK
<1>3. CASE m = n
  <2>1. events'[n] = Append(events[n], object) /\ api'[n] = object
    BY <1>1, <1>2
  <2>2. events'[n] # <<>> /\ events'[n][Len(events'[n])] = object
    <3>. DEFINE s == events[n]
    <3>1. s \in Seq(Objects(P))
      BY <1>2
    <3>. HIDE DEF s
    <3>2. /\ Len(Append(s, object)) = Len(s) + 1
          /\ Append(s, object)[Len(s) + 1] = object
          /\ Append(s, object) # <<>>
      BY <3>1
    <3>. QED
      BY <2>1, <3>2 DEF s
  <2>. QED
    BY <1>3, <2>1, <2>2 DEF LastSeen
<1>4. CASE m # n
  <2>1. events'[m] = events[m] /\ api'[m] = api[m]
    BY <1>1, <1>2, <1>4
  <2>. QED
    BY <1>1, <2>1, Zenon DEF LastSeen
<1>. QED
  BY <1>3, <1>4

\* Every step of NodeFeed keeps the chain.
LEMMA FeedChain ==
    ASSUME ~Finalizers, NEW P, Admits(P), FeedTypeOK(P), FeedCalm(P), FeedQuiet, Chain, FeedStep
    PROVE  Chain'
<1>1. ASSUME UNCHANGED api, Relist \/ CacheSync PROVE Chain'
  <2>1. cache' = api /\ events' = [n \in Node |-> <<>>]
    BY <1>1 DEF Relist, CacheSync, FeedQuiet
  <2>. QED
    BY <1>1, <2>1 DEF Chain, LastSeen
<1>2. ASSUME UNCHANGED api, NEW n \in Node, Deliver(n) PROVE Chain'
  <2>. SUFFICES ASSUME NEW m \in Node PROVE LastSeen(m)' = LastSeen(m)
    BY <1>2 DEF Chain, Deliver
  <2>1. /\ events[n] \in Seq(Calm(P)) /\ events[n] # <<>>
        /\ events' = [events EXCEPT ![n] = Tail(@)]
        /\ cache' = [cache EXCEPT ![n] = Head(events[n])]
        /\ cache \in [Node -> Calm(P)] /\ events \in [Node -> Seq(Calm(P))]
    BY <1>2 DEF Deliver, FeedCalm
  <2>2. CASE m # n
    <3>1. events'[m] = events[m] /\ cache'[m] = cache[m]
      BY <2>1, <2>2
    <3>. QED
      BY <3>1 DEF LastSeen
  <2>3. CASE m = n
    <3>. DEFINE s == events[n]
    <3>1. events'[n] = Tail(s) /\ cache'[n] = Head(s)
      BY <2>1
    <3>2. s \in Seq(Calm(P)) /\ s # <<>>
      BY <2>1
    <3>. HIDE DEF s
    <3>3. IF Tail(s) = <<>> THEN Head(s) = s[Len(s)] ELSE Tail(s)[Len(Tail(s))] = s[Len(s)]
      BY <3>2, TailFacts
    <3>. QED
      BY <2>3, <3>1, <3>2, <3>3 DEF LastSeen, s
  <2>. QED
    BY <2>2, <2>3
<1>3. ASSUME UNCHANGED api, NEW n \in Node, Resync(n) PROVE Chain'
  BY <1>3 DEF Resync, informerVars, Chain, LastSeen
<1>4. ASSUME NEW n \in Node, NEW object, Store(n, object), UNCHANGED <<phase, cache>>
      PROVE  Chain'
  BY <1>4, StoreChain
<1>. QED
  BY <1>1, <1>2, <1>3, <1>4, FeedStores

\* So does an accepted PATCH.
LEMMA PatchChain ==
    ASSUME NEW P, FeedTypeOK(P), Chain, NEW n \in Node, NEW cidrs, ApplyPatch(n, cidrs),
           UNCHANGED <<phase, cache>>
    PROVE  Chain'
<1>1. CASE UNCHANGED <<api, events>>
  BY <1>1 DEF Chain, LastSeen
<1>2. ASSUME NEW object, Store(n, object) PROVE Chain'
  BY <1>2, StoreChain
<1>. QED
  BY <1>1, <1>2 DEF ApplyPatch

----------------------------------------------------------------------------
(* Who claims a block of one subnet: the node that holds it, the worker    *)
(* that has taken it, a removal the informer has not delivered yet, or a   *)
(* notice DeleteFunc has not worked off.  A block moves from claim to      *)
(* claim.                                                                  *)
(*                                                                         *)
(* left[cidrs][d] is what cidrs cover of the subnet behind the d-th CIDR,  *)
(* hand[w] what the worker w \in W has taken, and r the number of CIDRs    *)
(* that DeleteFunc has released for the first notice.                      *)

Covers(P, left) ==
    /\ \A d \in Nat : left[<<>>][d] = {}
    /\ \A cidrs \in P : \A d, e \in Nat : d <= e => left[cidrs][e] \subseteq left[cidrs][d]

Holds(left, n) == left[api[n].podCIDRs][0]

\* The state of n that its i-th undelivered event replaces in the cache.
Before(n, i) == IF i = 1 THEN cache[n] ELSE events[n][i - 1]

\* What DeleteFunc will release when the i-th event of n is delivered.
Doomed(left, n, i) ==
    IF i \in DOMAIN events[n] /\ ~events[n][i].exists THEN left[Before(n, i).podCIDRs][0] ELSE {}

\* What DeleteFunc has still to release for the j-th notice.
Notice(left, r, j) ==
    IF j \in DOMAIN deleted THEN left[deleted[j].cidrs][IF j = 1 THEN r ELSE 0] ELSE {}

\* Nobody shares a block.
Exclusive(left, r, W, hand) ==
    /\ \A m, n \in Node : m # n => Holds(left, m) \cap Holds(left, n) = {}
    /\ \A n \in Node, w \in W : Holds(left, n) \cap hand[w] = {}
    /\ \A m, n \in Node, i \in Pos : Holds(left, m) \cap Doomed(left, n, i) = {}
    /\ \A n \in Node, j \in Pos : Holds(left, n) \cap Notice(left, r, j) = {}
    /\ \A v, w \in W : v # w => hand[v] \cap hand[w] = {}
    /\ \A w \in W, n \in Node, i \in Pos : hand[w] \cap Doomed(left, n, i) = {}
    /\ \A w \in W, j \in Pos : hand[w] \cap Notice(left, r, j) = {}
    /\ \A m, n \in Node, i, j \in Pos :
         m # n \/ i # j => Doomed(left, m, i) \cap Doomed(left, n, j) = {}
    /\ \A n \in Node, i, j \in Pos : Doomed(left, n, i) \cap Notice(left, r, j) = {}
    /\ \A i, j \in Pos : i # j => Notice(left, r, i) \cap Notice(left, r, j) = {}

\* Every claim is in the set used.
Marked(left, r, W, hand, used) ==
    /\ \A n \in Node : Holds(left, n) \subseteq used
    /\ \A w \in W : hand[w] \subseteq used
    /\ \A n \in Node, i \in Pos : Doomed(left, n, i) \subseteq used
    /\ \A j \in Pos : Notice(left, r, j) \subseteq used

\* No claim grows when r and hand become r2 and hand2.
Shrunk(left, r, W, hand, r2, hand2) ==
    /\ \A n \in Node : Holds(left, n)' \subseteq Holds(left, n)
    /\ \A w \in W : hand2[w] \subseteq hand[w]
    /\ \A n \in Node, i \in Pos : Doomed(left, n, i)' \subseteq Doomed(left, n, i)
    /\ \A j \in Pos : Notice(left, r2, j)' \subseteq Notice(left, r, j)

----------------------------------------------------------------------------
(* Moves of a block from claim to claim.                                   *)

LEMMA ShrunkClaims ==
    ASSUME NEW left, NEW r, NEW r2, NEW W, NEW hand, NEW hand2,
           Shrunk(left, r, W, hand, r2, hand2)
    PROVE  /\ Exclusive(left, r, W, hand) => Exclusive(left, r2, W, hand2)'
           /\ \A used, used2 : Marked(left, r, W, hand, used) /\ used \subseteq used2
                                 => Marked(left, r2, W, hand2, used2)'
<1>1. Exclusive(left, r, W, hand) => Exclusive(left, r2, W, hand2)'
  BY DEF Exclusive, Shrunk
<1>2. ASSUME NEW used, NEW used2, Marked(left, r, W, hand, used), used \subseteq used2
      PROVE  Marked(left, r2, W, hand2, used2)'
  BY <1>2 DEF Marked, Shrunk
<1>. QED
  BY <1>1, <1>2

\* Worker a takes a free block.
LEMMA Grabbed ==
    ASSUME NEW left, NEW r, NEW W, NEW hand, NEW hand2, NEW a \in W, NEW b, NEW used, b \notin used,
           Exclusive(left, r, W, hand), Marked(left, r, W, hand, used),
           UNCHANGED <<api, events, cache, deleted>>,
           \A v \in W \ {a} : hand2[v] \subseteq hand[v],
           hand2[a] \subseteq hand[a] \cup {b}
    PROVE  /\ Exclusive(left, r, W, hand2)'
           /\ Marked(left, r, W, hand2, used \cup {b})'
<1>1. /\ \A n \in Node : Holds(left, n)' = Holds(left, n)
      /\ \A n \in Node, i \in Pos : Doomed(left, n, i)' = Doomed(left, n, i)
      /\ \A j \in Pos : Notice(left, r, j)' = Notice(left, r, j)
  BY DEF Holds, Doomed, Before, Notice
<1>2. /\ \A v, w \in W : v # w => hand2[v] \cap hand2[w] = {}
      /\ \A w \in W : hand2[w] \subseteq used \cup {b}
  BY DEF Exclusive, Marked
<1>3. /\ \A n \in Node, w \in W : Holds(left, n) \cap hand2[w] = {}
      /\ \A w \in W, n \in Node, i \in Pos : hand2[w] \cap Doomed(left, n, i) = {}
      /\ \A w \in W, j \in Pos : hand2[w] \cap Notice(left, r, j) = {}
  BY SMTT(60), Z3T(60) DEF Exclusive, Marked
<1>4. Exclusive(left, r, W, hand2)'
  BY <1>1, <1>2, <1>3, SMTT(60), Z3T(60) DEF Exclusive
<1>5. Marked(left, r, W, hand2, used \cup {b})'
  BY <1>1, <1>2, SMTT(60), Z3T(60) DEF Marked
<1>. QED
  BY <1>4, <1>5

\* Worker a assigns its blocks to the node x.
LEMMA HandedOver ==
    ASSUME NEW left, NEW r, NEW W, NEW hand, NEW hand2, NEW a \in W, NEW x \in Node,
           Exclusive(left, r, W, hand),
           \A n \in Node \ {x} : Holds(left, n)' \subseteq Holds(left, n),
           Holds(left, x)' \subseteq hand[a],
           \A v \in W \ {a} : hand2[v] \subseteq hand[v],
           hand2[a] = {},
           \A n \in Node, i \in Pos : Doomed(left, n, i)' \subseteq Doomed(left, n, i),
           \A j \in Pos : Notice(left, r, j)' \subseteq Notice(left, r, j)
    PROVE  Exclusive(left, r, W, hand2)'
  BY DEF Exclusive

\* The first event of x is delivered; a removal becomes notice number e.
LEMMA Delivered ==
    ASSUME NEW left, NEW r, NEW W, NEW hand, NEW x \in Node, NEW e \in Pos,
           Exclusive(left, r, W, hand),
           \A n \in Node : Holds(left, n)' \subseteq Holds(left, n),
           \A n \in Node \ {x}, i \in Pos : Doomed(left, n, i)' \subseteq Doomed(left, n, i),
           \A i \in Pos : /\ i + 1 \in Pos /\ i + 1 # 1
                          /\ \A j \in Pos : i # j => i + 1 # j + 1
                          /\ Doomed(left, x, i)' \subseteq Doomed(left, x, i + 1),
           1 \in Pos,
           \A j \in Pos : \/ Notice(left, r, j)' \subseteq Notice(left, r, j)
                          \/ j = e /\ Notice(left, r, j)' \subseteq Doomed(left, x, 1)
    PROVE  Exclusive(left, r, W, hand)'
  BY SMTT(60), Z3T(60) DEF Exclusive

\* The node x is removed; what it held is doomed by its event number e.
Vacated(left, r, x, e) ==
    /\ Holds(left, x)' = {}
    /\ \A n \in Node \ {x} : Holds(left, n)' \subseteq Holds(left, n)
    /\ \A n \in Node, i \in Pos :
         \/ Doomed(left, n, i)' \subseteq Doomed(left, n, i)
         \/ n = x /\ i = e /\ Doomed(left, n, i)' \subseteq Holds(left, x)
    /\ \A j \in Pos : Notice(left, r, j)' \subseteq Notice(left, r, j)

\* What a removal vacates nobody else claims.
LEMMA Removed ==
    ASSUME NEW left, NEW r, NEW W, NEW hand, NEW x \in Node, NEW e \in Pos,
           Exclusive(left, r, W, hand), Vacated(left, r, x, e)
    PROVE  Exclusive(left, r, W, hand)'
  BY SMTT(60), Z3T(60) DEF Exclusive, Vacated

\* The first notice is dealt with; the others move up.
LEMMA MovedUp ==
    ASSUME NEW left, NEW r, NEW W, NEW hand,
           Exclusive(left, r, W, hand),
           \A n \in Node : Holds(left, n)' = Holds(left, n),
           \A n \in Node, i \in Pos : Doomed(left, n, i)' = Doomed(left, n, i),
           \A j \in Pos : Notice(left, 0, j)' \subseteq Notice(left, r, j + 1),
           \A i \in Pos : i + 1 \in Pos /\ \A j \in Pos : i # j => i + 1 # j + 1
    PROVE  Exclusive(left, 0, W, hand)'
  BY SMTT(60), Z3T(60) DEF Exclusive

----------------------------------------------------------------------------
(* How the steps change the claims.                                        *)

\* A change at the API server: n holds what the new object says; if it removes n,
\* what n held is doomed by the event just appended.
LEMMA StoreClaims ==
    ASSUME NEW P, FeedTypeOK(P), Chain, NEW n \in Node, NEW object, Store(n, object),
           UNCHANGED <<phase, cache>>, NEW left
    PROVE  /\ \A m \in Node \ {n} : Holds(left, m)' = Holds(left, m)
           /\ Holds(left, n)' = left[object.podCIDRs][0]
           /\ \A m \in Node, i \in Pos :
                \/ Doomed(left, m, i)' \subseteq Doomed(left, m, i)
                \/ /\ m = n /\ i = Len(events[n]) + 1 /\ ~object.exists
                   /\ Doomed(left, m, i)' \subseteq Holds(left, n)
<1>0. /\ api \in [Node -> Objects(P)]
      /\ events \in [Node -> Seq(Objects(P))]
  BY DEF FeedTypeOK
<1>1. api' = [api EXCEPT ![n] = object]
  BY DEF Store
<1>2. /\ \A m \in Node \ {n} : Holds(left, m)' = Holds(left, m)
      /\ Holds(left, n)' = left[object.podCIDRs][0]
  BY <1>0, <1>1 DEF Holds
<1>3. ASSUME NEW m \in Node, NEW i \in Pos
      PROVE  \/ Doomed(left, m, i)' \subseteq Doomed(left, m, i)
             \/ /\ m = n /\ i = Len(events[n]) + 1 /\ ~object.exists
                /\ Doomed(left, m, i)' \subseteq Holds(left, n)
  <2>1. CASE phase # "running"
    BY <2>1 DEF Store, Doomed, Before
  <2>2. CASE phase = "running"
    <3>1. events' = [events EXCEPT ![n] = Append(@, object)]
      BY <2>2 DEF Store
    <3>2. CASE m # n
      <4>1. events'[m] = events[m]
        BY <1>0, <3>1, <3>2
      <4>. QED
        BY <4>1 DEF Doomed, Before
    <3>3. CASE m = n
      <4>. DEFINE s == events[n]
      <4>1. events'[n] = Append(s, object) /\ s \in Seq(Objects(P))
        BY <1>0, <3>1
      <4>2. /\ Len(s) \in Nat /\ DOMAIN s = 1 .. Len(s)
            /\ DOMAIN Append(s, object) = 1 .. Len(s) + 1
            /\ Append(s, object)[Len(s) + 1] = object
            /\ \A l \in 1 .. Len(s) : Append(s, object)[l] = s[l]
        BY <4>1
      <4>3. CASE i \notin 1 .. Len(s) + 1
        <5>1. Doomed(left, n, i)' = {}
          BY <4>1, <4>2, <4>3 DEF Doomed
        <5>. QED
          BY <3>3, <5>1
      <4>4. CASE i \in 1 .. Len(s)
        <5>1. events'[n][i] = s[i] /\ Before(n, i)' = Before(n, i)
          BY <4>1, <4>2, <4>4 DEF Before
        <5>2. Doomed(left, n, i)' = Doomed(left, n, i)
          BY <4>1, <4>2, <4>4, <5>1 DEF Doomed
        <5>. QED
          BY <3>3, <5>2
      <4>5. CASE i = Len(s) + 1
        <5>1. events'[n][i] = object
          BY <4>1, <4>2, <4>5
        <5>2. Before(n, i)' = api[n]
          <6>1. LastSeen(n) = api[n]
            BY <2>2 DEF Chain
          <6>2. CASE s = <<>>
            <7>1. i = 1
              BY <4>5, <6>2
            <7>. QED
              BY <6>1, <6>2, <7>1 DEF Before, LastSeen
          <6>3. CASE s # <<>>
            <7>1. i # 1 /\ i - 1 = Len(s) /\ Len(s) \in 1 .. Len(s)
              BY <4>1, <4>5, <6>3
            <7>2. events'[n][i - 1] = s[Len(s)]
              BY <4>1, <4>2, <7>1
            <7>. QED
              BY <6>1, <6>3, <7>1, <7>2 DEF Before, LastSeen
          <6>. QED
            BY <6>2, <6>3
        <5>3. Doomed(left, n, i)' \subseteq Holds(left, n)
          BY <5>2 DEF Doomed, Holds
        <5>4. object.exists => Doomed(left, n, i)' = {}
          BY <5>1 DEF Doomed
        <5>. QED
          BY <3>3, <4>5, <5>3, <5>4
      <4>. QED
        BY <4>2, <4>3, <4>4, <4>5 DEF Pos
    <3>. QED
      BY <3>2, <3>3
  <2>. QED
    BY <2>1, <2>2
<1>. QED
  BY <1>2, <1>3

\* An event reaches the cache: later removals move up by one, and a removal that is
\* delivered becomes a notice.
LEMMA DeliverClaims ==
    ASSUME NEW P, FeedTypeOK(P), NEW left, Covers(P, left), NEW n \in Node, Deliver(n), NEW r \in Nat
    PROVE  /\ \A m \in Node \ {n}, i \in Pos : Doomed(left, m, i)' \subseteq Doomed(left, m, i)
           /\ \A i \in Pos : Doomed(left, n, i)' \subseteq Doomed(left, n, i + 1)
           /\ \A j \in Pos : \/ Notice(left, r, j)' \subseteq Notice(left, r, j)
                             \/ /\ j = Len(deleted) + 1
                                /\ Notice(left, r, j)' \subseteq Doomed(left, n, 1)
<1>. DEFINE s == events[n]
<1>0. /\ events \in [Node -> Seq(Objects(P))]
      /\ cache \in [Node -> Objects(P)]
      /\ deleted \in Seq(Notices(P))
      /\ s \in Seq(Objects(P)) /\ s # <<>>
  BY DEF FeedTypeOK, Deliver
<1>1. events' = [events EXCEPT ![n] = Tail(@)] /\ cache' = [cache EXCEPT ![n] = Head(events[n])]
  BY DEF Deliver
<1>2. \A m \in Node \ {n}, i \in Pos : Doomed(left, m, i)' \subseteq Doomed(left, m, i)
  <2>. TAKE m \in Node \ {n}, i \in Pos
  <2>1. events'[m] = events[m] /\ cache'[m] = cache[m]
    BY <1>0, <1>1
  <2>. QED
    BY <2>1 DEF Doomed, Before
<1>3. events'[n] = Tail(s) /\ cache'[n] = s[1]
  BY <1>0, <1>1, TailFacts
<1>4. \A i \in Pos : Doomed(left, n, i)' \subseteq Doomed(left, n, i + 1)
  <2>. TAKE i \in Pos
  <2>1. /\ Len(s) \in Pos /\ DOMAIN s = 1 .. Len(s)
        /\ DOMAIN Tail(s) = 1 .. Len(s) - 1
        /\ \A l \in 1 .. Len(s) - 1 : Tail(s)[l] = s[l + 1]
    BY <1>0, TailFacts
  <2>2. CASE i \notin 1 .. Len(s) - 1
    <3>1. Doomed(left, n, i)' = {}
      BY <1>3, <2>1, <2>2 DEF Doomed
    <3>. QED
      BY <3>1
  <2>3. CASE i \in 1 .. Len(s) - 1
    <3>1. events'[n][i] = s[i + 1] /\ i + 1 \in 1 .. Len(s) /\ i + 1 # 1
      BY <1>3, <2>1, <2>3 DEF Pos
    <3>2. Before(n, i)' = s[i]
      <4>1. CASE i = 1
        BY <1>3, <4>1 DEF Before
      <4>2. CASE i # 1
        <5>1. i - 1 \in 1 .. Len(s) - 1 /\ (i - 1) + 1 = i
          BY <2>1, <2>3, <4>2 DEF Pos
        <5>2. Tail(s)[i - 1] = s[(i - 1) + 1]
          BY <2>1, <5>1
        <5>. QED
          BY <1>3, <4>2, <5>1, <5>2 DEF Before
      <4>. QED
        BY <4>1, <4>2
    <3>3. Before(n, i + 1) = s[i]
      <4>1. (i + 1) - 1 = i
        BY DEF Pos
      <4>. QED
        BY <3>1, <4>1 DEF Before
    <3>. QED
      BY <2>1, <3>1, <3>2, <3>3 DEF Doomed
  <2>. QED
    BY <2>2, <2>3
<1>5. ASSUME NEW j \in Pos
      PROVE  \/ Notice(left, r, j)' \subseteq Notice(left, r, j)
             \/ j = Len(deleted) + 1 /\ Notice(left, r, j)' \subseteq Doomed(left, n, 1)
  <2>1. CASE Head(s).exists
    BY <2>1 DEF Deliver, Notice
  <2>2. CASE ~Head(s).exists
    <3>. DEFINE notice == Deletion(n, cache[n].podCIDRs)
    <3>1. deleted' = Append(deleted, notice) /\ notice.cidrs = cache[n].podCIDRs
      BY <2>2 DEF Deliver, Deletion
    <3>. HIDE DEF notice
    <3>2. /\ DOMAIN deleted = 1 .. Len(deleted) /\ Len(deleted) \in Nat
          /\ DOMAIN deleted' = 1 .. Len(deleted) + 1
          /\ deleted'[Len(deleted) + 1] = notice
          /\ \A l \in 1 .. Len(deleted) : deleted'[l] = deleted[l]
      BY <1>0, <3>1
    <3>3. CASE j \in 1 .. Len(deleted)
      BY <3>2, <3>3 DEF Notice
    <3>4. CASE j = Len(deleted) + 1
      <4>1. Doomed(left, n, 1) = left[cache[n].podCIDRs][0]
        <5>1. 1 \in DOMAIN s /\ ~s[1].exists
          BY <1>0, <2>2, TailFacts DEF Pos
        <5>. QED
          BY <5>1 DEF Doomed, Before
      <4>2. Notice(left, r, j)' \subseteq left[cache[n].podCIDRs][0]
        <5>1. cache[n].podCIDRs \in P
          BY <1>0 DEF Objects
        <5>2. left[cache[n].podCIDRs][r] \subseteq left[cache[n].podCIDRs][0]
          BY <5>1 DEF Covers
        <5>. QED
          BY <3>1, <3>2, <3>4, <5>2 DEF Notice
      <4>. QED
        BY <3>4, <4>1, <4>2
    <3>5. CASE j \notin 1 .. Len(deleted) + 1
      BY <3>2, <3>5 DEF Notice
    <3>. QED
      BY <3>2, <3>3, <3>4, <3>5 DEF Pos
  <2>. QED
    BY <2>1, <2>2
<1>. QED
  BY <1>2, <1>4, <1>5

\* A step of NodeFeed moves claims of nodes to the removals and from there to the
\* notices, and adds none.
LEMMA FeedClaims ==
    ASSUME ~Finalizers, NEW P, Admits(P), FeedTypeOK(P), FeedQuiet, FeedCalm(P), Chain, FeedStep,
           NEW left, Covers(P, left), \A cidrs \in RegisteredCIDRs : left[cidrs][0] = {},
           NEW r \in Nat, NEW W, NEW hand
    PROVE  /\ Exclusive(left, r, W, hand) => Exclusive(left, r, W, hand)'
           /\ \A used : Marked(left, r, W, hand, used) => Marked(left, r, W, hand, used)'
<1>. DEFINE Kept == /\ Exclusive(left, r, W, hand) => Exclusive(left, r, W, hand)'
                    /\ \A used : Marked(left, r, W, hand, used) => Marked(left, r, W, hand, used)'
<1>0. Shrunk(left, r, W, hand, r, hand) => Kept
  BY ShrunkClaims, Zenon
<1>1. ASSUME NEW n \in Node, NEW object \in Calm(P), Store(n, object), Stored(n, object),
             UNCHANGED <<phase, cache, deleted>>
      PROVE  Kept
  <2>0. \A j \in Pos : Notice(left, r, j)' = Notice(left, r, j)
    BY <1>1, SMTT(60) DEF Notice
  <2>1. /\ \A m \in Node \ {n} : Holds(left, m)' = Holds(left, m)
        /\ Holds(left, n)' = left[object.podCIDRs][0]
        /\ \A m \in Node, i \in Pos :
             \/ Doomed(left, m, i)' \subseteq Doomed(left, m, i)
             \/ /\ m = n /\ i = Len(events[n]) + 1 /\ ~object.exists
                /\ Doomed(left, m, i)' \subseteq Holds(left, n)
    BY <1>1, StoreClaims, Zenon
  <2>2. CASE object.exists
    <3>1. Holds(left, n)' \subseteq Holds(left, n)
      <4>1. CASE object.podCIDRs = api[n].podCIDRs
        BY <2>1, <4>1 DEF Holds
      <4>2. ASSUME NEW cidrs \in RegisteredCIDRs, object = Present(cidrs, Tainted)
            PROVE  Holds(left, n)' = {}
        <5>1. object.podCIDRs = cidrs
          BY <4>2 DEF Present
        <5>. QED
          BY <2>1, <5>1
      <4>3. object # Absent
        BY <2>2, SMTT(60), Z3T(60) DEF Absent
      <4>. QED
        BY <1>1, <4>1, <4>2, <4>3 DEF Stored
    <3>2. Shrunk(left, r, W, hand, r, hand)
      BY <2>0, <2>1, <2>2, <3>1, ZenonT(60) DEF Shrunk
    <3>. QED
      BY <1>0, <3>2
  <2>3. CASE ~object.exists
    <3>1. object = Absent
      BY <1>1, <2>3 DEF Stored, Present
    <3>2. Holds(left, n)' = {}
      BY <2>1, <3>1 DEF Absent, Covers
    <3>. PICK e : e = Len(events[n]) + 1
      OBVIOUS
    <3>3. e \in Pos
      BY SMTT(60), Z3T(60) DEF FeedTypeOK, Pos
    <3>4. \A m \in Node, i \in Pos :
            \/ Doomed(left, m, i)' \subseteq Doomed(left, m, i)
            \/ m = n /\ i = e /\ Doomed(left, m, i)' \subseteq Holds(left, n)
      BY <2>1, ZenonT(60)
    <3>7. /\ \A m \in Node \ {n} : Holds(left, m)' \subseteq Holds(left, m)
          /\ \A j \in Pos : Notice(left, r, j)' \subseteq Notice(left, r, j)
      BY <2>0, <2>1, ZenonT(60)
    <3>8. Vacated(left, r, n, e)
      BY <3>2, <3>4, <3>7, ZenonT(60) DEF Vacated
    <3>5. ASSUME Exclusive(left, r, W, hand) PROVE Exclusive(left, r, W, hand)'
      BY <3>3, <3>5, <3>8, Removed, ZenonT(60)
    <3>6. ASSUME NEW used, Marked(left, r, W, hand, used) PROVE Marked(left, r, W, hand, used)'
      BY <2>0, <2>1, <3>2, <3>4, <3>6, ZenonT(60) DEF Marked
    <3>. QED
      BY <3>5, <3>6
  <2>. QED
    BY <2>2, <2>3
<1>2. ASSUME UNCHANGED api, NEW n \in Node, Deliver(n) PROVE Kept
  <2>. DEFINE e == Len(deleted) + 1
  <2>1. \A m \in Node : Holds(left, m)' = Holds(left, m)
    BY <1>2, ZenonT(60) DEF Holds
  <2>2. e \in Pos /\ 1 \in Pos
    BY DEF FeedTypeOK, Pos
  <2>3. /\ \A m \in Node \ {n}, i \in Pos : Doomed(left, m, i)' \subseteq Doomed(left, m, i)
        /\ \A i \in Pos : Doomed(left, n, i)' \subseteq Doomed(left, n, i + 1)
        /\ \A j \in Pos : \/ Notice(left, r, j)' \subseteq Notice(left, r, j)
                          \/ j = e /\ Notice(left, r, j)' \subseteq Doomed(left, n, 1)
    BY <1>2, DeliverClaims
  <2>4. \A i \in Pos : /\ i + 1 \in Pos /\ i + 1 # 1
                       /\ \A j \in Pos : i # j => i + 1 # j + 1
    BY DEF Pos
  <2>. HIDE DEF e
  <2>5. Exclusive(left, r, W, hand) => Exclusive(left, r, W, hand)'
    BY <2>1, <2>2, <2>3, <2>4, Delivered, ZenonT(30)
  <2>6. ASSUME NEW used, Marked(left, r, W, hand, used) PROVE Marked(left, r, W, hand, used)'
    BY <2>1, <2>2, <2>3, <2>4, <2>6, SMTT(60), Z3T(60) DEF Marked
  <2>. QED
    BY <2>5, <2>6, ZenonT(60)
<1>3. ASSUME UNCHANGED api, Relist \/ CacheSync PROVE Kept
  <2>1. \A n \in Node, i \in Pos : Doomed(left, n, i)' = {}
    <3>1. events' = [n \in Node |-> <<>>]
      BY <1>3 DEF Relist, CacheSync, FeedQuiet
    <3>2. DOMAIN <<>> = {}
      OBVIOUS
    <3>. QED
      BY <3>1, <3>2 DEF Doomed
  <2>2. \A j \in Pos : Notice(left, r, j)' \subseteq Notice(left, r, j)
    <3>1. CASE deleted' = deleted
      BY <3>1 DEF Notice
    <3>2. CASE deleted' = Append(deleted, Tombstone)
      <4>. TAKE j \in Pos
      <4>1. /\ DOMAIN deleted' = 1 .. Len(deleted) + 1 /\ DOMAIN deleted = 1 .. Len(deleted)
            /\ Len(deleted) \in Nat
            /\ deleted'[Len(deleted) + 1] = Tombstone
            /\ \A l \in 1 .. Len(deleted) : deleted'[l] = deleted[l]
        BY <3>2 DEF FeedTypeOK
      <4>2. \A d \in Nat : left[Tombstone.cidrs][d] = {}
        BY ZenonT(60) DEF Tombstone, Covers
      <4>3. CASE j = Len(deleted) + 1
        BY <4>1, <4>2, <4>3 DEF Notice
      <4>4. CASE j # Len(deleted) + 1
        BY <4>1, <4>4, SMTT(60), Z3T(60) DEF Notice
      <4>. QED
        BY <4>3, <4>4
    <3>. QED
      BY <1>3, <3>1, <3>2 DEF Relist, CacheSync
  <2>. QED
    BY <1>0, <1>3, <2>1, <2>2, ZenonT(60) DEF Shrunk, Holds
<1>4. ASSUME UNCHANGED api, NEW n \in Node, Resync(n) PROVE Kept
  <2>1. Shrunk(left, r, W, hand, r, hand)
    BY <1>4 DEF Resync, informerVars, Shrunk, Holds, Doomed, Before, Notice
  <2>. QED
    BY <1>0, <2>1, ZenonT(60)
<1>. HIDE DEF Kept
<1>5. Kept
  BY <1>1, <1>2, <1>3, <1>4, FeedStores, SMTT(60)
<1>. QED
  BY <1>5 DEF Kept

\* Two CIDRs of a node that PATCH sets: worker a hands over what it has taken.
LEMMA PatchClaims ==
    ASSUME ~Finalizers, NEW P, Admits(P), FeedTypeOK(P), FeedCalm(P), Chain,
           NEW n \in Node, NEW cidrs \in P, Accepts(n, cidrs), ApplyPatch(n, cidrs),
           UNCHANGED <<phase, cache, deleted>>,
           NEW left, Covers(P, left), NEW r \in Nat, NEW W, NEW hand, NEW hand2, NEW a \in W,
           left[cidrs][0] \subseteq hand[a],
           \A v \in W \ {a} : hand2[v] \subseteq hand[v],
           hand2[a] = {}
    PROVE  /\ Exclusive(left, r, W, hand) => Exclusive(left, r, W, hand2)'
           /\ \A used : Marked(left, r, W, hand, used) => Marked(left, r, W, hand2, used)'
<1>0. \A j \in Pos : Notice(left, r, j)' = Notice(left, r, j)
  BY DEF Notice
<1>1. /\ \A m \in Node \ {n} : Holds(left, m)' \subseteq Holds(left, m)
      /\ Holds(left, n)' \subseteq hand[a] \/ Holds(left, n)' \subseteq Holds(left, n)
      /\ \A m \in Node, i \in Pos : Doomed(left, m, i)' \subseteq Doomed(left, m, i)
  <2>1. CASE UNCHANGED <<api, events>>
    BY <2>1, ZenonT(60) DEF Holds, Doomed, Before
  <2>2. CASE Store(n, [api[n] EXCEPT !.podCIDRs = cidrs])
    <3>. DEFINE object == [api[n] EXCEPT !.podCIDRs = cidrs]
    <3>1. object.exists /\ object.podCIDRs = cidrs
      BY DEF Accepts, FeedTypeOK, Objects
    <3>2. Store(n, object)
      BY <2>2, SMTT(60)
    <3>. HIDE DEF object
    <3>3. /\ \A m \in Node \ {n} : Holds(left, m)' = Holds(left, m)
          /\ Holds(left, n)' = left[object.podCIDRs][0]
          /\ \A m \in Node, i \in Pos :
               \/ Doomed(left, m, i)' \subseteq Doomed(left, m, i)
               \/ /\ m = n /\ i = Len(events[n]) + 1 /\ ~object.exists
                  /\ Doomed(left, m, i)' \subseteq Holds(left, n)
      BY <3>2, StoreClaims, ZenonT(60)
    <3>. QED
      BY <3>1, <3>3, Zenon
  <2>. QED
    BY <2>1, <2>2, SMTT(60) DEF ApplyPatch
<1>2. CASE Holds(left, n)' \subseteq hand[a]
  <2>1. ASSUME Exclusive(left, r, W, hand) PROVE Exclusive(left, r, W, hand2)'
    <3>1. \A j \in Pos : Notice(left, r, j)' \subseteq Notice(left, r, j)
      BY <1>0, Zenon
    <3>. QED
      BY <1>1, <1>2, <2>1, <3>1, HandedOver, ZenonT(60)
  <2>2. ASSUME NEW used, Marked(left, r, W, hand, used) PROVE Marked(left, r, W, hand2, used)'
    BY <1>0, <1>1, <1>2, <2>2, ZenonT(60) DEF Marked
  <2>. QED
    BY <2>1, <2>2, Zenon
<1>3. CASE Holds(left, n)' \subseteq Holds(left, n)
  <2>1. Shrunk(left, r, W, hand, r, hand2)
    BY <1>0, <1>1, <1>3, ZenonT(60) DEF Shrunk
  <2>. QED
    BY <2>1, ShrunkClaims, ZenonT(60)
<1>. QED
  BY <1>1, <1>2, <1>3, ZenonT(60)

\* Nothing outside the process changes.
LEMMA Unmoved ==
    ASSUME NEW P, FeedTypeOK(P), NEW left, Covers(P, left), NEW r \in Nat, NEW r2 \in Nat, r <= r2,
           NEW W, NEW hand, NEW hand2, \A w \in W : hand2[w] \subseteq hand[w],
           UNCHANGED <<api, events, cache, deleted>>
    PROVE  Shrunk(left, r, W, hand, r2, hand2)
<1>1. \A j \in Pos : Notice(left, r2, j)' \subseteq Notice(left, r, j)
  <2>. TAKE j \in Pos
  <2>1. CASE j \in DOMAIN deleted
    <3>1. deleted[j] \in Notices(P)
      BY <2>1 DEF FeedTypeOK
    <3>2. deleted[j].cidrs \in P \/ deleted[j].cidrs = <<>>
      <4>1. CASE deleted[j] \in [node: Node, cidrs: P, tombstone: {FALSE}]
        BY <4>1, Zenon
      <4>2. CASE deleted[j] = Tombstone
        BY <4>2 DEF Tombstone
      <4>. QED
        BY <3>1, <4>1, <4>2, Zenon DEF Notices
    <3>3. left[deleted[j].cidrs][r2] \subseteq left[deleted[j].cidrs][r]
      BY <3>2 DEF Covers
    <3>. QED
      BY <3>3 DEF Notice
  <2>2. CASE j \notin DOMAIN deleted
    BY <2>2, ZenonT(60) DEF Notice
  <2>. QED
    BY <2>1, <2>2
<1>2. \A n \in Node : Holds(left, n)' \subseteq Holds(left, n)
  BY Zenon DEF Holds
<1>3. \A n \in Node, i \in Pos : Doomed(left, n, i)' \subseteq Doomed(left, n, i)
  BY Zenon DEF Doomed, Before
<1>. QED
  BY <1>1, <1>2, <1>3, Zenon DEF Shrunk

\* Worker a, or DeleteFunc, releases blocks that it alone claims and gives up.
LEMMA HandReleased ==
    ASSUME NEW left, NEW r, NEW r2, NEW W, NEW hand, NEW hand2, Exclusive(left, r, W, hand),
           Shrunk(left, r, W, hand, r2, hand2),
           NEW a \in W, NEW cidr, cidr \subseteq hand[a], hand2[a] \cap cidr = {}
    PROVE  \A used : Marked(left, r, W, hand, used) => Marked(left, r2, W, hand2, used \ cidr)'
<1>1. /\ \A n \in Node : Holds(left, n)' \cap cidr = {}
      /\ \A w \in W : hand2[w] \cap cidr = {}
      /\ \A n \in Node, i \in Pos : Doomed(left, n, i)' \cap cidr = {}
      /\ \A j \in Pos : Notice(left, r2, j)' \cap cidr = {}
  BY SMTT(60), Z3T(60) DEF Exclusive, Shrunk
<1>. QED
  BY <1>1, ZenonT(60) DEF Marked, Shrunk

LEMMA NoticeReleased ==
    ASSUME NEW left, NEW r, NEW r2, NEW W, NEW hand, NEW hand2, Exclusive(left, r, W, hand),
           Shrunk(left, r, W, hand, r2, hand2),
           NEW cidr, cidr \subseteq Notice(left, r, 1), Notice(left, r2, 1)' \cap cidr = {}
    PROVE  \A used : Marked(left, r, W, hand, used) => Marked(left, r2, W, hand2, used \ cidr)'
<1>1. /\ \A n \in Node : Holds(left, n)' \cap cidr = {}
      /\ \A w \in W : hand2[w] \cap cidr = {}
      /\ \A n \in Node, i \in Pos : Doomed(left, n, i)' \cap cidr = {}
      /\ \A j \in Pos : Notice(left, r2, j)' \cap cidr = {}
  <2>1. 1 \in Pos
    BY DEF Pos
  <2>. QED
    BY <2>1 DEF Exclusive, Shrunk
<1>. QED
  BY <1>1, ZenonT(60) DEF Marked, Shrunk

\* DeleteFunc has worked off the first notice.
LEMMA WorkedOff ==
    ASSUME NEW P, FeedTypeOK(P), NEW left, Covers(P, left), NEW r \in Nat, NEW W, NEW hand,
           deleted # <<>>, deleted' = Tail(deleted), UNCHANGED <<api, events, cache>>
    PROVE  /\ Exclusive(left, r, W, hand) => Exclusive(left, 0, W, hand)'
           /\ \A used : Marked(left, r, W, hand, used) => Marked(left, 0, W, hand, used)'
<1>1. /\ \A n \in Node : Holds(left, n)' = Holds(left, n)
      /\ \A n \in Node, i \in Pos : Doomed(left, n, i)' = Doomed(left, n, i)
  BY DEF Holds, Doomed, Before
<1>2. \A j \in Pos : Notice(left, 0, j)' \subseteq Notice(left, r, j + 1)
  <2>. TAKE j \in Pos
  <2>1. /\ \A l \in DOMAIN Tail(deleted) : Tail(deleted)[l] = deleted[l + 1]
        /\ \A l \in Pos : l \in DOMAIN Tail(deleted) => l + 1 \in DOMAIN deleted
    BY DEF FeedTypeOK, Pos
  <2>. QED
    BY <2>1 DEF Notice, Pos
<1>3. \A i \in Pos : i + 1 \in Pos /\ \A j \in Pos : i # j => i + 1 # j + 1
  BY DEF Pos
<1>4. ASSUME Exclusive(left, r, W, hand) PROVE Exclusive(left, 0, W, hand)'
  BY <1>1, <1>2, <1>3, <1>4, MovedUp, Zenon
<1>5. ASSUME NEW used, Marked(left, r, W, hand, used) PROVE Marked(left, 0, W, hand, used)'
  BY <1>1, <1>2, <1>3, <1>5, ZenonT(60) DEF Marked
<1>. QED
  BY <1>4, <1>5

\* A new process knows of no event, notice or worker.
LEMMA DieClaims ==
    ASSUME Die, NEW left, NEW r, NEW W, NEW hand, NEW hand2, \A w \in W : hand2[w] = {}
    PROVE  Shrunk(left, r, W, hand, 0, hand2)
<1>1. \A n \in Node, i \in Pos : Doomed(left, n, i)' = {}
  BY DEF Die, Doomed
<1>2. \A j \in Pos : Notice(left, 0, j)' = {}
  BY DEF Die, Notice
<1>3. \A n \in Node : Holds(left, n)' = Holds(left, n)
  BY ZenonT(60) DEF Die, apiVars, Holds
<1>. QED
  BY <1>1, <1>2, <1>3 DEF Shrunk

\* Before the informer runs the only claims are those of nodes.
LEMMA QuietClaims ==
    ASSUME FeedQuiet, phase # "running", NEW left, NEW r, NEW W, NEW hand,
           \A w \in W : hand[w] = {}
    PROVE  /\ (\A m, n \in Node : m # n => Holds(left, m) \cap Holds(left, n) = {})
                => Exclusive(left, r, W, hand)
           /\ \A used : (\A n \in Node : Holds(left, n) \subseteq used)
                => Marked(left, r, W, hand, used)
<1>1. \A n \in Node, i \in Pos : Doomed(left, n, i) = {}
  BY DEF FeedQuiet, Doomed
<1>2. \A j \in Pos : Notice(left, r, j) = {}
  BY DEF FeedQuiet, Notice
<1>. QED
  BY <1>1, <1>2 DEF Exclusive, Marked
=============================================================================
