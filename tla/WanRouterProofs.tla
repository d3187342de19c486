-------------------------- MODULE WanRouterProofs --------------------------
(***************************************************************************)
(* Proofs about WanRouter, for any peers, any reports of their health and  *)
(* any numbers of data and parity shards: how compute_route numbers the    *)
(* shards, which peers it chooses, and what a reconstruction plan names.   *)
(***************************************************************************)
EXTENDS WanRouter, TLAPS, FunctionTheorems, FiniteSetTheorems

(* The peers that a placement can name, whoever is online.                 *)
Targets == {Target(k) : k \in Nat} \cup {Us}

Place == [peer : Targets, index : Nat]

LEMMA ConcatShape ==
    ASSUME NEW S, NEW s \in Seq(S), NEW t \in Seq(S)
    PROVE  /\ s \o t \in Seq(S)
           /\ Len(s \o t) = Len(s) + Len(t)
           /\ \A i \in 1 .. Len(s) : (s \o t)[i] = s[i]
           /\ \A i \in Len(s) + 1 .. Len(s) + Len(t) :
                 (s \o t)[i] = t[i - Len(s)]
  OBVIOUS

LEMMA PlacementShape ==
    /\ Placement \in Seq(Place)
    /\ Len(Placement) = TotalShards
    /\ \A i \in 1 .. TotalShards : Placement[i].index = i - 1
<1> DEFINE own    == <<[peer |-> Us, index |-> 0]>>
           data   == [i \in 1 .. DataShards - 1 |->
                         [peer |-> Target(i - 1), index |-> i]]
           parity == [i \in 1 .. TotalShards - DataShards |->
                         [peer |-> Target(i - 1), index |-> DataShards + i - 1]]
<1>1. /\ DataShards \in Nat \ {0} /\ TotalShards \in Nat
      /\ DataShards - 1 \in Nat /\ TotalShards - DataShards \in Nat
  BY ShardAssumption
<1>2. own \in Seq(Place) /\ Len(own) = 1 /\ own[1].index = 0
  BY DEF Place, Targets
<1>3. /\ data \in Seq(Place) /\ Len(data) = DataShards - 1
      /\ \A i \in 1 .. DataShards - 1 : data[i].index = i
  <2>1. \A i \in 1 .. DataShards - 1 :
           [peer |-> Target(i - 1), index |-> i] \in Place
    BY <1>1 DEF Place, Targets
  <2>. QED
    BY <1>1, <2>1
<1>4. /\ parity \in Seq(Place) /\ Len(parity) = TotalShards - DataShards
      /\ \A i \in 1 .. TotalShards - DataShards :
            parity[i].index = DataShards + i - 1
  <2>1. \A i \in 1 .. TotalShards - DataShards :
           [peer |-> Target(i - 1), index |-> DataShards + i - 1] \in Place
    BY <1>1 DEF Place, Targets
  <2>. QED
    BY <1>1, <2>1
<1>5. Placement = (own \o data) \o parity
  BY DEF Placement
<1> HIDE DEF own, data, parity
<1>6. /\ own \o data \in Seq(Place) /\ Len(own \o data) = DataShards
      /\ \A i \in 1 .. DataShards : (own \o data)[i].index = i - 1
  <2>1. /\ own \o data \in Seq(Place) /\ Len(own \o data) = DataShards
        /\ (own \o data)[1] = own[1]
        /\ \A i \in 2 .. DataShards : (own \o data)[i] = data[i - 1]
    <3>1. /\ own \o data \in Seq(Place) /\ Len(own \o data) = 1 + (DataShards - 1)
          /\ \A i \in 1 .. 1 : (own \o data)[i] = own[i]
          /\ \A i \in 2 .. 1 + (DataShards - 1) : (own \o data)[i] = data[i - 1]
      <4>1. own \in Seq(Place) /\ data \in Seq(Place)
        BY <1>2, <1>3
      <4>2. /\ own \o data \in Seq(Place)
            /\ Len(own \o data) = Len(own) + Len(data)
            /\ \A i \in 1 .. Len(own) : (own \o data)[i] = own[i]
            /\ \A i \in Len(own) + 1 .. Len(own) + Len(data) :
                  (own \o data)[i] = data[i - Len(own)]
        BY <4>1, ConcatShape
      <4>. QED
        BY <1>1, <1>2, <1>3, <4>2
    <3>. QED
      BY <1>1, <3>1
  <2>2. \A i \in 2 .. DataShards : i - 1 \in 1 .. DataShards - 1
    BY <1>1
  <2>3. \A i \in 2 .. DataShards : data[i - 1].index = i - 1
    BY <1>3, <2>2
  <2>. QED
    BY <1>1, <1>2, <2>1, <2>3
<1>7. /\ (own \o data) \o parity \in Seq(Place)
      /\ Len((own \o data) \o parity) = TotalShards
      /\ \A i \in 1 .. TotalShards : ((own \o data) \o parity)[i].index = i - 1
  <2> DEFINE front == own \o data
  <2>1. /\ front \o parity \in Seq(Place) /\ Len(front \o parity) = TotalShards
        /\ \A i \in 1 .. DataShards : (front \o parity)[i] = front[i]
        /\ \A i \in DataShards + 1 .. TotalShards :
              (front \o parity)[i] = parity[i - DataShards]
    <3> HIDE DEF front
    <3>1. front \in Seq(Place) /\ Len(front) = DataShards
      BY <1>6 DEF front
    <3>. QED
      BY <1>1, <1>4, <3>1, ConcatShape
  <2>2. \A i \in DataShards + 1 .. TotalShards :
           i - DataShards \in 1 .. TotalShards - DataShards
    BY <1>1
  <2>3. \A i \in DataShards + 1 .. TotalShards :
           parity[i - DataShards].index = i - 1
    <3> SUFFICES ASSUME NEW i \in DataShards + 1 .. TotalShards
                 PROVE  parity[i - DataShards].index = i - 1
      OBVIOUS
    <3>1. parity[i - DataShards].index = DataShards + (i - DataShards) - 1
      BY <1>4, <2>2
    <3>. QED
      BY <1>1, <3>1, SMTT(30)
  <2>. QED
    BY <1>1, <1>6, <2>1, <2>3, SMTT(30)
<1>. QED
  BY <1>5, <1>7

(* Routes are lists of places, each of them complete.                      *)
Complete(route) ==
    /\ DOMAIN route = 1 .. TotalShards
    /\ Len(route) = TotalShards
    /\ \A i \in 1 .. TotalShards : route[i].index = i - 1

RoutesInv ==
    /\ DOMAIN routes = Groups
    /\ routes = [g \in Groups |-> routes[g]]
    /\ \A g \in Groups : \A route \in routes[g] : Complete(route)

LEMMA RoutesInit == Init => RoutesInv
  BY DEF Init, RoutesInv

LEMMA RoutesStep == RoutesInv /\ [Next]_vars => RoutesInv'
<1> SUFFICES ASSUME RoutesInv, [Next]_vars PROVE RoutesInv'
  OBVIOUS
<1>1. ASSUME NEW g \in Groups, ComputeRoute(g) PROVE RoutesInv'
  <2>1. Complete(Placement)
    BY PlacementShape DEF Complete
  <2>. QED
    BY <1>1, <2>1 DEF ComputeRoute, RoutesInv
<1>2. ASSUME NEW g \in Groups, RemoveRoute(g) PROVE RoutesInv'
  BY <1>2 DEF RemoveRoute, RoutesInv
<1>3. ASSUME UNCHANGED routes PROVE RoutesInv'
  BY <1>3 DEF RoutesInv
<1>. QED
  BY <1>1, <1>2, <1>3 DEF Next, MarkOnline, MarkOffline, UpdateWanPeers, vars

LEMMA RoutesAlways == Spec => []RoutesInv
  BY RoutesInit, RoutesStep, PTL DEF Spec

(* A route has one place for every shard, at the shard's own position.     *)
THEOREM RoutesComplete == Spec => []RouteComplete
<1>1. RoutesInv => RouteComplete
  BY DEF RoutesInv, Complete, RouteComplete
<1>. QED
  BY <1>1, RoutesAlways, PTL

(* The places that can_reconstruct counts hold as many different shards.   *)
THEOREM CountIsSound == Spec => []CanReconstructIsSound
<1>1. RoutesInv => CanReconstructIsSound
  <2> SUFFICES ASSUME RoutesInv, NEW g \in Groups, NEW route \in routes[g],
                      Cardinality({i \in DOMAIN route : Reachable(route[i])})
                         >= DataShards
               PROVE  Cardinality({loc.index : loc \in
                         {l \in ToSet(route) : Reachable(l)}}) >= DataShards
    BY DEF CanReconstructIsSound, CanReconstruct
  <2> DEFINE at     == {i \in DOMAIN route : Reachable(route[i])}
             found  == {loc.index : loc \in {l \in ToSet(route) : Reachable(l)}}
             number == [i \in at |-> i - 1]
  <2>1. Complete(route) /\ TotalShards \in Nat
    BY ShardAssumption DEF RoutesInv
  <2>2. ToSet(route) = {route[i] : i \in 1 .. TotalShards}
    BY <2>1 DEF ToSet, Complete
  <2>3. found = {i - 1 : i \in at}
    <3>1. found = {route[i].index : i \in at}
      BY <2>1, <2>2 DEF Complete
    <3>. QED
      BY <2>1, <3>1 DEF Complete
  <2>4. IsFiniteSet(at)
    <3>1. at \subseteq 1 .. TotalShards /\ IsFiniteSet(1 .. TotalShards)
      BY <2>1, FS_Interval DEF Complete
    <3>. QED
      BY <3>1, FS_Subset
  <2>5. number \in Bijection(at, found)
    <3>1. \A i \in at : i \in Int
      BY <2>1 DEF Complete
    <3>2. number \in [at -> found]
      BY <2>3
    <3>3. \A a, b \in at : number[a] = number[b] => a = b
      BY <3>1
    <3>4. \A x \in found : \E a \in at : number[a] = x
      BY <2>3
    <3> HIDE DEF at, found, number
    <3>. QED
      BY <3>2, <3>3, <3>4, Fun_IsBij
  <2>6. Cardinality(found) = Cardinality(at)
    <3> HIDE DEF at, found, number
    <3>. QED
      BY <2>4, <2>5, FS_Bijection DEF ExistsBijection
  <2>. QED
    BY <2>6
<1>. QED
  BY <1>1, RoutesAlways, PTL

----------------------------------------------------------------------------
(* Filtered keeps the elements at the given positions, each once.          *)

RankIn(at, i) == Cardinality({j \in at : j <= i})

(* The positions are numbered from 1 on, in ascending order.               *)
LEMMA RankIsNumbering ==
    ASSUME NEW n \in Nat, NEW at \in SUBSET (1 .. n)
    PROVE  /\ IsFiniteSet(at) /\ Cardinality(at) \in Nat
           /\ \A i \in at : RankIn(at, i) \in 1 .. Cardinality(at)
           /\ \A i, j \in at : RankIn(at, i) = RankIn(at, j) => i = j
           /\ \A k \in 1 .. Cardinality(at) : \E i \in at : RankIn(at, i) = k
<1> DEFINE upTo(i) == {j \in at : j <= i}
           count == Cardinality(at)
<1>1. \A i \in at : i \in Int
  OBVIOUS
<1>2. IsFiniteSet(at) /\ count \in Nat
  <2>1. IsFiniteSet(1 .. n)
    BY FS_Interval
  <2>2. IsFiniteSet(at)
    BY <2>1, FS_Subset
  <2>. QED
    BY <2>2, FS_CardinalityType
<1>3. ASSUME NEW i \in at
      PROVE  /\ IsFiniteSet(upTo(i)) /\ Cardinality(upTo(i)) \in Nat
             /\ Cardinality(upTo(i)) \in 1 .. count
  <2>1. IsFiniteSet(upTo(i)) /\ Cardinality(upTo(i)) <= count
    BY <1>2, FS_Subset
  <2>2. Cardinality(upTo(i)) \in Nat
    BY <2>1, FS_CardinalityType
  <2>3. i \in upTo(i)
    BY <1>1
  <2>4. Cardinality(upTo(i)) # 0
    BY <2>1, <2>3, FS_EmptySet
  <2>. QED
    BY <1>2, <2>1, <2>2, <2>4
<1>4. ASSUME NEW i \in at, NEW j \in at, i < j
      PROVE  Cardinality(upTo(i)) # Cardinality(upTo(j))
  <2>1. upTo(i) \in SUBSET upTo(j)
    <3>1. \A k \in at : k <= i => k <= j
      BY <1>1, <1>4
    <3>. QED
      BY <3>1
  <2>2. j \in upTo(j) /\ j \notin upTo(i)
    BY <1>1, <1>4
  <2>3. IsFiniteSet(upTo(j))
    BY <1>3
  <2>4. Cardinality(upTo(j)) = Cardinality(upTo(i)) => upTo(j) = upTo(i)
    <3> HIDE DEF upTo
    <3>. QED
      BY <2>1, <2>3, FS_Subset
  <2>. QED
    BY <2>2, <2>4
<1>5. ASSUME NEW i \in at, NEW j \in at,
             Cardinality(upTo(i)) = Cardinality(upTo(j))
      PROVE  i = j
  <2>1. i = j \/ i < j \/ j < i
    BY <1>1
  <2>. QED
    BY <1>4, <1>5, <2>1
<1> DEFINE rank == [i \in at |-> Cardinality(upTo(i))]
<1>6. rank \in Injection(at, 1 .. count)
  <2>1. rank \in [at -> 1 .. count]
    BY <1>3
  <2>2. \A i, j \in at : rank[i] = rank[j] => i = j
    BY <1>5
  <2> HIDE DEF rank
  <2>. QED
    BY <2>1, <2>2, Fun_IsInj
<1>7. rank \in Surjection(at, 1 .. count)
  <2>1. IsFiniteSet(1 .. count) /\ Cardinality(1 .. count) = count
    BY <1>2, FS_Interval
  <2> HIDE DEF rank
  <2>. QED
    BY <1>6, <2>1, FS_Injection
<1>8. \A k \in 1 .. count : \E i \in at : rank[i] = k
  <2> HIDE DEF rank
  <2>. QED
    BY <1>7 DEF Surjection
<1>. QED
  BY <1>2, <1>3, <1>5, <1>8 DEF RankIn

LEMMA FilteredShape ==
    ASSUME NEW S, NEW s \in Seq(S), NEW at \in SUBSET (DOMAIN s)
    PROVE  /\ Filtered(s, at) \in Seq(S)
           /\ IsFiniteSet(at) /\ Cardinality(at) \in Nat
           /\ Len(Filtered(s, at)) = Cardinality(at)
           /\ \A k \in 1 .. Cardinality(at) :
                 \E i \in at : Filtered(s, at)[k] = s[i]
           /\ \A i \in at : \E k \in 1 .. Cardinality(at) :
                 Filtered(s, at)[k] = s[i]
<1> DEFINE count == Cardinality(at)
           pos(k) == CHOOSE i \in at : RankIn(at, i) = k
<1>1. Len(s) \in Nat /\ at \in SUBSET (1 .. Len(s))
  OBVIOUS
<1>2. /\ IsFiniteSet(at) /\ count \in Nat
      /\ \A i \in at : RankIn(at, i) \in 1 .. count
      /\ \A i, j \in at : RankIn(at, i) = RankIn(at, j) => i = j
      /\ \A k \in 1 .. count : \E i \in at : RankIn(at, i) = k
  BY <1>1, RankIsNumbering
<1>3. \A k \in 1 .. count : pos(k) \in at /\ RankIn(at, pos(k)) = k
  BY <1>2
<1>4. Filtered(s, at) = [k \in 1 .. count |-> s[pos(k)]]
  BY DEF Filtered, RankIn
<1> HIDE DEF pos, count
<1>5. \A k \in 1 .. count : s[pos(k)] \in S
  BY <1>1, <1>3
<1>6. Filtered(s, at) \in Seq(S) /\ Len(Filtered(s, at)) = count
  BY <1>2, <1>4, <1>5
<1>7. \A i \in at : RankIn(at, i) \in 1 .. count /\ pos(RankIn(at, i)) = i
  BY <1>2, <1>3
<1>. QED
  BY <1>2, <1>3, <1>4, <1>6, <1>7 DEF count

----------------------------------------------------------------------------
(* Where compute_route puts a shard: here, or on a peer that is online.    *)

RouterInv ==
    /\ routes \in [Groups -> SUBSET Seq(Location)]
    /\ peers \in PeerLists
    /\ health \subseteq Names

LEMMA TargetsReachable ==
    ASSUME peers \in Seq(Names)
    PROVE  /\ Targets \subseteq Names \cup {Us}
           /\ \A p \in Targets : p = Us \/ p \in ToSet(peers) \cap health
<1> DEFINE at == {i \in DOMAIN peers : peers[i] \in health}
<1>1. OnlinePeers = Filtered(peers, at) /\ at \in SUBSET (DOMAIN peers)
  BY DEF OnlinePeers
<1>2. /\ OnlinePeers \in Seq(Names) /\ Len(OnlinePeers) = Cardinality(at)
      /\ \A k \in 1 .. Cardinality(at) : \E i \in at : OnlinePeers[k] = peers[i]
  <2> HIDE DEF at
  <2>. QED
    BY <1>1, FilteredShape
<1>3. \A k \in 1 .. Len(OnlinePeers) :
         OnlinePeers[k] \in ToSet(peers) \cap health
  <2> SUFFICES ASSUME NEW k \in 1 .. Len(OnlinePeers)
               PROVE  OnlinePeers[k] \in ToSet(peers) \cap health
    OBVIOUS
  <2>1. PICK i \in at : OnlinePeers[k] = peers[i]
    BY <1>2
  <2>2. i \in DOMAIN peers /\ peers[i] \in health
    BY <2>1
  <2>3. peers[i] \in ToSet(peers)
    BY <2>2 DEF ToSet
  <2>. QED
    BY <2>1, <2>2, <2>3, Zenon
<1>4. ASSUME NEW k \in Nat
      PROVE  /\ Target(k) \in Names \cup {Us}
             /\ Target(k) = Us \/ Target(k) \in ToSet(peers) \cap health
  <2>1. CASE OnlinePeers = <<>>
    BY <2>1 DEF Target
  <2>2. CASE OnlinePeers # <<>>
    <3>1. Len(OnlinePeers) \in Nat /\ Len(OnlinePeers) # 0
      BY <1>2, <2>2
    <3>2. (k % Len(OnlinePeers)) + 1 \in 1 .. Len(OnlinePeers)
      BY <3>1
    <3>3. OnlinePeers[(k % Len(OnlinePeers)) + 1]
             \in Names \cap (ToSet(peers) \cap health)
      BY <1>2, <1>3, <3>2
    <3>. QED
      BY <2>2, <3>3 DEF Target
  <2>. QED
    BY <2>1, <2>2
<1>. QED
  BY <1>4 DEF Targets

LEMMA RouterInit == Init => RouterInv
  BY DEF Init, RouterInv

LEMMA RouterStep == RouterInv /\ [Next]_vars => RouterInv'
<1> SUFFICES ASSUME RouterInv, [Next]_vars PROVE RouterInv'
  OBVIOUS
<1>1. ASSUME NEW g \in Groups, ComputeRoute(g) PROVE RouterInv'
  <2>1. Targets \subseteq Names \cup {Us}
    BY PeerAssumption, TargetsReachable DEF RouterInv
  <2>2. Place \subseteq Location
    BY <2>1 DEF Place, Location
  <2>3. Placement \in Seq(Location)
    BY <2>2, PlacementShape
  <2>. QED
    BY <1>1, <2>3 DEF ComputeRoute, RouterInv
<1>2. ASSUME NEW g \in Groups, RemoveRoute(g) PROVE RouterInv'
  BY <1>2 DEF RemoveRoute, RouterInv
<1>3. ASSUME NEW name \in Names, MarkOnline(name) \/ MarkOffline(name)
      PROVE  RouterInv'
  BY <1>3 DEF MarkOnline, MarkOffline, RouterInv
<1>4. ASSUME NEW list \in PeerLists, UpdateWanPeers(list) PROVE RouterInv'
  BY <1>4 DEF UpdateWanPeers, RouterInv
<1>5. CASE UNCHANGED vars
  BY <1>5 DEF vars, RouterInv
<1>. QED
  BY <1>1, <1>2, <1>3, <1>4, <1>5 DEF Next

LEMMA RouterAlways == Spec => []RouterInv
  BY RouterInit, RouterStep, PTL DEF Spec

(* The routing table, the peers and their health keep their types.         *)
THEOREM TypeCorrect == Spec => []TypeOK
<1>1. RouterInv => TypeOK
  BY DEF RouterInv, TypeOK
<1>. QED
  BY <1>1, RouterAlways, PTL

(* Only compute_route puts a route in the table, of places that it found   *)
(* for the peers and their health of that moment.                          *)
LEMMA NewRouteStep ==
    ASSUME RouterInv, [Next]_vars, NEW g \in Groups,
           routes'[g] # routes[g], NEW route \in routes'[g],
           NEW i \in DOMAIN route
    PROVE  route[i].peer = Us \/ route[i].peer \in ToSet(peers) \cap health
<1>1. ComputeRoute(g)
  <2>1. ASSUME NEW h \in Groups, ComputeRoute(h) PROVE h = g
    BY <2>1 DEF ComputeRoute, RouterInv
  <2>2. ASSUME NEW h \in Groups, RemoveRoute(h) PROVE FALSE
    BY <2>2 DEF RemoveRoute, RouterInv
  <2>3. routes' # routes
    OBVIOUS
  <2>4. \E h \in Groups : ComputeRoute(h) \/ RemoveRoute(h)
    BY <2>3 DEF Next, MarkOnline, MarkOffline, UpdateWanPeers, vars
  <2>. QED
    BY <2>1, <2>2, <2>4
<1>2. route = Placement
  BY <1>1 DEF ComputeRoute, RouterInv
<1>3. /\ Placement \in Seq(Place) /\ Len(Placement) = TotalShards
      /\ \A p \in Targets : p = Us \/ p \in ToSet(peers) \cap health
  BY PeerAssumption, PlacementShape, TargetsReachable DEF RouterInv
<1>4. Placement[i] \in Place
  <2>1. \A s \in Seq(Place) : \A j \in DOMAIN s : s[j] \in Place
    OBVIOUS
  <2>. QED
    BY <1>2, <1>3, <2>1, Zenon
<1>5. Placement[i].peer \in Targets
  BY <1>4 DEF Place
<1>. QED
  BY <1>2, <1>3, <1>5, Zenon

(* Every shard of a new route stays here or goes to a peer that is         *)
(* configured and online when the route is computed.                       *)
THEOREM NewRoutesAreReachable == Spec => NewRoutesReachable
<1> DEFINE Placed ==
      \A g \in Groups : routes'[g] # routes[g] =>
          \A route \in routes'[g] : \A i \in DOMAIN route :
              \/ route[i].peer = Us
              \/ route[i].peer \in ToSet(peers) \cap health
<1>1. RouterInv /\ [Next]_vars => [Placed]_vars
  BY NewRouteStep
<1>. QED
  BY <1>1, RouterAlways, PTL DEF Spec, NewRoutesReachable

----------------------------------------------------------------------------
(* Reconstruction plans.                                                   *)

LEMMA ThreePartShape ==
    ASSUME NEW S, NEW s \in Seq(S), NEW t \in Seq(S), NEW u \in Seq(S),
           NEW all, all = s \o t \o u,
           NEW a, NEW b, NEW c, a = Len(s), b = Len(t), c = Len(u)
    PROVE  /\ a \in Nat /\ b \in Nat /\ c \in Nat
           /\ Len(all) = a + b + c /\ DOMAIN all = 1 .. a + b + c
           /\ \A k \in 1 .. a : k \in DOMAIN all /\ all[k] = s[k]
           /\ \A k \in 1 .. b : a + k \in DOMAIN all /\ all[a + k] = t[k]
           /\ \A k \in 1 .. c :
                 a + b + k \in DOMAIN all /\ all[a + b + k] = u[k]
<1>1. a \in Nat /\ b \in Nat /\ c \in Nat
  OBVIOUS
<1> DEFINE front == s \o t
<1>2. /\ front \in Seq(S) /\ Len(front) = a + b
      /\ \A i \in 1 .. a : front[i] = s[i]
      /\ \A i \in a + 1 .. a + b : front[i] = t[i - a]
  BY ConcatShape
<1>3. all = front \o u
  OBVIOUS
<1> HIDE DEF front
<1>4. /\ all \in Seq(S) /\ Len(all) = (a + b) + c
      /\ \A i \in 1 .. a + b : all[i] = front[i]
      /\ \A i \in (a + b) + 1 .. (a + b) + c : all[i] = u[i - (a + b)]
  <2>1. /\ front \o u \in Seq(S) /\ Len(front \o u) = Len(front) + Len(u)
        /\ \A i \in 1 .. Len(front) : (front \o u)[i] = front[i]
        /\ \A i \in Len(front) + 1 .. Len(front) + Len(u) :
              (front \o u)[i] = u[i - Len(front)]
    <3>1. front \in Seq(S)
      BY <1>2
    <3>. QED
      BY <3>1, ConcatShape, Zenon
  <2>. QED
    BY <1>2, <1>3, <2>1
<1>5. DOMAIN all = 1 .. a + b + c
  BY <1>1, <1>4
<1>6. ASSUME NEW k \in 1 .. a PROVE k \in DOMAIN all /\ all[k] = s[k]
  BY <1>1, <1>2, <1>4, <1>5
<1>7. ASSUME NEW k \in 1 .. b PROVE a + k \in DOMAIN all /\ all[a + k] = t[k]
  <2>1. a + k \in a + 1 .. a + b /\ a + k \in 1 .. a + b /\ (a + k) - a = k
    BY <1>1
  <2>2. all[a + k] = front[a + k] /\ front[a + k] = t[(a + k) - a]
    BY <1>2, <1>4, <2>1
  <2>. QED
    BY <1>1, <1>5, <2>1, <2>2
<1>8. ASSUME NEW k \in 1 .. c
      PROVE  a + b + k \in DOMAIN all /\ all[a + b + k] = u[k]
  <2>1. /\ a + b + k \in (a + b) + 1 .. (a + b) + c
        /\ (a + b + k) - (a + b) = k
    BY <1>1
  <2>2. all[a + b + k] = u[(a + b + k) - (a + b)]
    BY <1>4, <2>1
  <2>. QED
    BY <1>1, <1>5, <2>1, <2>2
<1>. QED
  BY <1>1, <1>4, <1>5, <1>6, <1>7, <1>8

(* The positions of the route that a plan lists with this rank.            *)
Listed(route, have, rank) ==
    {i \in DOMAIN route : route[i].index \notin have /\ Rank(route[i]) = rank}

(* Every position whose shard is missing is listed with exactly one rank.  *)
LEMMA ListedCount ==
    ASSUME NEW route \in Seq(Location), Complete(route),
           NEW have \in SUBSET (0 .. TotalShards - 1)
    PROVE  Cardinality(Listed(route, have, 2)) +
           Cardinality(Listed(route, have, 1)) +
           Cardinality(Listed(route, have, 0)) = TotalShards - Cardinality(have)
<1> DEFINE lacking == {i \in 1 .. TotalShards : i - 1 \notin have}
           wanted == (0 .. TotalShards - 1) \ have
           L2 == Listed(route, have, 2)
           L1 == Listed(route, have, 1)
           L0 == Listed(route, have, 0)
<1>1. TotalShards \in Nat
  BY ShardAssumption
<1>2. /\ L2 \cup L1 \cup L0 = lacking
      /\ L2 \cap L1 = {} /\ (L2 \cup L1) \cap L0 = {}
  <2>1. \A i \in 1 .. TotalShards : Rank(route[i]) \in {0, 1, 2}
    BY DEF Rank
  <2>2. \A i \in 1 .. TotalShards : route[i].index = i - 1
    BY DEF Complete
  <2>. QED
    BY <2>1, <2>2 DEF Listed, Complete
<1>3. IsFiniteSet(1 .. TotalShards) /\ IsFiniteSet(0 .. TotalShards - 1)
  BY <1>1, FS_Interval
<1>4. IsFiniteSet(lacking)
  BY <1>3, FS_Subset
<1> HIDE DEF L2, L1, L0
<1>5. IsFiniteSet(L2) /\ IsFiniteSet(L1) /\ IsFiniteSet(L0)
  <2>1. L2 \in SUBSET lacking /\ L1 \in SUBSET lacking /\ L0 \in SUBSET lacking
    BY <1>2
  <2> HIDE DEF lacking
  <2>. QED
    BY <1>4, <2>1, FS_Subset
<1>6. /\ Cardinality(L2) \in Nat /\ Cardinality(L1) \in Nat
      /\ Cardinality(L0) \in Nat
  BY <1>5, FS_CardinalityType
<1>7. Cardinality(L2) + Cardinality(L1) + Cardinality(L0) = Cardinality(lacking)
  <2> HIDE DEF lacking
  <2>1. /\ IsFiniteSet(L2 \cup L1)
        /\ Cardinality(L2 \cup L1) = Cardinality(L2) + Cardinality(L1)
    <3>1. Cardinality(L2 \cap L1) = 0
      BY <1>2, FS_EmptySet
    <3>2. /\ IsFiniteSet(L2 \cup L1)
          /\ Cardinality(L2 \cup L1) =
                Cardinality(L2) + Cardinality(L1) - Cardinality(L2 \cap L1)
      BY <1>5, FS_Union
    <3>. QED
      BY <1>6, <3>1, <3>2
  <2>2. Cardinality((L2 \cup L1) \cup L0) =
           Cardinality(L2 \cup L1) + Cardinality(L0)
    <3>1. Cardinality((L2 \cup L1) \cap L0) = 0
      BY <1>2, FS_EmptySet
    <3>2. Cardinality((L2 \cup L1) \cup L0) =
             Cardinality(L2 \cup L1) + Cardinality(L0)
                - Cardinality((L2 \cup L1) \cap L0)
      BY <1>5, <2>1, FS_Union
    <3>. QED
      BY <1>6, <2>1, <3>1, <3>2
  <2>3. (L2 \cup L1) \cup L0 = lacking
    BY <1>2
  <2>. QED
    BY <2>1, <2>2, <2>3
<1>8. Cardinality(lacking) = Cardinality(wanted)
  <2> DEFINE number == [i \in lacking |-> i - 1]
  <2>1. number \in [lacking -> wanted]
    BY <1>1
  <2>2. \A i, j \in lacking : number[i] = number[j] => i = j
    BY <1>1
  <2>3. \A k \in wanted : \E i \in lacking : number[i] = k
    <3>1. ASSUME NEW k \in wanted PROVE \E i \in lacking : number[i] = k
      <4>1. k + 1 \in lacking /\ number[k + 1] = k
        BY <1>1
      <4>. QED
        BY <4>1
    <3>. QED
      BY <3>1
  <2> HIDE DEF lacking, wanted, number
  <2>4. number \in Bijection(lacking, wanted)
    BY <2>1, <2>2, <2>3, Fun_IsBij
  <2>. QED
    BY <1>4, <2>4, FS_Bijection DEF ExistsBijection
<1>9. Cardinality(wanted) = TotalShards - Cardinality(have)
  <2>1. Cardinality(0 .. TotalShards - 1) = TotalShards
    BY <1>1, FS_Interval
  <2>2. (0 .. TotalShards - 1) \cap have = have
    OBVIOUS
  <2>3. Cardinality(wanted) =
           Cardinality(0 .. TotalShards - 1) -
           Cardinality((0 .. TotalShards - 1) \cap have)
    BY <1>3, FS_Difference
  <2>. QED
    BY <2>1, <2>2, <2>3
<1>. QED
  BY <1>7, <1>8, <1>9 DEF L2, L1, L0

LEMMA PlanShape ==
    ASSUME NEW route \in Seq(Location), Complete(route),
           NEW have \in SUBSET (0 .. TotalShards - 1),
           NEW plan, plan = ReconstructionPlan(route, have)
    PROVE  /\ Len(plan) = TotalShards - Cardinality(have)
           /\ {loc.index : loc \in ToSet(plan)} = (0 .. TotalShards - 1) \ have
           /\ \A i, j \in DOMAIN plan :
                 Reachable(plan[j]) /\ ~Reachable(plan[i]) => j < i
<1> DEFINE part(r) == Filtered(route, Listed(route, have, r))
           count(r) == Cardinality(Listed(route, have, r))
<1>1. TotalShards \in Nat /\ DOMAIN route = 1 .. TotalShards
  BY ShardAssumption DEF Complete
<1>2. plan = part(2) \o part(1) \o part(0)
  BY DEF ReconstructionPlan, Listed
<1>3. ASSUME NEW r \in {0, 1, 2}
      PROVE  /\ part(r) \in Seq(Location) /\ Len(part(r)) = count(r)
             /\ \A k \in 1 .. count(r) :
                   \E i \in Listed(route, have, r) : part(r)[k] = route[i]
             /\ \A i \in Listed(route, have, r) :
                   \E k \in 1 .. count(r) : part(r)[k] = route[i]
  <2>1. Listed(route, have, r) \in SUBSET (DOMAIN route)
    BY DEF Listed
  <2>. QED
    BY <2>1, FilteredShape
<1> HIDE DEF part
<1> DEFINE a == count(2)
           b == count(1)
           c == count(0)
<1>4. /\ a \in Nat /\ b \in Nat /\ c \in Nat
      /\ Len(plan) = a + b + c /\ DOMAIN plan = 1 .. a + b + c
      /\ \A k \in 1 .. a : k \in DOMAIN plan /\ plan[k] = part(2)[k]
      /\ \A k \in 1 .. b : a + k \in DOMAIN plan /\ plan[a + k] = part(1)[k]
      /\ \A k \in 1 .. c :
            a + b + k \in DOMAIN plan /\ plan[a + b + k] = part(0)[k]
  <2>1. /\ part(2) \in Seq(Location) /\ part(1) \in Seq(Location)
        /\ part(0) \in Seq(Location)
        /\ a = Len(part(2)) /\ b = Len(part(1)) /\ c = Len(part(0))
    BY <1>3
  <2> HIDE DEF a, b, c
  <2>. QED
    BY <1>2, <2>1, ThreePartShape
<1>5. Len(plan) = TotalShards - Cardinality(have)
  BY <1>4, ListedCount
<1>6. ASSUME NEW r \in {0, 1, 2}, NEW i \in Listed(route, have, r)
      PROVE  /\ i \in 1 .. TotalShards /\ route[i].index = i - 1
             /\ i - 1 \in (0 .. TotalShards - 1) \ have
             /\ Rank(route[i]) = r
  BY <1>1 DEF Listed, Complete
<1> HIDE DEF a, b, c
(* Where the entries of the plan come from, part by part.                  *)
<1>7. ASSUME NEW k \in DOMAIN plan
      PROVE  /\ \E i \in 1 .. TotalShards :
                   /\ plan[k] = route[i] /\ route[i].index = i - 1
                   /\ i - 1 \in (0 .. TotalShards - 1) \ have
             /\ k <= a + b <=> Rank(plan[k]) \in {1, 2}
  <2>1. \/ k \in 1 .. a
        \/ k - a \in 1 .. b
        \/ k - (a + b) \in 1 .. c
    BY <1>4
  <2>2. CASE k \in 1 .. a
    <3>1. PICK i \in Listed(route, have, 2) : part(2)[k] = route[i]
      BY <1>3, <2>2 DEF a
    <3>2. plan[k] = route[i] /\ k <= a + b
      BY <1>4, <2>2, <3>1
    <3>. QED
      BY <1>6, <3>2
  <2>3. CASE k - a \in 1 .. b
    <3>1. PICK i \in Listed(route, have, 1) : part(1)[k - a] = route[i]
      BY <1>3, <2>3 DEF b
    <3>2. a + (k - a) = k /\ k <= a + b
      BY <1>4, <2>3
    <3>3. plan[k] = route[i]
      BY <1>4, <2>3, <3>1, <3>2
    <3>. QED
      BY <1>6, <3>2, <3>3
  <2>4. CASE k - (a + b) \in 1 .. c
    <3>1. PICK i \in Listed(route, have, 0) : part(0)[k - (a + b)] = route[i]
      BY <1>3, <2>4 DEF c
    <3>2. a + b + (k - (a + b)) = k /\ ~(k <= a + b)
      BY <1>4, <2>4
    <3>3. plan[k] = route[i]
      BY <1>4, <2>4, <3>1, <3>2
    <3>4. Rank(plan[k]) = 0
      BY <1>6, <3>3
    <3>. QED
      BY <1>6, <3>2, <3>3, <3>4
  <2>. QED
    BY <2>1, <2>2, <2>3, <2>4
(* Every lacking shard is in one of the parts.                             *)
<1>8. ASSUME NEW n \in (0 .. TotalShards - 1) \ have
      PROVE  \E k \in DOMAIN plan : plan[k].index = n
  <2> DEFINE i == n + 1
             r == Rank(route[i])
  <2>1. i \in 1 .. TotalShards /\ route[i].index = n /\ r \in {0, 1, 2}
    BY <1>1 DEF Complete, Rank
  <2>2. i \in Listed(route, have, r)
    BY <1>1, <2>1 DEF Listed
  <2>3. PICK k \in 1 .. count(r) : part(r)[k] = route[i]
    <3> HIDE DEF r
    <3>. QED
      BY <1>3, <2>1, <2>2
  <2> HIDE DEF i, r
  <2>4. CASE r = 2
    <3>1. k \in 1 .. a /\ part(2)[k] = route[i]
      BY <2>3, <2>4 DEF a
    <3>2. k \in DOMAIN plan /\ plan[k] = route[i]
      BY <1>4, <3>1
    <3>. QED
      BY <2>1, <3>2
  <2>5. CASE r = 1
    <3>1. k \in 1 .. b /\ part(1)[k] = route[i]
      BY <2>3, <2>5 DEF b
    <3>2. a + k \in DOMAIN plan /\ plan[a + k] = route[i]
      BY <1>4, <3>1
    <3>. QED
      BY <2>1, <3>2
  <2>6. CASE r = 0
    <3>1. k \in 1 .. c /\ part(0)[k] = route[i]
      BY <2>3, <2>6 DEF c
    <3>2. a + b + k \in DOMAIN plan /\ plan[a + b + k] = route[i]
      BY <1>4, <3>1
    <3>. QED
      BY <2>1, <3>2
  <2>. QED
    BY <2>1, <2>4, <2>5, <2>6
<1>9. {loc.index : loc \in ToSet(plan)} = (0 .. TotalShards - 1) \ have
  <2>1. ToSet(plan) = {plan[k] : k \in DOMAIN plan}
    BY DEF ToSet
  <2>2. \A k \in DOMAIN plan : plan[k].index \in (0 .. TotalShards - 1) \ have
    BY <1>7
  <2>. QED
    BY <1>8, <2>1, <2>2
<1>10. ASSUME NEW i \in DOMAIN plan, NEW j \in DOMAIN plan,
              Reachable(plan[j]), ~Reachable(plan[i])
       PROVE  j < i
  <2>1. Rank(plan[j]) \in {1, 2} /\ Rank(plan[i]) = 0
    BY <1>10 DEF Reachable, Rank
  <2>2. j <= a + b /\ ~(i <= a + b)
    BY <1>7, <2>1
  <2>. QED
    BY <1>4, <2>2
<1>. QED
  BY <1>5, <1>9, <1>10

(* A plan names every shard the node lacks once, and no shard that is out  *)
(* of reach before one that is within it, as peers come and go.            *)
THEOREM PlansPreferReachable == Spec => []PlanPrefersReachable
<1>1. RouterInv /\ RoutesInv => PlanPrefersReachable
  <2> SUFFICES ASSUME RouterInv, RoutesInv,
                      NEW g \in Groups, NEW route \in routes[g],
                      NEW have \in SUBSET (0 .. TotalShards - 1)
               PROVE  LET plan == ReconstructionPlan(route, have)
                      IN  /\ Len(plan) = TotalShards - Cardinality(have)
                          /\ {loc.index : loc \in ToSet(plan)} =
                                (0 .. TotalShards - 1) \ have
                          /\ \A i, j \in DOMAIN plan :
                                Reachable(plan[j]) /\ ~Reachable(plan[i]) => j < i
    BY DEF PlanPrefersReachable
  <2>1. route \in Seq(Location) /\ Complete(route)
    BY DEF RouterInv, RoutesInv
  <2>. QED
    BY <2>1, PlanShape
<1>. QED
  BY <1>1, RouterAlways, RoutesAlways, PTL
=============================================================================
