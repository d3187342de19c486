----------------------------- MODULE WanRouter -----------------------------
(***************************************************************************)
(* The shard router of router.rs: where the shards of a group are placed,  *)
(* and which of them can be reached again as peers come and go.  Peers are *)
(* known by nickname; `peer_health` is keyed by the names that mark_online *)
(* and mark_offline are called with, which need not be those of peers.     *)
(***************************************************************************)
EXTENDS Naturals, Sequences, FiniteSets, SequencesExt

CONSTANTS
    Groups,       \* group ids
    Us,           \* our_nickname
    Names,        \* names whose health is reported, Us not among them
    PeerLists,    \* the lists of peers that the configuration can give
    DataShards,   \* rs_data_shards
    TotalShards   \* data and parity shards

ASSUME ShardAssumption ==
    /\ DataShards \in Nat \ {0}
    /\ TotalShards \in Nat
    /\ DataShards <= TotalShards

ASSUME PeerAssumption ==
    /\ Us \notin Names
    /\ PeerLists \subseteq Seq(Names)

VARIABLES
    routes,   \* routes[g]: {} or {the locations of g's shards}
    peers,    \* wan_peers
    health    \* the names reported online

vars == <<routes, peers, health>>

Location == [peer : Names \cup {Us}, index : Nat]

(* filter: the elements of s at the positions in `at`, in their order.     *)
Filtered(s, at) ==
    [k \in 1 .. Cardinality(at) |->
        s[CHOOSE i \in at : Cardinality({j \in at : j <= i}) = k]]

(* Without an entry in peer_health a peer is offline.                      *)
OnlinePeers == Filtered(peers, {i \in DOMAIN peers : peers[i] \in health})

----------------------------------------------------------------------------
\* As the code would be if it looked at all peers, online or not.
TargetAnyPeer(k) ==
    IF peers = <<>> THEN Us ELSE peers[(k % Len(peers)) + 1]

(* online_peers.get(k % online_peers.len().max(1)), or ourselves.          *)
Target(k) ==
    IF OnlinePeers = <<>>
    THEN Us
    ELSE OnlinePeers[(k % Len(OnlinePeers)) + 1]

\* As the code would be if both loops ran over the first parity shard.
PlacementOverlapping ==
    <<[peer |-> Us, index |-> 0]>>
        \o [i \in 1 .. DataShards |-> [peer |-> Target(i - 1), index |-> i]]
        \o [i \in 1 .. TotalShards - DataShards |->
               [peer |-> Target(i - 1), index |-> DataShards + i - 1]]

(* compute_route: the first shard stays here, the other data shards and    *)
(* the parity shards each go round the online peers from the first one on. *)
Placement ==
    <<[peer |-> Us, index |-> 0]>>
        \o [i \in 1 .. DataShards - 1 |-> [peer |-> Target(i - 1), index |-> i]]
        \o [i \in 1 .. TotalShards - DataShards |->
               [peer |-> Target(i - 1), index |-> DataShards + i - 1]]

Init ==
    /\ routes = [g \in Groups |-> {}]
    /\ peers \in PeerLists
    /\ health = {}

ComputeRoute(g) ==
    /\ routes' = [routes EXCEPT ![g] = {Placement}]
    /\ UNCHANGED <<peers, health>>

RemoveRoute(g) ==
    /\ routes' = [routes EXCEPT ![g] = {}]
    /\ UNCHANGED <<peers, health>>

MarkOnline(name) ==
    /\ health' = health \cup {name}
    /\ UNCHANGED <<routes, peers>>

MarkOffline(name) ==
    /\ health' = health \ {name}
    /\ UNCHANGED <<routes, peers>>

\* As the code would be if it kept the peers it had.
UpdateWanPeersAppends(list) ==
    /\ peers' = peers \o list
    /\ UNCHANGED <<routes, health>>

UpdateWanPeers(list) ==
    /\ peers' = list
    /\ UNCHANGED <<routes, health>>

Next ==
    \/ \E g \in Groups : ComputeRoute(g) \/ RemoveRoute(g)
    \/ \E name \in Names : MarkOnline(name) \/ MarkOffline(name)
    \/ \E list \in PeerLists : UpdateWanPeers(list)

Spec == Init /\ [][Next]_vars

----------------------------------------------------------------------------
Reachable(loc) == loc.peer = Us \/ loc.peer \in health

\* As the code would be if it did not look at the peers' health.
CanReconstructAnywhere(g) ==
    \E route \in routes[g] : Cardinality(DOMAIN route) >= DataShards

(* can_reconstruct counts locations, not distinct shards.                  *)
CanReconstruct(g) ==
    \E route \in routes[g] :
        Cardinality({i \in DOMAIN route : Reachable(route[i])}) >= DataShards

\* As the code would be if the comparison were the other way round.
RankReversed(loc) ==
    IF loc.peer = Us THEN 0 ELSE IF loc.peer \in health THEN 1 ELSE 2

Rank(loc) == IF loc.peer = Us THEN 2 ELSE IF loc.peer \in health THEN 1 ELSE 0

(* get_reconstruction_plan: the missing shards, by a stable sort on rank.  *)
ReconstructionPlan(route, have) ==
    LET missing(rank) ==
            Filtered(route, {i \in DOMAIN route :
                                /\ route[i].index \notin have
                                /\ Rank(route[i]) = rank})
    IN  missing(2) \o missing(1) \o missing(0)

----------------------------------------------------------------------------
(* Type invariant of the router.                                           *)
TypeOK ==
    /\ routes \in [Groups -> SUBSET Seq(Location)]
    /\ peers \in PeerLists
    /\ health \subseteq Names

(* A route has one place for every shard of the group, in order, whatever  *)
(* the number of peers online when it was computed: reconstruct_file finds *)
(* the place of shard i at position i.                                     *)
RouteComplete ==
    \A g \in Groups : \A route \in routes[g] :
        /\ Len(route) = TotalShards
        /\ \A i \in DOMAIN route : route[i].index = i - 1

(* What can_reconstruct counts are different shards, enough of them to     *)
(* reconstruct the group, however the peers have come and gone since.      *)
CanReconstructIsSound ==
    \A g \in Groups : CanReconstruct(g) =>
        \E route \in routes[g] :
            Cardinality({loc.index : loc \in
                {l \in ToSet(route) : Reachable(l)}}) >= DataShards

(* When a route is computed every shard of it, parity shards included,     *)
(* stays here or goes to a peer of the list that is in use which is known  *)
(* to be online; none goes to a peer that was configured or online before. *)
NewRoutesReachable ==
    [][\A g \in Groups : routes'[g] # routes[g] =>
          \A route \in routes'[g] : \A i \in DOMAIN route :
              \/ route[i].peer = Us
              \/ route[i].peer \in ToSet(peers) \cap health]_vars

(* A plan for the shards a node lacks names each of them once, and asks no *)
(* peer for a shard before every better placed one.                        *)
PlanPrefersReachable ==
    \A g \in Groups : \A route \in routes[g] :
        \A have \in SUBSET (0 .. TotalShards - 1) :
            LET plan == ReconstructionPlan(route, have)
            IN  /\ Len(plan) = TotalShards - Cardinality(have)
                /\ {loc.index : loc \in ToSet(plan)} =
                      (0 .. TotalShards - 1) \ have
                /\ \A i, j \in DOMAIN plan :
                      Reachable(plan[j]) /\ ~Reachable(plan[i]) => j < i

----------------------------------------------------------------------------
(* "Parity shards are stored on distinct WAN peers": with enough peers     *)
(* online, a new route puts no two shards on one peer.                     *)
ShardsOnDistinctPeers ==
    [][\A g \in Groups :
          routes'[g] # routes[g] /\ Len(OnlinePeers) >= TotalShards - 1 =>
              \A route \in routes'[g] :
                  IsInjective([i \in DOMAIN route |-> route[i].peer])]_vars
=============================================================================
