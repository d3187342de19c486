----------------------------- MODULE UdpReceiver ---------------------------
(***************************************************************************)
(* The UDP receiver of main.rs: messages arrive as three packets, each     *)
(* with a share of the key and a Reed-Solomon shard, and are put together  *)
(* from the first two that come under one message id; a handshake message  *)
(* establishes the master key and a session, and tells the router of the   *)
(* peer.  The session manager of session.rs keeps the sessions until the   *)
(* heartbeat monitor finds that they have expired; nothing that happens in *)
(* between touches a session.  The senders are other nodes, which follow   *)
(* shamir_split, rs_encode and the packet layout of network.rs.            *)
(*                                                                         *)
(* Byte strings that are combined by XOR are sets of the random strings    *)
(* they are the XOR of.  A shard is the message it is from and its index;  *)
(* the two data shards in order are the message.                           *)
(*                                                                         *)
(* The receiver is one task and the only writer of the pool and the master *)
(* key, so receiving is one step.  The address of the last handshake is    *)
(* left out: only the handshake sender reads it.                           *)
(***************************************************************************)
EXTENDS Integers, Sequences, SequencesExt

CONSTANTS
    Messages,       \* messages that peers send
    Peers,          \* fingerprints of the peers
    From,           \* From[m]: the peer that sends m
    Id,             \* Id[m]: msg_id
    Length,         \* Length[m]: the length of the plaintext
    HandshakeId,    \* HANDSHAKE_ID
    HardTimeout,    \* hard_timeout, in units of the model's clock
    IdleTimeout,    \* idle_timeout
    Nickname,       \* Nickname[p]: what wan_peers calls the peer p
    MaxUnderway,    \* bound on the packets under way when one is sent
    MaxDisturbed    \* bound on the packets lost, swapped or duplicated

ASSUME MessageAssumption ==
    /\ From \in [Messages -> Peers]
    /\ Length \in [Messages -> Nat]
    /\ DOMAIN Id = Messages
    /\ HardTimeout \in Nat /\ IdleTimeout \in Nat
    /\ MaxUnderway \in Nat /\ MaxDisturbed \in Nat

VARIABLES
    net,         \* packets under way, in the order they will arrive
    sent,        \* sent[m]: how many of the three packets of m are sent
    pool,        \* pool[id]: the packets that have come under the id
    master,      \* master_key: {} or {the key}
    sessions,    \* sessions[p]: {} or {the session of p}
    online,      \* the names that peer_health of the router has as online
    decoded,     \* data messages that decrypted
    disturbed    \* packets lost, swapped or duplicated so far

vars == <<net, sent, pool, master, sessions, online, decoded, disturbed>>

Ids == {Id[m] : m \in Messages}

IsHandshake(m) == Id[m] = HandshakeId

Packet == [of : Messages, index : 0 .. 2]

Init ==
    /\ net = <<>>
    /\ sent = [m \in Messages |-> 0]
    /\ pool = [id \in Ids |-> <<>>]
    /\ master = {}
    /\ sessions = [p \in Peers |-> {}]
    /\ online = {}
    /\ decoded = {}
    /\ disturbed = 0

----------------------------------------------------------------------------
(* Keys: shamir_split and shamir_join.                                     *)

Xor(a, b) == (a \ b) \cup (b \ a)

(* Every message has a random key and a random first share of its own.     *)
KeyOf(m) == {<<"key", m>>}
FirstShare(m) == {<<"share", m>>}

Share(packet) ==
    LET first == FirstShare(packet.of)
        second == Xor(first, KeyOf(packet.of))
    IN  <<first, second, Xor(second, KeyOf(packet.of))>>[packet.index + 1]

\* As the code would be if it compared the indices the wrong way round.
JoinIfSameIndex(p, q) ==
    IF p.index = q.index THEN Xor(Share(p), Share(q)) ELSE {}

(* The result for two shares of one index is all zeros.                    *)
Join(p, q) == IF p.index # q.index THEN Xor(Share(p), Share(q)) ELSE {}

----------------------------------------------------------------------------
(* Contents: rs_encode on the sender's side, rs_reconstruct on ours, which *)
(* takes the shard that came first for the first data shard and the one    *)
(* that came second for the second.                                        *)

(* shard_len_for of the length in the packet, a u8; 16 bytes are the tag.  *)
ShardLen(length) == ((length % 256) + 16 + 1) \div 2

(* What is put together is what was encrypted, with no byte missing and no *)
(* byte of padding: only then it decrypts.                                 *)
LengthFits(m) == 2 * ShardLen(Length[m]) = Length[m] + 16

Decrypts(p, q) ==
    /\ p.of = q.of /\ p.index = 0 /\ q.index = 1
    /\ Join(p, q) = KeyOf(p.of)
    /\ LengthFits(p.of)

\* As the code would be if the signature did not cover the first half.
VerifiesSecondHalf(p, q) == p.index = 0 /\ q.index = 1

(* A peer's handshakes carry one blob: the halves of two of them make a    *)
(* blob that verifies.                                                     *)
Verifies(p, q) ==
    From[p.of] = From[q.of] /\ p.index = 0 /\ q.index = 1

----------------------------------------------------------------------------
(* A peer's handshakes go out one after the other: one loop sends them.    *)
InTurn(m) ==
    \A n \in Messages \ {m} :
        IsHandshake(m) /\ IsHandshake(n) /\ From[n] = From[m]
            => sent[n] \in {0, 3}

(* One call of send_to: packets of other messages may come before the next *)
(* one of this message.                                                    *)
Send(m) ==
    /\ sent[m] < 3 /\ InTurn(m) /\ Len(net) < MaxUnderway
    /\ sent' = [sent EXCEPT ![m] = @ + 1]
    /\ net' = Append(net, [of |-> m, index |-> sent[m]])
    /\ UNCHANGED <<pool, master, sessions, online, decoded, disturbed>>

(* SessionGuard::new and set_master_key.                                   *)
NewSession(key) == [key |-> key, age |-> 0, idle |-> 0]

(* A session that is there already keeps the time of its start.            *)
Upsert(session, key) ==
    IF session = {} THEN {NewSession(key)}
    ELSE {[s EXCEPT !.key = key, !.idle = 0] : s \in session}

\* As the code would be if a later handshake replaced the key.
EstablishAgain(p, q) ==
    IF Verifies(p, q)
    THEN /\ master' = {Join(p, q)}
         /\ sessions' = [sessions EXCEPT ![From[p.of]] = {NewSession(Join(p, q))}]
         /\ online' = online \cup {From[p.of]}
    ELSE UNCHANGED <<master, sessions, online>>

(* A handshake counts only while there is no master key.  The router is    *)
(* told the peer's fingerprint.                                            *)
Establish(p, q) ==
    IF master = {} /\ Verifies(p, q)
    THEN /\ master' = {Join(p, q)}
         /\ sessions' = [sessions EXCEPT ![From[p.of]] = Upsert(@, Join(p, q))]
         /\ online' = online \cup {From[p.of]}
    ELSE UNCHANGED <<master, sessions, online>>

\* As the code would be if it forgot to empty the pool.
PooledForGood(first, packet) == Append(first, packet)

(* The second packet under an id uses up the entry.                        *)
Pooled(first, packet) == IF first = <<>> THEN <<packet>> ELSE <<>>

Receive ==
    /\ net # <<>>
    /\ LET q == Head(net)
           first == pool[Id[q.of]]
       IN  /\ net' = Tail(net)
           /\ pool' = [pool EXCEPT ![Id[q.of]] = Pooled(first, q)]
           /\ IF first # <<>> /\ IsHandshake(q.of)
              THEN Establish(first[1], q)
              ELSE UNCHANGED <<master, sessions, online>>
           /\ decoded' = decoded \cup
                 IF first # <<>> /\ ~IsHandshake(q.of) /\ Decrypts(first[1], q)
                 THEN {q.of} ELSE {}
    /\ UNCHANGED <<sent, disturbed>>

(* UDP loses, reorders and duplicates packets.                             *)
Disturb ==
    /\ disturbed < MaxDisturbed
    /\ disturbed' = disturbed + 1
    /\ UNCHANGED <<sent, pool, master, sessions, online, decoded>>

Lose ==
    /\ \E i \in DOMAIN net : net' = RemoveAt(net, i)
    /\ Disturb

Duplicate ==
    /\ \E i \in DOMAIN net : net' = InsertAt(net, i, net[i])
    /\ Disturb

Swap ==
    /\ \E i \in 1 .. Len(net) - 1 :
          net' = [net EXCEPT ![i] = net[i + 1], ![i + 1] = net[i]]
    /\ Disturb

----------------------------------------------------------------------------
(* Time, and the end of sessions.                                          *)

Expired(s) == s.age >= HardTimeout \/ s.idle >= IdleTimeout

Tick ==
    /\ \E p \in Peers : \E s \in sessions[p] : ~Expired(s)
    /\ sessions' = [p \in Peers |->
                       {[s EXCEPT !.age = @ + 1, !.idle = @ + 1] : s \in sessions[p]}]
    /\ UNCHANGED <<net, sent, pool, master, online, decoded, disturbed>>

\* As the code would be if it kept the sessions that hold a key.
ExpireKeyless ==
    /\ \E p \in Peers : \E s \in sessions[p] : Expired(s)
    /\ sessions' = [p \in Peers |->
                       {s \in sessions[p] : ~Expired(s) \/ s.key # {}}]
    /\ UNCHANGED <<net, sent, pool, master, online, decoded, disturbed>>

(* heartbeat_monitor_loop and expire_stale: all at once; the master key of *)
(* main and the router's health stay as they are.                          *)
ExpireStale ==
    /\ \E p \in Peers : \E s \in sessions[p] : Expired(s)
    /\ sessions' = [p \in Peers |-> {s \in sessions[p] : ~Expired(s)}]
    /\ UNCHANGED <<net, sent, pool, master, online, decoded, disturbed>>

Next ==
    \/ \E m \in Messages : Send(m)
    \/ Receive
    \/ Lose \/ Duplicate \/ Swap
    \/ Tick
    \/ ExpireStale

Spec == Init /\ [][Next]_vars

(* Time passes, and the monitor wakes up every half minute.                *)
FairSpec == Spec /\ WF_vars(Tick) /\ WF_vars(ExpireStale)

----------------------------------------------------------------------------
Key == SUBSET UNION {KeyOf(m) \cup FirstShare(m) : m \in Messages}

(* Type invariant: also, what waits in the pool is at most one packet for  *)
(* an id.                                                                  *)
TypeOK ==
    /\ net \in Seq(Packet)
    /\ sent \in [Messages -> 0 .. 3]
    /\ \A id \in Ids : pool[id] \in Seq(Packet) /\ Len(pool[id]) <= 1
    /\ master \subseteq Key
    /\ \A p \in Peers :
          sessions[p] \subseteq [key : Key, age : Nat, idle : Nat]
    /\ online \subseteq Peers
    /\ decoded \subseteq Messages
    /\ disturbed \in Nat

(* The key of a session is made of shares that its peer has sent in        *)
(* handshakes, in one or in two of them: however the packets of several    *)
(* peers' handshakes pair up under their one id, no other peer and no data *)
(* message has a part in it.                                               *)
KeyIsThePeers ==
    \A p \in Peers : \A s \in sessions[p] :
        \E m, n \in Messages :
            /\ IsHandshake(m) /\ IsHandshake(n)
            /\ From[m] = p /\ From[n] = p
            /\ s.key = Xor(FirstShare(m), Xor(FirstShare(n), KeyOf(n)))

(* There is one master key, and every session in the manager has it.       *)
SessionsShareKey ==
    \A p \in Peers : \A s \in sessions[p] : s.key \in master

(* Every session comes to its end, whatever packets its peer goes on       *)
(* sending: nothing keeps it from the monitor.                             *)
SessionsEnd == \A p \in Peers : sessions[p] # {} ~> sessions[p] = {}

Alone(m) == \A n \in Messages : Id[n] = Id[m] => n = m

Arrived(m) == sent[m] = 3 /\ \A i \in DOMAIN net : net[i].of # m

(* Without loss, reordering and duplicates a data message whose id no      *)
(* other message uses, and whose length survives the padding, is decoded   *)
(* when its three packets have come, whatever packets of other messages,   *)
(* handshakes among them, have come between them.                          *)
InOrderDecoded ==
    disturbed = 0 =>
        \A m \in Messages :
            Arrived(m) /\ ~IsHandshake(m) /\ Alone(m) /\ LengthFits(m)
                => m \in decoded

----------------------------------------------------------------------------
(* q is the second packet of one message to arrive under its id, after p.  *)
Pairs(p, q) ==
    /\ net # <<>> /\ net' = Tail(net) /\ q = Head(net)
    /\ disturbed' = disturbed
    /\ pool[Id[q.of]] = <<p>>
    /\ p.of = q.of /\ p.index # q.index

(* "Reconstruct original data from any two of three shards".               *)
AnyTwoPacketsDecode ==
    [][\A p, q \in Packet :
          Pairs(p, q) /\ ~IsHandshake(q.of) => q.of \in decoded']_vars

(* "Shamir shares with a (2-of-3) threshold": any two of a message's       *)
(* shares give its key.                                                    *)
AnyTwoSharesGiveKey ==
    [][\A p, q \in Packet : Pairs(p, q) => Join(p, q) = KeyOf(q.of)]_vars

(* "msg_id - 1-253 for data": without disturbance a message is decoded     *)
(* also when its id has been used before.                                  *)
EveryMessageDecoded ==
    disturbed = 0 =>
        \A m \in Messages : Arrived(m) /\ ~IsHandshake(m) => m \in decoded

(* "Session established with": the key of a session is the key of a        *)
(* handshake that the peer has sent.                                       *)
SessionKeyWasSent ==
    \A p \in Peers : \A s \in sessions[p] :
        \E m \in Messages : From[m] = p /\ s.key = KeyOf(m)

(* "Re-authentication required": a peer whose session has gone gets a new  *)
(* one by a handshake that verifies.                                       *)
PeersCanReturn ==
    [][\A p, q \in Packet :
          Pairs(p, q) /\ IsHandshake(q.of) /\ Verifies(p, q)
              => sessions'[From[q.of]] # {}]_vars

(* "Mark peer as online in router": a peer of wan_peers that has a session *)
(* is online for compute_route, which asks by nickname.                    *)
SessionPeersOnline ==
    \A p \in Peers : sessions[p] # {} => Nickname[p] \in online
=============================================================================
