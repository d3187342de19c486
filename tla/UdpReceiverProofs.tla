------------------------- MODULE UdpReceiverProofs -------------------------
(***************************************************************************)
(* For every set of peers and messages, whatever their ids, and any number *)
(* of lost, swapped and duplicated packets: every session has the master   *)
(* key, which its peer made alone; an undisturbed message that has its id  *)
(* to itself is decoded.                                                   *)
(***************************************************************************)
EXTENDS UdpReceiver, TLAPS

(* What a received packet does to key and sessions: nothing, or the first  *)
(* key of all goes to both.                                                *)
LEMMA ReceiveSetsBoth ==
    ASSUME Receive
    PROVE  \/ UNCHANGED <<master, sessions>>
           \/ /\ master = {}
              /\ \E key, peer :
                    /\ master' = {key}
                    /\ sessions' =
                          [sessions EXCEPT ![peer] = Upsert(@, key)]
<1>1. \/ UNCHANGED <<master, sessions>>
      \/ \E first, second : Establish(first, second)
  BY DEF Receive
<1>. QED
  BY <1>1 DEF Establish

----------------------------------------------------------------------------
(* The inductive invariant: a table of sessions that hold the master key.  *)
Session == [key : master, age : Nat, idle : Nat]

SessionInv == sessions \in [Peers -> SUBSET Session]

LEMMA SessionInit == Init => SessionInv
  BY DEF Init, SessionInv

LEMMA SessionStep == SessionInv /\ [Next]_vars => SessionInv'
<1> SUFFICES ASSUME SessionInv, [Next]_vars PROVE SessionInv'
  OBVIOUS
<1> USE DEF SessionInv, Session
<1>1. ASSUME UNCHANGED <<master, sessions>> PROVE SessionInv'
  BY <1>1
<1>2. ASSUME NEW m \in Messages, Send(m) PROVE SessionInv'
  BY <1>1, <1>2 DEF Send
<1>3. CASE Receive
  <2>1. SUFFICES ASSUME master = {}, NEW key, NEW peer, master' = {key},
                        sessions' =
                           [sessions EXCEPT ![peer] = Upsert(@, key)]
                 PROVE  SessionInv'
    BY <1>1, <1>3, ReceiveSetsBoth
  <2>2. \A p \in Peers : sessions[p] = {}
    BY <2>1
  <2>3. Upsert({}, key) \in SUBSET Session'
    <3>1. NewSession(key) \in [key : master', age : Nat, idle : Nat]
      BY <2>1 DEF NewSession
    <3>2. Upsert({}, key) = {NewSession(key)}
      BY DEF Upsert
    <3>. QED
      BY <3>1, <3>2
  <2>4. sessions' = [p \in Peers |-> IF p = peer THEN Upsert({}, key) ELSE {}]
    BY <2>1, <2>2
  <2>. QED
    BY <2>3, <2>4
<1>4. CASE Lose \/ Duplicate \/ Swap
  BY <1>1, <1>4 DEF Lose, Duplicate, Swap, Disturb
<1>5. CASE Tick
  <2>1. ASSUME NEW p \in Peers, NEW s \in sessions[p]
        PROVE  [s EXCEPT !.age = @ + 1, !.idle = @ + 1] \in Session
    <3>1. s \in [key : master, age : Nat, idle : Nat]
      BY <2>1
    <3>2. s.age \in Nat /\ s.idle \in Nat
      BY <3>1
    <3>3. s.age + 1 \in Nat /\ s.idle + 1 \in Nat
      BY <3>2
    <3>. QED
      BY <3>1, <3>3
  <2>2. master' = master
    BY <1>5 DEF Tick
  <2>. QED
    BY <1>5, <2>1, <2>2 DEF Tick
<1>6. CASE ExpireStale
  BY <1>6 DEF ExpireStale
<1>7. CASE UNCHANGED vars
  BY <1>1, <1>7 DEF vars
<1>. QED
  BY <1>2, <1>3, <1>4, <1>5, <1>6, <1>7 DEF Next

(* Every session holds the one master key, also after sessions have        *)
(* expired and further handshakes have come in.                            *)
THEOREM OneKey == Spec => []SessionsShareKey
<1>1. SessionInv => SessionsShareKey
  BY DEF SessionInv, Session, SessionsShareKey
<1>. QED
  BY <1>1, SessionInit, SessionStep, PTL DEF Spec

----------------------------------------------------------------------------
(* Type correctness.                                                       *)

PacketInv ==
    /\ net \in Seq(Packet)
    /\ sent \in [Messages -> 0 .. 3]
    /\ pool = [id \in Ids |-> pool[id]]
    /\ \A id \in Ids : pool[id] \in Seq(Packet) /\ Len(pool[id]) <= 1
    /\ master \subseteq Key
    /\ online \subseteq Peers
    /\ decoded \subseteq Messages
    /\ disturbed \in Nat

LEMMA JoinType ==
    ASSUME NEW p \in Packet, NEW q \in Packet
    PROVE  Join(p, q) \in Key
<1> DEFINE Strings == UNION {KeyOf(m) \cup FirstShare(m) : m \in Messages}
<1>1. ASSUME NEW r \in Packet PROVE Share(r) \subseteq Strings
  <2>1. r.of \in Messages /\ r.index \in {0, 1, 2}
    BY DEF Packet
  <2>2. KeyOf(r.of) \subseteq Strings /\ FirstShare(r.of) \subseteq Strings
    BY <2>1
  <2> HIDE DEF Strings
  <2>3. ASSUME NEW a \in SUBSET Strings, NEW b \in SUBSET Strings
        PROVE  Xor(a, b) \in SUBSET Strings
    BY DEF Xor
  <2> DEFINE first == FirstShare(r.of)
             second == Xor(first, KeyOf(r.of))
             third == Xor(second, KeyOf(r.of))
  <2>4. /\ first \in SUBSET Strings /\ second \in SUBSET Strings
        /\ third \in SUBSET Strings
    BY <2>2, <2>3
  <2>5. Share(r) = <<first, second, third>>[r.index + 1]
    BY DEF Share
  <2> HIDE DEF first, second, third
  <2>6. Share(r) \in {first, second, third}
    BY <2>1, <2>5
  <2>. QED
    BY <2>4, <2>6
<1> HIDE DEF Strings
<1>2. Join(p, q) \subseteq Strings
  BY <1>1 DEF Join, Xor
<1>. QED
  BY <1>2 DEF Key, Strings

LEMMA NetType ==
    ASSUME NEW s \in Seq(Packet), NEW i \in DOMAIN s
    PROVE  /\ RemoveAt(s, i) \in Seq(Packet)
           /\ InsertAt(s, i, s[i]) \in Seq(Packet)
           /\ i + 1 \in DOMAIN s =>
                 [s EXCEPT ![i] = s[i + 1], ![i + 1] = s[i]] \in Seq(Packet)
<1>1. i \in 1 .. Len(s) /\ s[i] \in Packet
  OBVIOUS
<1>2. /\ SubSeq(s, 1, i - 1) \in Seq(Packet)
      /\ SubSeq(s, i + 1, Len(s)) \in Seq(Packet)
      /\ SubSeq(s, i, Len(s)) \in Seq(Packet)
  BY <1>1
<1>3. RemoveAt(s, i) \in Seq(Packet)
  BY <1>2 DEF RemoveAt
<1>4. InsertAt(s, i, s[i]) \in Seq(Packet)
  BY <1>1, <1>2 DEF InsertAt
<1>5. ASSUME i + 1 \in DOMAIN s
      PROVE  [s EXCEPT ![i] = s[i + 1], ![i + 1] = s[i]] \in Seq(Packet)
  BY <1>1, <1>5
<1>. QED
  BY <1>3, <1>4, <1>5

LEMMA PacketInit == Init => PacketInv
<1> SUFFICES ASSUME Init PROVE PacketInv
  OBVIOUS
<1>1. /\ net = <<>> /\ sent = [m \in Messages |-> 0]
      /\ pool = [id \in Ids |-> <<>>]
      /\ master = {} /\ online = {} /\ decoded = {} /\ disturbed = 0
  BY DEF Init
<1>. QED
  BY <1>1 DEF PacketInv

LEMMA PacketStep == PacketInv /\ [Next]_vars => PacketInv'
<1> SUFFICES ASSUME PacketInv, [Next]_vars PROVE PacketInv'
  OBVIOUS
<1> USE DEF PacketInv
<1>1. ASSUME NEW m \in Messages, Send(m) PROVE PacketInv'
  <2>1. sent[m] \in 0 .. 2 /\ [of |-> m, index |-> sent[m]] \in Packet
    <3>1. sent[m] \in 0 .. 3 /\ sent[m] < 3
      BY <1>1 DEF Send
    <3>2. sent[m] \in 0 .. 2
      BY <3>1
    <3>. QED
      BY <3>2 DEF Packet
  <2>2. net' \in Seq(Packet)
    BY <1>1, <2>1 DEF Send
  <2>3. sent' \in [Messages -> 0 .. 3]
    BY <1>1, <2>1 DEF Send
  <2>. QED
    BY <1>1, <2>2, <2>3 DEF Send
<1>2. CASE Receive
  <2> DEFINE q == Head(net)
             first == pool[Id[q.of]]
  <2>1. /\ q \in Packet /\ net' \in Seq(Packet)
        /\ q.of \in Messages /\ Id[q.of] \in Ids
    <3>1. q \in Packet /\ net' \in Seq(Packet)
      BY <1>2 DEF Receive
    <3>2. q.of \in Messages
      BY <3>1 DEF Packet
    <3>. QED
      BY <3>1, <3>2 DEF Ids
  <2>2. first \in Seq(Packet) /\ (first # <<>> => first[1] \in Packet)
    BY <2>1
  <2>3. /\ pool' = [id \in Ids |-> pool'[id]]
        /\ \A id \in Ids : pool'[id] \in Seq(Packet) /\ Len(pool'[id]) <= 1
    <3>1. pool' = [pool EXCEPT ![Id[q.of]] = Pooled(first, q)]
      BY <1>2 DEF Receive
    <3>2. Pooled(first, q) \in Seq(Packet) /\ Len(Pooled(first, q)) <= 1
      BY <2>1, SMTT(30) DEF Pooled
    <3>. QED
      BY <2>1, <3>1, <3>2
  <2>4. /\ \/ UNCHANGED <<master, online>>
           \/ /\ first # <<>>
              /\ master' = {Join(first[1], q)}
              /\ online' = online \cup {From[first[1].of]}
        /\ decoded' \subseteq decoded \cup {q.of}
        /\ UNCHANGED <<sent, disturbed>>
    BY <1>2, ZenonT(40) DEF Receive, Establish
  <2>5. master' \subseteq Key /\ online' \subseteq Peers
    <3>1. first # <<>> => Join(first[1], q) \in Key
      BY <2>1, <2>2, JoinType
    <3>2. first # <<>> => From[first[1].of] \in Peers
      <4>1. first # <<>> => first[1].of \in Messages
        <5> HIDE DEF first
        <5>. QED
          BY <2>2 DEF Packet
      <4>2. From \in [Messages -> Peers]
        BY MessageAssumption
      <4>. QED
        BY <4>1, <4>2
    <3>. QED
      BY <2>4, <3>1, <3>2
  <2> HIDE DEF q, first
  <2>7. decoded' \subseteq Messages /\ sent' \in [Messages -> 0 .. 3]
        /\ disturbed' \in Nat
    BY <2>1, <2>4
  <2>. QED
    BY <2>1, <2>3, <2>5, <2>7
<1>3. CASE Lose \/ Duplicate \/ Swap
  <2>1. PICK i \in DOMAIN net :
           \/ net' = RemoveAt(net, i)
           \/ net' = InsertAt(net, i, net[i])
           \/ /\ i + 1 \in DOMAIN net
              /\ net' = [net EXCEPT ![i] = net[i + 1], ![i + 1] = net[i]]
    <3>1. CASE Lose \/ Duplicate
      BY <3>1 DEF Lose, Duplicate
    <3>2. CASE Swap
      <4>1. PICK i \in 1 .. Len(net) - 1 :
               net' = [net EXCEPT ![i] = net[i + 1], ![i + 1] = net[i]]
        BY <3>2 DEF Swap
      <4>2. i \in DOMAIN net /\ i + 1 \in DOMAIN net
        OBVIOUS
      <4>. QED
        BY <4>1, <4>2
    <3>. QED
      BY <1>3, <3>1, <3>2
  <2>2. net' \in Seq(Packet)
    <3>1. /\ RemoveAt(net, i) \in Seq(Packet)
          /\ InsertAt(net, i, net[i]) \in Seq(Packet)
          /\ i + 1 \in DOMAIN net =>
                [net EXCEPT ![i] = net[i + 1], ![i + 1] = net[i]] \in Seq(Packet)
      BY NetType, Zenon
    <3>. QED
      BY <2>1, <3>1, Zenon
  <2>. QED
    BY <1>3, <2>2 DEF Lose, Duplicate, Swap, Disturb
<1>4. CASE Tick \/ ExpireStale \/ UNCHANGED vars
  BY <1>4 DEF Tick, ExpireStale, vars
<1>. QED
  BY <1>1, <1>2, <1>3, <1>4 DEF Next

(* The variables of the receiver keep their types; no more than one packet *)
(* waits under an id, and every key is a combination of strings sent.      *)
THEOREM TypeCorrect == Spec => []TypeOK
<1>1. PacketInv /\ SessionInv => TypeOK
  BY DEF PacketInv, SessionInv, Session, TypeOK
<1>. QED
  BY <1>1, PacketInit, PacketStep, SessionInit, SessionStep, PTL DEF Spec

----------------------------------------------------------------------------
(* Whose shares a key is made of.  What waits in the pool has the id that  *)
(* it waits under, so only two handshakes' packets can pair up under the   *)
(* handshakes' id; the blob that they make verifies for one peer only.     *)

MadeBy(p, key) ==
    \E m, n \in Messages :
        /\ IsHandshake(m) /\ IsHandshake(n)
        /\ From[m] = p /\ From[n] = p
        /\ key = Xor(FirstShare(m), Xor(FirstShare(n), KeyOf(n)))

PoolInv ==
    \A id \in Ids : pool[id] # <<>> => Id[pool[id][1].of] = id

OwnKeys ==
    \A p \in Peers : \A s \in sessions[p] : MadeBy(p, s.key)

LEMMA OwnInit == Init => PoolInv /\ OwnKeys
  BY DEF Init, PoolInv, OwnKeys

LEMMA PoolStep == PacketInv /\ PoolInv /\ [Next]_vars => PoolInv'
<1> SUFFICES ASSUME PacketInv, PoolInv, [Next]_vars PROVE PoolInv'
  OBVIOUS
<1>1. CASE Receive
  <2> SUFFICES ASSUME NEW id \in Ids, pool'[id] # <<>>
               PROVE  Id[pool'[id][1].of] = id
    BY DEF PoolInv
  <2> PICK q : q = Head(net)
    OBVIOUS
  <2>1. pool' = [pool EXCEPT ![Id[q.of]] = Pooled(pool[Id[q.of]], q)]
    BY <1>1 DEF Receive
  <2>2. CASE id = Id[q.of]
    <3>1. pool'[id] = Pooled(pool[id], q)
      BY <2>1, <2>2 DEF PacketInv
    <3>2. pool'[id] = <<q>>
      BY <3>1 DEF Pooled
    <3>. QED
      BY <2>2, <3>2
  <2>3. CASE id # Id[q.of]
    <3>1. pool'[id] = pool[id]
      BY <2>1, <2>3 DEF PacketInv
    <3>. QED
      BY <3>1 DEF PoolInv
  <2>. QED
    BY <2>2, <2>3
<1>2. CASE UNCHANGED pool
  BY <1>2 DEF PoolInv
<1>. QED
  BY <1>1, <1>2 DEF Next, Send, Lose, Duplicate, Swap, Disturb, Tick,
                    ExpireStale, vars

(* The key of two packets whose blob verifies.                             *)
LEMMA JoinedKey ==
    ASSUME NEW a \in Packet, NEW b \in Packet, Verifies(a, b),
           IsHandshake(a.of), IsHandshake(b.of)
    PROVE  MadeBy(From[a.of], Join(a, b))
<1>1. /\ a.of \in Messages /\ b.of \in Messages
      /\ From[a.of] = From[b.of] /\ a.index = 0 /\ b.index = 1
  BY DEF Packet, Verifies
<1>2. Share(a) = FirstShare(a.of) /\ Share(b) = Xor(FirstShare(b.of), KeyOf(b.of))
  BY <1>1 DEF Share
<1>3. Join(a, b) = Xor(Share(a), Share(b))
  BY <1>1 DEF Join
<1>4. Join(a, b) = Xor(FirstShare(a.of), Xor(FirstShare(b.of), KeyOf(b.of)))
  BY <1>2, <1>3, Zenon
<1>. QED
  BY <1>1, <1>4, Zenon DEF MadeBy

LEMMA OwnStep ==
    PacketInv /\ SessionInv /\ PoolInv /\ OwnKeys /\ [Next]_vars => OwnKeys'
<1> SUFFICES ASSUME PacketInv, SessionInv, PoolInv, OwnKeys, [Next]_vars,
                    NEW p \in Peers, NEW s \in sessions'[p]
             PROVE  MadeBy(p, s.key)
  BY DEF OwnKeys, MadeBy, IsHandshake
<1>1. CASE sessions' = sessions
  BY <1>1 DEF OwnKeys
<1>2. CASE Receive /\ sessions' # sessions
  <2> PICK b : b = Head(net)
    OBVIOUS
  <2> PICK id : id = Id[b.of]
    OBVIOUS
  <2> PICK a : a = pool[id][1]
    OBVIOUS
  <2>1. pool[id] # <<>> /\ IsHandshake(b.of) /\ Establish(a, b)
    <3>1. /\ net # <<>>
          /\ IF pool[Id[Head(net).of]] # <<>> /\ IsHandshake(Head(net).of)
             THEN Establish(pool[Id[Head(net).of]][1], Head(net))
             ELSE UNCHANGED <<master, sessions, online>>
      BY <1>2, Zenon DEF Receive
    <3>2. IF pool[id] # <<>> /\ IsHandshake(b.of)
          THEN Establish(a, b)
          ELSE UNCHANGED <<master, sessions, online>>
      BY <3>1, ZenonT(40)
    <3>. QED
      BY <1>2, <3>2
  <2>2. /\ master = {} /\ Verifies(a, b)
        /\ sessions' = [sessions EXCEPT
                           ![From[a.of]] = Upsert(@, Join(a, b))]
    BY <1>2, <2>1 DEF Establish
  <2>3. b \in Packet /\ b.of \in Messages /\ id \in Ids
    <3>1. b \in Packet
      BY <1>2 DEF Receive, PacketInv
    <3>2. b.of \in Messages
      BY <3>1 DEF Packet
    <3>. QED
      BY <3>1, <3>2 DEF Ids
  <2>4. a \in Packet
    <3>1. pool[id] \in Seq(Packet) /\ pool[id] # <<>>
      BY <2>1, <2>3, Zenon DEF PacketInv
    <3>2. \A t \in Seq(Packet) : t # <<>> => t[1] \in Packet
      OBVIOUS
    <3>. QED
      BY <3>1, <3>2, Zenon
  <2>5. IsHandshake(a.of)
    <3>1. Id[a.of] = id
      BY <2>1, <2>3 DEF PoolInv
    <3>. QED
      BY <2>1, <3>1, Zenon DEF IsHandshake
  <2> PICK peer : peer = From[a.of]
    OBVIOUS
  <2> PICK key : key = Join(a, b)
    OBVIOUS
  <2>6. MadeBy(peer, key)
    BY <2>1, <2>2, <2>3, <2>4, <2>5, JoinedKey, Zenon
  <2>7. sessions' = [sessions EXCEPT ![peer] = Upsert(@, key)]
    BY <2>2, Zenon
  <2>8. sessions \in [Peers -> SUBSET Session] /\ sessions[p] = {}
    <3>1. sessions \in [Peers -> SUBSET Session] /\ master = {}
      BY <2>2, Zenon DEF SessionInv
    <3>2. Session = {}
      BY <3>1 DEF Session
    <3>. QED
      BY <3>1, <3>2
  <2>9. p = peer /\ s \in Upsert({}, key)
    <3>1. sessions'[p] = IF p = peer THEN Upsert(sessions[p], key) ELSE sessions[p]
      BY <2>7, <2>8, Zenon
    <3>2. p = peer
      BY <2>8, <3>1, Zenon
    <3>. QED
      BY <2>8, <3>1, <3>2, Zenon
  <2>10. s = NewSession(key)
    BY <2>9, Zenon DEF Upsert
  <2>11. s.key = key
    BY <2>10 DEF NewSession
  <2>. QED
    BY <2>6, <2>9, <2>11, Zenon
<1>3. CASE Tick
  <2>1. PICK r \in sessions[p] : s = [r EXCEPT !.age = @ + 1, !.idle = @ + 1]
    BY <1>3 DEF Tick
  <2>2. r \in [key : master, age : Nat, idle : Nat]
    BY <2>1 DEF SessionInv, Session
  <2>3. s.key = r.key
    BY <2>1, <2>2
  <2>. QED
    BY <2>1, <2>3 DEF OwnKeys
<1>4. CASE ExpireStale
  <2>1. s \in sessions[p]
    BY <1>4 DEF ExpireStale
  <2>. QED
    BY <2>1 DEF OwnKeys
<1>. QED
  BY <1>1, <1>2, <1>3, <1>4 DEF Next, Send, Lose, Duplicate, Swap, Disturb, vars

(* The key of a session is made of its own peer's handshake shares, for    *)
(* any peers and messages and however their packets arrive and pair up.    *)
THEOREM KeyIsOwn == Spec => []KeyIsThePeers
<1>1. OwnKeys => KeyIsThePeers
  BY DEF OwnKeys, MadeBy, KeyIsThePeers
<1>. QED
  BY <1>1, PacketInit, PacketStep, SessionInit, SessionStep, OwnInit,
     PoolStep, OwnStep, PTL DEF Spec

----------------------------------------------------------------------------
(* In order delivery.  Of a message that has its id to itself the packets  *)
(* under way are, as long as nothing has disturbed them, the last ones of  *)
(* the three, and the pool has what came before them.                      *)

Underway(s, m) == {s[i].index : i \in {j \in DOMAIN s : s[j].of = m}}

Ascending(s, m) ==
    \A i, j \in DOMAIN s :
        i < j /\ s[i].of = m /\ s[j].of = m => s[i].index < s[j].index

FirstPacket(m) == [of |-> m, index |-> 0]

(* r packets of the message have been received.                            *)
Received(m, r) ==
    /\ r <= sent[m]
    /\ Underway(net, m) = r .. sent[m] - 1
    /\ r = 1 => pool[Id[m]] = <<FirstPacket(m)>>
    /\ r \in {0, 2} => pool[Id[m]] = <<>>
    /\ r >= 2 => m \in decoded

Progress(m) == \E r \in 0 .. 3 : Received(m, r)

Plain(m) == ~IsHandshake(m) /\ Alone(m) /\ LengthFits(m)

FlowInv ==
    disturbed = 0 =>
        \A m \in Messages :
            Plain(m) => Ascending(net, m) /\ Progress(m)

(* The head of the queue is the first of its message's packets under way.  *)
LEMMA TailUnderway ==
    ASSUME NEW s \in Seq(Packet), s # <<>>, NEW m, Ascending(s, m)
    PROVE  /\ Ascending(Tail(s), m)
           /\ Head(s).of # m => Underway(Tail(s), m) = Underway(s, m)
           /\ Head(s).of = m =>
                 /\ Head(s).index \in Underway(s, m)
                 /\ \A k \in Underway(s, m) : Head(s).index <= k
                 /\ Underway(Tail(s), m) = Underway(s, m) \ {Head(s).index}
<1>1. /\ Head(s) = s[1] /\ Len(s) \in Nat \ {0}
      /\ DOMAIN s = 1 .. Len(s) /\ DOMAIN Tail(s) = 1 .. Len(s) - 1
      /\ \A i \in 1 .. Len(s) - 1 : Tail(s)[i] = s[i + 1]
  OBVIOUS
<1>2. \A i \in DOMAIN s : s[i].index \in Int
  <2>1. \A i \in DOMAIN s : s[i] \in Packet
    OBVIOUS
  <2>. QED
    BY <2>1 DEF Packet
<1>3. Ascending(Tail(s), m)
  BY <1>1 DEF Ascending
<1>4. Underway(s, m) =
         Underway(Tail(s), m) \cup (IF s[1].of = m THEN {s[1].index} ELSE {})
  <2>1. ASSUME NEW k \in Underway(s, m)
        PROVE  k \in Underway(Tail(s), m) \cup
                     (IF s[1].of = m THEN {s[1].index} ELSE {})
    <3>1. PICK i \in DOMAIN s : s[i].of = m /\ k = s[i].index
      BY DEF Underway
    <3>2. CASE i = 1
      BY <3>1, <3>2
    <3>3. CASE i # 1
      <4>1. i - 1 \in DOMAIN Tail(s) /\ Tail(s)[i - 1] = s[i]
        BY <1>1, <3>3
      <4>. QED
        BY <3>1, <4>1 DEF Underway
    <3>. QED
      BY <3>2, <3>3
  <2>2. ASSUME NEW k \in Underway(Tail(s), m)
        PROVE  k \in Underway(s, m)
    <3>1. PICK i \in DOMAIN Tail(s) : Tail(s)[i].of = m /\ k = Tail(s)[i].index
      BY DEF Underway
    <3>2. i + 1 \in DOMAIN s /\ Tail(s)[i] = s[i + 1]
      BY <1>1
    <3>. QED
      BY <3>1, <3>2 DEF Underway
  <2>3. s[1].of = m => s[1].index \in Underway(s, m)
    BY <1>1 DEF Underway
  <2>. QED
    BY <2>1, <2>2, <2>3
<1>5. ASSUME s[1].of = m, NEW k \in Underway(Tail(s), m)
      PROVE  s[1].index < k
  <2>1. PICK i \in DOMAIN Tail(s) : Tail(s)[i].of = m /\ k = Tail(s)[i].index
    BY <1>5 DEF Underway
  <2>2. i + 1 \in DOMAIN s /\ Tail(s)[i] = s[i + 1] /\ 1 \in DOMAIN s /\ 1 < i + 1
    BY <1>1
  <2>. QED
    BY <1>5, <2>1, <2>2 DEF Ascending
<1>6. \A k \in Underway(Tail(s), m) : k \in Int
  <2>1. \A i \in DOMAIN Tail(s) : Tail(s)[i].index \in Int
    BY <1>1, <1>2
  <2>. QED
    BY <2>1 DEF Underway
<1>7. ASSUME s[1].of = m
      PROVE  /\ s[1].index \in Underway(s, m)
             /\ \A k \in Underway(s, m) : s[1].index <= k
             /\ Underway(Tail(s), m) = Underway(s, m) \ {s[1].index}
  <2>1. s[1].index \in Int
    BY <1>1, <1>2
  <2>2. Underway(s, m) = Underway(Tail(s), m) \cup {s[1].index}
    BY <1>4, <1>7
  <2>3. \A k \in Underway(Tail(s), m) : k \in Int /\ s[1].index < k
    BY <1>5, <1>6, <1>7
  <2>. QED
    BY <2>1, <2>2, <2>3
<1>. QED
  BY <1>1, <1>3, <1>4, <1>7

(* A packet sent comes after those of its message that are under way.      *)
LEMMA SendUnderway ==
    ASSUME NEW s \in Seq(Packet), NEW packet \in Packet, NEW m,
           Ascending(s, m),
           packet.of = m => \A k \in Underway(s, m) : k < packet.index
    PROVE  /\ Ascending(Append(s, packet), m)
           /\ Underway(Append(s, packet), m) =
                 Underway(s, m) \cup
                     (IF packet.of = m THEN {packet.index} ELSE {})
<1> PICK t : t = Append(s, packet)
  OBVIOUS
<1> PICK n : n = Len(s) + 1
  OBVIOUS
<1>1. /\ n \in Nat /\ DOMAIN s = 1 .. n - 1 /\ DOMAIN t = 1 .. n
      /\ \A i \in 1 .. n - 1 : t[i] = s[i]
      /\ t[n] = packet
  OBVIOUS
<1>2. Ascending(t, m)
  <2> SUFFICES ASSUME NEW i \in 1 .. n, NEW j \in 1 .. n, i < j,
                      t[i].of = m, t[j].of = m
               PROVE  t[i].index < t[j].index
    BY <1>1, Zenon DEF Ascending
  <2>1. i \in 1 .. n - 1 /\ t[i] = s[i]
    BY <1>1
  <2>2. CASE j = n
    <3>1. s[i].index \in Underway(s, m)
      BY <1>1, <2>1, Zenon DEF Underway
    <3>. QED
      BY <1>1, <2>1, <2>2, <3>1, Zenon
  <2>3. CASE j # n
    <3>1. j \in 1 .. n - 1 /\ t[j] = s[j]
      BY <1>1, <2>3
    <3>. QED
      BY <1>1, <2>1, <3>1, Zenon DEF Ascending
  <2>. QED
    BY <2>2, <2>3
<1>3. ASSUME NEW k \in Underway(t, m)
      PROVE  k \in Underway(s, m) \cup
                    (IF packet.of = m THEN {packet.index} ELSE {})
  <2>1. PICK i \in 1 .. n : t[i].of = m /\ k = t[i].index
    BY <1>1 DEF Underway
  <2>2. CASE i = n
    BY <1>1, <2>1, <2>2
  <2>3. CASE i # n
    <3>1. i \in 1 .. n - 1 /\ t[i] = s[i]
      BY <1>1, <2>3
    <3>. QED
      BY <1>1, <2>1, <3>1 DEF Underway
  <2>. QED
    BY <2>2, <2>3
<1>4. ASSUME NEW k \in Underway(s, m) PROVE k \in Underway(t, m)
  <2>1. PICK i \in 1 .. n - 1 : s[i].of = m /\ k = s[i].index
    BY <1>1 DEF Underway
  <2>2. i \in 1 .. n /\ t[i] = s[i]
    BY <1>1
  <2>. QED
    BY <1>1, <2>1, <2>2 DEF Underway
<1>5. ASSUME packet.of = m PROVE packet.index \in Underway(t, m)
  <2>1. n \in 1 .. n
    BY <1>1
  <2>. QED
    BY <1>1, <1>5, <2>1 DEF Underway
<1>6. Underway(t, m) =
         Underway(s, m) \cup (IF packet.of = m THEN {packet.index} ELSE {})
  BY <1>3, <1>4, <1>5
<1>. QED
  BY <1>2, <1>6

(* The first two packets of a message give its key, and decrypt.           *)
LEMMA FirstTwoDecrypt ==
    ASSUME NEW m, LengthFits(m), NEW q, q.of = m, q.index = 1
    PROVE  Decrypts(FirstPacket(m), q)
<1> DEFINE p == FirstPacket(m)
<1>1. p.of = m /\ p.index = 0
  BY DEF FirstPacket
<1>2. Share(p) = FirstShare(m) /\ Share(q) = Xor(FirstShare(m), KeyOf(m))
  BY <1>1 DEF Share
<1>3. Xor(FirstShare(m), Xor(FirstShare(m), KeyOf(m))) = KeyOf(m)
  BY DEF Xor
<1>4. Join(p, q) = KeyOf(m)
  BY <1>1, <1>2, <1>3 DEF Join
<1>. QED
  BY <1>1, <1>4 DEF Decrypts

LEMMA FlowInit == Init => FlowInv
<1> SUFFICES ASSUME Init, NEW m \in Messages
             PROVE  Ascending(net, m) /\ Progress(m)
  BY DEF FlowInv
<1>1. net = <<>> /\ sent[m] = 0 /\ pool[Id[m]] = <<>>
  BY DEF Init, Ids
<1>2. Ascending(net, m) /\ Underway(net, m) = {}
  BY <1>1 DEF Ascending, Underway
<1>3. Received(m, 0)
  BY <1>1, <1>2 DEF Received
<1>. QED
  BY <1>2, <1>3 DEF Progress

(* Sending the next packet puts it behind the others.                      *)
LEMMA SendOwn ==
    ASSUME PacketInv, NEW m \in Messages, Send(m),
           Ascending(net, m), Progress(m)
    PROVE  Ascending(net, m)' /\ Progress(m)'
<1> PICK k : k = sent[m]
  OBVIOUS
<1> PICK packet : packet = [of |-> m, index |-> k]
  OBVIOUS
<1>1. /\ net \in Seq(Packet) /\ net' = Append(net, packet)
      /\ k \in 0 .. 2 /\ sent'[m] = k + 1
      /\ pool' = pool /\ decoded' = decoded
  <2>1. sent[m] \in 0 .. 3 /\ sent[m] < 3
    BY DEF PacketInv, Send
  <2>2. k \in 0 .. 2
    BY <2>1
  <2>3. sent'[m] = k + 1
    BY DEF PacketInv, Send
  <2>. QED
    BY <2>2, <2>3 DEF PacketInv, Send
<1>0. net \in Seq(Packet) /\ net' = Append(net, packet)
  BY <1>1
<1>2. packet \in Packet /\ packet.of = m /\ packet.index = k
  BY <1>1 DEF Packet
<1>3. PICK r \in 0 .. 3 : Received(m, r)
  BY DEF Progress
<1>4. r <= k /\ Underway(net, m) = r .. k - 1
  BY <1>3 DEF Received
<1>5. packet.of = m => \A i \in Underway(net, m) : i < packet.index
  BY <1>1, <1>2, <1>4
<1>6. /\ Ascending(net', m)
      /\ Underway(net', m) = Underway(net, m) \cup {k}
  <2>1. /\ Ascending(Append(net, packet), m)
        /\ Underway(Append(net, packet), m) =
              Underway(net, m) \cup
                  (IF packet.of = m THEN {packet.index} ELSE {})
    BY <1>0, <1>2, <1>5, SendUnderway, Zenon
  <2>2. Underway(Append(net, packet), m) = Underway(net, m) \cup {packet.index}
    BY <1>2, <2>1, Zenon
  <2>. QED
    BY <1>0, <1>2, <2>1, <2>2, Zenon
<1>7. Underway(net', m) = r .. k
  <2>1. \A U, V : U = r .. k - 1 /\ V = U \cup {k} => V = r .. k
    BY <1>1, <1>4
  <2>. QED
    BY <1>4, <1>6, <2>1, Zenon
<1>8. Received(m, r)'
  <2>1. sent'[m] - 1 = k /\ r <= sent'[m]
    BY <1>1, <1>4
  <2>2. /\ r = 1 => pool[Id[m]] = <<FirstPacket(m)>>
        /\ r \in {0, 2} => pool[Id[m]] = <<>>
        /\ r >= 2 => m \in decoded
    BY <1>3, Zenon DEF Received
  <2>3. Underway(net', m) = r .. sent'[m] - 1 /\ r <= sent'[m]
    BY <1>7, <2>1, Zenon
  <2>. QED
    BY <1>1, <2>2, <2>3, Zenon DEF Received
<1>. QED
  BY <1>6, <1>8 DEF Progress

(* Receiving a packet of the message brings the count one further.         *)
LEMMA ReceiveOwn ==
    ASSUME PacketInv, Receive, NEW m \in Messages, Plain(m),
           Ascending(net, m), Progress(m), Head(net).of = m
    PROVE  Progress(m)'
<1> DEFINE q == Head(net)
           id == Id[m]
<1>1. /\ net \in Seq(Packet) /\ net # <<>> /\ net' = Tail(net)
      /\ sent' = sent /\ q \in Packet /\ sent[m] \in 0 .. 3
      /\ id \in DOMAIN pool
  BY DEF Receive, PacketInv, Ids
<1>2. /\ q.index \in Underway(net, m)
      /\ \A k \in Underway(net, m) : q.index <= k
      /\ Underway(net', m) = Underway(net, m) \ {q.index}
  BY <1>1, TailUnderway
<1>3. /\ pool'[id] = Pooled(pool[id], q)
      /\ decoded' = decoded \cup
            IF pool[id] # <<>> /\ Decrypts(pool[id][1], q) THEN {m} ELSE {}
  BY <1>1 DEF Receive, Plain
<1>4. q.of = m /\ q = [of |-> m, index |-> q.index]
  BY <1>1 DEF Packet
<1> HIDE DEF q, id
<1> PICK n : n = sent[m]
  OBVIOUS
<1>5. PICK r \in 0 .. 3 : Received(m, r)
  BY DEF Progress
<1>6. r <= n /\ n \in 0 .. 3 /\ Underway(net, m) = r .. n - 1
  BY <1>1, <1>5 DEF Received
<1>7. q.index = r /\ r <= n - 1 /\ Underway(net', m) = r + 1 .. n - 1
  <2>1. q.index \in r .. n - 1 /\ \A k \in r .. n - 1 : q.index <= k
    BY <1>2, <1>6
  <2>2. r \in r .. n - 1
    BY <1>6, <2>1
  <2>3. q.index = r
    BY <1>6, <2>1, <2>2
  <2>. QED
    BY <1>2, <1>6, <2>2, <2>3
<1>8. r + 1 \in 0 .. 3 /\ r + 1 <= sent'[m] /\ Underway(net', m) = r + 1 .. sent'[m] - 1
  BY <1>1, <1>6, <1>7
<1>9. CASE r = 0
  <2>1. pool[id] = <<>>
    BY <1>5, <1>9 DEF Received, id
  <2>2. pool'[id] = <<q>>
    BY <1>3, <2>1 DEF Pooled
  <2>3. pool'[id] = <<FirstPacket(m)>>
    BY <1>4, <1>7, <1>9, <2>2 DEF FirstPacket
  <2>4. Received(m, 1)'
    BY <1>8, <1>9, <2>3 DEF Received, id
  <2>. QED
    BY <2>4 DEF Progress
<1>10. CASE r = 1
  <2>1. pool[id] = <<FirstPacket(m)>>
    BY <1>5, <1>10 DEF Received, id
  <2>2. pool'[id] = <<>>
    BY <1>3, <2>1 DEF Pooled
  <2>3. Decrypts(FirstPacket(m), q)
    BY <1>4, <1>7, <1>10, FirstTwoDecrypt DEF Plain
  <2>4. m \in decoded'
    BY <1>3, <2>1, <2>3
  <2>5. Received(m, 2)'
    BY <1>8, <1>10, <2>2, <2>4 DEF Received, id
  <2>. QED
    BY <2>5 DEF Progress
<1>11. CASE r = 2
  <2>1. m \in decoded'
    BY <1>3, <1>5, <1>11 DEF Received
  <2>2. Received(m, 3)'
    BY <1>8, <1>11, <2>1 DEF Received
  <2>. QED
    BY <2>2 DEF Progress
<1>12. r # 3
  BY <1>6, <1>7
<1>. QED
  BY <1>9, <1>10, <1>11, <1>12

(* What is sent and received of other messages leaves it where it is.      *)
LEMMA OthersKeepProgress ==
    ASSUME NEW m, Progress(m), sent'[m] = sent[m],
           pool'[Id[m]] = pool[Id[m]], decoded \subseteq decoded',
           Underway(net', m) = Underway(net, m)
    PROVE  Progress(m)'
<1>1. PICK r \in 0 .. 3 : Received(m, r)
  BY DEF Progress
<1>2. Received(m, r)'
  BY <1>1 DEF Received
<1>. QED
  BY <1>2 DEF Progress

LEMMA FlowStep == PacketInv /\ FlowInv /\ [Next]_vars => FlowInv'
<1> SUFFICES ASSUME PacketInv, FlowInv, [Next]_vars,
                    disturbed' = 0, NEW m \in Messages, Plain(m)
             PROVE  Ascending(net, m)' /\ Progress(m)'
  BY DEF FlowInv, Plain, IsHandshake, Alone, LengthFits
<1>1. net \in Seq(Packet) /\ disturbed \in Nat
  BY DEF PacketInv
<1>2. CASE Lose \/ Duplicate \/ Swap
  BY <1>1, <1>2 DEF Lose, Duplicate, Swap, Disturb
<1>3. ASSUME disturbed' = disturbed
      PROVE  Ascending(net, m) /\ Progress(m)
  BY <1>3 DEF FlowInv
<1>4. ASSUME NEW n \in Messages, Send(n)
      PROVE  Ascending(net, m)' /\ Progress(m)'
  <2>1. Ascending(net, m) /\ Progress(m)
    BY <1>3, <1>4 DEF Send
  <2>2. CASE n = m
    BY <1>4, <2>1, <2>2, SendOwn
  <2>3. CASE n # m
    <3>1. PICK packet : packet = [of |-> n, index |-> sent[n]]
      OBVIOUS
    <3>2. packet \in Packet /\ packet.of # m
      <4>1. sent[n] \in 0 .. 3 /\ sent[n] < 3
        BY <1>4 DEF PacketInv, Send
      <4>. QED
        BY <2>3, <3>1, <4>1 DEF Packet
    <3>3. /\ net' = Append(net, packet) /\ sent'[m] = sent[m]
          /\ pool' = pool /\ decoded' = decoded
      BY <1>4, <2>3, <3>1 DEF Send, PacketInv
    <3>4. Ascending(net', m) /\ Underway(net', m) = Underway(net, m)
      <4>1. /\ Ascending(Append(net, packet), m)
            /\ Underway(Append(net, packet), m) =
                  Underway(net, m) \cup
                      (IF packet.of = m THEN {packet.index} ELSE {})
        BY <1>1, <2>1, <3>2, SendUnderway, Zenon
      <4>2. Underway(Append(net, packet), m) = Underway(net, m) \cup {}
        BY <3>2, <4>1, Zenon
      <4>3. Underway(net, m) \cup {} = Underway(net, m)
        OBVIOUS
      <4>. QED
        BY <3>3, <4>1, <4>2, <4>3, Zenon
    <3>. QED
      BY <2>1, <3>3, <3>4, OthersKeepProgress
  <2>. QED
    BY <2>2, <2>3
<1>5. CASE Receive
  <2>1. /\ Ascending(net, m) /\ Progress(m)
        /\ net # <<>> /\ net' = Tail(net)
    BY <1>3, <1>5 DEF Receive
  <2>2. Ascending(net', m)
    BY <1>1, <2>1, TailUnderway
  <2>3. CASE Head(net).of = m
    BY <1>5, <2>1, <2>2, <2>3, ReceiveOwn
  <2>4. CASE Head(net).of # m
    <3>1. Head(net).of \in Messages
      <4>1. Head(net) \in Packet
        BY <1>1, <2>1
      <4>. QED
        BY <4>1 DEF Packet
    <3>2. Id[Head(net).of] # Id[m]
      BY <2>4, <3>1 DEF Plain, Alone
    <3>3. pool'[Id[m]] = pool[Id[m]] /\ sent' = sent /\ decoded \subseteq decoded'
      <4>1. Id[m] \in DOMAIN pool
        BY DEF PacketInv, Ids
      <4>. QED
        BY <1>5, <3>2, <4>1 DEF Receive
    <3>4. Underway(net', m) = Underway(net, m)
      BY <1>1, <2>1, <2>4, TailUnderway
    <3>. QED
      BY <2>1, <2>2, <3>3, <3>4, OthersKeepProgress
  <2>. QED
    BY <2>3, <2>4
<1>6. CASE Tick \/ ExpireStale \/ UNCHANGED vars
  <2>1. UNCHANGED <<net, sent, pool, decoded, disturbed>>
    BY <1>6 DEF Tick, ExpireStale, vars
  <2>2. Ascending(net, m) /\ Progress(m)
    BY <1>3, <2>1
  <2>. QED
    BY <2>1, <2>2, OthersKeepProgress
<1>. QED
  BY <1>2, <1>4, <1>5, <1>6 DEF Next

(* Without loss, reordering and duplicates a data message that has its id  *)
(* to itself is decoded once its packets have come, also when packets of   *)
(* other messages come between them.                                       *)
THEOREM InOrder == Spec => []InOrderDecoded
<1>1. FlowInv /\ PacketInv => InOrderDecoded
  <2> SUFFICES ASSUME FlowInv, PacketInv, disturbed = 0, NEW m \in Messages,
                      Arrived(m), Plain(m)
               PROVE  m \in decoded
    BY DEF InOrderDecoded, Plain
  <2>1. sent[m] = 3 /\ Underway(net, m) = {}
    BY DEF Arrived, Underway
  <2>2. PICK r \in 0 .. 3 : Received(m, r)
    BY DEF FlowInv, Progress
  <2>3. r .. 2 = {}
    BY <2>1, <2>2 DEF Received
  <2>4. r = 3
    BY <2>3
  <2>. QED
    BY <2>2, <2>4 DEF Received
<1>. QED
  BY <1>1, PacketInit, PacketStep, FlowInit, FlowStep, PTL DEF Spec
=============================================================================
