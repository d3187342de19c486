---------------------------- MODULE VaultProofs ----------------------------
(***************************************************************************)
(* Proofs about Vault, for every number of groups, shards, tasks, errors   *)
(* and crashes, every block number and every window size.                  *)
(***************************************************************************)
EXTENDS Vault, TLAPS, FiniteSetTheorems

(* The counter file of a group holds its upload's counter or nothing.      *)
OneCounter ==
    /\ seq \in [Groups -> Nat]
    /\ \A g \in Groups : seq[g] \in {0, Counter[g]}

ReplayInv == OneCounter /\ NoSelfReplay

(* The check accepts a counter in an empty window, and a second time.      *)
LEMMA WindowAccepts ==
    ASSUME NEW c \in Nat \ {0}, NEW v \in {0, c}
    PROVE  Window(c, v) # "rejected"
<1>1. WSize \in Nat \ {0}
  BY SizeAssumption
<1>2. ~(c <= SatSub(v, WSize))
  BY <1>1 DEF SatSub
<1>. QED
  BY <1>2 DEF Window

LEMMA ReplayInit == Init => ReplayInv
  BY DEF Init, ReplayInv, OneCounter, NoSelfReplay

LEMMA ReplayStep == ReplayInv /\ [Next]_vars => ReplayInv'
<1> SUFFICES ASSUME ReplayInv, [Next]_vars PROVE ReplayInv'
  OBVIOUS
<1> USE DEF ReplayInv, OneCounter, NoSelfReplay
<1>1. ASSUME NEW g \in Groups, CheckReplay(g) PROVE ReplayInv'
  <2>1. Counter[g] \in Nat \ {0}
    BY CounterAssumption
  <2>2. Window(Counter[g], seq[g]) # "rejected"
    BY <2>1, WindowAccepts
  <2>. QED  BY <1>1, <2>2 DEF CheckReplay, diskVars
<1>2. ASSUME NEW g \in Groups, WriteSeq(g) PROVE ReplayInv'
  <2>1. Counter[g] \in Nat
    BY CounterAssumption
  <2>. QED  BY <1>2, <2>1 DEF WriteSeq
<1>3. ASSUME NEW t \in Tasks, RemoveFiles(t) PROVE ReplayInv'
  BY <1>3 DEF RemoveFiles, storeVars
<1>4. ASSUME NEW g \in Groups,
             \/ MakeDir(g) \/ WriteBitmask(g) \/ TruncateShard(g)
             \/ WriteShard(g) \/ TruncateMeta(g) \/ WriteMeta(g)
             \/ InsertMeta(g) \/ StoreFails(g) \/ Publish(g)
      PROVE  UNCHANGED <<seq, rejected>>
  BY <1>4 DEF MakeDir, WriteBitmask, TruncateShard, WriteShard, TruncateMeta,
              WriteMeta, InsertMeta, StoreFails, Publish, diskVars, storeVars
<1>5. ASSUME NEW t \in Tasks,
             \/ NextGroup(t) \/ WipeNext(t) \/ WipeZero(t) \/ WipeUnlink(t)
             \/ LookDir(t) \/ RemoveDir(t) \/ LookMeta(t) \/ RemoveMeta(t)
             \/ Uncache(t) \/ DeleteFails(t) \/ StartGc(t)
             \/ \E g \in Groups : StartWipe(t, g)
      PROVE  UNCHANGED <<seq, rejected>>
  BY <1>5 DEF NextGroup, WipeNext, WipeZero, WipeUnlink, LookDir, RemoveDir,
              LookMeta, RemoveMeta, Uncache, DeleteFails, StartGc, StartWipe,
              diskVars, storeVars
<1>6. ASSUME Tick \/ Restart \/ UNCHANGED vars PROVE UNCHANGED <<seq, rejected>>
  BY <1>6 DEF Tick, Restart, vars, diskVars, storeVars
<1>7. ASSUME UNCHANGED <<seq, rejected>> PROVE ReplayInv'
  BY <1>7
<1>. QED
  BY <1>1, <1>2, <1>3, <1>4, <1>5, <1>6, <1>7 DEF Next, Store, Delete

(* No shard of an upload is ever turned away as a replay.                  *)
THEOREM NeverRejected == Spec => []NoSelfReplay
<1>1. ReplayInv => NoSelfReplay
  BY DEF ReplayInv
<1>. QED
  BY <1>1, ReplayInit, ReplayStep, PTL DEF Spec

----------------------------------------------------------------------------
(* Type correctness.                                                       *)

LEMMA AnyGroupType == AnyGroup \in Groups
  BY SizeAssumption DEF AnyGroup

LEMMA ShardZero == 0 \in Shard
  BY SizeAssumption DEF Shard

LEMMA TaskTypes ==
    ASSUME TypeOK, NEW t \in Tasks,
           Fail(t) \/ \E where \in Deleting : Become(t, where)
    PROVE  /\ tpc' \in [Tasks -> Deleting \cup {"idle"}]
           /\ target' \in [Tasks -> Groups]
           /\ files' \in [Tasks -> SUBSET Shard]
           /\ file' \in [Tasks -> Shard]
           /\ todo' \in [Tasks -> SUBSET Groups]
<1>1. CASE Fail(t)
  BY <1>1, AnyGroupType, ShardZero DEF TypeOK, Fail, Finish
<1>2. CASE \E where \in Deleting : Become(t, where)
  BY <1>2 DEF TypeOK, Become
<1>. QED
  BY <1>1, <1>2

LEMMA PutTypes ==
    ASSUME TypeOK, NEW g \in Groups, NEW i \in Shard, NEW content \in Content
    PROVE  [shards EXCEPT ![g][i] = content] \in [Groups -> [Shard -> Content]]
  BY DEF TypeOK

LEMMA NextShardTypes ==
    ASSUME TypeOK, NEW g \in Groups, NextShard(g)
    PROVE  /\ spc' \in [Groups -> Storing \cup {"mkdir", "done", "dead"}]
           /\ idx' \in [Groups -> Shard]
<1>1. N \in Nat \ {0}
  BY SizeAssumption
<1>2. spc \in [Groups -> Storing \cup {"mkdir", "done", "dead"}]
      /\ idx \in [Groups -> 0 .. N - 1]
  BY DEF TypeOK, Shard
<1>3. CASE idx[g] + 1 < N
  BY <1>1, <1>2, <1>3 DEF NextShard, Shard
<1>4. CASE ~(idx[g] + 1 < N)
  BY <1>1, <1>2, <1>4 DEF NextShard, GoTo, Shard
<1>. QED
  BY <1>3, <1>4

LEMMA GoToTypes ==
    ASSUME TypeOK, NEW g \in Groups,
           NEW where \in Storing \cup {"mkdir", "done", "dead"}, GoTo(g, where)
    PROVE  /\ spc' \in [Groups -> Storing \cup {"mkdir", "done", "dead"}]
           /\ idx' \in [Groups -> Shard]
  BY DEF TypeOK, GoTo

LEMMA AgedType == \A a \in Age : Aged(a) \in Age
  BY SizeAssumption DEF Aged, Age

LEMMA ZeroAge == 0 \in Age
  BY SizeAssumption DEF Age

LEMMA OlderTypes ==
    ASSUME NEW age \in SUBSET Age PROVE Older(age) \in SUBSET Age
  BY AgedType DEF Older

(* An upload that puts back its stamp or leaves it keeps the type.         *)
LEMMA StampTypes ==
    ASSUME TypeOK, NEW g \in Groups,
           UNCHANGED stamp \/ stamp' = [stamp EXCEPT ![g] = 0]
    PROVE  stamp' \in [Groups -> Age]
  BY ZeroAge DEF TypeOK

LEMMA TypeInit == Init => TypeOK
  BY AnyGroupType, ShardZero, ZeroAge
     DEF Init, TypeOK, NoFiles, Content, Storing, Deleting

LEMMA TypeStep == TypeOK /\ [Next]_vars => TypeOK'
<1> SUFFICES ASSUME TypeOK, [Next]_vars PROVE TypeOK'
  OBVIOUS
<1> USE DEF diskVars, storeVars, taskVars, historyVars
<1>1. ASSUME NEW g \in Groups, Store(g) PROVE TypeOK'
  <2>1. CASE MakeDir(g)
    BY <2>1, GoToTypes DEF MakeDir, TypeOK, Storing
  <2>2. CASE CheckReplay(g)
    <3>1. Window(Counter[g], seq[g]) \in Storing \cup {"rejected"}
      BY DEF Window, Storing
    <3>2. /\ spc' \in [Groups -> Storing \cup {"mkdir", "done", "dead"}]
          /\ idx' \in [Groups -> Shard]
      BY <2>2, <3>1, NextShardTypes, GoToTypes DEF CheckReplay
    <3>3. rejected' \subseteq Groups
      BY <2>2 DEF CheckReplay, TypeOK
    <3>. QED
      BY <2>2, <3>2, <3>3 DEF CheckReplay, TypeOK
  <2>3. CASE WriteBitmask(g)
    BY <2>3, GoToTypes, NextShardTypes DEF WriteBitmask, TypeOK, Storing
  <2>4. CASE WriteSeq(g)
    BY <2>4, GoToTypes, NextShardTypes, CounterAssumption DEF WriteSeq, TypeOK, Storing
  <2>5. CASE TruncateShard(g)
    <3>1. shards' \in [Groups -> [Shard -> Content]]
      <4>1. \/ shards' = [shards EXCEPT ![g][idx[g]] = "partial"]
            \/ shards' = shards
        BY <2>5, Zenon DEF TruncateShard
      <4>2. idx[g] \in Shard /\ "partial" \in Content
        BY DEF TypeOK, Content
      <4>3. [shards EXCEPT ![g][idx[g]] = "partial"] \in [Groups -> [Shard -> Content]]
        BY <4>2, PutTypes, Zenon
      <4>. QED
        BY <4>1, <4>3, Zenon DEF TypeOK
    <3>. QED
      BY <2>5, <3>1, GoToTypes, NextShardTypes DEF TruncateShard, TypeOK, Storing
  <2>6. CASE WriteShard(g)
    <3>1. shards' \in [Groups -> [Shard -> Content]]
      <4>1. PICK content \in Written(shards[g][idx[g]]) :
               shards' = [shards EXCEPT ![g][idx[g]] = content]
        BY <2>6 DEF WriteShard
      <4>2. content \in Content
        BY DEF Written, Content
      <4>. QED
        BY <4>1, <4>2 DEF TypeOK
    <3>. QED
      BY <2>6, <3>1, GoToTypes, StampTypes DEF WriteShard, TypeOK, Storing
  <2>7. CASE TruncateMeta(g)
    <3>1. {} \in SUBSET Age
      OBVIOUS
    <3>. QED
      BY <2>7, <3>1, GoToTypes DEF TruncateMeta, TypeOK, Storing
  <2>8. CASE WriteMeta(g)
    <3>1. {} \in SUBSET Age /\ {stamp[g]} \in SUBSET Age
      BY DEF TypeOK
    <3>2. meta' \in [Groups -> SUBSET Age]
      BY <2>8, <3>1 DEF WriteMeta, TypeOK
    <3>. QED
      BY <2>8, <3>2, GoToTypes DEF WriteMeta, TypeOK, Storing
  <2>9. CASE InsertMeta(g)
    <3>1. {stamp[g]} \in SUBSET Age
      BY DEF TypeOK
    <3>. QED
      BY <2>9, <3>1, NextShardTypes, StampTypes DEF InsertMeta, TypeOK
  <2>. QED
    BY <1>1, <2>1, <2>2, <2>3, <2>4, <2>5, <2>6, <2>7, <2>8, <2>9 DEF Store
<1>2. ASSUME NEW g \in Groups, StoreFails(g) PROVE TypeOK'
  <2>1. /\ spc' \in [Groups -> Storing \cup {"mkdir", "done", "dead"}]
        /\ idx' \in [Groups -> Shard]
    BY <1>2, NextShardTypes DEF StoreFails
  <2>2. stamp' \in [Groups -> Age]
    BY <1>2, StampTypes DEF StoreFails
  <2>. QED
    BY <1>2, <2>1, <2>2 DEF StoreFails, TypeOK
<1>3. ASSUME NEW g \in Groups, Publish(g) PROVE TypeOK'
  BY <1>3 DEF Publish, TypeOK
<1>4. ASSUME NEW t \in Tasks, Delete(t) PROVE TypeOK'
  <2>0. /\ NoFiles \in [Shard -> Content] /\ {} \in SUBSET Age
        /\ "zero" \in Content /\ "none" \in Content
        /\ target[t] \in Groups /\ file[t] \in Shard
    BY DEF NoFiles, Content, TypeOK
  <2>1. CASE NextGroup(t)
    BY <2>1 DEF NextGroup, TypeOK, Deleting
  <2>2. CASE WipeNext(t)
    <3>1. CASE Fail(t)
      BY <2>2, <3>1, TaskTypes DEF WipeNext, TypeOK
    <3>2. CASE ~Fail(t)
      <4>1. PICK i \in files[t] :
                 /\ file' = [file EXCEPT ![t] = i]
                 /\ tpc' = [tpc EXCEPT ![t] = "zero"]
                 /\ UNCHANGED <<target, files, todo>>
        BY <2>2, <3>2, Zenon DEF WipeNext
      <4>. QED
        BY <2>2, <4>1 DEF WipeNext, TypeOK, Deleting
    <3>. QED
      BY <3>1, <3>2
  <2>3. CASE WipeZero(t)
    <3>1. shards' \in [Groups -> [Shard -> Content]]
      <4>1. \/ shards' = [shards EXCEPT ![target[t]][file[t]] = "zero"]
            \/ shards' = shards
        BY <2>3, Zenon DEF WipeZero
      <4>2. [shards EXCEPT ![target[t]][file[t]] = "zero"]
               \in [Groups -> [Shard -> Content]]
        BY <2>0, PutTypes, Zenon
      <4>. QED
        BY <4>1, <4>2, Zenon DEF TypeOK
    <3>2. Fail(t) \/ Become(t, "unlink")
      BY <2>3, Zenon DEF WipeZero
    <3>. QED
      BY <2>3, <3>1, <3>2, TaskTypes DEF WipeZero, TypeOK, Deleting
  <2>4. CASE WipeUnlink(t)
    <3>1. shards' \in [Groups -> [Shard -> Content]]
      <4>1. \/ shards' = [shards EXCEPT ![target[t]][file[t]] = "none"]
            \/ shards' = shards
        BY <2>4, Zenon DEF WipeUnlink
      <4>2. [shards EXCEPT ![target[t]][file[t]] = "none"]
               \in [Groups -> [Shard -> Content]]
        BY <2>0, PutTypes, Zenon
      <4>. QED
        BY <4>1, <4>2, Zenon DEF TypeOK
    <3>2. CASE Fail(t)
      BY <2>4, <3>1, <3>2, TaskTypes DEF WipeUnlink, TypeOK
    <3>3. CASE ~Fail(t)
      <4>1. /\ files' = [files EXCEPT ![t] = @ \ {file[t]}]
            /\ file' = [file EXCEPT ![t] = 0]
            /\ tpc' = [tpc EXCEPT ![t] =
                          IF files[t] = {file[t]} THEN "lookdir" ELSE "wipe"]
            /\ UNCHANGED <<target, todo>>
        BY <2>4, <3>3, Zenon DEF WipeUnlink
      <4>. QED
        BY <2>4, <3>1, <4>1, ShardZero DEF WipeUnlink, TypeOK, Deleting
    <3>. QED
      BY <3>2, <3>3
  <2>5. CASE LookDir(t)
    BY <2>5, TaskTypes DEF LookDir, TypeOK, Deleting
  <2>6. CASE RemoveFiles(t)
    <3>1. /\ shards' \in [Groups -> [Shard -> Content]]
          /\ seq' \in [Groups -> Nat]
      <4>1. \/ /\ shards' = [shards EXCEPT ![target[t]] = NoFiles]
               /\ seq' = [seq EXCEPT ![target[t]] = 0]
            \/ shards' = shards /\ seq' = seq
        BY <2>6, Zenon DEF RemoveFiles
      <4>2. /\ [shards EXCEPT ![target[t]] = NoFiles]
                 \in [Groups -> [Shard -> Content]]
            /\ [seq EXCEPT ![target[t]] = 0] \in [Groups -> Nat]
        BY <2>0 DEF TypeOK
      <4>. QED
        BY <4>1, <4>2, Zenon DEF TypeOK
    <3>2. Fail(t) \/ Become(t, "rmdir")
      BY <2>6, Zenon DEF RemoveFiles
    <3>. QED
      BY <2>6, <3>1, <3>2, TaskTypes DEF RemoveFiles, TypeOK, Deleting
  <2>7. CASE RemoveDir(t)
    <3>1. Fail(t) \/ Become(t, "lookmeta")
      BY <2>7, Zenon DEF RemoveDir
    <3>. QED
      BY <2>7, <3>1, TaskTypes DEF RemoveDir, TypeOK, Deleting
  <2>8. CASE LookMeta(t)
    BY <2>8, TaskTypes DEF LookMeta, TypeOK, Deleting
  <2>9. CASE RemoveMeta(t)
    <3>1. Fail(t) \/ Become(t, "uncache")
      BY <2>9, Zenon DEF RemoveMeta
    <3>2. meta' \in [Groups -> SUBSET Age] /\ torn' \subseteq Groups
      BY <2>0, <2>9 DEF RemoveMeta, TypeOK
    <3>. QED
      BY <2>9, <3>1, <3>2, TaskTypes DEF RemoveMeta, TypeOK, Deleting
  <2>10. CASE Uncache(t)
    <3>1. Fail(t) \/ Become(t, "next")
      BY <2>10, Zenon DEF Uncache, Fail
    <3>. QED
      BY <2>0, <2>10, <3>1, TaskTypes DEF Uncache, TypeOK, Deleting
  <2>. QED
    BY <1>4, <2>1, <2>2, <2>3, <2>4, <2>5, <2>6, <2>7, <2>8, <2>9, <2>10 DEF Delete
<1>5. ASSUME NEW t \in Tasks, DeleteFails(t) PROVE TypeOK'
  BY <1>5, TaskTypes DEF DeleteFails, TypeOK
<1>6. ASSUME NEW t \in Tasks, StartGc(t) PROVE TypeOK'
  BY <1>6 DEF StartGc, TypeOK, Deleting
<1>7. ASSUME NEW t \in Tasks, NEW g \in Groups, StartWipe(t, g) PROVE TypeOK'
  BY <1>7 DEF StartWipe, TypeOK, Deleting
<1>8. CASE Tick
  <2>1. meta' \in [Groups -> SUBSET Age] /\ cache' \in [Groups -> SUBSET Age]
    BY <1>8, OlderTypes DEF Tick, TypeOK
  <2>2. stamp' \in [Groups -> Age]
    BY <1>8, AgedType DEF Tick, TypeOK
  <2>. QED
    BY <1>8, <2>1, <2>2 DEF Tick, TypeOK
<1>9. CASE Restart
  BY <1>9, AnyGroupType, ShardZero, ZeroAge DEF Restart, AbandonAll, TypeOK
<1>10. CASE UNCHANGED vars
  BY <1>10 DEF vars, TypeOK
<1>. QED
  BY <1>1, <1>2, <1>3, <1>4, <1>5, <1>6, <1>7, <1>8, <1>9, <1>10 DEF Next

(* The variables of the vault keep their types.                            *)
THEOREM TypeCorrect == Spec => []TypeOK
  BY TypeInit, TypeStep, PTL DEF Spec

----------------------------------------------------------------------------
(* The inductive invariant of the vault.                                   *)

(* The upload of g will not touch it any more.                             *)
Settled(g) == spc[g] \in {"done", "dead"}

(* What cache and metadata file say of the age of g.                       *)
Ages(g) == cache[g] \cup meta[g]

(* What an upload may rely on while it goes on, unless a collection is     *)
(* under way for its group: then deletions aim at settled groups only.     *)
(* Cache and metadata file say one age, but for the step between the two.  *)
UploadInv(g) ==
    /\ g \in published => spc[g] = "done"
    /\ spc[g] = "mkdir" /\ idx[g] = 0 => Ages(g) = {}
    /\ g \notin caught =>
          /\ spc[g] \in Storing => g \in dir
          /\ spc[g] = "write" => shards[g][idx[g]] = "partial"
          /\ spc[g] = "meta" => g \in torn
          /\ spc[g] = "insert" => meta[g] = {stamp[g]}
          /\ spc[g] # "insert" => \A a, b \in Ages(g) : a = b

(* The task is deleting g or is going to.                                  *)
Aimed(t, g) ==
    g \in todo[t] \/ (tpc[t] \notin {"idle", "next"} /\ target[t] = g)

(* The upload of g is over, and a client has asked to wipe g or its time   *)
(* is up.                                                                  *)
Spent(g) == Settled(g) /\ (g \in doomed \/ \A age \in Ages(g) : age > TTL)

(* A task aims at groups that are spent, those caught under their upload   *)
(* apart, and past each of its steps the step has had its effect.          *)
DeleteInv(t) ==
    /\ \A g \in Groups \ caught : Aimed(t, g) => Spent(g)
    /\ target[t] \notin caught =>
          /\ tpc[t] \in {"lookmeta", "rmmeta", "uncache"} => target[t] \notin dir
          /\ tpc[t] = "uncache" => meta[target[t]] = {} /\ target[t] \notin torn

(* The strengthening of CacheIsRecoverable and PublishedNotOrphaned: cache *)
(* and file differ only while some task is about to drop the cache entry.  *)
Kept(g) ==
    faults = 0 /\ g \notin caught /\ spc[g] = "done" =>
        /\ cache[g] = meta[g] \/ \E t \in Tasks : tpc[t] = "uncache" /\ target[t] = g
        /\ g \in dir => meta[g] # {} /\ cache[g] # {}

VaultInv ==
    /\ \A g \in Groups : UploadInv(g)
    /\ \A t \in Tasks : DeleteInv(t)
    /\ \A g \in Groups : Kept(g)

(* The strengthening of PublishedIntact: of the shards that the upload of a *)
(* group has come past, those that are not there have each cost an error.  *)
Due(g) ==
    CASE spc[g] \in {"metatruncate", "meta", "insert"} -> 0 .. idx[g]
      [] spc[g] = "done"                               -> Shard
      [] OTHER                                         -> 0 .. idx[g] - 1

Lost(g) == {i \in Due(g) : shards[g][i] # "data"}

Owed(g) ==
    /\ g \notin doomed \cup caught
    /\ spc[g] # "dead"
    /\ spc[g] = "done" => \E age \in Ages(g) : age <= TTL

Covered(g) == Owed(g) => Cardinality(Lost(g)) <= faults

LossInv == \A g \in Groups : Covered(g)

(* A step of an upload goes on in the call or to the next shard.           *)
LEMMA StoreGoes ==
    ASSUME NEW g \in Groups, Store(g) \/ StoreFails(g)
    PROVE  NextShard(g) \/ \E where \in Storing : GoTo(g, where)
<1>1. CASE CheckReplay(g)
  <2>1. Window(Counter[g], seq[g]) \in Storing \cup {"rejected"}
    BY DEF Window, Storing
  <2>. QED
    BY <1>1, <2>1 DEF CheckReplay
<1>2. CASE ~CheckReplay(g)
  <2>1. \/ NextShard(g) \/ GoTo(g, "check") \/ GoTo(g, "seq")
        \/ GoTo(g, "truncate") \/ GoTo(g, "write") \/ GoTo(g, "metatruncate")
        \/ GoTo(g, "meta") \/ GoTo(g, "insert")
    BY <1>2, Zenon DEF Store, MakeDir, WriteBitmask, WriteSeq, TruncateShard,
       WriteShard, TruncateMeta, WriteMeta, InsertMeta, StoreFails
  <2>. QED
    BY <2>1 DEF Storing
<1>. QED
  BY <1>1, <1>2

(* What a step of an upload leaves alone.                                  *)
LEMMA StoreFrame ==
    ASSUME TypeOK, NEW g \in Groups, Store(g) \/ StoreFails(g)
    PROVE  /\ UNCHANGED <<tpc, target, files, file, todo, published, doomed, caught>>
           /\ \A h \in Groups \ {g} :
                 /\ UNCHANGED <<spc[h], idx[h], meta[h], cache[h], shards[h],
                                stamp[h]>>
                 /\ h \in dir' <=> h \in dir
                 /\ h \in torn' <=> h \in torn
<1>1. UNCHANGED <<tpc, target, files, file, todo, published, doomed, caught>>
  BY DEF Store, MakeDir, CheckReplay, WriteBitmask, WriteSeq, TruncateShard,
         WriteShard, TruncateMeta, WriteMeta, InsertMeta, StoreFails, taskVars,
         historyVars
<1>2. ASSUME NEW h \in Groups \ {g} PROVE UNCHANGED <<spc[h], idx[h]>>
  BY StoreGoes DEF TypeOK, NextShard, GoTo
<1>3. ASSUME NEW h \in Groups \ {g}
      PROVE  /\ h \in dir' <=> h \in dir
             /\ h \in torn' <=> h \in torn
  BY DEF Store, MakeDir, CheckReplay, WriteBitmask, WriteSeq, TruncateShard,
         WriteShard, TruncateMeta, WriteMeta, InsertMeta, StoreFails, diskVars
<1>4. ASSUME NEW h \in Groups \ {g}
      PROVE  UNCHANGED <<meta[h], cache[h], shards[h]>>
  BY DEF Store, MakeDir, CheckReplay, WriteBitmask, WriteSeq, TruncateShard,
         WriteShard, TruncateMeta, WriteMeta, InsertMeta, StoreFails, diskVars,
         TypeOK
<1>5. ASSUME NEW h \in Groups \ {g} PROVE UNCHANGED stamp[h]
  <2>1. UNCHANGED stamp \/ stamp' = [stamp EXCEPT ![g] = 0]
    BY Zenon DEF Store, MakeDir, CheckReplay, WriteBitmask, WriteSeq, TruncateShard,
       WriteShard, TruncateMeta, WriteMeta, InsertMeta, StoreFails
  <2>. QED
    BY <2>1 DEF TypeOK
<1>. QED
  BY <1>1, <1>2, <1>3, <1>4, <1>5

(* What a step of a deletion leaves alone.                                 *)
LEMMA DeleteFrame ==
    ASSUME TypeOK, NEW t \in Tasks, Delete(t) \/ DeleteFails(t)
    PROVE  /\ UNCHANGED <<spc, idx, stamp, published, doomed, caught>>
           /\ \A u \in Tasks \ {t} : UNCHANGED <<tpc[u], target[u], todo[u]>>
           /\ \A h \in Groups :
                 /\ meta'[h] = meta[h] \/ meta'[h] = {}
                 /\ cache'[h] = cache[h] \/ cache'[h] = {}
                 /\ h \in dir' => h \in dir
                 /\ h \in torn' => h \in torn
           /\ \A h \in Groups : h # target[t] \/ tpc[t] = "next" =>
                 /\ UNCHANGED <<meta[h], cache[h], shards[h]>>
                 /\ h \in dir' <=> h \in dir
                 /\ h \in torn' <=> h \in torn
<1>1. UNCHANGED <<spc, idx, stamp, published, doomed, caught>>
  BY DEF Delete, NextGroup, WipeNext, WipeZero, WipeUnlink, LookDir, RemoveFiles,
         RemoveDir, LookMeta, RemoveMeta, Uncache, DeleteFails, storeVars,
         historyVars
<1>2. ASSUME NEW u \in Tasks \ {t}
      PROVE  UNCHANGED <<tpc[u], target[u], todo[u]>>
  <2>1. \/ Fail(t)
        \/ \E where \in Deleting : Become(t, where)
        \/ NextGroup(t)
        \/ /\ UNCHANGED <<target, todo>>
           /\ \E where \in Deleting : tpc' = [tpc EXCEPT ![t] = where]
    <3>1. \/ Fail(t) \/ NextGroup(t)
          \/ Become(t, "unlink") \/ Become(t, "rmfiles") \/ Become(t, "rmdir")
          \/ Become(t, "lookmeta") \/ Become(t, "rmmeta")
          \/ Become(t, "uncache") \/ Become(t, "next")
          \/ /\ UNCHANGED <<target, todo>>
             /\ \/ tpc' = [tpc EXCEPT ![t] = "zero"]
                \/ tpc' = [tpc EXCEPT ![t] =
                              IF files[t] = {file[t]} THEN "lookdir" ELSE "wipe"]
      BY Zenon DEF Delete, WipeNext, WipeZero, WipeUnlink, LookDir, RemoveFiles,
         RemoveDir, LookMeta, RemoveMeta, Uncache, DeleteFails, Fail
    <3>. QED
      BY <3>1 DEF Deleting
  <2>. QED
    BY <2>1 DEF TypeOK, Fail, Finish, Become, NextGroup
<1>3. /\ \/ dir' = dir
         \/ tpc[t] = "rmdir" /\ dir' = dir \ {target[t]}
      /\ \/ UNCHANGED <<meta, torn>>
         \/ /\ tpc[t] = "rmmeta"
            /\ meta' = [meta EXCEPT ![target[t]] = {}]
            /\ torn' = torn \ {target[t]}
      /\ \/ UNCHANGED cache
         \/ tpc[t] = "uncache" /\ cache' = [cache EXCEPT ![target[t]] = {}]
  <2>1. dir' = dir \/ (tpc[t] = "rmdir" /\ dir' = dir \ {target[t]})
    BY Zenon DEF Delete, NextGroup, WipeNext, WipeZero, WipeUnlink, LookDir,
       RemoveFiles, RemoveDir, LookMeta, RemoveMeta, Uncache, DeleteFails, diskVars
  <2>2. \/ UNCHANGED <<meta, torn>>
        \/ /\ tpc[t] = "rmmeta"
           /\ meta' = [meta EXCEPT ![target[t]] = {}]
           /\ torn' = torn \ {target[t]}
    BY DEF Delete, NextGroup, WipeNext, WipeZero, WipeUnlink, LookDir,
       RemoveFiles, RemoveDir, LookMeta, RemoveMeta, Uncache, DeleteFails, diskVars
  <2>3. \/ UNCHANGED cache
        \/ tpc[t] = "uncache" /\ cache' = [cache EXCEPT ![target[t]] = {}]
    BY Zenon DEF Delete, NextGroup, WipeNext, WipeZero, WipeUnlink, LookDir,
       RemoveFiles, RemoveDir, LookMeta, RemoveMeta, Uncache, DeleteFails, diskVars
  <2>. QED
    BY <2>1, <2>2, <2>3
<1>4. \/ UNCHANGED shards
      \/ /\ tpc[t] \in {"zero", "unlink", "rmfiles"}
         /\ \/ \E content \in Content :
                  shards' = [shards EXCEPT ![target[t]][file[t]] = content]
            \/ shards' = [shards EXCEPT ![target[t]] = NoFiles]
  <2>1. \/ UNCHANGED shards
        \/ /\ tpc[t] = "zero"
           /\ shards' = [shards EXCEPT ![target[t]][file[t]] = "zero"]
        \/ /\ tpc[t] = "unlink"
           /\ shards' = [shards EXCEPT ![target[t]][file[t]] = "none"]
        \/ /\ tpc[t] = "rmfiles"
           /\ shards' = [shards EXCEPT ![target[t]] = NoFiles]
    BY Zenon DEF Delete, NextGroup, WipeNext, WipeZero, WipeUnlink, LookDir,
       RemoveFiles, RemoveDir, LookMeta, RemoveMeta, Uncache, DeleteFails, diskVars
  <2>. QED
    BY <2>1 DEF Content
<1>5. ASSUME NEW h \in Groups, h # target[t] \/ tpc[t] = "next"
      PROVE  UNCHANGED shards[h]
  BY <1>4, <1>5 DEF TypeOK
<1>6. ASSUME NEW h \in Groups
      PROVE  /\ meta'[h] = meta[h] \/ meta'[h] = {}
             /\ cache'[h] = cache[h] \/ cache'[h] = {}
             /\ h \in dir' => h \in dir
             /\ h \in torn' => h \in torn
             /\ h # target[t] \/ tpc[t] = "next" =>
                   /\ UNCHANGED <<meta[h], cache[h]>>
                   /\ h \in dir' <=> h \in dir
                   /\ h \in torn' <=> h \in torn
  <2>1. target[t] \in Groups
    BY DEF TypeOK
  <2>. QED
    BY <1>3, <2>1 DEF TypeOK
<1>. QED
  BY <1>1, <1>2, <1>5, <1>6

----------------------------------------------------------------------------
(* Steps of uploads.                                                       *)

LEMMA NextShardEffect ==
    ASSUME TypeOK, NEW g \in Groups, NextShard(g)
    PROVE  \/ spc'[g] = "mkdir" /\ idx'[g] = idx[g] + 1 /\ idx'[g] > 0
           \/ spc'[g] = "done" /\ idx'[g] = idx[g] /\ idx[g] = N - 1
<1>1. N \in Nat \ {0}
  BY SizeAssumption
<1>2. spc \in [Groups -> Storing \cup {"mkdir", "done", "dead"}]
      /\ idx \in [Groups -> 0 .. N - 1]
  BY DEF TypeOK, Shard
<1>. QED
  BY <1>1, <1>2 DEF NextShard, GoTo

LEMMA GoToEffect ==
    ASSUME TypeOK, NEW g \in Groups, NEW where, GoTo(g, where)
    PROVE  spc'[g] = where /\ idx'[g] = idx[g]
  BY DEF TypeOK, GoTo

(* A step of an upload preserves what is said of it.                       *)
LEMMA StoreOne ==
    ASSUME TypeOK, ReplayInv, NEW g \in Groups, UploadInv(g),
           Store(g) \/ StoreFails(g)
    PROVE  /\ UploadInv(g)'
           /\ faults' = 0 /\ g \notin caught /\ spc'[g] = "done" =>
                 InsertMeta(g) /\ meta[g] = {stamp[g]}
<1>0. ~Settled(g) /\ g \notin published /\ published' = published /\ caught' = caught
  <2>1. spc[g] \in Storing \cup {"mkdir"}
    BY DEF Store, MakeDir, CheckReplay, WriteBitmask, WriteSeq, TruncateShard,
         WriteShard, TruncateMeta, WriteMeta, InsertMeta, StoreFails, Storing
  <2>. QED
    BY <2>1, StoreFrame DEF Settled, Storing, UploadInv
<1>. DEFINE Old == \A a, b \in Ages(g) : a = b
            Late == /\ spc'[g] \in Storing => g \in dir'
                    /\ spc'[g] = "write" => shards'[g][idx'[g]] = "partial"
                    /\ spc'[g] = "meta" => g \in torn'
                    /\ spc'[g] = "insert" => meta'[g] = {stamp'[g]}
                    /\ spc'[g] # "insert" => \A a, b \in Ages(g)' : a = b
                    /\ faults' = 0 /\ spc'[g] = "done" =>
                          InsertMeta(g) /\ meta[g] = {stamp[g]}
<1>a. ~(spc'[g] = "mkdir" /\ idx'[g] = 0)
  <2>1. spc'[g] \in Storing => spc'[g] # "mkdir"
    BY DEF Storing
  <2>2. NextShard(g) => spc'[g] = "done" \/ idx'[g] > 0
    BY NextShardEffect
  <2>3. (\E where \in Storing : GoTo(g, where)) => spc'[g] \in Storing
    BY GoToEffect
  <2>. QED
    BY <2>1, <2>2, <2>3, StoreGoes
<1>b. ASSUME g \notin caught PROVE Late
  <2>u. /\ spc[g] \in Storing => g \in dir
        /\ spc[g] = "meta" => g \in torn
        /\ spc[g] = "insert" => meta[g] = {stamp[g]}
        /\ spc[g] # "insert" => Old
    BY <1>b DEF UploadInv
  <2>1. CASE MakeDir(g)
    <3>1. spc'[g] = "check" /\ idx'[g] = idx[g] /\ g \in dir'
          /\ UNCHANGED <<cache, meta>> /\ spc[g] = "mkdir"
      BY <2>1, GoToEffect DEF MakeDir
    <3>. QED
      BY <2>u, <3>1 DEF Storing, Ages
  <2>2. CASE CheckReplay(g)
    <3>1. Counter[g] \in Nat \ {0} /\ seq[g] \in {0, Counter[g]}
      BY CounterAssumption DEF ReplayInv, OneCounter
    <3>2. Window(Counter[g], seq[g]) # "rejected"
      BY <3>1, WindowAccepts
    <3>3. Window(Counter[g], seq[g]) \in {"bitmask", "seq", "truncate"}
      BY <3>2 DEF Window
    <3>4. spc'[g] \in {"bitmask", "seq", "truncate"} /\ idx'[g] = idx[g]
      BY <2>2, <3>2, <3>3, GoToEffect DEF CheckReplay
    <3>5. UNCHANGED <<cache, meta, dir>> /\ spc[g] = "check"
      BY <2>2 DEF CheckReplay, diskVars
    <3>. QED
      BY <2>u, <3>4, <3>5 DEF Storing, Ages
  <2>3. CASE WriteBitmask(g) \/ WriteSeq(g)
    <3>1. g \in dir /\ UNCHANGED <<cache, meta, dir>> /\ spc[g] \in {"bitmask", "seq"}
      BY <2>3, <2>u DEF WriteBitmask, WriteSeq, Storing, diskVars
    <3>2. spc'[g] \in {"seq", "truncate"} /\ idx'[g] = idx[g]
      BY <2>3, <3>1, GoToEffect DEF WriteBitmask, WriteSeq
    <3>. QED
      BY <2>u, <3>1, <3>2 DEF Storing, Ages
  <2>4. CASE TruncateShard(g)
    <3>1. g \in dir /\ UNCHANGED <<cache, meta, dir>> /\ spc[g] = "truncate"
      BY <2>4, <2>u DEF TruncateShard, Storing
    <3>2. spc'[g] = "write" /\ idx'[g] = idx[g]
          /\ shards' = [shards EXCEPT ![g][idx[g]] = "partial"]
      BY <2>4, <3>1, GoToEffect DEF TruncateShard
    <3>3. shards'[g][idx'[g]] = "partial"
      BY <3>2 DEF TypeOK
    <3>. QED
      BY <2>u, <3>1, <3>2, <3>3 DEF Storing, Ages
  <2>5. CASE WriteShard(g)
    <3>1. spc'[g] = "metatruncate" /\ idx'[g] = idx[g] /\ spc[g] = "write"
          /\ UNCHANGED <<cache, meta, dir>>
      BY <2>5, GoToEffect DEF WriteShard
    <3>. QED
      BY <2>u, <3>1 DEF Storing, Ages
  <2>6. CASE TruncateMeta(g)
    <3>1. /\ spc'[g] = "meta" /\ idx'[g] = idx[g] /\ UNCHANGED <<cache, dir>>
          /\ g \in torn' /\ meta'[g] = {} /\ spc[g] = "metatruncate"
      BY <2>6, GoToEffect DEF TruncateMeta, TypeOK
    <3>. QED
      BY <2>u, <3>1 DEF Storing, Ages
  <2>7. CASE WriteMeta(g)
    <3>1. /\ spc'[g] = "insert" /\ UNCHANGED <<cache, dir, stamp>>
          /\ meta'[g] = {stamp[g]} /\ spc[g] = "meta"
      BY <2>7, <2>u, GoToEffect DEF WriteMeta, TypeOK
    <3>. QED
      BY <2>u, <3>1 DEF Storing, Ages
  <2>8. CASE InsertMeta(g)
    <3>1. meta[g] = {stamp[g]} /\ meta' = meta
      BY <2>8, <2>u DEF InsertMeta, diskVars
    <3>2. cache'[g] = {stamp[g]}
      BY <2>8 DEF InsertMeta, TypeOK
    <3>3. spc'[g] \in {"mkdir", "done"}
      BY <2>8, NextShardEffect DEF InsertMeta
    <3>4. \A a, b \in Ages(g)' : a = b
      BY <3>1, <3>2 DEF Ages
    <3>. QED
      BY <2>8, <3>1, <3>3, <3>4 DEF Storing
  <2>9. CASE StoreFails(g)
    <3>1. UNCHANGED <<cache, meta, dir, torn>> /\ spc[g] # "insert"
      BY <2>9 DEF StoreFails, diskVars, Storing
    <3>2. spc'[g] \in {"mkdir", "done"}
      BY <2>9, NextShardEffect DEF StoreFails
    <3>3. faults' # 0
      BY <2>9 DEF StoreFails, TypeOK
    <3>4. \A a, b \in Ages(g)' : a = b
      BY <2>u, <3>1 DEF Ages
    <3>. QED
      BY <3>2, <3>3, <3>4 DEF Storing
  <2>. QED
    BY <2>1, <2>2, <2>3, <2>4, <2>5, <2>6, <2>7, <2>8, <2>9 DEF Store
<1>c. UploadInv(g)'
  BY <1>0, <1>a, <1>b DEF UploadInv
<1>. QED
  BY <1>b, <1>c

LEMMA StoreKeeps ==
    ASSUME TypeOK, ReplayInv, VaultInv, NEW g \in Groups,
           Store(g) \/ StoreFails(g)
    PROVE  VaultInv'
<1>0. ~Settled(g) /\ faults \in Nat /\ (faults' = 0 => faults = 0)
  <2>1. spc[g] \in Storing \cup {"mkdir"}
    BY DEF Store, MakeDir, CheckReplay, WriteBitmask, WriteSeq, TruncateShard,
         WriteShard, TruncateMeta, WriteMeta, InsertMeta, StoreFails, Storing
  <2>2. faults' = faults \/ faults' = faults + 1
    BY DEF Store, MakeDir, CheckReplay, WriteBitmask, WriteSeq, TruncateShard,
         WriteShard, TruncateMeta, WriteMeta, InsertMeta, StoreFails, historyVars
  <2>. QED
    BY <2>1, <2>2 DEF Settled, Storing, TypeOK
<1>1. ASSUME NEW h \in Groups PROVE UploadInv(h)'
  <2>1. CASE h = g
    BY <2>1, StoreOne DEF VaultInv
  <2>2. CASE h # g
    BY <2>2, StoreFrame DEF VaultInv, UploadInv, Settled, Ages
  <2>. QED
    BY <2>1, <2>2
<1>2. ASSUME NEW h \in Groups PROVE Kept(h)'
  <2>1. CASE h = g
    <3> SUFFICES ASSUME faults' = 0, g \notin caught, spc'[g] = "done"
                 PROVE  /\ cache'[g] = meta'[g]
                        /\ meta'[g] # {} /\ cache'[g] # {}
      BY <2>1, StoreFrame DEF Kept
    <3>1. InsertMeta(g) /\ meta[g] = {stamp[g]}
      BY StoreOne DEF VaultInv
    <3>2. meta'[g] = {stamp[g]} /\ cache'[g] = {stamp[g]}
      BY <3>1 DEF InsertMeta, TypeOK, diskVars
    <3>. QED
      BY <3>2
  <2>2. CASE h # g
    <3>1. Kept(h)
      BY DEF VaultInv
    <3>. QED
      BY <1>0, <2>2, <3>1, StoreFrame DEF Kept
  <2>. QED
    BY <2>1, <2>2
<1>3. ASSUME NEW t \in Tasks PROVE DeleteInv(t)'
  <2>0. DeleteInv(t) /\ UNCHANGED <<tpc, target, todo, doomed, caught>>
    BY StoreFrame DEF VaultInv
  <2>1. ASSUME NEW h \in Groups \ caught, Aimed(t, h)
        PROVE  h # g /\ Spent(h)
    BY <1>0, <2>0, <2>1 DEF DeleteInv, Spent
  <2>2. ASSUME NEW h \in Groups \ caught', Aimed(t, h)'
        PROVE  Spent(h)'
    <3>1. Aimed(t, h)
      BY <2>0, <2>2 DEF Aimed
    <3>2. h # g /\ Spent(h)
      BY <2>0, <2>1, <2>2, <3>1
    <3>. QED
      BY <2>0, <3>2, StoreFrame DEF Spent, Settled, Ages
  <2>3. ASSUME target'[t] \notin caught', tpc'[t] \in {"lookmeta", "rmmeta", "uncache"}
        PROVE  /\ target'[t] \notin dir'
               /\ tpc'[t] = "uncache" =>
                     meta'[target'[t]] = {} /\ target'[t] \notin torn'
    <3>1. tpc[t] \in {"lookmeta", "rmmeta", "uncache"} /\ target'[t] = target[t]
          /\ tpc'[t] = tpc[t] /\ target[t] \in Groups \ caught
      BY <2>0, <2>3 DEF TypeOK
    <3>2. target[t] # g
      BY <2>1, <3>1 DEF Aimed
    <3>. QED
      BY <2>0, <3>1, <3>2, StoreFrame DEF DeleteInv
  <2>. QED
    BY <2>2, <2>3 DEF DeleteInv
<1>. QED
  BY <1>1, <1>2, <1>3 DEF VaultInv

----------------------------------------------------------------------------
(* Steps of deletions.                                                     *)

LEMMA DeleteEffect ==
    ASSUME TypeOK, NEW t \in Tasks, Delete(t) \/ DeleteFails(t)
    PROVE  \/ tpc'[t] = "idle" /\ todo'[t] = {}
           \/ /\ target'[t] = target[t] /\ todo'[t] = todo[t]
              /\ tpc[t] \notin {"idle", "next"}
              /\ tpc'[t] = "uncache" =>
                    RemoveMeta(t) \/ (LookMeta(t) /\ ~MetaExists(target[t]))
              /\ tpc'[t] = "rmmeta" => LookMeta(t)
              /\ tpc'[t] = "lookmeta" => target[t] \notin dir'
           \/ /\ NextGroup(t) /\ tpc'[t] = "lookdir"
              /\ target'[t] \in todo[t] /\ todo'[t] \subseteq todo[t]
<1>1. CASE Fail(t)
  BY <1>1 DEF Fail, Finish, TypeOK
<1>2. CASE NextGroup(t)
  BY <1>2 DEF NextGroup, TypeOK
<1>3. CASE ~Fail(t) /\ WipeNext(t)
  <2>1. /\ tpc[t] = "wipe" /\ tpc' = [tpc EXCEPT ![t] = "zero"]
        /\ UNCHANGED <<target, todo>>
    BY <1>3, Zenon DEF WipeNext
  <2>. QED
    BY <2>1 DEF TypeOK
<1>4. CASE ~Fail(t) /\ WipeUnlink(t)
  <2>1. /\ tpc[t] = "unlink" /\ UNCHANGED <<target, todo>>
        /\ tpc' = [tpc EXCEPT ![t] =
                      IF files[t] = {file[t]} THEN "lookdir" ELSE "wipe"]
    BY <1>4, Zenon DEF WipeUnlink
  <2>. QED
    BY <2>1 DEF TypeOK
<1>5. CASE ~Fail(t) /\ WipeZero(t)
  <2>1. tpc[t] = "zero" /\ Become(t, "unlink")
    BY <1>5, Zenon DEF WipeZero
  <2>. QED
    BY <2>1 DEF Become, TypeOK
<1>6. CASE LookDir(t)
  <2>1. tpc[t] = "lookdir" /\ dir' = dir
        /\ Become(t, IF target[t] \in dir THEN "rmfiles" ELSE "lookmeta")
    BY <1>6 DEF LookDir, diskVars
  <2>. QED
    BY <2>1 DEF Become, TypeOK
<1>7. CASE ~Fail(t) /\ RemoveFiles(t)
  <2>1. tpc[t] = "rmfiles" /\ Become(t, "rmdir")
    BY <1>7, Zenon DEF RemoveFiles
  <2>. QED
    BY <2>1 DEF Become, TypeOK
<1>8. CASE ~Fail(t) /\ RemoveDir(t)
  <2>1. tpc[t] = "rmdir" /\ dir' = dir \ {target[t]} /\ Become(t, "lookmeta")
    BY <1>8, Zenon DEF RemoveDir
  <2>. QED
    BY <2>1 DEF Become, TypeOK
<1>9. CASE LookMeta(t)
  <2>1. tpc[t] = "lookmeta"
        /\ Become(t, IF MetaExists(target[t]) THEN "rmmeta" ELSE "uncache")
    BY <1>9 DEF LookMeta
  <2>. QED
    BY <1>9, <2>1 DEF Become, TypeOK
<1>10. CASE ~Fail(t) /\ RemoveMeta(t)
  <2>1. tpc[t] = "rmmeta" /\ Become(t, "uncache")
    BY <1>10, Zenon DEF RemoveMeta
  <2>. QED
    BY <1>10, <2>1 DEF Become, TypeOK
<1>11. CASE ~Fail(t) /\ Uncache(t)
  <2>1. tpc[t] = "uncache" /\ Become(t, "next")
    BY <1>11, Zenon DEF Uncache, Fail
  <2>. QED
    BY <2>1 DEF Become, TypeOK
<1>. QED
  BY <1>1, <1>2, <1>3, <1>4, <1>5, <1>6, <1>7, <1>8, <1>9, <1>10, <1>11
     DEF Delete, DeleteFails

LEMMA DeleteKeeps ==
    ASSUME TypeOK, VaultInv, NEW t \in Tasks, Delete(t) \/ DeleteFails(t)
    PROVE  VaultInv'
<1>0. UNCHANGED <<spc, idx, stamp, published, doomed, caught>> /\ target[t] \in Groups
  BY DeleteFrame DEF TypeOK
<1>. DEFINE g == target[t]
<1>1. ASSUME tpc[t] \notin {"idle", "next"}, g \notin caught PROVE Settled(g)
  BY <1>0, <1>1 DEF VaultInv, DeleteInv, Aimed, Spent
<1>2. ASSUME NEW h \in Groups
      PROVE  /\ Ages(h)' \subseteq Ages(h)
             /\ Settled(h)' <=> Settled(h)
  BY <1>0, DeleteFrame DEF Ages, Settled
<1>3. ASSUME NEW h \in Groups PROVE UploadInv(h)'
  <2>0. UploadInv(h)
    BY DEF VaultInv
  <2>1. CASE Settled(h)
    <3>1. spc[h] \in {"done", "dead"} /\ Settled(h)'
      BY <1>2, <2>1 DEF Settled
    <3>. QED
      BY <1>0, <1>2, <2>0, <3>1 DEF UploadInv, Storing
  <2>2. CASE ~Settled(h) /\ h \notin caught
    <3>1. h # g \/ tpc[t] = "next"
      <4>1. tpc[t] # "idle"
        BY DEF Delete, NextGroup, WipeNext, WipeZero, WipeUnlink, LookDir,
           RemoveFiles, RemoveDir, LookMeta, RemoveMeta, Uncache, DeleteFails
      <4>. QED
        BY <1>1, <2>2, <4>1
    <3>2. /\ UNCHANGED <<meta[h], cache[h], shards[h]>>
          /\ h \in dir' <=> h \in dir
          /\ h \in torn' <=> h \in torn
      BY <3>1, DeleteFrame
    <3>. QED
      BY <1>0, <2>0, <3>2 DEF UploadInv, Settled, Ages
  <2>3. CASE h \in caught
    BY <1>0, <1>2, <2>0, <2>3 DEF UploadInv
  <2>. QED
    BY <2>1, <2>2, <2>3
<1>4. ASSUME NEW u \in Tasks PROVE DeleteInv(u)'
  <2>0. DeleteInv(u) /\ target[u] \in Groups
    BY DEF VaultInv, TypeOK
  <2>1. ASSUME NEW h \in Groups \ caught', Aimed(u, h)'
        PROVE  Spent(h)'
    <3>1. Aimed(u, h)
      <4>1. CASE u # t
        BY <2>1, <4>1, DeleteFrame DEF Aimed
      <4>2. CASE u = t
        BY <2>1, <4>2, DeleteEffect DEF Aimed
      <4>. QED
        BY <4>1, <4>2
    <3>2. Spent(h)
      BY <1>0, <2>0, <2>1, <3>1 DEF DeleteInv
    <3>. QED
      BY <1>0, <1>2, <3>2 DEF Spent
  <2>2. CASE u # t
    <3>1. UNCHANGED <<tpc[u], target[u], todo[u]>>
      BY <2>2, DeleteFrame
    <3>. QED
      BY <1>0, <2>0, <2>1, <3>1, DeleteFrame DEF DeleteInv
  <2>3. CASE u = t
    <3>1. tpc'[t] \in {"lookmeta", "rmmeta", "uncache"} =>
             /\ target'[t] = g
             /\ g \notin caught => g \notin dir'
      <4>1. (LookMeta(t) \/ RemoveMeta(t)) /\ g \notin caught => g \notin dir'
        BY <2>0, <2>3, DeleteFrame DEF LookMeta, RemoveMeta, DeleteInv
      <4>. QED
        BY <4>1, DeleteEffect
    <3>2. tpc'[t] = "uncache" => meta'[g] = {} /\ g \notin torn'
      <4>1. RemoveMeta(t) /\ tpc'[t] = "uncache" => meta'[g] = {} /\ g \notin torn'
        <5> SUFFICES ASSUME RemoveMeta(t), tpc'[t] = "uncache"
                     PROVE  meta'[g] = {} /\ g \notin torn'
          OBVIOUS
        <5>1. ~Fail(t)
          BY DEF Fail, Finish, TypeOK
        <5>2. meta' = [meta EXCEPT ![target[t]] = {}] /\ torn' = torn \ {target[t]}
          BY <5>1, Zenon DEF RemoveMeta
        <5>. QED
          BY <1>0, <5>2 DEF TypeOK
      <4>2. LookMeta(t) /\ ~MetaExists(g) => meta'[g] = {} /\ g \notin torn'
        BY <1>0 DEF LookMeta, MetaExists, diskVars
      <4>. QED
        BY <4>1, <4>2, DeleteEffect
    <3>. QED
      BY <1>0, <2>1, <2>3, <3>1, <3>2 DEF DeleteInv
  <2>. QED
    BY <2>2, <2>3
<1>5. ASSUME NEW h \in Groups PROVE Kept(h)'
  <2> SUFFICES ASSUME faults' = 0, h \notin caught', spc'[h] = "done"
               PROVE  /\ \/ cache'[h] = meta'[h]
                         \/ \E u \in Tasks : tpc'[u] = "uncache" /\ target'[u] = h
                      /\ h \in dir' => meta'[h] # {} /\ cache'[h] # {}
    BY DEF Kept
  <2>0. faults = 0 /\ Delete(t)
    <3>1. ~DeleteFails(t)
      BY DEF DeleteFails, TypeOK
    <3>2. faults' = faults
      BY <3>1 DEF Delete, NextGroup, WipeNext, WipeZero, WipeUnlink, LookDir,
         RemoveFiles, RemoveDir, LookMeta, RemoveMeta, Uncache, historyVars
    <3>. QED
      BY <3>1, <3>2
  <2>1. /\ cache[h] = meta[h] \/ \E u \in Tasks : tpc[u] = "uncache" /\ target[u] = h
        /\ h \in dir => meta[h] # {} /\ cache[h] # {}
    BY <1>0, <2>0 DEF VaultInv, Kept
  <2>2. DeleteInv(t) /\ h \notin caught
    BY <1>0 DEF VaultInv
  <2>3. CASE h = g /\ Uncache(t)
    <3>1. cache'[h] = {} /\ meta'[h] = {} /\ h \notin dir'
      BY <2>2, <2>3 DEF Uncache, DeleteInv, diskVars, TypeOK
    <3>. QED
      BY <3>1
  <2>4. CASE h = g /\ RemoveMeta(t) /\ tpc'[t] = "uncache"
    <3>1. h \notin dir' /\ target'[t] = h
      BY <2>2, <2>4, DeleteFrame, DeleteEffect DEF RemoveMeta, DeleteInv
    <3>. QED
      BY <2>4, <3>1
  <2>5. CASE ~(h = g /\ Uncache(t)) /\ ~(h = g /\ RemoveMeta(t) /\ tpc'[t] = "uncache")
    <3>1. UNCHANGED <<cache[h], meta[h]>>
      <4>1. CASE h # g
        BY <4>1, DeleteFrame
      <4>2. CASE h = g
        <5>1. ~Uncache(t) /\ (RemoveMeta(t) => Fail(t))
          <6>1. Become(t, "uncache") => tpc'[t] = "uncache"
            BY DEF Become, TypeOK
          <6>. QED
            BY <2>5, <4>2, <6>1, Zenon DEF RemoveMeta
        <5>2. Fail(t) => tpc'[t] # "uncache"
          BY DEF Fail, Finish, TypeOK
        <5>3. Become(t, "uncache") => tpc'[t] = "uncache"
          BY DEF Become, TypeOK
        <5>4. RemoveMeta(t) => meta' = meta /\ cache' = cache
          BY <5>1, <5>2, <5>3, Zenon DEF RemoveMeta
        <5>. QED
          BY <2>0, <5>1, <5>4 DEF Delete, NextGroup, WipeNext, WipeZero, WipeUnlink,
             LookDir, RemoveFiles, RemoveDir, LookMeta, diskVars
      <4>. QED
        BY <4>1, <4>2
    <3>2. ASSUME NEW u \in Tasks, tpc[u] = "uncache", target[u] = h
          PROVE  tpc'[u] = "uncache" /\ target'[u] = h
      <4>1. u # t
        <5>1. tpc[t] = "uncache" /\ Delete(t) => Uncache(t)
          BY DEF Delete, NextGroup, WipeNext, WipeZero, WipeUnlink, LookDir,
             RemoveFiles, RemoveDir, LookMeta, RemoveMeta
        <5>. QED
          BY <2>0, <2>5, <3>2, <5>1
      <4>. QED
        BY <3>2, <4>1, DeleteFrame
    <3>3. h \in dir' => h \in dir
      BY DeleteFrame
    <3>. QED
      BY <2>1, <3>1, <3>2, <3>3
  <2>. QED
    BY <2>3, <2>4, <2>5
<1>. QED
  BY <1>3, <1>4, <1>5 DEF VaultInv

----------------------------------------------------------------------------
(* The other steps.                                                        *)

LEMMA OlderAges ==
    ASSUME NEW age \in SUBSET Age
    PROVE  /\ age = {} <=> Older(age) = {}
           /\ \A x \in Older(age) : \E a \in age : x = Aged(a)
  BY DEF Older

LEMMA AgedLater ==
    ASSUME NEW a \in Age
    PROVE  /\ Aged(a) <= TTL => a <= TTL
           /\ a > TTL => Aged(a) > TTL
  BY SizeAssumption DEF Aged, Age

LEMMA TickKeeps == TypeOK /\ VaultInv /\ Tick => VaultInv'
<1> SUFFICES ASSUME TypeOK, VaultInv, Tick PROVE VaultInv'
  OBVIOUS
<1>1. UNCHANGED <<dir, shards, torn, spc, idx, tpc, target, todo, published,
                  doomed, caught, faults>>
  BY DEF Tick, taskVars, historyVars
<1>2. \A g \in Groups : meta'[g] = Older(meta[g]) /\ cache'[g] = Older(cache[g])
  BY DEF Tick, TypeOK
<1>3. \A g \in Groups : meta[g] \in SUBSET Age /\ cache[g] \in SUBSET Age
  BY DEF TypeOK
<1>4. ASSUME NEW g \in Groups
      PROVE  /\ meta'[g] = {} <=> meta[g] = {}
             /\ cache'[g] = {} <=> cache[g] = {}
             /\ \A x \in Ages(g)' : \E a \in Ages(g) : x = Aged(a)
  BY <1>2, <1>3, OlderAges DEF Ages
<1>5. ASSUME NEW g \in Groups PROVE UploadInv(g)'
  <2>1. UploadInv(g)
    BY DEF VaultInv
  <2>2. spc[g] = "mkdir" /\ idx[g] = 0 => Ages(g)' = {}
    BY <1>4, <2>1 DEF UploadInv
  <2>3. (\A a, b \in Ages(g) : a = b) => \A a, b \in Ages(g)' : a = b
    BY <1>4
  <2>4. ASSUME spc[g] = "insert", meta[g] = {stamp[g]} PROVE meta'[g] = {stamp'[g]}
    <3>1. stamp'[g] = Aged(stamp[g])
      BY <2>4 DEF Tick, Stamped
    <3>. QED
      BY <1>2, <2>4, <3>1 DEF Older
  <2>. QED
    BY <1>1, <2>1, <2>2, <2>3, <2>4 DEF UploadInv
<1>6. ASSUME NEW t \in Tasks PROVE DeleteInv(t)'
  <2>1. DeleteInv(t) /\ target[t] \in Groups
    BY DEF VaultInv, TypeOK
  <2>2. ASSUME NEW g \in Groups, Spent(g) PROVE Spent(g)'
    <3>1. \A a \in Ages(g) : a \in Age
      BY <1>3 DEF Ages
    <3>2. (\A age \in Ages(g) : age > TTL) => \A age \in Ages(g)' : age > TTL
      BY <1>4, <3>1, AgedLater
    <3>. QED
      BY <1>1, <2>2, <3>2 DEF Spent, Settled
  <2>. QED
    BY <1>1, <1>4, <2>1, <2>2 DEF DeleteInv, Aimed
<1>7. ASSUME NEW g \in Groups PROVE Kept(g)'
  BY <1>1, <1>2, <1>4 DEF VaultInv, Kept
<1>. QED
  BY <1>5, <1>6, <1>7 DEF VaultInv

LEMMA RestartKeeps == TypeOK /\ VaultInv /\ Restart => VaultInv'
<1> SUFFICES ASSUME TypeOK, VaultInv, Restart PROVE VaultInv'
  OBVIOUS
<1>1. /\ UNCHANGED <<dir, shards, meta, torn, idx, published, doomed, caught, faults>>
      /\ cache' = meta
      /\ \A t \in Tasks : tpc'[t] = "idle" /\ todo'[t] = {}
  BY DEF Restart, AbandonAll, diskVars
<1>2. ASSUME NEW g \in Groups
      PROVE  \/ spc'[g] = "dead" /\ g \notin published
             \/ spc'[g] = spc[g] /\ spc[g] = "done"
             \/ spc'[g] = spc[g] /\ spc[g] = "mkdir" /\ idx[g] = 0
             \/ spc'[g] = "dead" /\ spc[g] = "dead"
  <2>1. spc'[g] = IF Active(g) \/ (spc[g] = "done" /\ g \notin published)
                  THEN "dead" ELSE spc[g]
    BY DEF Restart, AbandonAll
  <2>2. g \in published => spc[g] = "done"
    BY DEF VaultInv, UploadInv
  <2>. QED
    BY <2>1, <2>2 DEF Active, TypeOK, Shard, Storing
<1>3. ASSUME NEW g \in Groups PROVE UploadInv(g)'
  <2>1. UploadInv(g) /\ Ages(g)' = meta[g] /\ meta[g] \subseteq Ages(g)
    BY <1>1 DEF VaultInv, Ages
  <2>2. g \notin caught => \A a, b \in meta[g] : a = b
    BY <2>1 DEF UploadInv
  <2>. QED
    BY <1>1, <1>2, <2>1, <2>2 DEF UploadInv, Storing
<1>4. ASSUME NEW t \in Tasks PROVE DeleteInv(t)'
  BY <1>1 DEF DeleteInv, Aimed
<1>5. ASSUME NEW g \in Groups PROVE Kept(g)'
  <2>1. spc'[g] = "done" => spc[g] = "done"
    BY <1>2
  <2>. QED
    BY <1>1, <2>1 DEF VaultInv, Kept
<1>. QED
  BY <1>3, <1>4, <1>5 DEF VaultInv

LEMMA BeginKeeps ==
    ASSUME TypeOK, VaultInv, NEW t \in Tasks,
           StartGc(t) \/ \E g \in Groups : StartWipe(t, g)
    PROVE  VaultInv'
<1>1. /\ UNCHANGED <<dir, shards, meta, torn, cache, spc, idx, stamp, published,
                     faults>>
      /\ doomed \subseteq doomed' /\ caught \subseteq caught' /\ tpc[t] = "idle"
      /\ \A u \in Tasks \ {t} : UNCHANGED <<tpc[u], target[u], todo[u]>>
  BY DEF StartGc, StartWipe, diskVars, storeVars, historyVars, TypeOK
<1>2. ASSUME NEW g \in Groups PROVE UploadInv(g)'
  BY <1>1 DEF VaultInv, UploadInv, Ages
<1>3. ASSUME NEW g \in Groups PROVE Kept(g)'
  <2>1. \A u \in Tasks : tpc[u] = "uncache" => tpc'[u] = "uncache" /\ target'[u] = target[u]
    BY <1>1
  <2>. QED
    BY <1>1, <2>1 DEF VaultInv, Kept
<1>4. ASSUME NEW u \in Tasks \ {t} PROVE DeleteInv(u)'
  BY <1>1 DEF VaultInv, DeleteInv, Aimed, Spent, Settled, Ages
<1>5. DeleteInv(t)'
  <2>1. DeleteInv(t) /\ TTL \in Nat
    BY SizeAssumption DEF VaultInv
  <2>2. CASE StartGc(t)
    <3>1. tpc'[t] = "next" /\ todo'[t] = {g \in Groups : Expired(g)}
      BY <2>2 DEF StartGc, TypeOK
    <3>2. ASSUME NEW g \in Groups, Expired(g), g \notin caught'
          PROVE  Spent(g)
      <4>1. PICK old \in cache[g] : old > TTL
        BY <3>2 DEF Expired
      <4>2. old \in Ages(g) /\ UploadInv(g) /\ g \notin caught
        BY <1>1, <3>2, <4>1 DEF Ages, VaultInv
      <4>3. ~Active(g)
        BY <2>2, <3>2 DEF StartGc
      <4>4. Settled(g)
        BY <4>2, <4>3 DEF Active, Settled, UploadInv, TypeOK, Shard
      <4>5. \A age \in Ages(g) : age = old
        BY <4>2, <4>4 DEF UploadInv, Settled
      <4>. QED
        BY <4>1, <4>4, <4>5 DEF Spent
    <3>. QED
      BY <1>1, <3>1, <3>2 DEF DeleteInv, Aimed, Spent, Settled, Ages
  <2>3. ASSUME NEW g \in Groups, StartWipe(t, g) PROVE DeleteInv(t)'
    <3>1. /\ tpc'[t] \in {"wipe", "lookdir"} /\ target'[t] = g /\ todo' = todo
          /\ g \in doomed' /\ spc[g] = "done"
      BY <2>3 DEF StartWipe, TypeOK, VaultInv, UploadInv
    <3>2. ASSUME NEW h \in Groups \ caught, h \in todo[t]
          PROVE  Spent(h)
      BY <2>1, <3>2 DEF DeleteInv, Aimed
    <3>. QED
      BY <1>1, <3>1, <3>2 DEF DeleteInv, Aimed, Spent, Settled, Ages
  <2>. QED
    BY <2>2, <2>3
<1>. QED
  BY <1>2, <1>3, <1>4, <1>5 DEF VaultInv

LEMMA PublishKeeps ==
    ASSUME TypeOK, VaultInv, NEW g \in Groups, Publish(g)
    PROVE  VaultInv'
<1>1. /\ UNCHANGED <<dir, shards, meta, torn, cache, spc, idx, stamp, tpc, target,
                     todo, doomed, caught, faults>>
      /\ spc[g] = "done" /\ published' = published \cup {g}
  BY DEF Publish, diskVars, storeVars, taskVars
<1>. QED
  BY <1>1 DEF VaultInv, UploadInv, DeleteInv, Aimed, Spent, Kept, Settled, Ages

LEMMA VaultInit == Init => VaultInv
  BY DEF Init, VaultInv, UploadInv, DeleteInv, Aimed, Spent, Kept, Settled, Ages, Storing

LEMMA VaultStep == TypeOK /\ ReplayInv /\ VaultInv /\ [Next]_vars => VaultInv'
<1> SUFFICES ASSUME TypeOK, ReplayInv, VaultInv, [Next]_vars PROVE VaultInv'
  OBVIOUS
<1>1. ASSUME UNCHANGED vars PROVE VaultInv'
  BY <1>1 DEF vars, diskVars, storeVars, taskVars, historyVars, VaultInv, UploadInv,
     DeleteInv, Aimed, Spent, Kept, Settled, Ages
<1>2. ASSUME NEW g \in Groups, Store(g) \/ StoreFails(g) PROVE VaultInv'
  BY <1>2, StoreKeeps
<1>3. ASSUME NEW g \in Groups, Publish(g) PROVE VaultInv'
  BY <1>3, PublishKeeps
<1>4. ASSUME NEW t \in Tasks, Delete(t) \/ DeleteFails(t) PROVE VaultInv'
  BY <1>4, DeleteKeeps
<1>5. ASSUME NEW t \in Tasks, StartGc(t) \/ \E g \in Groups : StartWipe(t, g)
      PROVE  VaultInv'
  BY <1>5, BeginKeeps, Zenon
<1>6. CASE Tick \/ Restart
  BY <1>6, TickKeeps, RestartKeeps
<1>. QED
  BY <1>1, <1>2, <1>3, <1>4, <1>5, <1>6, Zenon DEF Next

LEMMA Inductive == Spec => [](TypeOK /\ ReplayInv /\ VaultInv)
  BY TypeInit, TypeStep, ReplayInit, ReplayStep, VaultInit, VaultStep, PTL DEF Spec

(* Between operations the cache is what a restart would recover.           *)
THEOREM Recoverable == Spec => []CacheIsRecoverable
<1>1. TypeOK /\ VaultInv => CacheIsRecoverable
  <2> SUFFICES ASSUME TypeOK, VaultInv, faults = 0, NEW g \in Groups \ caught, ~Active(g),
                      spc[g] # "dead", Undisturbed(g)
               PROVE  cache[g] = meta[g]
    BY DEF CacheIsRecoverable
  <2>1. UploadInv(g) /\ Kept(g)
    BY DEF VaultInv
  <2>2. CASE spc[g] = "done"
    BY <2>1, <2>2 DEF Kept, Undisturbed
  <2>3. CASE spc[g] # "done"
    <3>1. spc[g] = "mkdir" /\ idx[g] = 0
      BY <2>3 DEF Active, TypeOK, Shard
    <3>. QED
      BY <2>1, <3>1 DEF UploadInv, Ages
  <2>. QED
    BY <2>2, <2>3
<1>. QED
  BY <1>1, Inductive, PTL

(* The collector knows every acknowledged group that takes up space.       *)
THEOREM NotOrphaned == Spec => []PublishedNotOrphaned
<1>1. TypeOK /\ VaultInv => PublishedNotOrphaned
  BY DEF TypeOK, VaultInv, UploadInv, Kept, PublishedNotOrphaned
<1>. QED
  BY <1>1, Inductive, PTL

----------------------------------------------------------------------------
(* Shards and errors.                                                      *)

LEMMA LostFinite ==
    ASSUME TypeOK, NEW g \in Groups
    PROVE  IsFiniteSet(Lost(g)) /\ Cardinality(Lost(g)) \in Nat
<1>1. N \in Nat /\ idx[g] \in 0 .. N - 1
  BY SizeAssumption DEF TypeOK, Shard
<1>2. Lost(g) \subseteq 0 .. N - 1
  BY <1>1 DEF Lost, Due, Shard
<1>3. IsFiniteSet(0 .. N - 1)
  BY <1>1, FS_Interval
<1>. QED
  BY <1>2, <1>3, FS_Subset, FS_CardinalityType

LEMMA NoneLost ==
    ASSUME TypeOK, TypeOK', NEW g \in Groups, Covered(g), faults <= faults',
           Owed(g)' => Owed(g) /\ Lost(g)' \subseteq Lost(g)
    PROVE  Covered(g)'
<1> SUFFICES ASSUME Owed(g)' PROVE Cardinality(Lost(g)') <= faults'
  BY DEF Covered
<1>1. Cardinality(Lost(g)') <= Cardinality(Lost(g)) /\ Cardinality(Lost(g)') \in Nat
  BY LostFinite, FS_Subset, FS_CardinalityType
<1>2. Cardinality(Lost(g)) <= faults
  BY DEF Covered
<1>. QED
  BY <1>1, <1>2, LostFinite DEF TypeOK

LEMMA StoreLoses ==
    ASSUME TypeOK, ReplayInv, NEW g \in Groups, UploadInv(g), g \notin caught, Store(g)
    PROVE  Lost(g)' \subseteq Lost(g)
<1>0. N \in Nat \ {0} /\ idx[g] \in 0 .. N - 1 /\ Shard = 0 .. N - 1
  BY SizeAssumption DEF TypeOK, Shard
<1>1. CASE MakeDir(g) \/ CheckReplay(g) \/ WriteBitmask(g) \/ WriteSeq(g)
           \/ TruncateShard(g)
  <2>1. spc[g] \in {"mkdir", "check", "bitmask", "seq", "truncate"}
    BY <1>1 DEF MakeDir, CheckReplay, WriteBitmask, WriteSeq, TruncateShard
  <2>2. spc'[g] \in {"check", "bitmask", "seq", "truncate", "write"}
        /\ idx'[g] = idx[g]
    <3>1. spc[g] # "mkdir" => g \in dir
      BY <2>1 DEF UploadInv, Storing
    <3>2. Window(Counter[g], seq[g]) \in {"bitmask", "seq", "truncate"}
      <4>1. Counter[g] \in Nat \ {0} /\ seq[g] \in {0, Counter[g]}
        BY CounterAssumption DEF ReplayInv, OneCounter
      <4>2. Window(Counter[g], seq[g]) # "rejected"
        BY <4>1, WindowAccepts
      <4>. QED
        BY <4>2 DEF Window
    <3>. QED
      BY <1>1, <3>1, <3>2, GoToEffect DEF MakeDir, CheckReplay, WriteBitmask, WriteSeq,
         TruncateShard
  <2>3. ASSUME NEW i \in 0 .. idx[g] - 1 PROVE shards'[g][i] = shards[g][i]
    BY <1>0, <1>1, <2>3 DEF MakeDir, CheckReplay, WriteBitmask, WriteSeq,
       TruncateShard, diskVars, TypeOK
  <2>4. Due(g) = 0 .. idx[g] - 1 /\ Due(g)' = 0 .. idx[g] - 1
    BY <2>1, <2>2 DEF Due
  <2>. QED
    BY <2>3, <2>4 DEF Lost
<1>2. CASE WriteShard(g)
  <2>1. spc[g] = "write" /\ spc'[g] = "metatruncate" /\ idx'[g] = idx[g]
    BY <1>2, GoToEffect DEF WriteShard
  <2>2. shards' = [shards EXCEPT ![g][idx[g]] = "data"]
    BY <1>2, <2>1 DEF WriteShard, UploadInv, Written
  <2>3. Due(g) = 0 .. idx[g] - 1 /\ Due(g)' = 0 .. idx[g]
    BY <2>1 DEF Due
  <2>4. ASSUME NEW i \in 0 .. idx[g]
        PROVE  shards'[g][i] = IF i = idx[g] THEN "data" ELSE shards[g][i]
    BY <1>0, <2>2 DEF TypeOK
  <2>. QED
    BY <1>0, <2>3, <2>4 DEF Lost
<1>3. CASE TruncateMeta(g) \/ WriteMeta(g)
  <2>1. /\ spc[g] \in {"metatruncate", "meta"} /\ spc'[g] \in {"meta", "insert"}
        /\ idx'[g] = idx[g] /\ shards' = shards
    BY <1>3, GoToEffect DEF TruncateMeta, WriteMeta
  <2>. QED
    BY <2>1 DEF Due, Lost
<1>4. CASE InsertMeta(g)
  <2>1. spc[g] = "insert" /\ shards' = shards
    BY <1>4 DEF InsertMeta, diskVars
  <2>2. Due(g)' = 0 .. idx[g]
    BY <1>0, <1>4, NextShardEffect DEF Due, InsertMeta
  <2>. QED
    BY <2>1, <2>2 DEF Due, Lost
<1>. QED
  BY <1>1, <1>2, <1>3, <1>4 DEF Store

LEMMA StoreIntact ==
    ASSUME TypeOK, TypeOK', ReplayInv, VaultInv, LossInv, NEW g \in Groups,
           Store(g) \/ StoreFails(g)
    PROVE  LossInv'
<1> SUFFICES ASSUME NEW h \in Groups PROVE Covered(h)'
  BY DEF LossInv
<1>0. Covered(h) /\ UploadInv(h) /\ faults \in Nat /\ UNCHANGED <<doomed, caught>>
  BY StoreFrame DEF LossInv, VaultInv, TypeOK
<1>1. UNCHANGED faults \/ (StoreFails(g) /\ faults' = faults + 1)
  BY Zenon DEF Store, MakeDir, CheckReplay, WriteBitmask, WriteSeq, TruncateShard,
     WriteShard, TruncateMeta, WriteMeta, InsertMeta, StoreFails, historyVars
<1>2. CASE h # g
  <2>1. UNCHANGED <<spc[h], idx[h], meta[h], cache[h], shards[h]>>
    BY <1>2, StoreFrame
  <2>2. (Owed(h)' <=> Owed(h)) /\ Lost(h)' = Lost(h)
    BY <1>0, <2>1 DEF Owed, Ages, Lost, Due
  <2>. QED
    BY <1>0, <1>1, <2>2, NoneLost
<1>3. h = g => (Owed(h)' => Owed(h))
  <2>1. spc[g] \notin {"done", "dead"}
    BY DEF Store, MakeDir, CheckReplay, WriteBitmask, WriteSeq, TruncateShard,
         WriteShard, TruncateMeta, WriteMeta, InsertMeta, StoreFails, Storing
  <2>. QED
    BY <1>0, <2>1 DEF Owed
<1>4. CASE h = g /\ Store(g)
  <2>1. Owed(h)' => h \notin caught
    BY <1>0 DEF Owed
  <2>2. Owed(h)' => Lost(h)' \subseteq Lost(h)
    BY <1>0, <1>4, <2>1, StoreLoses
  <2>. QED
    BY <1>0, <1>1, <1>3, <1>4, <2>2, NoneLost
<1>5. CASE h = g /\ StoreFails(g)
  <2>1. N \in Nat \ {0} /\ idx[g] \in 0 .. N - 1 /\ Shard = 0 .. N - 1
    BY SizeAssumption DEF TypeOK, Shard
  <2>2. spc[g] # "done" /\ shards' = shards /\ faults' = faults + 1
    BY <1>5 DEF StoreFails, diskVars, Storing
  <2>3. Due(g)' \subseteq Due(g) \cup {idx[g]}
    <3>1. \/ spc'[g] = "mkdir" /\ idx'[g] = idx[g] + 1
          \/ spc'[g] = "done" /\ idx[g] = N - 1
      BY <1>5, NextShardEffect DEF StoreFails
    <3>2. Due(g)' = 0 .. idx[g]
      <4>1. CASE spc'[g] = "mkdir" /\ idx'[g] = idx[g] + 1
        BY <2>1, <4>1 DEF Due
      <4>2. CASE spc'[g] = "done" /\ idx[g] = N - 1
        <5>1. Due(g)' = 0 .. N - 1
          BY <2>1, <4>2 DEF Due
        <5>. QED
          BY <4>2, <5>1
      <4>. QED
        BY <3>1, <4>1, <4>2
    <3>3. Due(g) = 0 .. idx[g] \/ Due(g) = 0 .. idx[g] - 1
      BY <2>2 DEF Due
    <3>. QED
      BY <2>1, <3>2, <3>3
  <2>4. Lost(g)' \subseteq Lost(g) \cup {idx[g]}
    <3>1. Lost(g)' = {i \in Due(g)' : shards[g][i] # "data"}
      BY <2>2 DEF Lost
    <3>. QED
      BY <2>3, <3>1 DEF Lost
  <2>5. /\ IsFiniteSet(Lost(g) \cup {idx[g]})
        /\ Cardinality(Lost(g) \cup {idx[g]}) <= Cardinality(Lost(g)) + 1
    <3>1. IsFiniteSet(Lost(g)) /\ Cardinality(Lost(g)) \in Nat
      BY LostFinite
    <3>2. /\ IsFiniteSet(Lost(g) \cup {idx[g]})
          /\ \/ Cardinality(Lost(g) \cup {idx[g]}) = Cardinality(Lost(g))
             \/ Cardinality(Lost(g) \cup {idx[g]}) = Cardinality(Lost(g)) + 1
      BY <3>1, FS_AddElement, Zenon
    <3>. QED
      BY <3>1, <3>2
  <2>6. Cardinality(Lost(g)') <= Cardinality(Lost(g)) + 1
        /\ Cardinality(Lost(g)') \in Nat
    BY <2>4, <2>5, LostFinite, FS_Subset, FS_CardinalityType
  <2>7. Owed(g)' => Cardinality(Lost(g)) <= faults
    BY <1>0, <1>3, <1>5 DEF Covered
  <2>8. Owed(g)' => Cardinality(Lost(g)') <= faults'
    BY <1>0, <2>2, <2>6, <2>7, LostFinite
  <2>9. Covered(g)'
    BY <2>8, Zenon DEF Covered
  <2>. QED
    BY <1>5, <2>9, Zenon
<1>. QED
  BY <1>2, <1>4, <1>5

(* A group that still owes its shards is nobody's target.                  *)
LEMMA DeleteIntact ==
    ASSUME TypeOK, TypeOK', VaultInv, LossInv, NEW t \in Tasks,
           Delete(t) \/ DeleteFails(t)
    PROVE  LossInv'
<1> SUFFICES ASSUME NEW h \in Groups PROVE Covered(h)'
  BY DEF LossInv
<1>0. Covered(h) /\ UNCHANGED <<spc, idx, doomed, caught>>
  BY DeleteFrame DEF LossInv
<1>1. faults <= faults'
  BY DEF TypeOK, Delete, NextGroup, WipeNext, WipeZero, WipeUnlink, LookDir,
     RemoveFiles, RemoveDir, LookMeta, RemoveMeta, Uncache, DeleteFails, historyVars
<1>2. Owed(h)' => Owed(h)
  BY <1>0, DeleteFrame DEF Owed, Ages
<1>3. ASSUME Owed(h) PROVE Lost(h)' = Lost(h)
  <2>1. h # target[t] \/ tpc[t] = "next"
    <3>1. tpc[t] # "idle"
      BY DEF Delete, NextGroup, WipeNext, WipeZero, WipeUnlink, LookDir,
         RemoveFiles, RemoveDir, LookMeta, RemoveMeta, Uncache, DeleteFails
    <3>2. ~Aimed(t, h)
      <4>1. \A age \in Ages(h) : age \in Nat
        BY SizeAssumption DEF Ages, TypeOK, Age
      <4>2. TTL \in Nat
        BY SizeAssumption
      <4>. QED
        BY <1>3, <4>1, <4>2 DEF VaultInv, DeleteInv, Owed, Spent, Settled
    <3>. QED
      BY <3>1, <3>2 DEF Aimed
  <2>. QED
    BY <1>0, <2>1, DeleteFrame DEF Lost, Due
<1>. QED
  BY <1>0, <1>1, <1>2, <1>3, NoneLost

LEMMA LossStep ==
    TypeOK /\ TypeOK' /\ ReplayInv /\ VaultInv /\ LossInv /\ [Next]_vars => LossInv'
<1> SUFFICES ASSUME TypeOK, TypeOK', ReplayInv, VaultInv, LossInv, [Next]_vars
             PROVE  LossInv'
  OBVIOUS
<1>1. ASSUME NEW g \in Groups, Store(g) \/ StoreFails(g) PROVE LossInv'
  BY <1>1, StoreIntact
<1>2. ASSUME NEW t \in Tasks, Delete(t) \/ DeleteFails(t) PROVE LossInv'
  BY <1>2, DeleteIntact
<1>3. ASSUME UNCHANGED <<shards, idx, faults>>, doomed \subseteq doomed',
             caught \subseteq caught',
             \A g \in Groups :
                /\ spc'[g] = spc[g] \/ spc'[g] = "dead"
                /\ \A age \in Ages(g)' : age <= TTL => \E a \in Ages(g) : a <= TTL
      PROVE  LossInv'
  <2> SUFFICES ASSUME NEW g \in Groups PROVE Covered(g)'
    BY DEF LossInv
  <2>1. Owed(g)' => Owed(g) /\ Lost(g)' = Lost(g)
    BY <1>3 DEF Owed, Lost, Due
  <2>2. Covered(g) /\ faults <= faults'
    BY <1>3 DEF LossInv, TypeOK
  <2>. QED
    BY <2>1, <2>2, NoneLost
<1>4. ASSUME NEW g \in Groups, Publish(g) PROVE LossInv'
  BY <1>3, <1>4 DEF Publish, diskVars, storeVars, Ages
<1>5. ASSUME NEW t \in Tasks, StartGc(t) \/ \E g \in Groups : StartWipe(t, g)
      PROVE  LossInv'
  <2>1. UNCHANGED <<shards, idx, faults, spc, cache, meta>> /\ doomed \subseteq doomed'
        /\ caught \subseteq caught'
    BY <1>5 DEF StartGc, StartWipe, diskVars, storeVars, historyVars
  <2>. QED
    BY <1>3, <2>1 DEF Ages
<1>6. CASE Tick
  <2>1. UNCHANGED <<shards, idx, faults, spc, doomed, caught>>
    BY <1>6 DEF Tick, historyVars
  <2>2. ASSUME NEW g \in Groups, NEW age \in Ages(g)', age <= TTL
        PROVE  \E a \in Ages(g) : a <= TTL
    <3>1. /\ meta[g] \in SUBSET Age /\ cache[g] \in SUBSET Age
          /\ Ages(g)' = Older(meta[g]) \cup Older(cache[g])
      BY <1>6 DEF Tick, TypeOK, Ages
    <3>2. PICK a \in Ages(g) : age = Aged(a)
      BY <2>2, <3>1, OlderAges DEF Ages
    <3>3. a \in Age
      BY <3>1 DEF Ages
    <3>. QED
      BY <2>2, <3>2, <3>3, AgedLater
  <2>. QED
    BY <1>3, <2>1, <2>2
<1>7. CASE Restart
  <2>1. UNCHANGED <<shards, idx, faults, doomed, caught, meta>> /\ cache' = meta
    BY <1>7 DEF Restart, AbandonAll, diskVars
  <2>2. \A g \in Groups : spc'[g] = spc[g] \/ spc'[g] = "dead"
    BY <1>7 DEF Restart, AbandonAll
  <2>. QED
    BY <1>3, <2>1, <2>2 DEF Ages
<1>8. CASE UNCHANGED vars
  BY <1>3, <1>8 DEF vars, diskVars, storeVars, historyVars, Ages
<1>. QED
  BY <1>1, <1>2, <1>4, <1>5, <1>6, <1>7, <1>8, Zenon DEF Next

LEMMA LossInit == Init => LossInv
<1> SUFFICES ASSUME Init, NEW g \in Groups PROVE Cardinality(Lost(g)) <= faults
  BY DEF LossInv, Covered
<1>1. Due(g) = 0 .. -1
  BY DEF Init, Due
<1>2. Lost(g) = {} /\ faults = 0
  BY <1>1 DEF Lost, Init
<1>. QED
  BY <1>2, FS_EmptySet

(* An acknowledged group has all its shards but one for each error, until  *)
(* its time is up or a client asks to wipe it.                             *)
THEOREM PublishedKept == Spec => []PublishedIntact
<1>1. TypeOK /\ VaultInv /\ LossInv => PublishedIntact
  <2> SUFFICES ASSUME TypeOK, VaultInv, LossInv,
                      NEW g \in published \ (doomed \cup caught),
                      \E age \in cache[g] : age <= TTL
               PROVE  Cardinality({i \in Shard : shards[g][i] = "data"}) >= N - faults
    BY DEF PublishedIntact, Intact
  <2>1. g \in Groups /\ spc[g] = "done" /\ faults \in Nat
    BY DEF TypeOK, VaultInv, UploadInv
  <2>2. Cardinality(Lost(g)) <= faults
    BY <2>1 DEF LossInv, Covered, Owed, Ages
  <2>3. N \in Nat /\ IsFiniteSet(Shard) /\ Cardinality(Shard) = N
    BY SizeAssumption, FS_Interval DEF Shard
  <2>4. Lost(g) \subseteq Shard
        /\ {i \in Shard : shards[g][i] = "data"} = Shard \ Lost(g)
    BY <2>1 DEF Lost, Due
  <2>5. /\ Cardinality(Shard \ Lost(g)) = Cardinality(Shard) - Cardinality(Shard \cap Lost(g))
        /\ Shard \cap Lost(g) = Lost(g)
    BY <2>3, <2>4, FS_Difference
  <2>6. Cardinality(Lost(g)) \in Nat
    BY <2>1, LostFinite
  <2>7. Cardinality(Shard \ Lost(g)) = N - Cardinality(Lost(g))
    BY <2>3, <2>5
  <2>8. N - Cardinality(Lost(g)) >= N - faults
    BY <2>1, <2>2, <2>3, <2>6
  <2>. QED
    BY <2>4, <2>7, <2>8
<1>2. TypeOK /\ LossInv /\ ReplayInv /\ VaultInv /\ [Next]_vars /\ TypeOK' => LossInv'
  BY LossStep
<1>. QED
  BY <1>1, <1>2, Inductive, LossInit, PTL DEF Spec
=============================================================================
