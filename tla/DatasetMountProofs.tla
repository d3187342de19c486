------------------------- MODULE DatasetMountProofs -------------------------
(***************************************************************************)
(* Proofs about DatasetMount, for any groups, any number of shards and any *)
(* numbers of failing commands, changes of the layer and restarts.         *)
(***************************************************************************)
EXTENDS DatasetMount, TLAPS, FiniteSetTheorems

(* How deletions, uploads and the daemon go together: what is acknowledged *)
(* has been stored to the end, what is deleted is not being stored, and    *)
(* uploads run only under a daemon that serves.                            *)
PhaseInv ==
    \A g \in Groups :
        /\ g \in published => spc[g] = "done"
        /\ g \in doomed => spc[g] \in {"done", "gone"}
        /\ dpc[g] # "idle" => g \in doomed
        /\ spc[g] \in {"write", "meta", "insert", "flush"} => Serving
        /\ spc[g] = "mkdir" /\ idx[g] # 0 => Serving

(* The strengthening of CachedIsRecoverable: the metadata is written       *)
(* before the cache entry is made.                                         *)
RecoverableInv ==
    /\ CachedIsRecoverable
    /\ \A g \in Groups : spc[g] = "insert" =>
          \E layer \in Layers : g \in meta[layer]

Calm == faults = 0 /\ changes = 0 /\ AutoProvision

(* The shards of g that its upload has come past.                          *)
Due(g) ==
    CASE spc[g] \in {"mkdir", "write"} -> 0 .. idx[g] - 1
      [] spc[g] \in {"meta", "insert"} -> 0 .. idx[g]
      [] OTHER                         -> Shard

(* The strengthening of UndisturbedOnDataset.                              *)
Alive(g) == g \notin doomed /\ spc[g] # "gone"

CalmStart ==
    /\ pc["main"] = "mount" => exists
    /\ VaultOpen => mounted
    /\ pc["main"] \in {"recover", "directory", "serve"} => "dataset" \in prepared

CalmGroup(g) ==
    /\ shards["underlay"][g] = {}
    /\ spc[g] = "write" => g \in dirs["dataset"]
    /\ Alive(g) =>
          /\ Due(g) \subseteq shards["dataset"][g]
          /\ spc[g] = "insert" => g \in meta["dataset"]
          /\ idx[g] > 0 \/ spc[g] \in {"flush", "done"} =>
                /\ g \in meta["dataset"]
                /\ pc["main"] \in {"directory", "serve"} => g \in cache

CalmInv == Calm => CalmStart /\ \A g \in Groups : CalmGroup(g)

(* The strengthening of ChangeLosesOneShard: the shard that the upload is  *)
(* about to lose has been paid for by the change that hid its directory.   *)
Missing(g) == Due(g) \ OnAnyLayer(g)

Charge(g) == IF spc[g] = "write" /\ g \notin dirs[Visible] THEN 1 ELSE 0

GroupLoss(g) ==
    Alive(g) => Cardinality(Missing(g)) + Charge(g) <= changes

LossInv == \A g \in Groups : GroupLoss(g)

----------------------------------------------------------------------------
(* Type correctness.                                                       *)

LEMMA NextShardTypes ==
    ASSUME TypeOK, NEW g \in Groups, NextShard(g)
    PROVE  /\ spc' \in [Groups -> {"mkdir", "write", "meta", "insert", "flush",
                                   "done", "gone"}]
           /\ idx' \in [Groups -> Shard]
<1>1. N \in Nat \ {0}
  BY MountAssumption DEF MountAssumption
<1>2. /\ spc \in [Groups -> {"mkdir", "write", "meta", "insert", "flush",
                             "done", "gone"}]
      /\ idx \in [Groups -> 0 .. N - 1]
  BY DEF TypeOK, Shard
<1>3. CASE idx[g] + 1 < N
  BY <1>1, <1>2, <1>3 DEF NextShard, Shard
<1>4. CASE ~(idx[g] + 1 < N)
  BY <1>1, <1>2, <1>4 DEF NextShard, GoTo, Shard
<1>. QED
  BY <1>3, <1>4

LEMMA ZfsTypes ==
    ASSUME TypeOK
    PROVE  exists \in BOOLEAN /\ mounted \in BOOLEAN /\ (mounted => exists)
  BY Zenon DEF TypeOK

LEMMA CountTypes ==
    ASSUME TypeOK, NEW now
    PROVE  /\ Mounted(now) => changes' \in Nat
           /\ Fault => faults' \in Nat
<1>1. changes \in Nat /\ faults \in Nat
  BY DEF TypeOK
<1>. QED
  BY <1>1 DEF Mounted, Fault

(* A command of whatever task leaves the types alone.                      *)
LEMMA CommandTypes ==
    ASSUME TypeOK, NEW t \in Tasks, CreateDataset(t) \/ MountVault(t)
    PROVE  TypeOK'
<1>1. changes' \in Nat /\ faults' \in Nat
  <2>1. changes \in Nat /\ faults \in Nat
    BY DEF TypeOK
  <2>2. UNCHANGED changes \/ Mounted(TRUE)
    BY DEF CreateDataset, MountVault, zfsVars
  <2>3. UNCHANGED faults \/ Fault
    BY DEF CreateDataset, MountVault, zfsVars
  <2>. QED
    BY <2>1, <2>2, <2>3, CountTypes
<1>2. /\ exists' \in BOOLEAN /\ mounted' \in BOOLEAN
      /\ mounted' => exists'
  <2>1. \/ exists' = exists /\ mounted' = mounted
        \/ exists' = TRUE /\ mounted' = TRUE
        \/ exists /\ exists' = exists /\ mounted' = TRUE
        \/ ~exists /\ exists' \in BOOLEAN /\ mounted' = mounted
    BY DEF CreateDataset, MountVault, zfsVars, Mounted
  <2>2. exists' \in BOOLEAN /\ mounted' \in BOOLEAN
    BY <2>1, ZfsTypes
  <2>3. mounted' => exists'
    <3>1. CASE exists' = exists /\ mounted' = mounted
      BY <3>1, ZfsTypes
    <3>2. CASE exists' = TRUE
      BY <3>2
    <3>3. CASE exists /\ exists' = exists
      BY <3>3
    <3>4. CASE ~exists /\ mounted' = mounted
      BY <3>4, ZfsTypes
    <3>. QED
      BY <2>1, <3>1, <3>2, <3>3, <3>4
  <2>. QED
    BY <2>2, <2>3
<1>3. pc' \in [Tasks -> {"config", "default", "list", "create", "mount",
                         "open", "recover", "directory", "serve", "down",
                         "idle", "check", "info", "sleep"}]
  BY DEF CreateDataset, MountVault, Become, TypeOK
<1>4. UNCHANGED <<diskVars, cache, groupVars, startVars>>
  BY DEF CreateDataset, MountVault
<1>. QED
  BY <1>1, <1>2, <1>3, <1>4 DEF TypeOK, diskVars, groupVars, startVars

LEMMA TypeStep == TypeOK /\ [Next]_vars => TypeOK'
<1> SUFFICES ASSUME TypeOK, [Next]_vars PROVE TypeOK'
  OBVIOUS
<1> USE DEF TypeOK, zfsVars, diskVars, groupVars, startVars
<1>1. CASE Startup
  <2> USE MountAssumption DEF MountAssumption, Become, Start, Tasks, Layers, Visible, Mounted, Fault
  <2>1. CASE LoadConfig
    BY <2>1 DEF LoadConfig
  <2>2. CASE WriteConfig
    BY <2>2 DEF WriteConfig
  <2>3. CASE PrepareVault
    BY <2>3 DEF PrepareVault
  <2>4. CASE RecoverMeta
    BY <2>4 DEF RecoverMeta
  <2>5. CASE OpenDirectory
    BY <2>5 DEF OpenDirectory
  <2>6. CASE ListDataset("main")
    BY <2>6 DEF ListDataset
  <2>7. CASE CreateDataset("main")
    BY <2>7, CommandTypes DEF Tasks
  <2>8. CASE MountVault("main")
    BY <2>8, CommandTypes DEF Tasks
  <2>. QED
    BY <1>1, <2>1, <2>2, <2>3, <2>4, <2>5, <2>6, <2>7, <2>8 DEF Startup
<1>2. CASE HealthLoop
  <2> USE DEF Become, Tasks, Mounted, Fault
  <2>1. CASE HealthReported \/ HealthFallback \/ HealthFails \/ WakeUp
    BY <2>1 DEF HealthReported, HealthFallback, HealthFails, WakeUp
  <2>2. CASE MountVault("health")
    BY <2>2, CommandTypes DEF Tasks
  <2>3. CASE DatasetInfo
    BY <2>3 DEF DatasetInfo
  <2>. QED
    BY <1>2, <2>1, <2>2, <2>3 DEF HealthLoop
<1>3. CASE Provision
  <2> USE DEF Become, Tasks, Mounted, Fault
  <2>1. CASE RequestProvision
    BY <2>1 DEF RequestProvision
  <2>2. CASE ListDataset("api")
    BY <2>2 DEF ListDataset
  <2>3. CASE CreateDataset("api")
    BY <2>3, CommandTypes DEF Tasks
  <2>. QED
    BY <1>3, <2>1, <2>2, <2>3 DEF Provision
<1>4. ASSUME NEW g \in Groups, Upload(g) PROVE TypeOK'
  <2>1. CASE MakeDir(g)
    BY <2>1 DEF MakeDir, GoTo, Layers, Visible
  <2>2. CASE WriteShard(g)
    BY <2>2, NextShardTypes DEF WriteShard, GoTo, Layers, Visible
  <2>3. CASE WriteMeta(g)
    BY <2>3, NextShardTypes DEF WriteMeta, GoTo, Layers, Visible
  <2>4. CASE InsertMeta(g)
    BY <2>4, NextShardTypes DEF InsertMeta
  <2>5. CASE FlushDirectory(g)
    BY <2>5 DEF FlushDirectory, GoTo
  <2>. QED
    BY <1>4, <2>1, <2>2, <2>3, <2>4, <2>5 DEF Upload
<1>5. ASSUME NEW g \in Groups, Delete(g) PROVE TypeOK'
  <2> USE DEF DeleteGoesTo
  <2>1. CASE StartWipe(g)
    BY <2>1 DEF StartWipe
  <2>2. CASE StartCollect(g)
    BY <2>2 DEF StartCollect
  <2>3. CASE RemoveDir(g)
    BY <2>3 DEF RemoveDir, Layers, Visible
  <2>4. CASE RemoveMeta(g)
    BY <2>4 DEF RemoveMeta, Layers, Visible
  <2>5. CASE Uncache(g)
    BY <2>5 DEF Uncache
  <2>. QED
    BY <1>5, <2>1, <2>2, <2>3, <2>4, <2>5 DEF Delete
<1>6. CASE Unmount
  <2>1. changes' \in Nat
    BY <1>6, CountTypes DEF Unmount
  <2>2. mounted' = FALSE
    BY <1>6, Zenon DEF Unmount, Mounted
  <2>. QED
    BY <1>6, <2>1, <2>2 DEF Unmount
<1>7. CASE Restart
  <2>1. restarts' \in Nat
    <3>1. restarts \in Nat
      OBVIOUS
    <3>. QED
      BY <1>7, <3>1 DEF Restart
  <2>2. /\ mounted' \in BOOLEAN
        /\ mounted' => exists'
    <3>1. /\ mounted' = mounted \/ mounted' = FALSE
          /\ exists' = exists
      BY <1>7 DEF Restart
    <3>2. mounted' \in BOOLEAN
      BY <3>1, ZfsTypes
    <3>3. mounted' => exists'
      BY <3>1, ZfsTypes
    <3>. QED
      BY <3>2, <3>3
  <2>3. /\ pc' \in [Tasks -> {"config", "idle"}]
        /\ spc' \in [Groups -> {"mkdir", "done", "gone"}]
        /\ dpc' \in [Groups -> {"idle"}]
    BY <1>7 DEF Restart, Idle, Tasks
  <2>. QED
    BY <1>7, <2>1, <2>2, <2>3 DEF Restart
<1>8. CASE UNCHANGED vars
  BY <1>8 DEF vars
<1>. QED
  BY <1>1, <1>2, <1>3, <1>4, <1>5, <1>6, <1>7, <1>8 DEF Next

LEMMA TypeInit == Init => TypeOK
<1> SUFFICES ASSUME Init PROVE TypeOK
  OBVIOUS
<1>1. idx \in [Groups -> Shard]
  <2>1. N \in Nat \ {0}
    BY MountAssumption DEF MountAssumption
  <2>. QED
    BY <2>1 DEF Init, Shard
<1>2. /\ exists \in BOOLEAN /\ mounted \in BOOLEAN
      /\ mounted => exists
  BY Zenon DEF Init
<1>3. pc \in [Tasks -> {"config", "idle"}]
  BY DEF Init, Idle
<1>. QED
  BY <1>1, <1>2, <1>3 DEF Init, TypeOK

(* The configuration, the daemon's tasks, both layers and the operations   *)
(* of every group stay well typed, and only a dataset that exists is       *)
(* mounted, whatever commands fail and whenever the daemon restarts.       *)
THEOREM TypeCorrect == Spec => []TypeOK
  BY TypeInit, TypeStep, PTL DEF Spec

----------------------------------------------------------------------------
(* How the operations go together.                                         *)

Around == Startup \/ HealthLoop \/ Provision \/ Unmount

(* The steps around the vault's operations touch none of their state.      *)
LEMMA AroundGroups ==
    ASSUME Around
    PROVE  UNCHANGED <<groupVars, dirs, shards, meta>>
<1> USE DEF diskVars
<1>1. ASSUME NEW t, ListDataset(t) \/ CreateDataset(t) \/ MountVault(t)
      PROVE  UNCHANGED <<groupVars, dirs, shards, meta>>
  BY <1>1 DEF ListDataset, CreateDataset, MountVault
<1>2. CASE Startup
  BY <1>1, <1>2 DEF Startup, LoadConfig, WriteConfig, PrepareVault, RecoverMeta,
     OpenDirectory
<1>3. CASE HealthLoop
  BY <1>1, <1>3 DEF HealthLoop, HealthReported, HealthFallback, HealthFails,
     DatasetInfo, WakeUp
<1>4. CASE Provision
  BY <1>1, <1>4 DEF Provision, RequestProvision
<1>5. CASE Unmount
  BY <1>5 DEF Unmount
<1>. QED
  BY <1>2, <1>3, <1>4, <1>5 DEF Around

(* ... and a daemon that serves goes on serving.                           *)
LEMMA AroundServing ==
    ASSUME TypeOK, Around, Serving
    PROVE  Serving'
<1> USE DEF Serving, Become
<1>0. pc \in [Tasks -> {"config", "default", "list", "create", "mount",
                        "open", "recover", "directory", "serve", "down",
                        "idle", "check", "info", "sleep"}]
  BY DEF TypeOK
<1>1. CASE Startup
  BY <1>0, <1>1 DEF Startup, LoadConfig, WriteConfig, PrepareVault, RecoverMeta,
     OpenDirectory, ListDataset, CreateDataset, MountVault
<1>2. CASE HealthLoop
  BY <1>0, <1>2 DEF HealthLoop, HealthReported, HealthFallback, HealthFails,
     MountVault, DatasetInfo, WakeUp, Tasks
<1>3. CASE Provision
  BY <1>0, <1>3 DEF Provision, RequestProvision, ListDataset, CreateDataset, Tasks
<1>4. CASE Unmount
  BY <1>4 DEF Unmount
<1>. QED
  BY <1>1, <1>2, <1>3, <1>4 DEF Around

(* What TypeOK says of the operations.                                     *)
LEMMA GroupTypes ==
    ASSUME TypeOK
    PROVE  /\ spc \in [Groups -> {"mkdir", "write", "meta", "insert", "flush",
                                  "done", "gone"}]
           /\ idx \in [Groups -> Shard]
           /\ dpc \in [Groups -> {"idle", "rmdir", "rmmeta", "uncache"}]
           /\ published \subseteq Groups /\ doomed \subseteq Groups
  BY DEF TypeOK

(* How an upload goes on after a shard.                                    *)
LEMMA NextShardGoes ==
    ASSUME TypeOK, NEW g \in Groups, NextShard(g)
    PROVE  /\ spc'[g] \in {"mkdir", "flush"}
           /\ \A h \in Groups \ {g} : spc'[h] = spc[h] /\ idx'[h] = idx[h]
  BY GroupTypes DEF NextShard, GoTo

LEMMA PhaseStep == TypeOK /\ PhaseInv /\ [Next]_vars => PhaseInv'
<1> SUFFICES ASSUME TypeOK, PhaseInv, [Next]_vars PROVE PhaseInv'
  OBVIOUS
<1> USE GroupTypes
<1>1. CASE Around
  BY <1>1, AroundGroups, AroundServing DEF PhaseInv, groupVars
<1>2. ASSUME NEW g \in Groups, Upload(g) PROVE PhaseInv'
  <2> USE DEF PhaseInv, GoTo, Serving
  <2>1. CASE MakeDir(g)
    BY <2>1 DEF MakeDir
  <2>2. CASE WriteShard(g)
    BY <2>2, NextShardGoes DEF WriteShard
  <2>3. CASE WriteMeta(g)
    BY <2>3, NextShardGoes DEF WriteMeta
  <2>4. CASE InsertMeta(g)
    BY <2>4, NextShardGoes DEF InsertMeta
  <2>5. CASE FlushDirectory(g)
    BY <2>5 DEF FlushDirectory
  <2>. QED
    BY <1>2, <2>1, <2>2, <2>3, <2>4, <2>5 DEF Upload
<1>3. ASSUME NEW g \in Groups, Delete(g) PROVE PhaseInv'
  BY <1>3 DEF Delete, StartWipe, StartCollect, RemoveDir, RemoveMeta, Uncache,
     DeleteGoesTo, PhaseInv, Serving
<1>4. CASE Restart
  BY <1>4 DEF Restart, PhaseInv, Serving
<1>5. CASE UNCHANGED vars
  BY <1>5 DEF vars, groupVars, PhaseInv, Serving
<1>. QED
  BY <1>1, <1>2, <1>3, <1>4, <1>5 DEF Next, Around

LEMMA PhaseInit == Init => PhaseInv
  BY DEF Init, PhaseInv

LEMMA PhaseHolds == Spec => [](TypeOK /\ PhaseInv)
<1>1. Init => TypeOK /\ PhaseInv
  BY TypeInit, PhaseInit
<1>2. TypeOK /\ PhaseInv /\ [Next]_vars => (TypeOK /\ PhaseInv)'
  BY TypeStep, PhaseStep
<1>. QED
  BY <1>1, <1>2, PTL DEF Spec

----------------------------------------------------------------------------
(* The cache.                                                              *)

LEMMA RecoverableStep ==
    TypeOK /\ PhaseInv /\ RecoverableInv /\ [Next]_vars => RecoverableInv'
<1> SUFFICES ASSUME TypeOK, PhaseInv, RecoverableInv, [Next]_vars
             PROVE  RecoverableInv'
  OBVIOUS
<1> USE GroupTypes DEF RecoverableInv, CachedIsRecoverable
<1>0. meta \in [Layers -> SUBSET Groups] /\ cache \subseteq Groups
      /\ Visible \in Layers
  BY DEF TypeOK, Visible, Layers
<1>1. CASE Around
  <2>1. UNCHANGED cache \/ cache' = meta[Visible]
    BY <1>1 DEF Around, Startup, LoadConfig, WriteConfig, PrepareVault,
       RecoverMeta, OpenDirectory, HealthLoop, HealthReported, HealthFallback,
       HealthFails, DatasetInfo, WakeUp, Provision, RequestProvision,
       ListDataset, CreateDataset, MountVault, Unmount
  <2>2. CASE UNCHANGED cache
    BY <1>1, <2>2, AroundGroups DEF groupVars
  <2>3. CASE cache' = meta[Visible]
    BY <1>0, <1>1, <2>3, AroundGroups DEF groupVars
  <2>. QED
    BY <2>1, <2>2, <2>3
<1>2. ASSUME NEW g \in Groups, Upload(g) PROVE RecoverableInv'
  <2>1. CASE MakeDir(g)
    BY <2>1 DEF MakeDir, GoTo
  <2>2. CASE WriteShard(g)
    BY <2>2, NextShardGoes DEF WriteShard, GoTo
  <2>3. CASE WriteMeta(g)
    BY <1>0, <2>3, NextShardGoes DEF WriteMeta, GoTo
  <2>4. CASE InsertMeta(g)
    BY <2>4, NextShardGoes DEF InsertMeta, diskVars
  <2>5. CASE FlushDirectory(g)
    BY <2>5 DEF FlushDirectory, GoTo, diskVars
  <2>. QED
    BY <1>2, <2>1, <2>2, <2>3, <2>4, <2>5 DEF Upload
<1>3. ASSUME NEW g \in Groups, Delete(g) PROVE RecoverableInv'
  <2> USE DEF DeleteGoesTo
  <2>1. CASE StartWipe(g)
    BY <2>1 DEF StartWipe, diskVars
  <2>2. CASE StartCollect(g)
    BY <2>2 DEF StartCollect, diskVars
  <2>3. CASE RemoveDir(g)
    BY <2>3 DEF RemoveDir
  <2>4. CASE RemoveMeta(g)
    BY <1>0, <2>4 DEF RemoveMeta, PhaseInv
  <2>5. CASE Uncache(g)
    BY <2>5 DEF Uncache, diskVars
  <2>. QED
    BY <1>3, <2>1, <2>2, <2>3, <2>4, <2>5 DEF Delete
<1>4. CASE Restart
  BY <1>4 DEF Restart
<1>5. CASE UNCHANGED vars
  BY <1>5 DEF vars, groupVars, diskVars
<1>. QED
  BY <1>1, <1>2, <1>3, <1>4, <1>5 DEF Next, Around

(* What the cache shows has its metadata on one of the layers, whenever    *)
(* the dataset is mounted over the vault or taken from under it in the     *)
(* middle of an upload, a deletion or a start.                             *)
THEOREM Recoverable == Spec => []CachedIsRecoverable
<1>1. Init => RecoverableInv
  BY DEF Init, RecoverableInv, CachedIsRecoverable
<1>2. RecoverableInv => CachedIsRecoverable
  BY DEF RecoverableInv
<1>. QED
  BY <1>1, <1>2, PhaseHolds, RecoverableStep, PTL DEF Spec

----------------------------------------------------------------------------
(* Undisturbed runs.                                                       *)

(* In an undisturbed run no command has failed, and none has changed the   *)
(* layer of an open vault.                                                 *)
LEMMA CalmCommands ==
    ASSUME TypeOK, Calm'
    PROVE  /\ ~Fault
           /\ \A now : Mounted(now) /\ VaultOpen => now = mounted
<1>1. changes \in Nat /\ faults \in Nat /\ changes' = 0 /\ faults' = 0
  BY DEF TypeOK, Calm
<1>2. ~Fault
  BY <1>1 DEF Fault
<1>3. ASSUME NEW now, Mounted(now), VaultOpen, now # mounted PROVE FALSE
  BY <1>1, <1>3 DEF Mounted
<1>. QED
  BY <1>2, <1>3

LEMMA CalmBefore ==
    ASSUME TypeOK, [Next]_vars, Calm'
    PROVE  Calm
<1>0. /\ changes \in Nat /\ faults \in Nat
      /\ changes' = 0 /\ faults' = 0 /\ AutoProvision
  BY DEF TypeOK, Calm
<1>1. \/ UNCHANGED changes
      \/ changes' = changes + 1
  BY Zenon DEF Next, Startup, HealthLoop, Provision, Upload, Delete, LoadConfig,
     WriteConfig, PrepareVault, RecoverMeta, OpenDirectory, ListDataset,
     CreateDataset, MountVault, HealthReported, HealthFallback, HealthFails,
     DatasetInfo, WakeUp, RequestProvision, MakeDir, WriteShard, WriteMeta,
     InsertMeta, FlushDirectory, StartWipe, StartCollect, RemoveDir, RemoveMeta,
     Uncache, Unmount, Restart, zfsVars, vars, Mounted
<1>2. \/ UNCHANGED faults
      \/ faults' = faults + 1
  BY Zenon DEF Next, Startup, HealthLoop, Provision, Upload, Delete, LoadConfig,
     WriteConfig, PrepareVault, RecoverMeta, OpenDirectory, ListDataset,
     CreateDataset, MountVault, HealthReported, HealthFallback, HealthFails,
     DatasetInfo, WakeUp, RequestProvision, MakeDir, WriteShard, WriteMeta,
     InsertMeta, FlushDirectory, StartWipe, StartCollect, RemoveDir, RemoveMeta,
     Uncache, Unmount, Restart, zfsVars, vars, Fault
<1>. QED
  BY <1>0, <1>1, <1>2 DEF Calm

LEMMA CalmStartStep ==
    ASSUME TypeOK, CalmStart, Calm', [Next]_vars
    PROVE  CalmStart'
<1> USE DEF CalmStart, VaultOpen, Become
<1>0. /\ pc \in [Tasks -> {"config", "default", "list", "create", "mount",
                           "open", "recover", "directory", "serve", "down",
                           "idle", "check", "info", "sleep"}]
      /\ AutoProvision
  BY DEF TypeOK, Calm
<1>1. CASE Startup
  <2>1. CASE LoadConfig \/ WriteConfig
    BY <1>0, <2>1 DEF LoadConfig, WriteConfig, Start, zfsVars, diskVars
  <2>2. CASE PrepareVault \/ RecoverMeta \/ OpenDirectory
    BY <1>0, <2>2 DEF PrepareVault, RecoverMeta, OpenDirectory, Visible, zfsVars,
       diskVars, Tasks
  <2>3. CASE ListDataset("main")
    BY <1>0, <2>3, CalmCommands DEF ListDataset, Tasks
  <2>4. CASE CreateDataset("main")
    BY <1>0, <2>4, CalmCommands DEF CreateDataset, zfsVars, Tasks
  <2>5. CASE MountVault("main")
    BY <1>0, <2>5, CalmCommands DEF MountVault, Mounted, zfsVars, diskVars, Tasks
  <2>. QED
    BY <1>1, <2>1, <2>2, <2>3, <2>4, <2>5 DEF Startup
<1>2. CASE HealthLoop
  <2>1. CASE HealthReported \/ HealthFallback \/ HealthFails \/ WakeUp
    BY <1>0, <2>1 DEF HealthReported, HealthFallback, HealthFails, WakeUp, zfsVars,
       diskVars, Tasks
  <2>2. CASE MountVault("health")
    BY <1>0, <2>2, CalmCommands DEF MountVault, Mounted, zfsVars, diskVars, Tasks
  <2>3. CASE DatasetInfo
    BY <1>0, <2>3 DEF DatasetInfo, zfsVars, diskVars, Tasks
  <2>. QED
    BY <1>2, <2>1, <2>2, <2>3 DEF HealthLoop
<1>3. CASE Provision
  <2>1. CASE RequestProvision
    BY <1>0, <2>1 DEF RequestProvision, zfsVars, diskVars, Tasks
  <2>2. CASE ListDataset("api")
    BY <1>0, <2>2 DEF ListDataset, diskVars, Tasks
  <2>3. CASE CreateDataset("api")
    BY <1>0, <2>3, CalmCommands DEF CreateDataset, Mounted, zfsVars, diskVars, Tasks
  <2>. QED
    BY <1>3, <2>1, <2>2, <2>3 DEF Provision
<1>4. ASSUME NEW g \in Groups, Upload(g) \/ Delete(g) PROVE CalmStart'
  BY <1>4 DEF Upload, MakeDir, WriteShard, WriteMeta, InsertMeta, FlushDirectory,
     Delete, StartWipe, StartCollect, RemoveDir, RemoveMeta, Uncache, zfsVars,
     diskVars
<1>5. CASE Unmount
  BY <1>5, CalmCommands DEF Unmount, diskVars
<1>6. CASE Restart
  BY <1>6 DEF Restart, Idle, Tasks
<1>7. CASE UNCHANGED vars
  BY <1>7 DEF vars, zfsVars, diskVars
<1>. QED
  BY <1>1, <1>2, <1>3, <1>4, <1>5, <1>6, <1>7 DEF Next

(* What an upload has come past when it goes on after a shard.             *)
LEMMA NextShardDue ==
    ASSUME TypeOK, NEW g \in Groups, NextShard(g),
           spc[g] \in {"meta", "insert"} \/ spc[g] = "write"
    PROVE  /\ Due(g)' = 0 .. idx[g]
           /\ spc'[g] \in {"mkdir", "flush"}
<1>1. N \in Nat \ {0} /\ idx \in [Groups -> 0 .. N - 1]
  BY MountAssumption DEF MountAssumption, TypeOK, Shard
<1>2. CASE idx[g] + 1 < N
  <2>1. spc'[g] = "mkdir" /\ idx'[g] = idx[g] + 1
    BY <1>1, <1>2, GroupTypes DEF NextShard
  <2>2. 0 .. (idx[g] + 1) - 1 = 0 .. idx[g]
    BY <1>1
  <2>. QED
    BY <2>1, <2>2 DEF Due
<1>3. CASE ~(idx[g] + 1 < N)
  <2>1. spc'[g] = "flush"
    BY <1>1, <1>3, GroupTypes DEF NextShard, GoTo
  <2>2. Shard = 0 .. idx[g]
    BY <1>1, <1>3 DEF Shard
  <2>. QED
    BY <2>1, <2>2 DEF Due
<1>. QED
  BY <1>2, <1>3

LEMMA CalmUpload ==
    ASSUME TypeOK, PhaseInv, CalmStart, NEW g \in Groups, CalmGroup(g), Upload(g)
    PROVE  CalmGroup(g)'
<1> USE GroupTypes
<1>0. /\ Serving /\ Visible = "dataset" /\ Visible \in prepared
      /\ pc' = pc /\ doomed' = doomed
  BY Zenon DEF Upload, MakeDir, WriteShard, WriteMeta, InsertMeta, FlushDirectory,
     CalmStart, VaultOpen, Visible, Serving
<1>1. /\ dirs \in [Layers -> SUBSET Groups]
      /\ shards \in [Layers -> [Groups -> SUBSET Shard]]
      /\ meta \in [Layers -> SUBSET Groups]
      /\ Layers = {"dataset", "underlay"}
  BY DEF TypeOK, Layers
<1>2. idx[g] \in Nat
  BY MountAssumption DEF MountAssumption, Shard
<1>3. CASE MakeDir(g)
  BY <1>0, <1>1, <1>3 DEF MakeDir, GoTo, CalmGroup, Alive, Due
<1>4. CASE WriteShard(g)
  <2>1. g \in dirs["dataset"]
    BY <1>4 DEF WriteShard, CalmGroup
  <2>2. /\ spc[g] = "write" /\ spc'[g] = "meta" /\ idx' = idx
        /\ shards' = [shards EXCEPT !["dataset"][g] = @ \cup {idx[g]}]
        /\ UNCHANGED <<dirs, meta, cache>>
    BY <1>0, <1>4, <2>1 DEF WriteShard, GoTo
  <2>3. 0 .. idx[g] = (0 .. idx[g] - 1) \cup {idx[g]}
    BY <1>2
  <2>4. /\ shards'["dataset"][g] = shards["dataset"][g] \cup {idx[g]}
        /\ shards'["underlay"][g] = shards["underlay"][g]
    BY <1>1, <2>2
  <2>5. Due(g)' = Due(g) \cup {idx[g]}
    BY <2>2, <2>3 DEF Due
  <2>. QED
    BY <1>0, <2>2, <2>4, <2>5 DEF CalmGroup, Alive
<1>5. CASE WriteMeta(g)
  <2>1. /\ spc[g] = "meta" /\ spc'[g] = "insert" /\ idx' = idx
        /\ meta' = [meta EXCEPT !["dataset"] = @ \cup {g}]
        /\ UNCHANGED <<dirs, shards, cache>>
    BY <1>0, <1>5 DEF WriteMeta, GoTo
  <2>. QED
    BY <1>0, <1>1, <2>1 DEF CalmGroup, Alive, Due
<1>6. CASE InsertMeta(g)
  <2>1. spc[g] = "insert" /\ NextShard(g)
    BY <1>6 DEF InsertMeta
  <2>2. Due(g)' = Due(g) /\ spc'[g] \in {"mkdir", "flush"}
    BY <2>1, NextShardDue DEF Due
  <2>3. cache' = cache \cup {g} /\ UNCHANGED <<dirs, shards, meta>>
    BY <1>6 DEF InsertMeta, diskVars
  <2>. QED
    BY <1>0, <2>1, <2>2, <2>3 DEF CalmGroup, Alive
<1>7. CASE FlushDirectory(g)
  BY <1>0, <1>7 DEF FlushDirectory, GoTo, CalmGroup, Alive, Due, diskVars
<1>. QED
  BY <1>3, <1>4, <1>5, <1>6, <1>7 DEF Upload

(* Another group's operations.                                             *)
LEMMA OtherUpload ==
    ASSUME TypeOK, NEW g \in Groups, Upload(g), NEW h \in Groups, h # g
    PROVE  /\ spc'[h] = spc[h] /\ idx'[h] = idx[h]
           /\ \A layer \in Layers :
                 /\ h \in dirs'[layer] <=> h \in dirs[layer]
                 /\ shards'[layer][h] = shards[layer][h]
                 /\ h \in meta'[layer] <=> h \in meta[layer]
           /\ h \in cache' <=> h \in cache
           /\ UNCHANGED <<zfsVars, pc, doomed>>
<1> USE GroupTypes
<1>1. /\ dirs \in [Layers -> SUBSET Groups]
      /\ shards \in [Layers -> [Groups -> SUBSET Shard]]
      /\ meta \in [Layers -> SUBSET Groups]
      /\ Visible \in Layers
  BY DEF TypeOK, Visible, Layers
<1>2. CASE MakeDir(g)
  BY <1>1, <1>2 DEF MakeDir, GoTo
<1>3. CASE WriteShard(g)
  BY <1>1, <1>3, NextShardGoes DEF WriteShard, GoTo
<1>4. CASE WriteMeta(g)
  BY <1>1, <1>4, NextShardGoes DEF WriteMeta, GoTo
<1>5. CASE InsertMeta(g)
  BY <1>1, <1>5, NextShardGoes DEF InsertMeta, diskVars
<1>6. CASE FlushDirectory(g)
  BY <1>1, <1>6 DEF FlushDirectory, GoTo, diskVars
<1>. QED
  BY <1>2, <1>3, <1>4, <1>5, <1>6 DEF Upload

LEMMA DeleteTouches ==
    ASSUME TypeOK, NEW g \in Groups, Delete(g), NEW h \in Groups
    PROVE  /\ UNCHANGED <<spc, idx, zfsVars, pc, published>>
           /\ doomed' = doomed \/ doomed' = doomed \cup {g}
           /\ h # g =>
                 /\ \A layer \in Layers :
                       /\ h \in dirs'[layer] <=> h \in dirs[layer]
                       /\ shards'[layer][h] = shards[layer][h]
                       /\ h \in meta'[layer] <=> h \in meta[layer]
                 /\ h \in cache' <=> h \in cache
<1> USE GroupTypes DEF DeleteGoesTo
<1>1. /\ dirs \in [Layers -> SUBSET Groups]
      /\ shards \in [Layers -> [Groups -> SUBSET Shard]]
      /\ meta \in [Layers -> SUBSET Groups]
      /\ Visible \in Layers
  BY DEF TypeOK, Visible, Layers
<1>2. CASE StartWipe(g) \/ StartCollect(g)
  BY <1>2 DEF StartWipe, StartCollect, diskVars
<1>3. CASE RemoveDir(g)
  BY <1>1, <1>3 DEF RemoveDir
<1>4. CASE RemoveMeta(g)
  BY <1>1, <1>4 DEF RemoveMeta
<1>5. CASE Uncache(g)
  BY <1>5 DEF Uncache, diskVars
<1>. QED
  BY <1>2, <1>3, <1>4, <1>5 DEF Delete

LEMMA CalmAround ==
    ASSUME TypeOK, CalmStart, Around, NEW g \in Groups, CalmGroup(g), PhaseInv
    PROVE  CalmGroup(g)'
<1>0. pc \in [Tasks -> {"config", "default", "list", "create", "mount",
                        "open", "recover", "directory", "serve", "down",
                        "idle", "check", "info", "sleep"}]
  BY DEF TypeOK
<1>1. pc'["main"] \in {"directory", "serve"} /\ g \in meta["dataset"] =>
          g \in cache' \/ pc["main"] \in {"directory", "serve"}
  <2> USE DEF Become, Tasks
  <2>1. CASE Startup
    <3>1. CASE RecoverMeta
      BY <1>0, <3>1, Zenon DEF RecoverMeta, Visible, CalmStart, VaultOpen
    <3>. QED
      BY <1>0, <2>1, <3>1 DEF Startup, LoadConfig, WriteConfig, PrepareVault,
         OpenDirectory, ListDataset, CreateDataset, MountVault, Start
  <2>2. CASE HealthLoop
    BY <1>0, <2>2 DEF HealthLoop, HealthReported, HealthFallback, HealthFails,
       MountVault, DatasetInfo, WakeUp
  <2>3. CASE Provision
    BY <1>0, <2>3 DEF Provision, RequestProvision, ListDataset, CreateDataset
  <2>4. CASE Unmount
    BY <2>4 DEF Unmount
  <2>. QED
    BY <2>1, <2>2, <2>3, <2>4 DEF Around
<1>2. pc["main"] \in {"directory", "serve"} => cache' = cache
  BY DEF Around, Startup, HealthLoop, Provision, LoadConfig, WriteConfig,
     PrepareVault, RecoverMeta, OpenDirectory, ListDataset, CreateDataset,
     MountVault, HealthReported, HealthFallback, HealthFails, DatasetInfo, WakeUp,
     RequestProvision, Unmount
<1>. QED
  BY <1>1, <1>2, AroundGroups DEF CalmGroup, Alive, Due, groupVars

LEMMA CalmStep == TypeOK /\ PhaseInv /\ CalmInv /\ [Next]_vars => CalmInv'
<1> SUFFICES ASSUME TypeOK, PhaseInv, CalmInv, [Next]_vars, Calm'
             PROVE  CalmStart' /\ \A g \in Groups : CalmGroup(g)'
  BY DEF CalmInv
<1>1. CalmStart /\ \A g \in Groups : CalmGroup(g)
  BY CalmBefore DEF CalmInv
<1>2. CalmStart'
  BY <1>1, CalmStartStep
<1>3. ASSUME NEW h \in Groups PROVE CalmGroup(h)'
  <2>0. CalmGroup(h)
    BY <1>1
  <2>1. CASE Around
    BY <1>1, <2>1, CalmAround
  <2>2. ASSUME NEW g \in Groups, Upload(g) PROVE CalmGroup(h)'
    <3>1. CASE h = g
      BY <1>1, <2>2, <3>1, CalmUpload
    <3>2. CASE h # g
      <4>1. {"dataset", "underlay"} = Layers
        BY DEF Layers
      <4>. QED
        BY <2>0, <2>2, <3>2, <4>1, OtherUpload DEF CalmGroup, Alive, Due
    <3>. QED
      BY <3>1, <3>2
  <2>3. ASSUME NEW g \in Groups, Delete(g) PROVE CalmGroup(h)'
    <3>0. {"dataset", "underlay"} = Layers
      BY DEF Layers
    <3>1. CASE h # g
      BY <2>0, <2>3, <3>0, <3>1, DeleteTouches DEF CalmGroup, Alive, Due
    <3>2. CASE h = g
      <4>1. h \in doomed' /\ spc'[h] # "write"
        BY <2>3, <3>2, GroupTypes DEF Delete, StartWipe, StartCollect, RemoveDir,
           RemoveMeta, Uncache, PhaseInv
      <4>2. shards'["underlay"][h] \subseteq shards["underlay"][h]
        <5>1. /\ shards \in [Layers -> [Groups -> SUBSET Shard]]
              /\ Visible \in Layers
          BY DEF TypeOK, Visible, Layers
        <5>. QED
          BY <2>3, <3>0, <5>1 DEF Delete, StartWipe, StartCollect, RemoveDir,
             RemoveMeta, Uncache, diskVars
      <4>. QED
        BY <2>0, <4>1, <4>2 DEF CalmGroup, Alive
    <3>. QED
      BY <3>1, <3>2
  <2>4. CASE Restart
    <3>1. /\ UNCHANGED <<dirs, shards, meta, idx, doomed>>
          /\ pc'["main"] = "config"
          /\ \/ spc'[h] = spc[h] /\ spc[h] \in {"mkdir", "done"}
             \/ spc'[h] = "gone"
      BY <2>4, GroupTypes DEF Restart, Idle, Tasks, diskVars
    <3>. QED
      BY <2>0, <3>1 DEF CalmGroup, Alive, Due
  <2>5. CASE UNCHANGED vars
    BY <2>0, <2>5 DEF vars, groupVars, diskVars, CalmGroup, Alive, Due
  <2>. QED
    BY <2>1, <2>2, <2>3, <2>4, <2>5 DEF Next, Around
<1>. QED
  BY <1>2, <1>3

LEMMA CalmInit == Init => CalmInv
<1> SUFFICES ASSUME Init PROVE CalmStart /\ \A g \in Groups : CalmGroup(g)
  BY DEF CalmInv
<1>1. CalmStart
  BY DEF Init, Idle, Tasks, CalmStart, VaultOpen
<1>2. ASSUME NEW g \in Groups PROVE CalmGroup(g)
  <2>1. 0 .. -1 = {}
    OBVIOUS
  <2>2. idx[g] = 0 /\ spc[g] = "mkdir" /\ shards["underlay"][g] = {}
    BY DEF Init, Layers
  <2>3. Due(g) = {}
    BY <2>1, <2>2 DEF Due
  <2>. QED
    BY <2>2, <2>3 DEF CalmGroup
<1>. QED
  BY <1>1, <1>2

LEMMA CalmImplies == TypeOK /\ PhaseInv /\ CalmInv => UndisturbedOnDataset
<1> SUFFICES ASSUME TypeOK, PhaseInv, CalmInv, Calm PROVE UndisturbedOnDataset
  BY DEF UndisturbedOnDataset, Calm
<1>1. CalmStart /\ \A g \in Groups : CalmGroup(g)
  BY DEF CalmInv
<1>2. ASSUME NEW g \in published \ doomed
      PROVE  /\ shards["dataset"][g] = Shard
             /\ Serving => g \in cache
  <2>1. g \in Groups /\ spc[g] = "done"
    BY <1>2, GroupTypes DEF PhaseInv
  <2>2. shards["dataset"][g] \subseteq Shard
    BY <2>1 DEF TypeOK, Layers
  <2>3. Due(g) = Shard /\ Alive(g)
    BY <1>2, <2>1 DEF Due, Alive
  <2>. QED
    BY <1>1, <2>1, <2>2, <2>3 DEF CalmGroup, Serving
<1>3. Serving => mounted
  BY <1>1 DEF CalmStart, VaultOpen, Serving
<1>4. \A g \in Groups : shards["underlay"][g] = {}
  BY <1>1 DEF CalmGroup
<1>. QED
  BY <1>2, <1>3, <1>4, Zenon DEF UndisturbedOnDataset

(* With no command failing and nobody unmounting under an open vault, what *)
(* is acknowledged is whole on the dataset and, under a serving daemon,    *)
(* visible and cached, through any number of restarts of daemon and host;  *)
(* and nothing is ever put beside the dataset.                             *)
THEOREM Undisturbed == Spec => []UndisturbedOnDataset
  BY CalmInit, CalmStep, CalmImplies, PhaseHolds, PTL DEF Spec

----------------------------------------------------------------------------
(* Changes of the layer.                                                   *)

LEMMA DueFinite ==
    ASSUME TypeOK, NEW g \in Groups
    PROVE  IsFiniteSet(Due(g)) /\ IsFiniteSet(Missing(g))
<1>1. N \in Nat \ {0} /\ idx[g] \in Nat
  BY MountAssumption, GroupTypes DEF MountAssumption, Shard
<1>2. /\ IsFiniteSet(0 .. idx[g] - 1) /\ IsFiniteSet(0 .. idx[g])
      /\ IsFiniteSet(Shard)
  <2>1. idx[g] - 1 \in Int /\ idx[g] \in Int /\ N - 1 \in Int /\ 0 \in Int
    BY <1>1
  <2>. QED
    BY <2>1, FS_Interval DEF Shard
<1>3. IsFiniteSet(Due(g))
  BY <1>2 DEF Due
<1>. QED
  BY <1>3, FS_Subset DEF Missing

(* Fewer shards missing, or at most one more.                              *)
LEMMA MissingBound ==
    ASSUME TypeOK, NEW g \in Groups, NEW x, NEW S
    PROVE  /\ Cardinality(Missing(g)) \in Nat
           /\ S \subseteq Missing(g) =>
                 Cardinality(S) \in Nat /\ Cardinality(S) <= Cardinality(Missing(g))
           /\ S \subseteq Missing(g) \cup {x} =>
                 /\ Cardinality(S) \in Nat
                 /\ Cardinality(S) <= Cardinality(Missing(g)) + 1
<1>1. IsFiniteSet(Missing(g))
  BY DueFinite
<1>2. Cardinality(Missing(g)) \in Nat
  BY <1>1, FS_CardinalityType
<1>3. ASSUME S \subseteq Missing(g)
      PROVE  Cardinality(S) \in Nat /\ Cardinality(S) <= Cardinality(Missing(g))
  BY <1>1, <1>3, FS_Subset, FS_CardinalityType
<1>4. ASSUME S \subseteq Missing(g) \cup {x}
      PROVE  /\ Cardinality(S) \in Nat
             /\ Cardinality(S) <= Cardinality(Missing(g)) + 1
  <2>1. /\ IsFiniteSet(Missing(g) \cup {x})
        /\ Cardinality(Missing(g) \cup {x}) \in Nat
        /\ Cardinality(Missing(g) \cup {x}) <= Cardinality(Missing(g)) + 1
    <3>1. /\ IsFiniteSet(Missing(g) \cup {x})
          /\ \/ Cardinality(Missing(g) \cup {x}) = Cardinality(Missing(g))
             \/ Cardinality(Missing(g) \cup {x}) = Cardinality(Missing(g)) + 1
      BY <1>1, FS_AddElement
    <3>. QED
      BY <1>2, <3>1
  <2>2. /\ Cardinality(S) \in Nat
        /\ Cardinality(S) <= Cardinality(Missing(g) \cup {x})
    BY <1>4, <2>1, FS_Subset, FS_CardinalityType
  <2>. QED
    BY <1>2, <2>1, <2>2
<1>. QED
  BY <1>2, <1>3, <1>4

(* A step that leaves a group's upload and shards as they are, and hides   *)
(* its directory only by a change of the layer that it counts.             *)
LEMMA LossFrame ==
    ASSUME TypeOK, TypeOK', NEW g \in Groups, GroupLoss(g), Alive(g)' => Alive(g),
           Alive(g)' => Due(g)' = Due(g) /\ OnAnyLayer(g)' = OnAnyLayer(g),
           \/ changes <= changes' /\ Charge(g)' <= Charge(g)
           \/ changes' = changes + 1
    PROVE  GroupLoss(g)'
<1> SUFFICES ASSUME Alive(g)'
             PROVE  Cardinality(Missing(g)') + Charge(g)' <= changes'
  BY DEF GroupLoss
<1>1. Missing(g)' = Missing(g)
  BY DEF Missing
<1>2. Cardinality(Missing(g)) \in Nat
  BY MissingBound
<1>3. changes \in Nat /\ changes' \in Nat
  BY DEF TypeOK
<1>4. Charge(g) \in {0, 1} /\ Charge(g)' \in {0, 1}
  BY DEF Charge
<1>. QED
  BY <1>1, <1>2, <1>3, <1>4 DEF GroupLoss

LEMMA LossUpload ==
    ASSUME TypeOK, TypeOK', NEW g \in Groups, GroupLoss(g), Upload(g)
    PROVE  GroupLoss(g)'
<1> SUFFICES ASSUME Alive(g)'
             PROVE  Cardinality(Missing(g)') + Charge(g)' <= changes'
  BY DEF GroupLoss
<1> USE GroupTypes
<1>0. /\ UNCHANGED <<mounted, changes, doomed>>
      /\ spc[g] # "gone" /\ spc[g] # "done"
  BY DEF Upload, MakeDir, WriteShard, WriteMeta, InsertMeta, FlushDirectory, zfsVars
<1>1. Cardinality(Missing(g)) + Charge(g) <= changes
  BY <1>0 DEF GroupLoss, Alive
<1>2. /\ shards \in [Layers -> [Groups -> SUBSET Shard]]
      /\ dirs \in [Layers -> SUBSET Groups]
      /\ Visible \in Layers
      /\ Layers = {"dataset", "underlay"}
  BY DEF TypeOK, Visible, Layers
<1>3. changes \in Nat /\ Charge(g) \in {0, 1}
  BY DEF TypeOK, Charge
<1>4. idx[g] \in Nat
  BY MountAssumption DEF MountAssumption, Shard
<1>5. Visible' = Visible
  BY <1>0 DEF Visible
<1>6. SUFFICES /\ Charge(g)' = 0
               /\ \/ Missing(g)' \subseteq Missing(g)
                  \/ Charge(g) = 1 /\ Missing(g)' \subseteq Missing(g) \cup {idx[g]}
  BY <1>0, <1>1, <1>3, MissingBound
<1>7. CASE MakeDir(g)
  <2>1. /\ spc[g] = "mkdir" /\ spc'[g] = "write"
        /\ UNCHANGED <<idx, shards>> /\ g \in dirs'[Visible]
    BY <1>2, <1>7 DEF MakeDir, GoTo
  <2>. QED
    BY <1>5, <2>1 DEF Charge, Missing, Due, OnAnyLayer
<1>8. CASE WriteShard(g)
  <2>1. 0 .. idx[g] = (0 .. idx[g] - 1) \cup {idx[g]}
    BY <1>4
  <2>2. Due(g) = 0 .. idx[g] - 1
    BY <1>8 DEF WriteShard, Due
  <2>3. CASE g \in dirs[Visible]
    <3>1. /\ spc'[g] = "meta" /\ UNCHANGED idx
          /\ shards' = [shards EXCEPT ![Visible][g] = @ \cup {idx[g]}]
      BY <1>8, <2>3 DEF WriteShard, GoTo
    <3>2. OnAnyLayer(g)' = OnAnyLayer(g) \cup {idx[g]}
      BY <1>2, <3>1 DEF OnAnyLayer
    <3>3. Due(g)' = Due(g) \cup {idx[g]}
      BY <2>1, <2>2, <3>1 DEF Due
    <3>. QED
      BY <3>1, <3>2, <3>3 DEF Charge, Missing
  <2>4. CASE g \notin dirs[Visible]
    <3>1. NextShard(g) /\ UNCHANGED shards /\ spc[g] = "write"
      BY <1>8, <2>4 DEF WriteShard
    <3>2. Due(g)' = Due(g) \cup {idx[g]} /\ spc'[g] \in {"mkdir", "flush"}
      BY <2>1, <2>2, <3>1, NextShardDue
    <3>. QED
      BY <2>4, <3>1, <3>2 DEF Charge, Missing, OnAnyLayer
  <2>. QED
    BY <2>3, <2>4
<1>9. CASE WriteMeta(g) \/ InsertMeta(g)
  <2>1. /\ spc[g] \in {"meta", "insert"} /\ UNCHANGED shards
        /\ \/ spc'[g] = "insert" /\ UNCHANGED idx
           \/ NextShard(g)
    BY <1>9 DEF WriteMeta, InsertMeta, GoTo, diskVars
  <2>2. Due(g)' = Due(g) /\ spc'[g] # "write"
    BY <2>1, NextShardDue DEF Due
  <2>. QED
    BY <2>1, <2>2 DEF Charge, Missing, OnAnyLayer
<1>10. CASE FlushDirectory(g)
  <2>1. spc[g] = "flush" /\ spc'[g] = "done" /\ UNCHANGED shards
    BY <1>10 DEF FlushDirectory, GoTo, diskVars
  <2>. QED
    BY <2>1 DEF Charge, Missing, Due, OnAnyLayer
<1>. QED
  BY <1>7, <1>8, <1>9, <1>10 DEF Upload

(* The steps around the operations change the layer of an open vault only  *)
(* with a count.                                                           *)
LEMMA AroundChanges ==
    ASSUME TypeOK, Around
    PROVE  \/ changes' = changes + 1
           \/ UNCHANGED changes /\ (mounted' = mounted \/ ~VaultOpen)
<1>1. ASSUME NEW now, Mounted(now)
      PROVE  \/ changes' = changes + 1
             \/ UNCHANGED changes /\ (mounted' = mounted \/ ~VaultOpen)
  <2>1. CASE VaultOpen /\ now # mounted
    BY <1>1, <2>1 DEF Mounted
  <2>2. CASE ~(VaultOpen /\ now # mounted)
    BY <1>1, <2>2 DEF Mounted
  <2>. QED
    BY <2>1, <2>2
<1>2. UNCHANGED <<mounted, changes>> \/ Mounted(TRUE) \/ Mounted(FALSE)
  BY DEF Around, Startup, HealthLoop, Provision, LoadConfig, WriteConfig,
     PrepareVault, RecoverMeta, OpenDirectory, ListDataset, CreateDataset,
     MountVault, HealthReported, HealthFallback, HealthFails, DatasetInfo, WakeUp,
     RequestProvision, Unmount, zfsVars
<1>. QED
  BY <1>1, <1>2

LEMMA LossStep == TypeOK /\ PhaseInv /\ LossInv /\ [Next]_vars => LossInv'
<1> SUFFICES ASSUME TypeOK, PhaseInv, LossInv, [Next]_vars, NEW h \in Groups
             PROVE  GroupLoss(h)'
  BY DEF LossInv
<1>0. TypeOK' /\ GroupLoss(h)
  BY TypeStep DEF LossInv
<1>1. changes \in Nat /\ Charge(h) \in {0, 1}
  BY DEF TypeOK, Charge
<1>2. Visible \in Layers /\ Layers = {"dataset", "underlay"}
  BY DEF Visible, Layers
<1>3. CASE Around
  <2>1. UNCHANGED <<spc, idx, doomed, dirs, shards>>
    BY <1>3, AroundGroups DEF groupVars
  <2>2. /\ Alive(h)' = Alive(h) /\ Due(h)' = Due(h)
        /\ OnAnyLayer(h)' = OnAnyLayer(h)
    BY <2>1 DEF Alive, Due, OnAnyLayer
  <2>3. \/ changes' = changes + 1
        \/ UNCHANGED changes /\ Charge(h)' = Charge(h)
    <3>1. CASE mounted' = mounted /\ UNCHANGED changes
      BY <2>1, <3>1 DEF Charge, Visible
    <3>2. CASE ~VaultOpen /\ UNCHANGED changes
      <4>1. spc[h] # "write" /\ spc'[h] # "write"
        BY <2>1, <3>2 DEF PhaseInv, Serving, VaultOpen
      <4>. QED
        BY <3>2, <4>1 DEF Charge
    <3>. QED
      BY <1>3, <3>1, <3>2, AroundChanges
  <2>. QED
    BY <1>0, <1>1, <2>2, <2>3, LossFrame
<1>4. ASSUME NEW g \in Groups, Upload(g) PROVE GroupLoss(h)'
  <2>1. CASE h = g
    BY <1>0, <1>4, <2>1, LossUpload
  <2>2. CASE h # g
    <3>1. /\ spc'[h] = spc[h] /\ idx'[h] = idx[h]
          /\ \A layer \in Layers :
                /\ h \in dirs'[layer] <=> h \in dirs[layer]
                /\ shards'[layer][h] = shards[layer][h]
          /\ UNCHANGED <<mounted, changes, doomed>>
      BY <1>4, <2>2, OtherUpload DEF zfsVars
    <3>2. /\ Alive(h)' = Alive(h) /\ Due(h)' = Due(h)
          /\ OnAnyLayer(h)' = OnAnyLayer(h)
      BY <1>2, <3>1 DEF Alive, Due, OnAnyLayer
    <3>3. Charge(h)' = Charge(h)
      <4>1. Visible' = Visible
        BY <3>1 DEF Visible
      <4>. QED
        BY <1>2, <3>1, <4>1 DEF Charge
    <3>. QED
      BY <1>0, <1>1, <3>1, <3>2, <3>3, LossFrame
  <2>. QED
    BY <2>1, <2>2
<1>5. ASSUME NEW g \in Groups, Delete(g) PROVE GroupLoss(h)'
  <2>0. /\ UNCHANGED <<spc, idx, mounted, changes>>
        /\ doomed \subseteq doomed'
    BY <1>5, DeleteTouches DEF zfsVars
  <2>1. CASE h = g
    <3>1. h \in doomed'
      BY <1>5, <2>1, GroupTypes DEF Delete, StartWipe, StartCollect, RemoveDir,
         RemoveMeta, Uncache, PhaseInv
    <3>. QED
      BY <3>1 DEF GroupLoss, Alive
  <2>2. CASE h # g
    <3>1. \A layer \in Layers :
             /\ h \in dirs'[layer] <=> h \in dirs[layer]
             /\ shards'[layer][h] = shards[layer][h]
      BY <1>5, <2>2, DeleteTouches
    <3>2. /\ Alive(h)' => Alive(h) /\ Due(h)' = Due(h)
          /\ OnAnyLayer(h)' = OnAnyLayer(h)
      BY <1>2, <2>0, <3>1 DEF Alive, Due, OnAnyLayer
    <3>3. Due(h)' = Due(h)
      BY <2>0 DEF Due
    <3>4. Charge(h)' = Charge(h)
      <4>1. Visible' = Visible
        BY <2>0 DEF Visible
      <4>. QED
        BY <1>2, <2>0, <3>1, <4>1 DEF Charge
    <3>. QED
      BY <1>0, <1>1, <2>0, <3>2, <3>3, <3>4, LossFrame
  <2>. QED
    BY <2>1, <2>2
<1>6. CASE Restart
  <2>1. /\ UNCHANGED <<dirs, shards, idx, doomed, changes>>
        /\ \/ spc'[h] = spc[h] /\ spc[h] \in {"mkdir", "done"}
           \/ spc'[h] = "gone"
    BY <1>6, GroupTypes DEF Restart, diskVars
  <2>2. /\ Alive(h)' => Alive(h)
        /\ Alive(h)' => Due(h)' = Due(h) /\ OnAnyLayer(h)' = OnAnyLayer(h)
    BY <2>1 DEF Alive, Due, OnAnyLayer
  <2>3. Charge(h)' = 0
    BY <2>1 DEF Charge
  <2>. QED
    BY <1>0, <1>1, <2>1, <2>2, <2>3, LossFrame
<1>7. CASE UNCHANGED vars
  BY <1>0, <1>7 DEF vars, zfsVars, diskVars, groupVars, GroupLoss, Alive, Missing, Due,
     OnAnyLayer, Charge, Visible
<1>. QED
  BY <1>3, <1>4, <1>5, <1>6, <1>7 DEF Next, Around

LEMMA LossInit == Init => LossInv
<1> SUFFICES ASSUME Init, NEW g \in Groups
             PROVE  Cardinality(Missing(g)) + Charge(g) <= changes
  BY DEF LossInv, GroupLoss
<1>1. 0 .. -1 = {}
  OBVIOUS
<1>2. idx[g] = 0 /\ spc[g] = "mkdir" /\ changes = 0
  BY DEF Init
<1>3. Missing(g) = {} /\ Charge(g) = 0
  BY <1>1, <1>2 DEF Missing, Due, Charge
<1>4. Cardinality({}) = 0
  BY FS_EmptySet
<1>. QED
  BY <1>2, <1>3, <1>4

LEMMA LossImplies == TypeOK /\ PhaseInv /\ LossInv => ChangeLosesOneShard
<1> SUFFICES ASSUME TypeOK, PhaseInv, LossInv, NEW g \in published \ doomed
             PROVE  Cardinality(Shard \ OnAnyLayer(g)) <= changes
  BY DEF ChangeLosesOneShard
<1>1. g \in Groups /\ spc[g] = "done"
  BY GroupTypes DEF PhaseInv
<1>2. Missing(g) = Shard \ OnAnyLayer(g) /\ Charge(g) = 0 /\ Alive(g)
  BY <1>1 DEF Missing, Due, Charge, Alive
<1>3. Cardinality(Missing(g)) \in Nat
  BY <1>1, MissingBound
<1>4. Cardinality(Missing(g)) + Charge(g) <= changes
  BY <1>1, <1>2 DEF LossInv, GroupLoss
<1>. QED
  BY <1>2, <1>3, <1>4

(* For any number of shards, an acknowledged upload has lost no more of    *)
(* them than the number of times its layer changed while the vault was     *)
(* open.                                                                   *)
THEOREM LossBounded == Spec => []ChangeLosesOneShard
  BY LossInit, LossStep, LossImplies, PhaseHolds, PTL DEF Spec
=============================================================================
