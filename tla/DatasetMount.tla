---------------------------- MODULE DatasetMount ----------------------------
(***************************************************************************)
(* The TrueNAS bridge of truenas.rs, the order in which main.rs starts the *)
(* daemon, and what both do to the vault.  The vault's directory is the    *)
(* mount point of a ZFS dataset: while the dataset is mounted the vault's  *)
(* paths lead to it, and otherwise to the directory underneath.  The       *)
(* daemon provisions and mounts the dataset when it starts, but goes on    *)
(* when that fails; the health loop mounts it later, under a vault that is *)
(* in use; and the REST API provisions at any time.                        *)
(*                                                                         *)
(* The vault is seen as far as a change of layer can be noticed: which     *)
(* shards and metadata files are on which layer.  Its steps in full, with  *)
(* I/O errors and several tasks at one group, are in module Vault.  Quota  *)
(* and alerts are passed on to TrueNAS and change nothing here.            *)
(***************************************************************************)
EXTENDS Integers, FiniteSets

CONSTANTS
    Groups,          \* group ids, one upload each
    N,               \* shards of a group
    AutoProvision,   \* auto_provision_dataset
    MaxFaults,       \* bound on the zfs commands that fail
    MaxChanges,      \* bound on unmounting by others while the vault is open
    MaxRestarts      \* bound on restarts of the daemon or its host

ASSUME MountAssumption ==
    /\ N \in Nat \ {0}
    /\ AutoProvision \in BOOLEAN
    /\ MaxFaults \in Nat
    /\ MaxChanges \in Nat
    /\ MaxRestarts \in Nat

VARIABLES
    config,      \* the configuration file: "none", "torn" or "written"
    exists,      \* the dataset is in the pool
    mounted,     \* the dataset is mounted
    prepared,    \* the layers with the directories that Vault::open makes
    dirs,        \* dirs[layer]: the groups with a directory there
    shards,      \* shards[layer][g]: the shards of g there
    meta,        \* meta[layer]: the groups with a metadata file there
    cache,       \* the groups in meta_cache
    pc,          \* where main, the health loop and a provision request are
    spc, idx,    \* the upload of g, and the shard it is at
    dpc,         \* the deletion of g
    published,   \* the groups of acknowledged uploads
    doomed,      \* the groups that a deletion has been asked for
    changes,     \* changes of the visible layer since the vault was opened
    faults,      \* zfs commands that have failed so far
    restarts     \* restarts so far

zfsVars == <<exists, mounted, changes, faults>>
diskVars == <<prepared, dirs, shards, meta>>
groupVars == <<spc, idx, dpc, published, doomed>>
startVars == <<config, restarts>>
vars == <<zfsVars, diskVars, cache, pc, groupVars, startVars>>

Layers == {"dataset", "underlay"}
Tasks == {"main", "health", "api"}
Shard == 0 .. N - 1

(* Where the vault's paths lead.                                           *)
Visible == IF mounted THEN "dataset" ELSE "underlay"

Serving == pc["main"] = "serve"

(* main has come to Vault::open: a change of the layer is one underneath.  *)
VaultOpen == pc["main"] \in {"open", "recover", "directory", "serve"}

Become(t, step) == pc' = [pc EXCEPT ![t] = step]

----------------------------------------------------------------------------
Idle(main) == [t \in Tasks |-> IF t = "main" THEN main ELSE "idle"]

Init ==
    /\ config = "none"
    /\ exists \in BOOLEAN
    /\ mounted = FALSE
    /\ prepared = {}
    /\ dirs = [layer \in Layers |-> {}]
    /\ shards = [layer \in Layers |-> [g \in Groups |-> {}]]
    /\ meta = [layer \in Layers |-> {}]
    /\ cache = {}
    /\ pc = Idle("config")
    /\ spc = [g \in Groups |-> "mkdir"]
    /\ idx = [g \in Groups |-> 0]
    /\ dpc = [g \in Groups |-> "idle"]
    /\ published = {}
    /\ doomed = {}
    /\ changes = 0
    /\ faults = 0
    /\ restarts = 0

----------------------------------------------------------------------------
(* main, up to the server.                                                 *)

\* As the code would be if it opened the vault before it mounted it.
StartOpensFirst == "open"

Start == IF AutoProvision THEN "list" ELSE "open"

(* load_or_create: a file that does not parse ends the daemon, and one     *)
(* that is not there is created and then written.                          *)
LoadConfig ==
    /\ pc["main"] = "config"
    /\ CASE config = "none" -> config' = "torn" /\ Become("main", "default")
         [] config = "torn" -> UNCHANGED config /\ Become("main", "down")
         [] OTHER           -> UNCHANGED config /\ Become("main", Start)
    /\ UNCHANGED <<zfsVars, diskVars, cache, groupVars, restarts>>

WriteConfig ==
    /\ pc["main"] = "default"
    /\ config' = "written"
    /\ Become("main", Start)
    /\ UNCHANGED <<zfsVars, diskVars, cache, groupVars, restarts>>

(* Vault::open makes its directories on the layer it finds ...             *)
PrepareVault ==
    /\ pc["main"] = "open"
    /\ prepared' = prepared \cup {Visible}
    /\ Become("main", "recover")
    /\ UNCHANGED <<zfsVars, dirs, shards, meta, cache, groupVars,
                   startVars>>

(* ... and reads the metadata.  Without .meta/ the daemon ends.            *)
RecoverMeta ==
    /\ pc["main"] = "recover"
    /\ IF Visible \in prepared
       THEN cache' = meta[Visible] /\ Become("main", "directory")
       ELSE UNCHANGED cache /\ Become("main", "down")
    /\ UNCHANGED <<zfsVars, diskVars, groupVars, startVars>>

(* EncryptedDirectory::open makes .meta/ again, which directory.enc is in; *)
(* then main starts the health loop and the server.                        *)
OpenDirectory ==
    /\ pc["main"] = "directory"
    /\ prepared' = prepared \cup {Visible}
    /\ pc' = [pc EXCEPT !["main"] = "serve", !["health"] = "check"]
    /\ UNCHANGED <<zfsVars, dirs, shards, meta, cache, groupVars,
                   startVars>>

----------------------------------------------------------------------------
(* The commands.  A dataset that gets mounted, or unmounted, changes the   *)
(* layer under a vault that is open.                                       *)

Mounted(now) ==
    /\ mounted' = now
    /\ changes' = IF VaultOpen /\ now # mounted THEN changes + 1 ELSE changes

Fault == faults < MaxFaults /\ faults' = faults + 1

(* provision_vault_dataset, `zfs list`: an error counts as "not there".    *)
ListDataset(t) ==
    /\ pc[t] = "list"
    /\ \/ exists /\ Become(t, IF t = "main" THEN "mount" ELSE "idle")
          /\ UNCHANGED faults
       \/ ~exists /\ Become(t, "create") /\ UNCHANGED faults
       \/ Fault /\ Become(t, "create")
    /\ UNCHANGED <<exists, mounted, changes, diskVars, cache,
                   groupVars, startVars>>

(* `zfs create` also mounts.  It fails on a dataset that is there, before  *)
(* it does anything, or when the new dataset cannot be mounted.            *)
CreateDataset(t) ==
    /\ pc[t] = "create"
    /\ \/ exists /\ UNCHANGED zfsVars
       \/ ~exists /\ exists' = TRUE /\ Mounted(TRUE) /\ UNCHANGED faults
       \/ /\ ~exists /\ exists' \in BOOLEAN
          /\ Fault
          /\ UNCHANGED <<mounted, changes>>
    /\ Become(t, IF t = "main" THEN "mount" ELSE "idle")
    /\ UNCHANGED <<diskVars, cache, groupVars, startVars>>

(* mount_vault: "already mounted" is no error.                             *)
MountVault(t) ==
    /\ pc[t] = "mount"
    /\ \/ exists /\ Mounted(TRUE) /\ UNCHANGED <<exists, faults>>
       \/ ~exists /\ UNCHANGED zfsVars
       \/ Fault /\ UNCHANGED <<exists, mounted, changes>>
    /\ Become(t, IF t = "main" THEN "open" ELSE "info")
    /\ UNCHANGED <<diskVars, cache, groupVars, startVars>>

----------------------------------------------------------------------------
(* health_loop.                                                            *)

\* As the code would be if it mounted what is reported as mounted.
ReportInverted ==
    /\ pc["health"] = "check"
    /\ Become("health", IF mounted THEN "mount" ELSE "info")
    /\ UNCHANGED <<zfsVars, diskVars, cache, groupVars, startVars>>

(* The middleware reports the health of the system, which is true then.    *)
HealthReported ==
    /\ pc["health"] = "check"
    /\ Become("health", IF mounted THEN "info" ELSE "mount")
    /\ UNCHANGED <<zfsVars, diskVars, cache, groupVars, startVars>>

(* It answers with an error status: the mount path exists since the vault  *)
(* was opened, mounted or not, and that is taken for the answer.           *)
HealthFallback ==
    /\ pc["health"] = "check"
    /\ Become("health", "info")
    /\ UNCHANGED <<zfsVars, diskVars, cache, groupVars, startVars>>

(* It does not answer, or with something that is no report.                *)
HealthFails ==
    /\ pc["health"] = "check"
    /\ Become("health", "sleep")
    /\ UNCHANGED <<zfsVars, diskVars, cache, groupVars, startVars>>

(* get_dataset_info asks `zfs list` for the column `pool`, which is no     *)
(* property of a dataset: it always fails, and cached_dataset stays None.  *)
DatasetInfo ==
    /\ pc["health"] = "info"
    /\ Become("health", "sleep")
    /\ UNCHANGED <<zfsVars, diskVars, cache, groupVars, startVars>>

WakeUp ==
    /\ pc["health"] = "sleep"
    /\ Become("health", "check")
    /\ UNCHANGED <<zfsVars, diskVars, cache, groupVars, startVars>>

(* POST /api/v1/truenas/provision.                                         *)
RequestProvision ==
    /\ Serving /\ pc["api"] = "idle"
    /\ Become("api", "list")
    /\ UNCHANGED <<zfsVars, diskVars, cache, groupVars, startVars>>

----------------------------------------------------------------------------
(* An upload: store_shard for one shard after the other, an error only     *)
(* warned of, and the file's entry in the directory, which is written to   *)
(* directory.enc next to the metadata.                                     *)

GoTo(g, step) == spc' = [spc EXCEPT ![g] = step] /\ UNCHANGED idx

\* As the code would be if only the first shard's call made the directory.
NextShardInSameDir(g) ==
    IF idx[g] + 1 < N
    THEN /\ spc' = [spc EXCEPT ![g] = "write"]
         /\ idx' = [idx EXCEPT ![g] = @ + 1]
    ELSE GoTo(g, "flush")

\* As the code would be if the upload's loop ran once too often.
NextShardOffByOne(g) ==
    IF idx[g] < N
    THEN /\ spc' = [spc EXCEPT ![g] = "mkdir"]
         /\ idx' = [idx EXCEPT ![g] = @ + 1]
    ELSE GoTo(g, "flush")

NextShard(g) ==
    IF idx[g] + 1 < N
    THEN /\ spc' = [spc EXCEPT ![g] = "mkdir"]
         /\ idx' = [idx EXCEPT ![g] = @ + 1]
    ELSE GoTo(g, "flush")

MakeDir(g) ==
    /\ Serving /\ spc[g] = "mkdir"
    /\ dirs' = [dirs EXCEPT ![Visible] = @ \cup {g}]
    /\ GoTo(g, "write")
    /\ UNCHANGED <<zfsVars, prepared, shards, meta, cache, pc, dpc,
                   published, doomed, startVars>>

(* fs::write does not make the directory.                                  *)
WriteShard(g) ==
    /\ Serving /\ spc[g] = "write"
    /\ IF g \in dirs[Visible]
       THEN /\ shards' = [shards EXCEPT ![Visible][g] = @ \cup {idx[g]}]
            /\ GoTo(g, "meta")
       ELSE UNCHANGED shards /\ NextShard(g)
    /\ UNCHANGED <<zfsVars, prepared, dirs, meta, cache, pc, dpc,
                   published, doomed, startVars>>

\* As the code would be if it went on when the metadata cannot be written.
WriteMetaIgnoresError(g) ==
    /\ Serving /\ spc[g] = "meta"
    /\ meta' = IF Visible \in prepared
               THEN [meta EXCEPT ![Visible] = @ \cup {g}] ELSE meta
    /\ GoTo(g, "insert")
    /\ UNCHANGED <<zfsVars, prepared, dirs, shards, cache, pc, dpc,
                   published, doomed, startVars>>

WriteMeta(g) ==
    /\ Serving /\ spc[g] = "meta"
    /\ IF Visible \in prepared
       THEN meta' = [meta EXCEPT ![Visible] = @ \cup {g}] /\ GoTo(g, "insert")
       ELSE UNCHANGED meta /\ NextShard(g)
    /\ UNCHANGED <<zfsVars, prepared, dirs, shards, cache, pc, dpc,
                   published, doomed, startVars>>

InsertMeta(g) ==
    /\ Serving /\ spc[g] = "insert"
    /\ cache' = cache \cup {g}
    /\ NextShard(g)
    /\ UNCHANGED <<zfsVars, diskVars, pc, dpc, published, doomed,
                   startVars>>

(* add_file: the upload is acknowledged when the flush has succeeded.      *)
FlushDirectory(g) ==
    /\ Serving /\ spc[g] = "flush"
    /\ published' = IF Visible \in prepared THEN published \cup {g}
                                            ELSE published
    /\ GoTo(g, "done")
    /\ UNCHANGED <<zfsVars, diskVars, cache, pc, dpc, doomed,
                   startVars>>

Upload(g) ==
    MakeDir(g) \/ WriteShard(g) \/ WriteMeta(g) \/ InsertMeta(g)
        \/ FlushDirectory(g)

----------------------------------------------------------------------------
(* Deletions: a wipe by the client's DELETE, which returns at once when it *)
(* sees no directory, and the collection of a group that has expired.      *)

DeleteGoesTo(g, step) == dpc' = [dpc EXCEPT ![g] = step]

StartWipe(g) ==
    /\ Serving /\ dpc[g] = "idle"
    /\ g \in published
    /\ doomed' = doomed \cup {g}
    /\ DeleteGoesTo(g, IF g \in dirs[Visible] THEN "rmdir" ELSE "idle")
    /\ UNCHANGED <<zfsVars, diskVars, cache, pc, spc, idx,
                   published, startVars>>

(* The collection of a group whose upload is under way is in Vault.        *)
StartCollect(g) ==
    /\ Serving /\ dpc[g] = "idle"
    /\ g \in cache /\ spc[g] \in {"done", "gone"}
    /\ doomed' = doomed \cup {g}
    /\ DeleteGoesTo(g, "rmdir")
    /\ UNCHANGED <<zfsVars, diskVars, cache, pc, spc, idx,
                   published, startVars>>

(* delete_group: what is not there is not an error.                        *)
RemoveDir(g) ==
    /\ dpc[g] = "rmdir"
    /\ dirs' = [dirs EXCEPT ![Visible] = @ \ {g}]
    /\ shards' = [shards EXCEPT ![Visible][g] = {}]
    /\ DeleteGoesTo(g, "rmmeta")
    /\ UNCHANGED <<zfsVars, prepared, meta, cache, pc, spc, idx,
                   published, doomed, startVars>>

RemoveMeta(g) ==
    /\ dpc[g] = "rmmeta"
    /\ meta' = [meta EXCEPT ![Visible] = @ \ {g}]
    /\ DeleteGoesTo(g, "uncache")
    /\ UNCHANGED <<zfsVars, prepared, dirs, shards, cache, pc, spc,
                   idx, published, doomed, startVars>>

Uncache(g) ==
    /\ dpc[g] = "uncache"
    /\ cache' = cache \ {g}
    /\ DeleteGoesTo(g, "idle")
    /\ UNCHANGED <<zfsVars, diskVars, pc, spc, idx, published,
                   doomed, startVars>>

Delete(g) ==
    StartWipe(g) \/ StartCollect(g) \/ RemoveDir(g) \/ RemoveMeta(g)
        \/ Uncache(g)

----------------------------------------------------------------------------
(* The surroundings.                                                       *)

(* Somebody, or the pool, unmounts the dataset.                            *)
Unmount ==
    /\ mounted /\ changes < MaxChanges
    /\ Mounted(FALSE)
    /\ UNCHANGED <<exists, faults, diskVars, cache, pc, groupVars,
                   startVars>>

(* The daemon starts again after it has ended at any point, or the host    *)
(* does, with the dataset not mounted.  Uploads that were under way are    *)
(* not continued.                                                          *)
Restart ==
    /\ restarts < MaxRestarts
    /\ restarts' = restarts + 1
    /\ mounted' \in {mounted, FALSE}
    /\ cache' = {}
    /\ pc' = Idle("config")
    /\ spc' = [g \in Groups |->
                  IF spc[g] = "mkdir" /\ idx[g] = 0 THEN "mkdir"
                  ELSE IF spc[g] = "done" THEN "done" ELSE "gone"]
    /\ dpc' = [g \in Groups |-> "idle"]
    /\ UNCHANGED <<config, exists, changes, faults, diskVars, idx, published,
                   doomed>>

Startup ==
    \/ LoadConfig \/ WriteConfig \/ PrepareVault \/ RecoverMeta \/ OpenDirectory
    \/ ListDataset("main") \/ CreateDataset("main") \/ MountVault("main")

HealthLoop ==
    \/ HealthReported \/ HealthFallback \/ HealthFails
    \/ MountVault("health") \/ DatasetInfo \/ WakeUp

Provision == RequestProvision \/ ListDataset("api") \/ CreateDataset("api")

Next ==
    \/ Startup
    \/ HealthLoop
    \/ Provision
    \/ \E g \in Groups : Upload(g) \/ Delete(g)
    \/ Unmount
    \/ Restart

Spec == Init /\ [][Next]_vars

(* main and the health loop go on, as the commands they run return.  What  *)
(* the middleware answers is not theirs.                                   *)
FairSpec == Spec /\ WF_vars(Startup) /\ WF_vars(HealthLoop)

----------------------------------------------------------------------------
(* Type invariant of the daemon and the two layers of its mount point.     *)
TypeOK ==
    /\ config \in {"none", "torn", "written"}
    /\ exists \in BOOLEAN /\ mounted \in BOOLEAN
    /\ mounted => exists
    /\ prepared \subseteq Layers
    /\ dirs \in [Layers -> SUBSET Groups]
    /\ shards \in [Layers -> [Groups -> SUBSET Shard]]
    /\ meta \in [Layers -> SUBSET Groups]
    /\ cache \subseteq Groups
    /\ pc \in [Tasks -> {"config", "default", "list", "create", "mount",
                         "open", "recover", "directory", "serve", "down",
                         "idle", "check", "info", "sleep"}]
    /\ spc \in [Groups -> {"mkdir", "write", "meta", "insert", "flush",
                           "done", "gone"}]
    /\ idx \in [Groups -> Shard]
    /\ dpc \in [Groups -> {"idle", "rmdir", "rmmeta", "uncache"}]
    /\ published \subseteq Groups /\ doomed \subseteq Groups
    /\ changes \in Nat /\ faults \in Nat /\ restarts \in Nat

(* With no zfs command failing and nobody unmounting the dataset under an  *)
(* open vault, an acknowledged group is whole on the dataset, and while    *)
(* the daemon serves it is visible there and in the cache, also after the  *)
(* daemon or the host was restarted at any point; and no shard was ever    *)
(* put beside the dataset.                                                 *)
UndisturbedOnDataset ==
    faults = 0 /\ changes = 0 /\ AutoProvision =>
        /\ \A g \in published \ doomed :
              /\ shards["dataset"][g] = Shard
              /\ Serving => mounted /\ g \in cache
        /\ \A g \in Groups : shards["underlay"][g] = {}

(* What the cache shows has its metadata on one of the layers, also when   *)
(* the layer changed between the steps of an upload or of a deletion: a    *)
(* start with that layer in sight finds it again.                          *)
CachedIsRecoverable ==
    \A g \in cache : dpc[g] = "uncache" \/ \E layer \in Layers : g \in meta[layer]

OnAnyLayer(g) == shards["dataset"][g] \cup shards["underlay"][g]

(* An acknowledged upload has lost at most one shard for each time that    *)
(* the layer changed under it: store_shard makes the group's directory     *)
(* anew for every shard, so a change costs the shard it hits and not the   *)
(* rest of the group.                                                      *)
ChangeLosesOneShard ==
    \A g \in published \ doomed :
        Cardinality(Shard \ OnAnyLayer(g)) <= changes

(* If the middleware reports again and again, a dataset that exists is     *)
(* mounted again and again, however the start has gone, whoever unmounts   *)
(* it and whatever answers or failures come between the reports.           *)
MountedIfReported ==
    []<><<HealthReported>>_vars => []<>(~exists \/ mounted)

----------------------------------------------------------------------------
(* "Data shards -> Local BHS Vault (ZFS)": what is acknowledged is on the  *)
(* dataset.                                                                *)
AckedOnDataset ==
    \A g \in published \ doomed : shards["dataset"][g] # {}

(* "if !health.dataset_mounted": the health loop mounts a dataset that is  *)
(* not mounted.                                                            *)
VaultComesBack == []<>(~exists \/ mounted \/ pc["main"] = "down")

(* "Post-assemble wipe: overwrite shards with zeros then delete": after a  *)
(* wipe that reports success the group has no shards.                      *)
WipedIsGone ==
    \A g \in doomed : dpc[g] = "idle" => OnAnyLayer(g) = {}
=============================================================================
