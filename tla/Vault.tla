------------------------------- MODULE Vault -------------------------------
(***************************************************************************)
(* The shard vault of vault.rs.  A group is the set of shards of one block *)
(* of one upload; it is a directory of shard files with a counter file     *)
(* `seq`, a metadata file in .meta/, and an entry of the metadata cache.   *)
(*                                                                         *)
(* The vault takes no lock across its file operations, so the steps of     *)
(* store_shard (called by one upload per group, one shard after the        *)
(* other), of secure_wipe_group (DELETE of a file) and of garbage_collect  *)
(* (the hourly loop, or the API) interleave, and the process may end       *)
(* between any two of them.                                                *)
(*                                                                         *)
(* Left out because nothing reads them: the files `bitmask` and            *)
(* merkle_root.bin and the metadata's other fields.                        *)
(***************************************************************************)
EXTENDS Integers, FiniteSets

CONSTANTS
    Groups,           \* group ids
    N,                \* shards of a group (data and parity)
    Counter,          \* Counter[g]: the number of g's block in its file
    WSize,            \* W_SIZE, 128 in the code
    TTL,              \* ttl_secs, in units of the model's clock
    Tasks,            \* concurrent deletions and garbage collections
    GcLoop,           \* the task of them that main.rs spawns for collections
    MaxFaults,        \* bound on the number of I/O errors
    MaxRestarts       \* bound on the number of restarts of the process

ASSUME CounterAssumption == Counter \in [Groups -> Nat \ {0}]

ASSUME SizeAssumption ==
    /\ Groups # {}
    /\ N \in Nat \ {0}
    /\ WSize \in Nat \ {0}
    /\ TTL \in Nat
    /\ GcLoop \in Tasks
    /\ MaxFaults \in Nat
    /\ MaxRestarts \in Nat

VARIABLES
    dir,        \* the groups that have a directory
    seq,        \* seq[g]: the number in the counter file, 0 without the file
    shards,     \* shards[g][i]: what the file of shard i of g holds
    meta,       \* meta[g]: {} or {age}, what the metadata file of g parses to
    torn,       \* the groups whose metadata file exists and does not parse
    cache,      \* cache[g]: {} or {age}, the entry of g in meta_cache
    spc, idx,   \* the store_shard call of the upload of g, and its shard
    stamp,      \* the age of the metadata that this call is to store
    rejected,   \* the groups that a call returned ReplayDetected for
    published,  \* the groups of acknowledged uploads
    doomed,     \* the groups some client has asked to wipe
    caught,     \* the groups a collection found expired under their upload
    tpc, target, files, file, todo,   \* deletions, see below
    faults,     \* I/O errors so far
    restarts    \* restarts so far

storeVars == <<spc, idx, stamp, rejected>>
taskVars == <<tpc, target, files, file, todo>>
historyVars == <<published, doomed, caught, faults, restarts>>
diskVars == <<dir, seq, shards, meta, torn>>
vars == <<diskVars, cache, storeVars, taskVars, historyVars>>

Shard == 0 .. N - 1

(* The age of a metadata entry, up to the first tick past the TTL.         *)
Age == 0 .. TTL + 1

Content == {"none", "partial", "data", "zero"}

(* The target of a task that is idle says nothing.                         *)
AnyGroup == CHOOSE g \in Groups : TRUE

NoFiles == [i \in Shard |-> "none"]

Storing == {"check", "bitmask", "seq", "truncate", "write", "metatruncate",
            "meta", "insert"}

Deleting == {"wipe", "zero", "unlink", "lookdir", "rmfiles", "rmdir",
             "lookmeta", "rmmeta", "uncache", "next"}

(* The upload of g has stored some shard of it and not yet the last one.   *)
Active(g) == spc[g] \in Storing \/ (spc[g] = "mkdir" /\ idx[g] > 0)

----------------------------------------------------------------------------
Init ==
    /\ dir = {}
    /\ seq = [g \in Groups |-> 0]
    /\ shards = [g \in Groups |-> NoFiles]
    /\ meta = [g \in Groups |-> {}]
    /\ torn = {}
    /\ cache = [g \in Groups |-> {}]
    /\ spc = [g \in Groups |-> "mkdir"]
    /\ idx = [g \in Groups |-> 0]
    /\ stamp = [g \in Groups |-> 0]
    /\ rejected = {}
    /\ published = {}
    /\ doomed = {}
    /\ caught = {}
    /\ tpc = [t \in Tasks |-> "idle"]
    /\ target = [t \in Tasks |-> AnyGroup]
    /\ files = [t \in Tasks |-> {}]
    /\ file = [t \in Tasks |-> 0]
    /\ todo = [t \in Tasks |-> {}]
    /\ faults = 0
    /\ restarts = 0

----------------------------------------------------------------------------
(* store_shard, one action per file operation.                             *)

GoTo(g, pc) == spc' = [spc EXCEPT ![g] = pc] /\ UNCHANGED idx

\* As the code would be if the upload's loop ran once too often.
NextShardOffByOne(g) ==
    IF idx[g] < N
    THEN /\ spc' = [spc EXCEPT ![g] = "mkdir"]
         /\ idx' = [idx EXCEPT ![g] = @ + 1]
    ELSE GoTo(g, "done")

(* The end of a call, Ok or Err: store_file only warns of an Err and goes  *)
(* on with the next shard.                                                 *)
NextShard(g) ==
    IF idx[g] + 1 < N
    THEN /\ spc' = [spc EXCEPT ![g] = "mkdir"]
         /\ idx' = [idx EXCEPT ![g] = @ + 1]
    ELSE GoTo(g, "done")

MakeDir(g) ==
    /\ spc[g] = "mkdir"
    /\ dir' = dir \cup {g}
    /\ GoTo(g, "check")
    /\ UNCHANGED <<stamp, rejected, seq, shards, meta, torn, cache, taskVars,
                   historyVars>>

(* u64::saturating_sub.                                                    *)
SatSub(a, b) == IF a < b THEN 0 ELSE a - b

\* As the code would be without the window: only larger counters are new.
WindowAlwaysNewer(counter, vmax) ==
    IF counter > vmax + WSize THEN "bitmask"
    ELSE IF counter <= vmax THEN "rejected"
    ELSE "seq"

(* The sliding-window check: where it sends a call with this counter when  *)
(* the counter file holds vmax.                                            *)
Window(counter, vmax) ==
    CASE counter > vmax + WSize          -> "bitmask"
      [] counter <= SatSub(vmax, WSize)  -> "rejected"
      [] OTHER -> IF counter > vmax THEN "seq" ELSE "truncate"

CheckReplay(g) ==
    /\ spc[g] = "check"
    /\ LET next == Window(Counter[g], seq[g])
       IN  IF next = "rejected"
           THEN rejected' = rejected \cup {g} /\ NextShard(g)
           ELSE UNCHANGED rejected /\ GoTo(g, next)
    /\ UNCHANGED <<stamp, diskVars, cache, taskVars, historyVars>>

(* fs::write creates a file only in a directory that exists.               *)
WriteBitmask(g) ==
    /\ spc[g] = "bitmask"
    /\ IF g \in dir THEN GoTo(g, "seq") ELSE NextShard(g)
    /\ UNCHANGED <<stamp, rejected, diskVars, cache, taskVars, historyVars>>

WriteSeq(g) ==
    /\ spc[g] = "seq"
    /\ IF g \in dir
       THEN seq' = [seq EXCEPT ![g] = Counter[g]] /\ GoTo(g, "truncate")
       ELSE UNCHANGED seq /\ NextShard(g)
    /\ UNCHANGED <<stamp, rejected, dir, shards, meta, torn, cache, taskVars,
                   historyVars>>

TruncateShard(g) ==
    /\ spc[g] = "truncate"
    /\ IF g \in dir
       THEN /\ shards' = [shards EXCEPT ![g][idx[g]] = "partial"]
            /\ GoTo(g, "write")
       ELSE UNCHANGED shards /\ NextShard(g)
    /\ UNCHANGED <<stamp, rejected, dir, seq, meta, torn, cache, taskVars,
                   historyVars>>

(* The bytes go to the file that was opened, also when it has been         *)
(* unlinked since and when another one has taken its name.                 *)
Written(content) ==
    CASE content = "none" -> {"none"}
      [] content = "zero" -> {"zero", "data"}
      [] OTHER            -> {"data"}

(* The clock is read when the bytes are written: the metadata counts from  *)
(* there, in the file and in the cache, however long its own write takes.  *)
WriteShard(g) ==
    /\ spc[g] = "write"
    /\ \E content \in Written(shards[g][idx[g]]) :
          shards' = [shards EXCEPT ![g][idx[g]] = content]
    /\ stamp' = [stamp EXCEPT ![g] = 0]
    /\ GoTo(g, "metatruncate")
    /\ UNCHANGED <<rejected, dir, seq, meta, torn, cache, taskVars,
                   historyVars>>

TruncateMeta(g) ==
    /\ spc[g] = "metatruncate"
    /\ torn' = torn \cup {g}
    /\ meta' = [meta EXCEPT ![g] = {}]
    /\ GoTo(g, "meta")
    /\ UNCHANGED <<stamp, rejected, dir, seq, shards, cache, taskVars,
                   historyVars>>

(* Nothing is left of what is written to a file unlinked since.            *)
WriteMeta(g) ==
    /\ spc[g] = "meta"
    /\ meta' = [meta EXCEPT ![g] = IF g \in torn THEN {stamp[g]} ELSE {}]
    /\ torn' = torn \ {g}
    /\ GoTo(g, "insert")
    /\ UNCHANGED <<stamp, rejected, dir, seq, shards, cache, taskVars,
                   historyVars>>

InsertMeta(g) ==
    /\ spc[g] = "insert"
    /\ cache' = [cache EXCEPT ![g] = {stamp[g]}]
    /\ stamp' = [stamp EXCEPT ![g] = 0]
    /\ NextShard(g)
    /\ UNCHANGED <<rejected, diskVars, taskVars, historyVars>>

(* An I/O error ends the call with what it has done so far.                *)
StoreFails(g) ==
    /\ faults < MaxFaults
    /\ faults' = faults + 1
    /\ spc[g] \in (Storing \cup {"mkdir"}) \ {"insert"}
    /\ stamp' = [stamp EXCEPT ![g] = 0]
    /\ NextShard(g)
    /\ UNCHANGED <<rejected, diskVars, cache, published, doomed, caught,
                   taskVars, restarts>>

(* The upload has stored its blocks, and add_file has put the file in the  *)
(* directory; when it does not, the group stays as it is.                  *)
Publish(g) ==
    /\ spc[g] = "done"
    /\ g \notin published
    /\ published' = published \cup {g}
    /\ UNCHANGED <<diskVars, cache, storeVars, doomed, caught, taskVars,
                   faults, restarts>>

----------------------------------------------------------------------------
(* delete_group, secure_wipe_group and garbage_collect: a task with a      *)
(* target group, the files of it that are still to wipe, the one it is at, *)
(* and the groups that its collection has still to delete.                 *)

Become(t, pc) ==
    /\ tpc' = [tpc EXCEPT ![t] = pc]
    /\ UNCHANGED <<target, files, file, todo>>

Finish(t) ==
    /\ tpc' = [tpc EXCEPT ![t] = "idle"]
    /\ target' = [target EXCEPT ![t] = AnyGroup]
    /\ files' = [files EXCEPT ![t] = {}]
    /\ file' = [file EXCEPT ![t] = 0]
    /\ todo' = [todo EXCEPT ![t] = {}]

(* An Err is handed up with `?`: it ends a wipe and a whole collection.    *)
Fail(t) == Finish(t)

\* As the code would be if it collected groups as old as the TTL.
ExpiredTooEarly(g) == \E age \in cache[g] : age >= TTL

Expired(g) == \E age \in cache[g] : age > TTL

(* garbage_collect reads the clock and copies the cache; nothing tells it  *)
(* of the groups whose upload is under way.                                *)
StartGc(t) ==
    /\ tpc[t] = "idle"
    /\ \E g \in Groups : Expired(g)
    /\ todo' = [todo EXCEPT ![t] = {g \in Groups : Expired(g)}]
    /\ tpc' = [tpc EXCEPT ![t] = "next"]
    /\ caught' = caught \cup {g \in Groups : Expired(g) /\ Active(g)}
    /\ UNCHANGED <<diskVars, cache, storeVars, target, files, file, published,
                   doomed, faults, restarts>>

NextGroup(t) ==
    /\ tpc[t] = "next"
    /\ \E g \in todo[t] :
          /\ target' = [target EXCEPT ![t] = g]
          /\ todo' = [todo EXCEPT ![t] = @ \ {g}]
    /\ tpc' = [tpc EXCEPT ![t] = "lookdir"]
    /\ UNCHANGED <<diskVars, cache, storeVars, files, file, historyVars>>

(* secure_wipe_group, by the DELETE of an uploaded file: the files are     *)
(* those found when it starts.                                             *)
StartWipe(t, g) ==
    /\ t # GcLoop
    /\ tpc[t] = "idle"
    /\ g \in dir
    /\ g \in published
    /\ LET found == {i \in Shard : shards[g][i] # "none"}
       IN  /\ files' = [files EXCEPT ![t] = found]
           /\ tpc' = [tpc EXCEPT ![t] =
                          IF found = {} THEN "lookdir" ELSE "wipe"]
    /\ target' = [target EXCEPT ![t] = g]
    /\ doomed' = doomed \cup {g}
    /\ UNCHANGED <<diskVars, cache, storeVars, published, caught, file, todo,
                   faults, restarts>>

(* fs::metadata of the next file.                                          *)
WipeNext(t) ==
    /\ tpc[t] = "wipe"
    /\ \E i \in files[t] :
          IF shards[target[t]][i] = "none"
          THEN Fail(t)
          ELSE /\ file' = [file EXCEPT ![t] = i]
               /\ tpc' = [tpc EXCEPT ![t] = "zero"]
               /\ UNCHANGED <<target, files, todo>>
    /\ UNCHANGED <<diskVars, cache, storeVars, historyVars>>

(* Three times fs::write, which creates a file that has gone.              *)
WipeZero(t) ==
    /\ tpc[t] = "zero"
    /\ IF target[t] \in dir
       THEN /\ shards' = [shards EXCEPT ![target[t]][file[t]] = "zero"]
            /\ Become(t, "unlink")
       ELSE UNCHANGED shards /\ Fail(t)
    /\ UNCHANGED <<dir, seq, meta, torn, cache, storeVars, historyVars>>

WipeUnlink(t) ==
    /\ tpc[t] = "unlink"
    /\ IF shards[target[t]][file[t]] = "none"
       THEN UNCHANGED shards /\ Fail(t)
       ELSE /\ shards' = [shards EXCEPT ![target[t]][file[t]] = "none"]
            /\ files' = [files EXCEPT ![t] = @ \ {file[t]}]
            /\ file' = [file EXCEPT ![t] = 0]
            /\ tpc' = [tpc EXCEPT ![t] =
                          IF files[t] = {file[t]} THEN "lookdir" ELSE "wipe"]
            /\ UNCHANGED <<target, todo>>
    /\ UNCHANGED <<dir, seq, meta, torn, cache, storeVars, historyVars>>

\* As the code would be if the cache entry went first.
LookDirUncachesFirst(t) ==
    /\ tpc[t] = "lookdir"
    /\ Become(t, IF target[t] \in dir THEN "rmfiles" ELSE "lookmeta")
    /\ cache' = [cache EXCEPT ![target[t]] = {}]
    /\ UNCHANGED <<diskVars, storeVars, historyVars>>

(* delete_group, first half: if gdir.exists() { remove_dir_all }.          *)
LookDir(t) ==
    /\ tpc[t] = "lookdir"
    /\ Become(t, IF target[t] \in dir THEN "rmfiles" ELSE "lookmeta")
    /\ UNCHANGED <<diskVars, cache, storeVars, historyVars>>

RemoveFiles(t) ==
    /\ tpc[t] = "rmfiles"
    /\ IF target[t] \in dir
       THEN /\ shards' = [shards EXCEPT ![target[t]] = NoFiles]
            /\ seq' = [seq EXCEPT ![target[t]] = 0]
            /\ Become(t, "rmdir")
       ELSE UNCHANGED <<shards, seq>> /\ Fail(t)
    /\ UNCHANGED <<dir, meta, torn, cache, storeVars, historyVars>>

(* The directory must still be there, and empty.                           *)
RemoveDir(t) ==
    /\ tpc[t] = "rmdir"
    /\ LET g == target[t]
       IN  IF g \in dir /\ shards[g] = NoFiles /\ seq[g] = 0
           THEN dir' = dir \ {g} /\ Become(t, "lookmeta")
           ELSE UNCHANGED dir /\ Fail(t)
    /\ UNCHANGED <<seq, shards, meta, torn, cache, storeVars, historyVars>>

(* Second half: if mpath.exists() { remove_file }, and the cache entry.    *)
MetaExists(g) == g \in torn \/ meta[g] # {}

\* As the code would be if it left the metadata file.
LookMetaNever(t) ==
    /\ tpc[t] = "lookmeta"
    /\ Become(t, "uncache")
    /\ UNCHANGED <<diskVars, cache, storeVars, historyVars>>

LookMeta(t) ==
    /\ tpc[t] = "lookmeta"
    /\ Become(t, IF MetaExists(target[t]) THEN "rmmeta" ELSE "uncache")
    /\ UNCHANGED <<diskVars, cache, storeVars, historyVars>>

RemoveMeta(t) ==
    /\ tpc[t] = "rmmeta"
    /\ IF MetaExists(target[t])
       THEN /\ meta' = [meta EXCEPT ![target[t]] = {}]
            /\ torn' = torn \ {target[t]}
            /\ Become(t, "uncache")
       ELSE UNCHANGED <<meta, torn>> /\ Fail(t)
    /\ UNCHANGED <<dir, seq, shards, cache, storeVars, historyVars>>

Uncache(t) ==
    /\ tpc[t] = "uncache"
    /\ cache' = [cache EXCEPT ![target[t]] = {}]
    /\ IF todo[t] = {} THEN Finish(t) ELSE Become(t, "next")
    /\ UNCHANGED <<diskVars, storeVars, historyVars>>

DeleteFails(t) ==
    /\ faults < MaxFaults
    /\ faults' = faults + 1
    /\ tpc[t] \in {"wipe", "zero", "unlink", "rmfiles", "rmdir", "rmmeta"}
    /\ Fail(t)
    /\ UNCHANGED <<diskVars, cache, storeVars, published, doomed, caught,
                   restarts>>

----------------------------------------------------------------------------
(* Time passes, also under the calls of an upload: each file operation of  *)
(* theirs may take any time.                                               *)
Aged(a) == IF a > TTL THEN a ELSE a + 1

Older(age) == {Aged(a) : a \in age}

(* The call of g has read the clock and not yet put the result away.       *)
Stamped(g) == spc[g] \in {"metatruncate", "meta", "insert"}

Tick ==
    /\ \E g \in Groups :
          \/ \E a \in meta[g] \cup cache[g] : a <= TTL
          \/ Stamped(g) /\ stamp[g] <= TTL
    /\ meta' = [g \in Groups |-> Older(meta[g])]
    /\ cache' = [g \in Groups |-> Older(cache[g])]
    /\ stamp' = [g \in Groups |->
                    IF Stamped(g) THEN Aged(stamp[g]) ELSE stamp[g]]
    /\ UNCHANGED <<dir, seq, shards, torn, spc, idx, rejected, taskVars,
                   historyVars>>

(* The process ends: no upload is resumed and no deletion either.          *)
AbandonAll ==
    /\ spc' = [g \in Groups |->
                 IF Active(g) \/ (spc[g] = "done" /\ g \notin published)
                 THEN "dead" ELSE spc[g]]
    /\ stamp' = [g \in Groups |-> 0]
    /\ tpc' = [t \in Tasks |-> "idle"]
    /\ target' = [t \in Tasks |-> AnyGroup]
    /\ files' = [t \in Tasks |-> {}]
    /\ file' = [t \in Tasks |-> 0]
    /\ todo' = [t \in Tasks |-> {}]

\* As the code would be if it opened with an empty cache.
RestartForgetsGroups ==
    /\ restarts < MaxRestarts
    /\ restarts' = restarts + 1
    /\ cache' = [g \in Groups |-> {}]
    /\ AbandonAll
    /\ UNCHANGED <<diskVars, idx, rejected, published, doomed, caught, faults>>

(* Vault::open recovers the cache from the metadata files that parse.      *)
Restart ==
    /\ restarts < MaxRestarts
    /\ restarts' = restarts + 1
    /\ cache' = meta
    /\ AbandonAll
    /\ UNCHANGED <<diskVars, idx, rejected, published, doomed, caught, faults>>

Store(g) ==
    \/ MakeDir(g)
    \/ CheckReplay(g)
    \/ WriteBitmask(g)
    \/ WriteSeq(g)
    \/ TruncateShard(g)
    \/ WriteShard(g)
    \/ TruncateMeta(g)
    \/ WriteMeta(g)
    \/ InsertMeta(g)

Delete(t) ==
    \/ NextGroup(t)
    \/ WipeNext(t)
    \/ WipeZero(t)
    \/ WipeUnlink(t)
    \/ LookDir(t)
    \/ RemoveFiles(t)
    \/ RemoveDir(t)
    \/ LookMeta(t)
    \/ RemoveMeta(t)
    \/ Uncache(t)

Next ==
    \/ \E g \in Groups : Store(g) \/ StoreFails(g) \/ Publish(g)
    \/ \E t \in Tasks :
          \/ Delete(t)
          \/ DeleteFails(t)
          \/ StartGc(t)
          \/ \E g \in Groups : StartWipe(t, g)
    \/ Tick
    \/ Restart

Spec == Init /\ [][Next]_vars

(* Tasks are scheduled, file operations return, time passes, and the loop  *)
(* of main.rs starts one collection after the other.                       *)
FairSpec ==
    /\ Spec
    /\ \A g \in Groups : WF_vars(Store(g))
    /\ \A t \in Tasks : WF_vars(Delete(t))
    /\ WF_vars(StartGc(GcLoop))
    /\ WF_vars(Tick)

----------------------------------------------------------------------------
(* Type invariant of the vault, its uploads and its deletions.             *)
TypeOK ==
    /\ dir \subseteq Groups
    /\ seq \in [Groups -> Nat]
    /\ shards \in [Groups -> [Shard -> Content]]
    /\ meta \in [Groups -> SUBSET Age]
    /\ torn \subseteq Groups
    /\ cache \in [Groups -> SUBSET Age]
    /\ spc \in [Groups -> Storing \cup {"mkdir", "done", "dead"}]
    /\ idx \in [Groups -> Shard]
    /\ stamp \in [Groups -> Age]
    /\ rejected \subseteq Groups
    /\ published \subseteq Groups
    /\ doomed \subseteq Groups
    /\ caught \subseteq Groups
    /\ tpc \in [Tasks -> Deleting \cup {"idle"}]
    /\ target \in [Tasks -> Groups]
    /\ files \in [Tasks -> SUBSET Shard]
    /\ file \in [Tasks -> Shard]
    /\ todo \in [Tasks -> SUBSET Groups]
    /\ faults \in Nat
    /\ restarts \in Nat

(* The replay window never turns a shard of an upload away: all shards of  *)
(* a group carry one counter, which is the largest the group has seen and  *)
(* lies in the window however far the block is in its file, also when the  *)
(* counter file has been removed under the upload.                         *)
NoSelfReplay == rejected = {}

(* No task is deleting g.                                                  *)
Undisturbed(g) == \A t \in Tasks : tpc[t] = "idle" \/ target[t] # g

(* Between operations on a group, what a restart would recover of it is    *)
(* what the cache holds, whatever deletions have raced and failed and      *)
(* however long the store took: neither does a group come back nor does a  *)
(* live one vanish from the cache, and its age does not start again.  Not  *)
(* so when a collection has begun under the upload of the group, whose     *)
(* metadata the two then write and remove in any order.                    *)
CacheIsRecoverable ==
    faults = 0 =>
        \A g \in Groups \ caught :
            ~Active(g) /\ spc[g] # "dead" /\ Undisturbed(g)
                => cache[g] = meta[g]

(* The groups of acknowledged uploads stay known to the garbage collector  *)
(* as long as they take up space, through crashes at any point and racing  *)
(* deletions that end in errors half way; unless a collection began under  *)
(* the upload, and then dropped what the upload had entered.               *)
PublishedNotOrphaned ==
    faults = 0 => \A g \in published \ caught : g \in dir => cache[g] # {}

(* Until its time is up, g has every shard in full, but for one for each   *)
(* I/O error.  Where an error fell there is no file, or one with a part of *)
(* the shard, which read_shard returns like any other.                     *)
Intact(g) ==
    (\E age \in cache[g] : age <= TTL) =>
        Cardinality({i \in Shard : shards[g][i] = "data"}) >= N - faults

(* The collector, and the races of a crash or a wipe of another group, cost *)
(* an acknowledged group nothing before its time is up or a client asks to *)
(* wipe it: only errors do, each one shard.  The exception are the groups  *)
(* that a collection found expired while their upload was still going on.  *)
PublishedIntact == \A g \in published \ (doomed \cup caught) : Intact(g)

(* A group of an acknowledged upload whose metadata file is whole is       *)
(* reclaimed in the end, whatever crashes, wipes and failed collections    *)
(* come between; unless a collection began under the upload, and dropped   *)
(* its entry of the cache afterwards.                                      *)
PublishedReclaimed ==
    \A g \in Groups :
        g \in published \ caught /\ meta[g] # {} ~> g \notin dir

----------------------------------------------------------------------------
(* "TTL-based garbage collection": a shard that an upload has left on disk *)
(* is known to the garbage collector once the upload is no longer under    *)
(* way.                                                                    *)
NoOrphans ==
    \A g \in Groups :
        ~Active(g) /\ (\E i \in Shard : shards[g][i] = "data") => cache[g] # {}

(* "Garbage-collect expired shard groups": a collection takes no shards of *)
(* an upload that is still storing them.                                   *)
UploadsOutliveCollections == \A g \in published \ doomed : Intact(g)

(* "Recover metadata from disk": an acknowledged group that takes up space *)
(* is known to the collector also when a shard's metadata could not be     *)
(* written and the process has been restarted since.                       *)
KnownAfterTornMeta == \A g \in published \ caught : g \in dir => cache[g] # {}

(* "Merkle-Tree integrity verification": what read_shard returns of an     *)
(* uploaded group is the shard that was stored.                            *)
ReadsAreIntact ==
    \A g \in published : \A i \in Shard : shards[g][i] \in {"none", "data"}
=============================================================================
