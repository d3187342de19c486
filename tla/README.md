# A TLA+ model of GHOST NAS

This directory models the parts of the GHOST NAS server (`src/`) whose correctness depends on the order of events: the
encrypted directory tree, the shard vault, the WAN shard router, the WebDAV handlers over these three, the start of
the daemon and the ZFS dataset under its vault, the replay window of a session, the UDP receiver that establishes
sessions until the heartbeat monitor ends them, and the Merkle tree over shards. TLC checks small instances; TLAPS
proves all the safety properties of the regular runs, invariants and action properties, for every value of the
constants. Every definition is translated from the Rust source; a comment above each property says what it means for
the code.

Path names below are relative to the crate (`vault.rs` is `src/vault.rs`).

## 1. Inventory of the system

The program is one process: an axum HTTP server (REST and WebDAV), and six background tasks that `main`
spawns. Handlers and tasks run concurrently on tokio and share `Arc`s. There is no transaction across
components; every component has its own lock or none.

| Component | State | Operations that change it | Locking |
|---|---|---|---|
| Encrypted directory (`directory.rs`) | tree of directories with file entries in memory; one sealed file on disk | `add_file`, `remove_file`, each followed by `flush`; `open` at the start | write lock for the change, *dropped*, then read lock for the flush |
| Vault (`vault.rs`) | per group: directory, shard files, `seq`, metadata file; cache of the metadata | `store_shard`, `delete_group`, `secure_wipe_group`, `garbage_collect`, `open` | cache only; none across file operations |
| WAN router (`router.rs`) | routing table, WAN peers, peer health, all in memory | `compute_route`, `remove_route`, `mark_online`, `mark_offline`, `update_wan_peers`, `import_route` | one lock per map |
| WebDAV server (`davfs.rs`) | none of its own | PUT, GET, DELETE call the three above, one await after the other | none across calls |
| Session guard (`session.rs`) | `v_max`, bitmask, times, missed heartbeats, master key | `check_and_update`, `heartbeat`, `miss_heartbeat`, `trigger_wipe`, `set_master_key` | exclusive (`&mut self`) |
| Session manager, heartbeat monitor (`session.rs`) | list of guards, each with its start and its last activity | `upsert`, `expire_stale`; `find` (a copy) and `remove` are not reached | one lock |
| UDP receiver, handshake sender (`main.rs`) | pool of packets by message id, master key, target address | one packet at a time; a handshake every 1.5 s until there is a key | one task each, locks on key and address |
| Cryptography (`crypto.rs`) | none | AES-GCM, BLAKE3, Merkle tree, Reed-Solomon, key shares, identity | - |
| Network (`network.rs`) | NAT state | packet layout, keepalive loop, TCP stubs | - |
| REST API (`api.rs`) | none of its own | deletes groups, starts collections, wipes sessions, provisions datasets | - |
| TrueNAS bridge (`truenas.rs`) | whether the dataset exists and is mounted (in the pool); the last answer about it, which never comes | `provision_vault_dataset`, `mount_vault`, `get_dataset_info`, `health_loop` | lock on the cached answer; none around commands |
| Configuration (`config.rs`) | one file | `load_or_create`, once per start | - |
| Start (`main.rs`) | - | configuration, dataset, vault, directory, then loops and server | one task |

How they interact:

* **PUT** (`store_file`): for each block, encrypt, split into Reed-Solomon shards, `compute_route`, then
  `store_shard` of every shard; after all blocks, `add_file`. An error of `store_shard` is only logged.
* **GET** (`reconstruct_file`): `resolve_path`, then for each block `get_route`, `read_shard` of every shard,
  reconstruct.
* **DELETE**: `resolve_path`, then for each group `secure_wipe_group` and `remove_route`, then `remove_file`.
* **Collection**: a loop in `main` (and the API) calls `garbage_collect`, which deletes groups by the age of
  their metadata. Directory and router are not told.
* **Sessions**: the receiver makes the first verified handshake the master key of the process and of a session,
  and tells the router that the peer is online; the heartbeat monitor removes sessions.
* **Dataset**: the vault's directory is a mount point. `main` provisions and mounts before it opens the vault, but
  goes on when that fails; the health loop mounts later, under the open vault; the API provisions at any time.

Hard behaviours, and what makes each component correct:

* *Directory*: concurrent changes and flushes of one file that is written in place; I/O errors after the tree
  has changed; clients that hang up while a blocking write goes on; restarts. Correct: names are unique, what
  is listed can be opened, the sealed file follows the tree, what is acknowledged is durable, nobody starves.
* *Vault*: deletions, wipes and collections race with each other and with uploads, file operation by file
  operation; the process can end between any two. Correct: the replay check never hits the upload itself, the
  cache is what a restart would recover, nothing acknowledged is lost early or kept for ever. A collection that
  begins under a slow upload spoils all but the first, and the properties except the groups it happens to.
* *Router*: peers come and go between the computation and the use of a route.
* *WebDAV*: a path is resolved early and used late; each step of several can fail.
* *Dataset*: the layer under the vault changes in the middle of uploads, deletions and starts; commands fail; the
  host restarts. Correct: without failures all that is acknowledged is on the dataset; with them, each change of
  the layer costs one shard and no more, the cache can be recovered, and the dataset comes back if the middleware
  reports that it is not mounted.
* *Session guard*: boundaries of the window and of the shift.
* *Receiver and sessions*: packets are lost, reordered, duplicated; several handshakes share one id; sessions expire
  while packets come in.
* *Merkle tree*: odd numbers of shards, and places whose path has no sibling on some level.

`PROJECT.json` lists these hazards at their lines, each with the properties that cover it.

## 2. Modules

| Module | Models | Extends / used by |
|---|---|---|
| `DirectoryTree` | the tree as a value and `add_file`, `remove_file`, `resolve_path`, listings as operators | used by `EncryptedDirectory`, `DavFs` |
| `FileMap` | *abstract*: a directory is a map from paths to files | refined by `EncryptedDirectory` |
| `EncryptedDirectory` | lock, flush, sealed file, handlers, hang-ups, restarts | |
| `Vault` | uploads, deletions and collections over groups on disk | |
| `WanRouter` | routes, peers, health, plans | |
| `DavFs` | PUT, GET, DELETE over tree, routes and shards: the composition | extends `DirectoryTree` |
| `ReplayFilter` | *abstract*: which counters a sliding window accepts | refined by `SessionGuard` |
| `SessionGuard` | replay window, timeouts, heartbeats | |
| `UdpReceiver` | pool, key shares, handshake, sessions and their end, router health under loss, reordering, duplication | |
| `DatasetMount` | start of the daemon, dataset, health loop and the two layers of the vault: the composition of bridge, vault and API | |
| `MerkleTree` | the loops of `merkle_root`, `merkle_proof`, `verify_merkle_proof` against a recursive reference | |
| `MC...` | constants of the TLC instances | |
| `...Proofs` | lemmas and theorems | |

An operator whose name extends another's (`TooOldOffByOne`, `RemoveRouteIfWiped`, ...) and whose comment says
"as the code would be if" is a wrong variant of a definition. No specification uses it: it shows that the
properties notice the difference.

### EncryptedDirectory

A handler is `idle`, waits for the write lock (`mutate`), waits for the read lock (`flush`), or is inside
`fs::write` (`open` before the truncation, `write` after it). The tokio lock is fair: `queue` is its line,
`readers` the flushes that hold it. `disk` is the sealed file; it holds a tree, is empty, or is a mix of two
images of different lengths. A client that hangs up drops its handler and the handler's lock, but the blocking
write goes on (`orphaned` records it). `Restart` opens the file under a new key, as `main.rs:178` draws a new
seed. File contents are the name and a tag for the upload.

`FilesAreAMap` is a refinement: with `files[p] = ResolvePath(tree, p)` for paths of one directory and a name,
every step is a step of `FileMap` or a stutter. Paths at the root and nested ones are outside the map, and
the violation runs say why.

### Vault

One upload per group stores shards 0, 1, ... by the nine steps of `store_shard`; tasks run `secure_wipe_group`,
`delete_group` and `garbage_collect`, one file operation a step (`remove_dir_all` is two: the files, then the
directory). `meta` is what the metadata file parses to (its age, counted by `Tick`), `torn` marks a file in the
middle of a write, `cache` is `meta_cache`. A crash may fall between any two steps; `Restart` reads the cache
back from the files. `bitmask` and `merkle_root.bin` are written and never read by the program, so only their
writes as possible failures are kept.

Time passes at any moment, also inside a call: `stamp` is the age of the clock value that a call has read
(`vault.rs:202`) and not yet stored. So a group can expire while its later shards are still being stored; a collection
that starts then puts it into `caught`, deletes what is there and races with the rest of the upload. That it takes
shards of an upload under way is the configuration `CollectedDuringUpload`; the properties say what holds for all
other groups. A write is two steps, the truncation and the rest, and an error after the first leaves a file with a
part of the shard (`"partial"`), which `read_shard` returns like any other.

A wipe starts only for a group of an acknowledged upload, as DELETE does. The API's own deletion of a group is
not an action: with axum 0.7 its `{group_id}` route is a literal path, so the handler is not reached as the
code stands.

### WanRouter

`Placement` is the list that `compute_route` builds, `health` the names `mark_online` has been called with.
`main.rs` calls `mark_online` with a fingerprint while the router looks peers up by nickname; the model's
`Names` has both. `mark_offline`, `update_wan_peers` and the plans have no caller in this commit and are
modelled as the interface they are.

### DavFs

The handlers' awaits are the steps: `ComputeRoute`, `StoreShard` (one per shard), `AddToTree`; `GetRoute`,
`ReadShard`, `Reconstruct`, `SendBody`; `WipeGroup`, `RemoveRoute`, `Unlist`. What happens inside a vault call
or a flush is coarser here than in `Vault` and `EncryptedDirectory`: a wipe that fails leaves any subset of the
shards; a flush that fails answers an error for a tree that has changed. In particular a read never sees the
zeros of a wipe in progress here; that is the run `ReadsOfWipedShards` of `Vault`. Fetching from peers always
fails, as the stub does.

What the vault's files hold is in three variables: `shards` has those that are whole, `cut` those of which a failed
write left a part or nothing, `zeroed` those that a failed wipe overwrote. `read_shard` compares no hash and returns
all of them. `rs_reconstruct_n` takes what it gets but refuses shards of different lengths, so a shard that was cut
makes a GET fail however much parity is there (`Decodable`), and one that was zeroed spoils the shards that are
computed from it (`Form`). `StoredBody` is what a PUT has stored: the ciphertext of every block and its parity. A GET
is answered with that, not with what the client has sent; the latter, which the documentation promises, is the
configuration `GetReturnsCiphertext`.

### SessionGuard

The bitmask is the set of positions of its 1 bits, cut at `Width`. `accepted` records what `check_and_update`
has answered true for; it is the state of the abstract `ReplayFilter`. Time is counted from `start_time`.

### UdpReceiver

A key and its first share are independent random strings; strings that are XORed are sets under symmetric
difference, so "share 3 equals share 1" is a result and not an assumption. The pool holds the first packet
of an id; the second uses it up. A packet carries no shard index: the model keeps it only to say what the
bytes are. `Verifies` says that a handshake blob is the same in all handshakes of one identity
(`build_handshake_blob` takes no randomness), so the halves of two of them verify.

`Send` is one `send_to`: the packets of messages that are sent at the same time come mixed, in any way that keeps the
order of each message. Only the handshakes of one peer come one after the other (`InTurn`), since one loop sends
them. `MaxUnderway` bounds the packets under way. Receiving is one step, as the receiver is one task and the only
writer of the pool and the key.

The handshake sender of this repository copies 160-byte shards into a 480-byte slice (`network.rs:131`) and
panics before its first packet; the messages of the model are those that a peer following `shamir_split`,
`rs_encode`, `build_handshake_blob` and the packet layout would send.

`sessions` is the session manager: a session has its key, its age since `start_time` and its idle time since
`last_time`. `ExpireStale` is the monitor's round, all expired sessions at once. A key is set once in the life of
the process, and only a packet that sets it reaches `upsert`, so its branch for a peer that has a session already
is in the model but never taken. `online` is what the router's `peer_health` learns from the handshake.

### DatasetMount

The vault's paths lead to the layer `dataset` while the dataset is mounted and to the `underlay` otherwise; OpenZFS
mounts over a directory that is not empty, so what was stored beside the dataset is hidden by a later mount. `pc`
has the three tasks that give ZFS commands: `main` (from the configuration file to the server, in the order of
`main.rs`), the health loop, and a provision request of the API. Each command is a step; it can fail, and the code's
reaction (a listing that fails counts as "not there", a mount that fails is only logged) is its alternative.
`HealthFallback` is the branch for an error status of the middleware: it tests whether the mount path exists, which it
does once the vault was opened, so it takes the dataset for mounted. `DatasetInfo` always fails: it asks `zfs list`
for the column `pool`, which is no property of a dataset (`truenas.rs:132`), so that `cached_dataset` stays empty and is
not in the state. An upload has the steps of `store_shard` that
touch a layer (directory, shard, metadata, cache) and the flush of `directory.enc`, which lies in `.meta/` under the
same mount point; a deletion has the steps of `delete_group`. What these steps do within one layer, with errors and
several tasks at one group, is in `Vault`.

### MerkleTree

One step per level of the loop that `merkle_root` and `merkle_proof` share, one per sibling of verification. Hashes
are ideal: terms that are equal only for equal inputs. The reference is written the other way round, from the root
down: a group is split at the largest power of two below its size (`Split`), and `TreeHash` and `AuditPaths` are
recursive functions on groups. Shards and nodes are hashed alike (`Hash`), as in the code: a shard that is the 64 bytes
of two hashes has the hash of their node, and the instance has such a shard. A root therefore binds the shards of a
group among groups of its size, and not the size: the configuration `MerkleLimits`. `MerkleSpec` and its parts carry
the module's name because `IntegrityProofs` extends this module beside `SessionGuard`.

## 3. Runs

Properties that hold:

| Run | Bounds | Shows |
|---|---|---|
| `EncryptedDirectory` | 2 handlers, 4 paths (root, one level, nested), 2 contents, 3 files | `NamesUnique`, `ListingResolves`, `FilesAreAMap` |
| `EncryptedDirectoryFlush` | the same module: 2 handlers, 2 paths, 1 error, 1 hang-up, 1 restart, fair | `DiskMirrorsTree`, `AckedIsDurable`, `RequestsAnswered` |
| `Vault` | 1 group of 3 shards, 3 tasks, 1 error, 1 crash, the TTL is 1 tick | `CacheIsRecoverable`, `PublishedNotOrphaned`, `PublishedIntact`, `NoSelfReplay` |
| `VaultLive` | 1 group of 3 shards, 2 tasks, 2 errors, 2 crashes, fair | `PublishedReclaimed` |
| `WanRouter` | 3 peers in 4 lists, 3 + 2 shards | `RouteComplete`, `CanReconstructIsSound`, `NewRoutesReachable`, `PlanPrefersReachable` |
| `DavFs` | 2 handlers, an upload of 2 blocks and one of 1, 2 paths, 1 + 1 shards, 1 error, and 1 hang-up, collection or restart | `ListedReadable`, `DeletedStaysGone`, `ReadsAreAsStored` |
| `SessionGuard` | counters 0..9, window 3 in 4 bits, 2 units to both timeouts | `NoDoubleAccept`, `FreshNotRejected`, `FiltersReplays`, and the inductive invariant `WindowInv` |
| `UdpReceiver` | 3 handshakes of 2 peers, 2 data messages, 2 packets under way, 1 disturbance, 3 and 2 units to the timeouts, fair | `KeyIsThePeers`, `SessionsShareKey`, `InOrderDecoded`, `SessionsEnd` |
| `DatasetMount` | 1 group of 3 shards, 2 failing commands, 2 changes of the layer by others, 1 restart, fair | `UndisturbedOnDataset`, `CachedIsRecoverable`, `ChangeLosesOneShard`, `MountedIfReported` |
| `MerkleTree` | 1 to 6 shards of 3 contents, one of them two hashes, every place, every shard to verify | `RootBindsShards`, `ProofIsAuditPath`, `AcceptedIsTheShard` |

Why these bounds are enough to be interesting: a race over the lock needs one handler in its flush and
another in its change; a stale resolution needs two handlers and a second upload; a deletion race needs two wipes and the
collector (three tasks); an off-by-one over blocks or shards needs two blocks and two shards; the window
needs jumps below, at and above its width and counters more than two widths apart; a leftover packet needs
two messages under one id; packets of two messages come mixed with two of them under way; a group torn over both layers needs a change in each direction, and the first, middle and
last of three shards to hit; a collection under an upload needs a shard before it and one after it, a tick past the
TTL between them; a metadata file that a later shard's write tears needs two shards and a crash; five shards have an
odd last hash that rises two levels, three and six one that rises one.
The type invariant of each module is checked in one of its runs. `EncryptedDirectory` and `DavFs` use symmetry over handlers (and contents);
runs with liveness use none. Bounds on errors, hang-ups, restarts, collections and disturbances are constants, in the guards of the actions they bound.

`CHECK_DEADLOCK FALSE` is set for `Vault` (when everything is stored, reclaimed and the clock is at its bound the
program only waits), for `UdpReceiver` (when every message has been sent and received and every session has ended),
for `DatasetMount` (the daemon is down and not restarted) and for `MerkleTree` (the verdict is given).

Statements of the repository that the code does not keep, each with the shortest history TLC finds:

| Run | Statement | What happens |
|---|---|---|
| `RestartLosesDirectory` | `config.rs:28` persistent identity | a restart draws a new identity and starts with an empty tree |
| `ReusedIdLosesMessage` | `network.rs:29` ids for data | the third packet of a message breaks the next message of its id |

Further configurations, not among the regular runs, show disagreements of the same kind
(`tlc -config <name>.cfg MC<module>`, with `-continue` where one of them checks two statements); one more, `VaultLiveTwoGroups`, passes: `PublishedReclaimed` for two groups of two
shards, where the first group that cannot be deleted ends a collection.

| Configuration | Statement | What happens |
|---|---|---|
| `NestedPathNotFound` (EncryptedDirectory) | `directory.rs:199` | a file two levels deep never resolves |
| `RootPaths`, `RootPathsStayInRoot` (EncryptedDirectory) | `directory.rs:245` "File is in root" | a root path resolves to another directory's file |
| `RootPaths`, `PutIsVisible` (EncryptedDirectory) | `davfs.rs:12` PUT | a second upload to a root path is hidden by the first |
| `GetReturnsCiphertext` (DavFs) | `davfs.rs:17` transparent decryption | GET answers ciphertext and parity; the key is gone |
| `DeleteRemovesOther` (DavFs) | `davfs.rs:329` | DELETE, DELETE and PUT race: an entry is removed whose shards stay |
| `DeleteWipesAlias` (DavFs) | `davfs.rs:14` DELETE | DELETE of a root path wipes another file's shards |
| `OneErrorLosesFile` (DavFs) | `crypto.rs:279` any `data_shards` of all | one write that failed half way makes every GET fail |
| `OrphanedByCrash` (Vault) | `vault.rs:3`, `vault.rs:315` | a crash before the first metadata file leaves a group for ever |
| `OrphanedByTornMeta` (Vault) | `vault.rs:81` recovery from disk | a later shard's metadata error and a restart leave an acknowledged group for ever |
| `CollectedDuringUpload` (Vault) | `vault.rs:315` expired groups | a collection takes the first shards of an upload that goes on |
| `ReadsOfWipedShards` (Vault) | `vault.rs:4`, `vault.rs:33` integrity | a read during a wipe returns zeros |
| `ParityOnSamePeer` (WanRouter) | `router.rs:6` distinct peers | a data and a parity shard go to one peer |
| `TwoOfThree`, `AnyTwoPacketsDecode` (UdpReceiver) | `crypto.rs:241` any two of three | one lost packet loses the message |
| `TwoOfThree`, `AnyTwoSharesGiveKey` (UdpReceiver) | `crypto.rs:292` 2-of-3 | shares 1 and 3 are equal |
| `OddLengthLost` (UdpReceiver) | `network.rs:30` plaintext byte count | odd lengths do not decrypt |
| `SecondHandshake`, `SessionKeyWasSent` (UdpReceiver) | `main.rs:393` | a session whose key nobody sent |
| `SecondHandshake`, `PeersCanReturn` (UdpReceiver) | `session.rs:213` re-authentication | after the first session no handshake counts |
| `OnlineByFingerprint` (UdpReceiver) | `main.rs:389` "Mark peer as online in router" | the router hears of a fingerprint and asks by nickname |
| `HiddenLayer`, `AckedOnDataset` (DatasetMount) | `README.md:25` data shards go to the vault on ZFS | an upload is acknowledged beside the dataset |
| `NotMountedAgain` (DatasetMount) | `truenas.rs:216` mounts what is not mounted | without reports of the middleware the dataset stays unmounted |
| `HiddenLayer`, `WipedIsGone` (DatasetMount) | `vault.rs:292` wipe | a wipe of a group on the other layer succeeds and removes nothing |
| `MerkleLimits`, `EveryProofVerifies` (MerkleTree) | `crypto.rs:176` verification | siblings are always hashed on the right: only the first shard's proof verifies |
| `MerkleLimits`, `RootBindsSize` (MerkleTree) | `crypto.rs:90` the root of a list of shards | a shard of 64 bytes has the root of a group of two |

Seen while modelling and left to prose: `config.rs:58` speaks of "unreconstructed" shards, but `garbage_collect`
looks at the age alone and collects files that have been read like any other.

### Fairness

* `EncryptedDirectory!FairSpec`: weak fairness of each handler's own steps. tokio polls a task that can go on,
  its `RwLock` is first come, first served, and a blocking write returns, with or without an error. No request
  is fair: clients need not send any.
* `Vault!FairSpec`: weak fairness of each upload's and each deletion's steps, of the collector's next start (the
  loop of `main.rs:245-256`) and of the clock. Wipes, errors and crashes are not fair. `PublishedReclaimed` is
  checked with one error and one crash (a group whose deletion failed every time would stay) and with one wipe at a
  time: two clients that asked for the wipe of one group over and over could make every collection fail half way.
* `UdpReceiver!FairSpec`: weak fairness of the clock and of the monitor, which wakes every 30 seconds
  (`session.rs`, `heartbeat_monitor_loop`). Packets are not fair.
* `DatasetMount!FairSpec`: weak fairness of the start and of the health loop, whose commands return. Nothing is assumed
  of the middleware: `MountedIfReported` itself says "if it reports again and again", and `NotMountedAgain` shows what
  happens otherwise, when the fallback takes an unmounted dataset for a mounted one for ever.

## 4. Proofs

| Theorem | Module | Argument |
|---|---|---|
| `TypeCorrect` | `EncryptedDirectoryProofs` | inductive; the lemmas of `DirectoryTreeProofs` give the type of the tree after each operation |
| `UniquelyNamed` | `EncryptedDirectoryProofs` | `UniqueInv`, below |
| `ListedCanBeOpened` | `EncryptedDirectoryProofs` | `UniqueInv` and the lemmas on listings, below |
| `DiskMirrors`, `Durable` | `EncryptedDirectoryProofs` | `FlushInv`, below |
| `TypeCorrect` | `VaultProofs` | inductive |
| `NeverRejected` | `VaultProofs` | `OneCounter`, below |
| `Recoverable`, `NotOrphaned` | `VaultProofs` | `UploadInv`, `DeleteInv`, `Kept`, below |
| `PublishedKept` | `VaultProofs` | `LossInv` on top of these |
| `ImplementsMap` | `EncryptedDirectoryProofs` | `MapInv` on top of `UniqueInv`, below |
| `RoutesComplete`, `CountIsSound` | `WanRouterProofs` | a route lists the shards in their order, below |
| `TypeCorrect`, `NewRoutesAreReachable`, `PlansPreferReachable` | `WanRouterProofs` | what a filter of a list returns, below |
| `TypeCorrect` | `DavFsProofs` | `TypeInv`: with it, where in its loops each handler can be |
| `DeletedGone`, `ListedCanBeRead`, `ReadsStored` | `DavFsProofs` | `OwnerInv` with `GoneInv`, `KeptInv` and `BodyInv`, below |
| `WindowIsExact`, `TypeCorrect`, `NeverTwice`, `FreshAccepted`, `ImplementsFilter` | `IntegrityProofs` | `WindowInv`, below |
| `KeyIsOwn` | `UdpReceiverProofs` | `PoolInv` with `OwnKeys`, below |
| `OneKey` | `UdpReceiverProofs` | `SessionInv`, below |
| `TypeCorrect` | `UdpReceiverProofs` | `PacketInv` and `SessionInv` |
| `InOrder` | `UdpReceiverProofs` | `FlowInv`, below |
| `RootIsBinding`, `ProofsAreAuditPaths` | `IntegrityProofs` | `BuildInv`, below |
| `OnlyTheShardVerifies` | `IntegrityProofs` | `AcceptInv` on top of these, below |
| `TypeCorrect` | `DatasetMountProofs` | inductive |
| `Recoverable`, `Undisturbed`, `LossBounded` | `DatasetMountProofs` | `PhaseInv` with `RecoverableInv`, `CalmInv`, `LossInv`, below |

They hold for all values of the constants under the `ASSUME`s of the modules: sizes are natural numbers, paths are not
empty, block numbers start at 1 (`davfs.rs`: `counter = block_idx + 1`), there is a group at all (the targets of the
vault's tasks need one to point to), a group has a shard (in `Vault` and in `MerkleTree`), there is an upload (an idle
handler names one), there is at least one data and one parity shard, and the window is not wider than the bitmask (128
and 128 in `SessionGuard::new`; nothing calls `with_timeouts`).

*Names.* `add_file` looks for a duplicate in the tree in memory, but the tree can be replaced by the one on disk, so
`UniqueInv` also says it of the file and of every image that a flush is about to write. `AddFileUnique` and
`RemoveFileUnique` do the rest: an entry is added to the one directory of its name, and removing one moves the
later ones without joining any.

*Listings.* A file that is listed in a directory of one name resolves to itself: a listed name is not that of the
pseudo-directory (`ListedSubdir`), and with the file's it makes a path that `resolve_path` looks up in just the
directories of that name (`ListedFileResolves`), and the first match there is the only one by `UniqueInv`. Deeper
directories are listed too, but nothing in them resolves (the configuration `NestedPathNotFound`).

*Flush.* That the file mirrors the tree between flushes is not inductive: it says nothing during a flush.
`FlushInv` adds that a handler whose write has its client still there is among the readers (`WritersHoldLock`),
that every such writer's image is the tree as it is (`WritersWriteTree`, because a change needs `readers = {}`),
and that, unless a write has outlived its handler, the bytes on disk come from this one image (`OneImage`). Two
overlapping flushes then write the same bytes, so neither can spoil the other, and the last one leaves the tree.
`AckedIsDurable` is an action property of the same invariant.

*Map of files.* `FileMap` has a file per path where `resolve_path` answers by the first match, so a step on one path
must leave the first match of every other as it is: `UniqueInv` gives that there is only one match, and an entry that
is removed moves only later ones. `MapInv` adds what a waiting handler may ask for, and that the file on disk is not
under a key yet to come.

*Replay check of the vault.* That no shard is refused is not inductive either, since it does not say what the
sequence file holds. `OneCounter` does: 0 or the one counter of the group, whatever deletions, errors and
crashes have removed. `WindowAccepts` shows that a counter is accepted against both.

*Cache and metadata of the vault.* `UploadInv` says what an upload may rely on at each of its steps, and that cache
and file tell one age of a group, except while a call has written the one and not yet the other. It is kept because of
`DeleteInv`: a task aims only at groups whose upload is settled and that a client asked to wipe or whose time is up,
or that are caught. For a caught group, whose upload and collection write and remove the same files, the parts on
files and ages claim nothing; every other group keeps them, since a task deletes nothing but what it aims at. With no
failing file operation, cache and file then differ only between the removal of the file and that of the cache entry
(`Kept`).

*Shards of the vault.* `LossInv` counts: of the shards that an upload has come past, those that are not there have
each cost an error, as long as the group is owed to the client (no wipe asked for, not caught, and once it is stored not
too old). Only a failing step loses a shard of such a group, since deletions do not aim at it, and it loses one: the
directory is made anew for every shard, and a shard that was cut counts as lost. While a group is being stored
its shards are counted at any age, since the next shard's metadata makes it young again.

*Routes.* `compute_route` puts the data shards and then the parity shards into a vector, so that place `i` has shard
`i - 1` whatever peers there are; nothing changes a route afterwards. The reachable places are then in bijection with
the indices on them, so `can_reconstruct`, which counts places, counts shards. `compute_route` chooses among the peers
that are online (`TargetsReachable`), so no place of a new route is on a peer that is not, whatever list was in use
before. A plan is three
filters of the places whose shards the node lacks (its own, those on peers that are online, the others), one behind
the other; `Filtered` keeps each place that passes once, so the plan names every shard that is lacking, and one that
is not reachable only behind all that are.

*WebDAV handlers.* No lock spans the awaits of a handler; what takes its place is that an upload has one owner at a
time. `OwnerInv` says so: one handler stores it, only after that is it listed, and only what has been listed is read
or deleted; it is listed once (`Once`), because `add_file` is called once for it. `HandlerSteps` and `GroupSteps`
reduce a step of the system to what it does to one handler and to one group: routes and shards come only from the PUT
of their upload and go only with its DELETE, a collection or a restart. On this rest three arguments. `GoneInv`: a
DELETE has wiped every block before the one it is at, and below the root its path still leads to the file it has resolved or
that file is no longer listed (`AddFileResolves`, `RemoveFileResolves`), so `remove_file` removes that one and no
other. `KeptInv`: the shards of a block that are not there in full were each paid for with an I/O error, on the way
into the vault (`Unstored`), there (`Lacks`), and on the way out (`Lost`), which bounds what a GET can find missing or cut;
what it got cut is cut in the vault, and nothing it got is zeroed, since only a wipe zeroes (`FairlyRead`, `NoZeros`).
`BodyInv`: the answer is the blocks before the one a GET is at (`RebuiltIsRow`: with one shard that is whole the others
are computed as they were stored, because shards of one length with it are not cut). `KeptInv` and `BodyInv` need that
nobody deletes or collects the file (`doomed`), and `BodyInv` that there were fewer errors than shards: if every shard
of a block was cut to the same length, the code puts them together to an answer of that length.

*Window.* `BitsAreCounters` relates bit and counter within the window, `NewestIsLargest` makes `v_max` the
largest accepted counter; together with the type invariant they are inductive. Bits between the window's and
the bitmask's width say nothing and are not constrained. The three properties follow: an accepted counter above
`v_max` is larger than all before it, one within the window has its bit unset; conversely a fresh one has. The
refinement of `ReplayFilter` combines these with the largest element: the abstract filter quantifies over all
accepted counters, the guard looks at `v_max` only.

*Master key.* A received packet sets the key only together with the key of one session (`ReceiveSetsBoth`).
`SessionInv` is the shape of the session table and that every key in it is the master key, which says what the other
sessions hold after one of them was set or removed. Whose key it is needs the pool: what waits under an id has that
id (`PoolInv`), so the two packets that make a key both are handshake packets, and of one peer because the blob they
make verifies (`JoinedKey`); they may be of two handshakes of that peer (the configuration `SecondHandshake`).

*In-order delivery.* `FlowInv` follows one message that has its id to itself while nothing was lost, doubled or
swapped: its packets under way are in order and are the last ones of those sent (`Ascending`, `Progress`), and the pool
of its id holds the first packet exactly when the second is the next of them to come. So the second meets the first
and the message is decoded. Packets of other messages, sent and received between them, change neither, since their id
is another one.

*Merkle tree.* `BuildInv` relates the loop to the reference. After each round the level of the loop is what the
reference tree has over pieces of `w` shards, the last one possibly shorter (`Reached`, `LevelOf`), where `w` is a
power of two that doubles; an odd last hash goes up as it is because a piece of at most `w` shards is one piece of
width `2 * w` too (`LevelUp`), and the path to the shard grows by the sibling or not at all (`PathUp`). When one hash
is left it is `TreeHash`, and `TreeHashInjective` says that no other group of that size has it: groups of one size are
split alike, so their roots are hashes of the same shape down to the shards. What needs induction over the size
of a group (that the reference functions exist, that the hash is injective) is proved from a least counterexample
(`LeastNumber`), since the library's induction theorems are out of reach. `AcceptInv` says that the siblings that are
left lead from the hash reached to the hash computed last (`Leads`): backwards along the chain, a root that comes out
right came from the right pair of hashes. The code puts every sibling on the right, so a proof of a shard that is a
right child is rejected (the configuration `MerkleLimits`); one that is accepted was for the shard at its place,
whichever side the siblings belong to.

*Dataset.* `PhaseInv` ties uploads, deletions and the daemon together: uploads run under a serving daemon, and what is
deleted is not being stored. `RecoverableInv` needs only that metadata is written before the cache entry.
`CalmInv` is the undisturbed case: from the mount on, `main` and every step of an upload see the dataset, and nothing
is on the underlay. `LossInv` bounds the loss under changes of the layer: a shard is lost when its group's directory,
just made, is hidden before the shard is written; that shard is charged to the change from the moment of the change
(`Charge`), so the number of missing shards plus the charge never exceeds the number of changes. The next shard makes
the directory anew, which ends the charge.

Only model-checked is liveness (`RequestsAnswered`, `PublishedReclaimed`, `SessionsEnd`, `MountedIfReported`): fairness
and ENABLED are outside what the prover handles. The two violation runs and the further configurations are
counterexamples, which TLC finds and nothing proves.

## 5. Not modelled

* `set_vault_quota` and `send_alert` of the TrueNAS bridge pass a value on. `--init-vault` ends after the mount that
  `DatasetMount` has. Values of the configuration and the command line are constants.
* PROPFIND, listings, status and metrics endpoints: read and format.
* Ciphers, hashes and signatures: ideal. `LegacySessionGuard` repeats the window and is not used.
* `push_shard_to_peer`, `fetch_shard_from_peer`, the TCP functions: stubs. The keepalive loop: sends packets that the receiver drops.
* `SessionManager::find` hands out a copy that no caller keeps or writes back. `remove` and the API's deletion of a group are
  behind routes that axum 0.7 takes literally and no request reaches.
* `import_route` and `mark_offline` have no caller; the former is not modelled, the latter as the interface it is.
* The TrueNAS app and the container image: deployment files.

## 6. Plan

Done: all components that change state, with the composition of WebDAV, directory, router and vault (`DavFs`) and
that of start, dataset and vault (`DatasetMount`); eight proof modules, with a theorem for every safety property
of the regular runs. What is left:

1. `import_route` and the exchange of routes between nodes, once the code has it: a composition of router and vault on
   several nodes with shards pushed as the interface promises.
