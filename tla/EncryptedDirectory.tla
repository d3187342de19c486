------------------------ MODULE EncryptedDirectory ------------------------
(***************************************************************************)
(* The directory database of directory.rs: the tree in memory behind a     *)
(* tokio RwLock, the sealed copy of it on disk, and the WebDAV request     *)
(* handlers that change both.                                              *)
(*                                                                         *)
(* add_file and remove_file change the tree under the write lock (there is *)
(* no await inside, so the change is one step), drop that lock, and call   *)
(* flush, which takes the read lock, seals the tree and holds the lock     *)
(* during fs::write.  fs::write truncates the file in place and then       *)
(* writes it, on a thread of the blocking pool: when the client hangs up,  *)
(* the handler's future is dropped and with it the lock, while the write   *)
(* goes on.                                                                *)
(***************************************************************************)
EXTENDS DirectoryTree, FiniteSets

CONSTANTS
    Clients,         \* concurrent request handlers
    Names,           \* components of paths, "_root" among them
    Paths,           \* paths that requests name, see DirectoryTree
    Uploads,         \* distinguishes the contents two uploads can have
    MaxFiles,        \* bound on the number of files in the tree
    MaxRestarts,     \* bound on the number of restarts of the process
    MaxFaults,       \* bound on the number of I/O errors
    MaxDisconnects   \* bound on the number of clients that hang up

ASSUME PathsAssumption ==
    /\ RootDir \in Seq(Names)
    /\ Paths \subseteq Seq(Names) \ {<<>>}

ASSUME BoundsAssumption ==
    /\ MaxFiles \in Nat
    /\ MaxRestarts \in Nat
    /\ MaxFaults \in Nat
    /\ MaxDisconnects \in Nat

VARIABLES
    tree,         \* EncryptedDirectory.tree
    disk,         \* the file at db_path
    key,          \* crypto_key: the number of the identity it is derived from
    queue,        \* tasks waiting for the lock, first come first served
    readers,      \* handlers holding the read lock across an await
    pc,           \* where each handler is
    op,           \* the change each handler is about to make
    snap,         \* the tree each handler's flush has serialized
    orphaned,     \* some write has outlived its handler in this process
    faults,       \* I/O errors so far
    disconnects   \* clients that have hung up so far

vars == <<tree, disk, key, queue, readers, pc, op, snap, orphaned, faults,
          disconnects>>

Entry == [filename : Names, upload : Uploads]

NoRequest == [kind |-> "none"]

Request ==
    [kind : {"add"}, path : Paths, upload : Uploads]
        \cup [kind : {"remove"}, path : Paths] \cup {NoRequest}

(* Handlers that can take a request; "ok" and "err" record the last answer. *)
Answered == {"idle", "ok", "err"}

Writing == {"open", "write"}

\* As the code would be if store_file kept the whole path as the file name.
EntryOfWholePath(req) == [filename |-> req.path, upload |-> req.upload]

EntryOf(req) == [filename |-> Last(req.path), upload |-> req.upload]

----------------------------------------------------------------------------
(* The database file.  "partial" bytes do not decrypt; `tree` is then the  *)
(* tree whose image is as long as the file.                                *)

Blank(state) == [state |-> state, key |-> 0, tree |-> NewTree]

Sealed(k, t) == [state |-> "sealed", key |-> k, tree |-> t]

Partial(t) == [state |-> "partial", key |-> 0, tree |-> t]

(* decrypt_tree as used by open: anything that does not authenticate under *)
(* the key "starts fresh".                                                 *)
OpenTree(d, k) ==
    IF d.state = "sealed" /\ d.key = k THEN d.tree ELSE NewTree

(* The trees whose image can determine the length of the file once c has   *)
(* written to it at offset 0: bytes that another write put there after c   *)
(* truncated the file stay beyond the end of a shorter image.              *)
Lengths(c) ==
    IF disk.state = "empty" THEN {snap[c]} ELSE {snap[c], disk.tree}

----------------------------------------------------------------------------
Init ==
    /\ tree = NewTree
    /\ disk = Blank("absent")
    /\ key = 0
    /\ queue = <<>>
    /\ readers = {}
    /\ pc = [c \in Clients |-> "idle"]
    /\ op = [c \in Clients |-> NoRequest]
    /\ snap = [c \in Clients |-> NewTree]
    /\ orphaned = FALSE
    /\ faults = 0
    /\ disconnects = 0

PendingAdds ==
    {c \in Clients : pc[c] = "mutate" /\ op[c].kind = "add"}

(* PUT reaches add_file, which asks for the write lock.                    *)
RequestAdd(c, path, upload) ==
    /\ pc[c] \in Answered
    /\ FileCount(tree) + Cardinality(PendingAdds) < MaxFiles
    /\ op' = [op EXCEPT ![c] =
                 [kind |-> "add", path |-> path, upload |-> upload]]
    /\ pc' = [pc EXCEPT ![c] = "mutate"]
    /\ queue' = Append(queue, c)
    /\ UNCHANGED <<tree, disk, key, readers, snap, orphaned, faults,
                   disconnects>>

(* DELETE calls remove_file only for a path that resolved before.          *)
RequestRemove(c, path) ==
    /\ pc[c] \in Answered
    /\ ResolvePath(tree, path) # {}
    /\ op' = [op EXCEPT ![c] = [kind |-> "remove", path |-> path]]
    /\ pc' = [pc EXCEPT ![c] = "mutate"]
    /\ queue' = Append(queue, c)
    /\ UNCHANGED <<tree, disk, key, readers, snap, orphaned, faults,
                   disconnects>>

Fails(req) ==
    IF req.kind = "add"
    THEN AddFileFails(tree, Front(req.path), EntryOf(req))
    ELSE RemoveFileFails(tree, req.path)

Applied(req) ==
    IF req.kind = "add"
    THEN AddFile(tree, Front(req.path), EntryOf(req))
    ELSE RemoveFile(tree, req.path)

\* As the code would be if it did not wait for the readers.
MutateUnlocked(c) ==
    /\ pc[c] = "mutate"
    /\ queue # <<>> /\ Head(queue) = c
    /\ IF Fails(op[c])
       THEN /\ pc' = [pc EXCEPT ![c] = "err"]
            /\ queue' = Tail(queue)
            /\ UNCHANGED tree
       ELSE /\ tree' = Applied(op[c])
            /\ pc' = [pc EXCEPT ![c] = "flush"]
            /\ queue' = Append(Tail(queue), c)
    /\ op' = [op EXCEPT ![c] = NoRequest]
    /\ UNCHANGED <<disk, key, readers, snap, orphaned, faults, disconnects>>

(* The body of add_file and remove_file under the write lock, up to the    *)
(* drop of the lock and the call of flush, which queues for the read lock. *)
Mutate(c) ==
    /\ pc[c] = "mutate"
    /\ queue # <<>> /\ Head(queue) = c
    /\ readers = {}
    /\ IF Fails(op[c])
       THEN /\ pc' = [pc EXCEPT ![c] = "err"]
            /\ queue' = Tail(queue)
            /\ UNCHANGED tree
       ELSE /\ tree' = Applied(op[c])
            /\ pc' = [pc EXCEPT ![c] = "flush"]
            /\ queue' = Append(Tail(queue), c)
    /\ op' = [op EXCEPT ![c] = NoRequest]
    /\ UNCHANGED <<disk, key, readers, snap, orphaned, faults, disconnects>>

(* flush gets the read lock, serializes and seals the tree, and hands the  *)
(* bytes to fs::write.                                                     *)
FlushBegin(c) ==
    /\ pc[c] = "flush"
    /\ queue # <<>> /\ Head(queue) = c
    /\ queue' = Tail(queue)
    /\ readers' = readers \cup {c}
    /\ snap' = [snap EXCEPT ![c] = tree]
    /\ pc' = [pc EXCEPT ![c] = "open"]
    /\ UNCHANGED <<tree, disk, key, op, orphaned, faults, disconnects>>

FlushTruncate(c) ==
    /\ pc[c] = "open"
    /\ disk' = Blank("empty")
    /\ pc' = [pc EXCEPT ![c] = "write"]
    /\ UNCHANGED <<tree, key, queue, readers, op, snap, orphaned, faults,
                   disconnects>>

\* As the code would be if a failed flush kept the lock.
LeaveOnlyIfOk(c, answer) ==
    /\ pc' = [pc EXCEPT ![c] = IF c \in readers THEN answer ELSE "idle"]
    /\ snap' = [snap EXCEPT ![c] = NewTree]
    /\ readers' = IF answer = "ok" THEN readers \ {c} ELSE readers

(* The lock goes with the handler; a handler that is gone answers nobody.  *)
Leave(c, answer) ==
    /\ pc' = [pc EXCEPT ![c] = IF c \in readers THEN answer ELSE "idle"]
    /\ snap' = [snap EXCEPT ![c] = NewTree]
    /\ readers' = readers \ {c}

FlushWrite(c) ==
    /\ pc[c] = "write"
    /\ disk' \in {Sealed(key, snap[c])}
                    \cup {Partial(t) : t \in Lengths(c) \ {snap[c]}}
    /\ Leave(c, "ok")
    /\ UNCHANGED <<tree, key, queue, op, orphaned, faults, disconnects>>

(* fs::write fails when it opens the file or while it writes.              *)
FlushFails(c) ==
    /\ faults < MaxFaults
    /\ pc[c] \in Writing
    /\ disk' \in {disk} \cup
          IF pc[c] = "open" THEN {} ELSE {Partial(t) : t \in Lengths(c)}
    /\ Leave(c, "err")
    /\ faults' = faults + 1
    /\ UNCHANGED <<tree, key, queue, op, orphaned, disconnects>>

(* The client hangs up while its handler waits at an await: a place in the *)
(* lock's queue is given up; a write in progress continues without lock.   *)
Disconnect(c) ==
    /\ disconnects < MaxDisconnects
    /\ disconnects' = disconnects + 1
    /\ \/ /\ pc[c] \in {"mutate", "flush"}
          /\ pc' = [pc EXCEPT ![c] = "idle"]
          /\ \E i \in DOMAIN queue :
                queue[i] = c /\ queue' = RemoveAt(queue, i)
          /\ op' = [op EXCEPT ![c] = NoRequest]
          /\ UNCHANGED <<readers, orphaned>>
       \/ /\ c \in readers
          /\ readers' = readers \ {c}
          /\ orphaned' = TRUE
          /\ UNCHANGED <<pc, queue, op>>
    /\ UNCHANGED <<tree, disk, key, snap, faults>>

(* The process ends at any point and starts again.  main.rs generates a    *)
(* new identity seed on every start, so the directory key is a new one.    *)
Restart ==
    /\ key < MaxRestarts
    /\ key' = key + 1
    /\ tree' = OpenTree(disk, key')
    /\ queue' = <<>>
    /\ readers' = {}
    /\ pc' = [c \in Clients |-> "idle"]
    /\ op' = [c \in Clients |-> NoRequest]
    /\ snap' = [c \in Clients |-> NewTree]
    /\ orphaned' = FALSE
    /\ UNCHANGED <<disk, faults, disconnects>>

Step(c) ==
    Mutate(c) \/ FlushBegin(c) \/ FlushTruncate(c) \/ FlushWrite(c)

Next ==
    \/ \E c \in Clients :
          \/ \E p \in Paths, u \in Uploads : RequestAdd(c, p, u)
          \/ \E p \in Paths : RequestRemove(c, p)
          \/ Step(c)
          \/ FlushFails(c)
          \/ Disconnect(c)
    \/ Restart

Spec == Init /\ [][Next]_vars

(* A task that can go on is scheduled, and every system call returns.      *)
FairSpec == Spec /\ \A c \in Clients : WF_vars(Step(c))

----------------------------------------------------------------------------
TreeType == TreesOver(Names, Entry)

(* Type invariant of the directory and its handlers.                       *)
TypeOK ==
    /\ tree \in TreeType
    /\ disk \in [state : {"absent", "empty", "partial", "sealed"},
                 key : Nat, tree : TreeType]
    /\ key \in Nat
    /\ queue \in Seq(Clients)
    /\ readers \in SUBSET Clients
    /\ pc \in [Clients -> Answered \cup {"mutate", "flush"} \cup Writing]
    /\ op \in [Clients -> Request]
    /\ snap \in [Clients -> TreeType]
    /\ orphaned \in BOOLEAN
    /\ faults \in Nat
    /\ disconnects \in Nat

(* A path names one file: no two directories have one name, and add_file's *)
(* duplicate check keeps file names apart in every directory but the root, *)
(* whatever requests run concurrently.                                     *)
NamesUnique ==
    /\ IsInjective([i \in DOMAIN tree |-> tree[i].dirname])
    /\ \A i \in DOMAIN tree : tree[i].dirname # RootDir =>
          IsInjective([j \in DOMAIN tree[i].files |-> tree[i].files[j].filename])

(* What list_directory shows of a directory below the root is what         *)
(* resolve_path finds there: a listed file can be opened, and is the file  *)
(* that was listed.                                                        *)
ListingResolves ==
    \A d \in ToSet(ListSubdirs(tree)) : Len(d) = 1 =>
        \A f \in ToSet(ListDirectory(tree, d)) :
            ResolvePath(tree, Append(d, f.filename)) = {f}

(* With no handler between its change and the end of its flush, the file   *)
(* decrypts to the tree in memory: what a reader of the tree sees is what  *)
(* the same identity would find after a restart.  Failed flushes and       *)
(* clients that hang up break it (the change stays in memory only).        *)
DiskMirrorsTree ==
    (/\ \A c \in Clients : pc[c] \notin {"flush"} \cup Writing
     /\ faults = 0 /\ disconnects = 0)
    => OpenTree(disk, key) = tree

(* A request that add_file or remove_file answers with Ok is on disk at    *)
(* that moment, with every change made before it, also those whose own     *)
(* flush failed or was abandoned: the read lock held across fs::write      *)
(* keeps the tree from changing and concurrent flushes write the same      *)
(* image.  Only a write that outlives its handler (and so its lock) can    *)
(* spoil this.                                                             *)
AckedIsDurable ==
    [][\A c \in Clients :
          pc[c] = "write" /\ pc'[c] = "ok" /\ ~orphaned
              => OpenTree(disk', key') = tree']_vars

(* Every request is answered (or abandoned by its client): the lock's      *)
(* first-come-first-served queue lets neither flushes nor changes starve.  *)
RequestsAnswered ==
    \A c \in Clients : pc[c] \notin Answered ~> pc[c] \in Answered

(* The paths resolve_path can tell apart: one directory and a file name.   *)
FlatPath == {p \in Paths : Len(p) = 2 /\ p[1] # RootDir[1]}

Map == INSTANCE FileMap WITH
          FlatPath <- FlatPath, File <- Entry,
          files <- [p \in FlatPath |-> ResolvePath(tree, p)],
          asked <- {[path |-> op[c].path,
                     file |-> IF op[c].kind = "add" THEN {EntryOf(op[c])} ELSE {}]
                       : c \in {d \in Clients : pc[d] = "mutate"}}

(* As seen through resolve_path, the files one level below the root are a  *)
(* map: an upload never replaces or hides a file, and a path changes only  *)
(* by a request for that path, whatever runs besides it.                   *)
FilesAreAMap == Map!Spec

----------------------------------------------------------------------------
(* config.rs calls the identity "persistent": a directory that was sealed  *)
(* before a restart is opened by it.  main.rs draws a new seed instead.    *)
DirectorySurvivesRestart ==
    [][key' # key /\ disk.state = "sealed" => tree' = disk.tree]_vars

(* resolve_path "returns None if the path doesn't exist": a file that was  *)
(* added under a directory path and not removed is found there.            *)
AddedFilesResolve ==
    \A p \in Paths : Len(p) > 1 =>
        \A i \in DOMAIN tree :
            /\ tree[i].dirname = Front(p)
            /\ FileIndex(tree[i].files, Last(p)) # 0
            => ResolvePath(tree, p) # {}

(* resolve_path's branch for "File is in root" finds files of the root.    *)
RootPathsStayInRoot ==
    \A p \in Paths : Len(p) = 1 /\ ResolvePath(tree, p) # {} =>
        \E i \in DOMAIN tree :
            /\ tree[i].dirname = RootDir
            /\ ResolvePath(tree, p) \subseteq ToSet(tree[i].files)

(* "PUT - Upload / write file": once a PUT of a file at the root has been  *)
(* applied, the path resolves to what it uploaded.                         *)
PutIsVisible ==
    [][\A c \in Clients :
          /\ pc[c] = "mutate" /\ pc'[c] = "flush"
          /\ op[c].kind = "add" /\ Len(op[c].path) = 1
          => ResolvePath(tree', op[c].path) = {EntryOf(op[c])}]_vars
=============================================================================
