---------------------------- MODULE DavFsProofs ----------------------------
(***************************************************************************)
(* For every set of handlers, paths and uploads, every length of a body,   *)
(* every number of shards and all bounds on I/O errors and mishaps: the    *)
(* WebDAV handlers stay well typed (TypeCorrect), what a DELETE has        *)
(* removed stays gone (DeletedGone), what is listed can be read            *)
(* (ListedCanBeRead), and a GET is answered with all that was stored of    *)
(* the file (ReadsStored).                                                 *)
(*                                                                         *)
(* OwnerInv says which handlers may share an upload: one stores it, and    *)
(* only when that one is done is it listed, read or deleted.  HandlerSteps *)
(* and GroupSteps say what any step leaves of a handler and of a group.    *)
(* GoneInv follows a DELETE, KeptInv an upload from its PUT to its GETs.   *)
(***************************************************************************)
EXTENDS DavFs, DirectoryTreeProofs, FiniteSetTheorems

USE DEF vaultVars

LEMMA PathParts ==
    ASSUME NEW p \in Paths
    PROVE  /\ p \in Seq(Components) /\ p # <<>>
           /\ Front(p) \in Seq(Components)
<1>1. p \in Seq(ToSet(p)) /\ p # <<>>
  BY UploadAssumption
<1>2. ToSet(p) \subseteq Components
  BY DEF Components
<1> HIDE DEF Components
<1>3. p \in Seq(Components)
  BY <1>1, <1>2
<1>4. Len(p) \in Nat /\ Len(p) > 0
  BY <1>1, <1>3
<1>5. SubSeq(p, 1, Len(p) - 1) \in Seq(Components)
  BY <1>3, <1>4
<1>. QED
  BY <1>1, <1>3, <1>5 DEF Front

LEMMA RootParts == RootDir \in Seq(Components)
<1>1. ToSet(RootDir) = {"_root"}
  BY DEF RootDir, ToSet
<1>. QED
  BY <1>1 DEF RootDir, Components

LEMMA AnyUploadType == AnyUpload \in Uploads
  BY UploadAssumption DEF AnyUpload

----------------------------------------------------------------------------
(* Uploads in the tree.                                                    *)

InTree(t, u) ==
    \E i \in DOMAIN t : \E j \in DOMAIN t[i].files : t[i].files[j].upload = u

(* No upload is listed twice.                                              *)
Once(t) ==
    \A i, k \in DOMAIN t :
        \A j \in DOMAIN t[i].files, l \in DOMAIN t[k].files :
            t[i].files[j].upload = t[k].files[l].upload => i = k /\ j = l

LEMMA AddFileOnce ==
    ASSUME NEW C, NEW F, RootDir \in Seq(C), NEW t \in TreesOver(C, F),
           NEW parent \in Seq(C), NEW entry \in F,
           NEW new, new = AddFile(t, parent, entry),
           Once(t), ~InTree(t, entry.upload)
    PROVE  /\ Once(new)
           /\ \A u : InTree(new, u) => InTree(t, u) \/ u = entry.upload
<1>1. CASE \E i \in DOMAIN t :
              new = WithFiles(t, i, Append(t[i].files, entry))
  <2>1. PICK i \in DOMAIN t :
               new = WithFiles(t, i, Append(t[i].files, entry))
    BY <1>1
  <2> DEFINE fs == t[i].files
             more == Append(fs, entry)
             n == Len(fs) + 1
  <2>2. fs \in Seq(F)
    BY FilesType
  <2>3. /\ more \in Seq(F)
        /\ DOMAIN more = DOMAIN fs \cup {n} /\ n \notin DOMAIN fs
        /\ \A j \in DOMAIN fs : more[j] = fs[j]
        /\ more[n] = entry
    <3> HIDE DEF fs
    <3>. QED
      BY <2>2
  <2> HIDE DEF more, n
  <2>4. /\ DOMAIN new = DOMAIN t
        /\ new[i].files = more
        /\ \A j \in DOMAIN t \ {i} : new[j] = t[j]
    <3>1. new = WithFiles(t, i, more)
      BY <2>1 DEF more
    <3>. QED
      BY <2>3, <3>1, WithFilesPlaces
  <2>5. ASSUME NEW a \in DOMAIN new, NEW j \in DOMAIN new[a].files
        PROVE  IF a = i /\ j = n
               THEN new[a].files[j].upload = entry.upload
               ELSE /\ a \in DOMAIN t /\ j \in DOMAIN t[a].files
                    /\ t[a].files[j].upload = new[a].files[j].upload
    <3>1. CASE a = i
      BY <2>3, <2>4, <2>5, <3>1
    <3>2. CASE a # i
      BY <2>4, <2>5, <3>2
    <3>. QED
      BY <3>1, <3>2
  <2>6. Once(new)
    <3> SUFFICES ASSUME NEW a \in DOMAIN new, NEW b \in DOMAIN new,
                        NEW j \in DOMAIN new[a].files,
                        NEW l \in DOMAIN new[b].files,
                        new[a].files[j].upload = new[b].files[l].upload
                 PROVE  a = b /\ j = l
      BY DEF Once
    <3>1. CASE a = i /\ j = n
      BY <2>5, <3>1 DEF InTree
    <3>2. CASE b = i /\ l = n
      BY <2>5, <3>2 DEF InTree
    <3>3. CASE ~(a = i /\ j = n) /\ ~(b = i /\ l = n)
      BY <2>5, <3>3 DEF Once
    <3>. QED
      BY <3>1, <3>2, <3>3
  <2>7. \A u : InTree(new, u) => InTree(t, u) \/ u = entry.upload
    BY <2>5 DEF InTree
  <2>. QED
    BY <2>6, <2>7
<1>2. CASE new = Append(t, NewDir(ParentDir(parent), entry))
  <2> DEFINE dir == NewDir(ParentDir(parent), entry)
             n == Len(t) + 1
  <2>1. /\ DOMAIN new = DOMAIN t \cup {n} /\ n \notin DOMAIN t
        /\ \A j \in DOMAIN t : new[j] = t[j]
        /\ new[n] = dir
    <3>1. t \in Seq(DirsOver(C, F))
      BY DEF TreesOver
    <3> HIDE DEF dir
    <3>. QED
      BY <1>2, <3>1 DEF dir
  <2>2. DOMAIN dir.files = {1} /\ dir.files[1] = entry
    BY DEF NewDir
  <2> HIDE DEF dir, n
  <2>3. ASSUME NEW a \in DOMAIN new, NEW j \in DOMAIN new[a].files
        PROVE  IF a = n
               THEN j = 1 /\ new[a].files[j].upload = entry.upload
               ELSE /\ a \in DOMAIN t /\ j \in DOMAIN t[a].files
                    /\ t[a].files[j].upload = new[a].files[j].upload
    BY <2>1, <2>2, <2>3
  <2>4. Once(new)
    <3> SUFFICES ASSUME NEW a \in DOMAIN new, NEW b \in DOMAIN new,
                        NEW j \in DOMAIN new[a].files,
                        NEW l \in DOMAIN new[b].files,
                        new[a].files[j].upload = new[b].files[l].upload
                 PROVE  a = b /\ j = l
      BY DEF Once
    <3>1. CASE a = n
      BY <2>3, <3>1 DEF InTree
    <3>2. CASE b = n
      BY <2>3, <3>2 DEF InTree
    <3>3. CASE a # n /\ b # n
      BY <2>3, <3>3 DEF Once
    <3>. QED
      BY <3>1, <3>2, <3>3
  <2>5. \A u : InTree(new, u) => InTree(t, u) \/ u = entry.upload
    BY <2>3 DEF InTree
  <2>. QED
    BY <2>4, <2>5
<1>3. \/ \E i \in DOMAIN t : new = WithFiles(t, i, Append(t[i].files, entry))
      \/ new = Append(t, NewDir(ParentDir(parent), entry))
  BY AddFilePlaces
<1>. QED
  BY <1>1, <1>2, <1>3

LEMMA RemoveFileOnce ==
    ASSUME NEW C, NEW F, NEW t \in TreesOver(C, F), NEW p,
           ~RemoveFileFails(t, p), Once(t),
           NEW new, new = RemoveFile(t, p),
           NEW i, i = RemovedDir(t, p), NEW k, k = RemovedPlace(t, p)
    PROVE  /\ Once(new)
           /\ \A u : InTree(new, u) => InTree(t, u)
           /\ ~InTree(new, t[i].files[k].upload)
<1> DEFINE fs == t[i].files
           less == RemoveAt(fs, k)
           At(j) == IF j < k THEN j ELSE j + 1
<1>1. /\ i \in DOMAIN t
      /\ fs \in Seq(F) /\ k \in DOMAIN fs
      /\ less \in Seq(F) /\ new = WithFiles(t, i, less)
  BY RemoveFilePlaces
<1>2. /\ DOMAIN less = 1 .. Len(fs) - 1
      /\ \A j \in 1 .. Len(fs) - 1 :
            less[j] = IF j < k THEN fs[j] ELSE fs[j + 1]
  BY <1>1, RemoveAtPlaces
<1> HIDE DEF less
<1>3. /\ DOMAIN new = DOMAIN t
      /\ new[i].files = less
      /\ \A j \in DOMAIN t \ {i} : new[j] = t[j]
  BY <1>1, WithFilesPlaces
<1>4. /\ \A j \in DOMAIN less : /\ At(j) \in DOMAIN fs /\ At(j) # k
                                /\ less[j] = fs[At(j)]
      /\ \A j, l \in DOMAIN less : At(j) = At(l) => j = l
  <2>1. DOMAIN fs = 1 .. Len(fs) /\ Len(fs) \in Nat
    BY <1>1
  <2> HIDE DEF fs
  <2>. QED
    BY <1>1, <1>2, <2>1
<1> HIDE DEF At
<1>5. ASSUME NEW a \in DOMAIN new, NEW j \in DOMAIN new[a].files
      PROVE  IF a = i
             THEN /\ At(j) \in DOMAIN t[i].files /\ At(j) # k
                  /\ new[a].files[j].upload = t[i].files[At(j)].upload
             ELSE /\ a \in DOMAIN t /\ j \in DOMAIN t[a].files
                  /\ new[a].files[j].upload = t[a].files[j].upload
  BY <1>3, <1>4, <1>5
<1>6. Once(new)
  <2> SUFFICES ASSUME NEW a \in DOMAIN new, NEW b \in DOMAIN new,
                      NEW j \in DOMAIN new[a].files,
                      NEW l \in DOMAIN new[b].files,
                      new[a].files[j].upload = new[b].files[l].upload
               PROVE  a = b /\ j = l
    BY DEF Once
  <2>1. CASE a = i /\ b = i
    <3>1. j \in DOMAIN less /\ l \in DOMAIN less /\ At(j) = At(l)
      BY <1>1, <1>3, <1>5, <2>1 DEF Once
    <3>. QED
      BY <1>4, <2>1, <3>1
  <2>2. CASE a = i /\ b # i
    BY <1>1, <1>5, <2>2 DEF Once
  <2>3. CASE a # i /\ b = i
    BY <1>1, <1>5, <2>3 DEF Once
  <2>4. CASE a # i /\ b # i
    BY <1>5, <2>4 DEF Once
  <2>. QED
    BY <2>1, <2>2, <2>3, <2>4
<1>7. \A u : InTree(new, u) => InTree(t, u)
  BY <1>1, <1>5 DEF InTree
<1>8. ASSUME NEW a \in DOMAIN new, NEW j \in DOMAIN new[a].files
      PROVE  new[a].files[j].upload # t[i].files[k].upload
  BY <1>1, <1>5, <1>8 DEF Once
<1>. QED
  BY <1>6, <1>7, <1>8 DEF InTree

----------------------------------------------------------------------------
(* Types, and where in its loops each handler can be.                      *)

Putters == {"route", "store", "add"}
Readers == {"fetch", "read", "decode", "send"}
Deleters == {"wipe", "unroute", "unlist"}

CursorOf(c) ==
    /\ pc[c] = "idle" => opts[c] = <<>> /\ body[c] = <<>> /\ path[c] = <<>>
    /\ pc[c] # "idle" => path[c] \in Paths
    /\ pc[c] \in {"route", "store", "fetch", "read", "decode", "wipe", "unroute"}
         => block[c] \in 1 .. Blocks[upload[c]]
    /\ pc[c] \in {"add", "send", "unlist"} => block[c] = Blocks[upload[c]] + 1
    /\ pc[c] \notin {"store", "read", "decode"} => opts[c] = <<>>
    /\ pc[c] \in {"store", "read"} => Len(opts[c]) < TotalShards
    /\ pc[c] = "decode" => Len(opts[c]) = TotalShards

CursorInv == \A c \in Clients : CursorOf(c)

HandlerType ==
    /\ pc \in [Clients -> HandlerPc]
    /\ path \in [Clients -> Paths \cup {<<>>}]
    /\ upload \in [Clients -> Uploads]
    /\ block \in [Clients -> Nat]
    /\ opts \in [Clients -> Seq(Content)]
    /\ body \in [Clients -> Seq(Pieces)]

SharedType ==
    /\ tree \in TreesOver(Components, Entries)
    /\ routes \subseteq Groups
    /\ shards \in [Groups -> SUBSET Shard]
    /\ cut \in [Groups -> SUBSET Shard]
    /\ zeroed \in [Groups -> SUBSET Shard]
    /\ home \in [Uploads -> Paths \cup {<<>>}]
    /\ doomed \subseteq Uploads
    /\ deleted \subseteq Paths \X Uploads
    /\ faults \in Nat /\ mishaps \in Nat

TypeInv == HandlerType /\ SharedType /\ CursorInv

LEMMA TypeParts == TypeOK <=> HandlerType /\ SharedType
  BY DEF TypeOK, HandlerType, SharedType

LEMMA GroupType ==
    ASSUME NEW u \in Uploads, NEW b \in 1 .. Blocks[u]
    PROVE  GroupOf(u, b) \in GroupsOf(u) /\ GroupOf(u, b) \in Groups
<1>1. GroupOf(u, b) \in GroupsOf(u)
  BY DEF GroupsOf
<1>. QED
  BY <1>1 DEF Groups

LEMMA ResolveType ==
    ASSUME TypeInv, NEW p \in Paths, NEW f \in ResolvePath(tree, p)
    PROVE  f = EntryOf(p, f.upload) /\ f.upload \in Uploads
           /\ InTree(tree, f.upload)
<1>1. /\ f \in Entries /\ f.filename = Last(p)
      /\ InTree(tree, f.upload)
  <2>1. tree \in TreesOver(Components, Entries)
    BY DEF TypeInv, SharedType
  <2>2. p \in Seq(Components) /\ p # <<>>
    BY PathParts
  <2>. QED
    BY <2>1, <2>2, ResolveListed DEF InTree
<1>. QED
  BY <1>1 DEF Entries, EntryOf

LEMMA TypeInit == ASSUME Init PROVE TypeInv
<1>1. tree \in TreesOver(Components, Entries)
  BY DEF Init, NewTree, TreesOver
<1>. QED
  BY <1>1, AnyUploadType, CodeAssumption, UploadAssumption
     DEF Init, TypeInv, HandlerType, SharedType, CursorInv, CursorOf, HandlerPc

(* A request that starts.                                                  *)
LEMMA StartType ==
    ASSUME TypeInv, NEW c \in Clients, NEW p \in Paths, NEW u \in Uploads,
           NEW loop \in {"route", "fetch", "wipe"},
           NEW after \in {"add", "send", "unlist"}, Start(c, p, u, loop, after)
    PROVE  HandlerType' /\ CursorInv'
<1>1. Blocks[u] \in Nat
  BY UploadAssumption
<1>2. pc'[c] = IF Blocks[u] > 0 THEN loop ELSE after
  BY DEF Start, TypeInv, HandlerType
<1>3. /\ path'[c] = p /\ upload'[c] = u /\ block'[c] = 1
      /\ opts'[c] = <<>> /\ body'[c] = <<>>
  BY DEF Start, TypeInv, HandlerType, CursorInv, CursorOf
<1>4. CursorOf(c)'
  BY <1>1, <1>2, <1>3 DEF CursorOf
<1>5. ASSUME NEW d \in Clients, d # c PROVE CursorOf(d)'
  BY <1>5 DEF Start, TypeInv, HandlerType, CursorInv, CursorOf
<1>6. CursorInv'
  BY <1>4, <1>5 DEF CursorInv
<1>7. pc' \in [Clients -> HandlerPc]
  BY DEF Start, TypeInv, HandlerType, HandlerPc
<1>. QED
  BY <1>6, <1>7 DEF Start, TypeInv, HandlerType

(* A request that is answered, or whose client hangs up.                   *)
LEMMA AnswerType ==
    ASSUME TypeInv, NEW c \in Clients, Answer(c)
    PROVE  HandlerType' /\ CursorInv'
<1>1. CursorOf(c)'
  BY DEF Answer, TypeInv, HandlerType, CursorOf
<1>2. ASSUME NEW d \in Clients, d # c PROVE CursorOf(d)'
  <2>1. /\ pc'[d] = pc[d] /\ path'[d] = path[d] /\ upload'[d] = upload[d]
        /\ block'[d] = block[d] /\ opts'[d] = opts[d] /\ body'[d] = body[d]
    BY <1>2 DEF Answer, TypeInv, HandlerType
  <2>. QED
    BY <2>1 DEF TypeInv, CursorInv, CursorOf
<1>3. CursorInv'
  BY <1>1, <1>2 DEF CursorInv
<1>4. pc' \in [Clients -> HandlerPc]
  BY DEF Answer, TypeInv, HandlerType, HandlerPc
<1>5a. body' \in [Clients -> Seq(Pieces)]
  BY DEF Answer, TypeInv, HandlerType
<1>5. path' \in [Clients -> Paths \cup {<<>>}]
  BY DEF Answer, TypeInv, HandlerType
<1>6. upload' \in [Clients -> Uploads]
  BY AnyUploadType DEF Answer, TypeInv, HandlerType
<1>7. block' \in [Clients -> Nat]
  BY DEF Answer, TypeInv, HandlerType
<1>8. opts' \in [Clients -> Seq(Content)]
  BY DEF Answer, TypeInv, HandlerType
<1>. QED
  BY <1>3, <1>4, <1>5, <1>5a, <1>6, <1>7, <1>8 DEF HandlerType

(* The loop over the blocks.                                               *)
LEMMA NextBlockType ==
    ASSUME TypeInv, NEW c \in Clients,
           pc[c] \in {"store", "decode", "unroute"},
           NEW loop \in {"route", "fetch", "wipe"},
           NEW after \in {"add", "send", "unlist"}, NextBlock(c, loop, after),
           body' \in [Clients -> Seq(Pieces)],
           \A d \in Clients \ {c} : body'[d] = body[d]
    PROVE  HandlerType' /\ CursorInv'
<1>1. /\ Blocks[upload[c]] \in Nat /\ block[c] \in 1 .. Blocks[upload[c]]
      /\ path[c] \in Paths
  <2>1. upload[c] \in Uploads
    BY DEF TypeInv, HandlerType
  <2>2. CursorOf(c)
    BY DEF TypeInv, CursorInv
  <2>3. Blocks[upload[c]] \in Nat
    BY <2>1, UploadAssumption
  <2>4. block[c] \in 1 .. Blocks[upload[c]]
    BY <2>2 DEF CursorOf
  <2>5. path[c] \in Paths
    BY <2>2 DEF CursorOf
  <2>. QED
    BY <2>3, <2>4, <2>5
<1>2. /\ pc'[c] = IF block[c] < Blocks[upload[c]] THEN loop ELSE after
      /\ path'[c] = path[c] /\ upload'[c] = upload[c]
      /\ block'[c] = block[c] + 1 /\ opts'[c] = <<>>
  BY DEF NextBlock, TypeInv, HandlerType
<1>3. CursorOf(c)'
  BY <1>1, <1>2 DEF CursorOf
<1>4. ASSUME NEW d \in Clients, d # c PROVE CursorOf(d)'
  <2>1. /\ pc'[d] = pc[d] /\ path'[d] = path[d] /\ upload'[d] = upload[d]
        /\ block'[d] = block[d] /\ opts'[d] = opts[d] /\ body'[d] = body[d]
    BY <1>4 DEF NextBlock, TypeInv, HandlerType
  <2>. QED
    BY <2>1 DEF TypeInv, CursorInv, CursorOf
<1>5. CursorInv'
  BY <1>3, <1>4 DEF CursorInv
<1>6. pc' \in [Clients -> HandlerPc]
  BY DEF NextBlock, TypeInv, HandlerType, HandlerPc
<1>. QED
  BY <1>5, <1>6 DEF NextBlock, TypeInv, HandlerType

LEMMA TypeStart ==
    ASSUME TypeInv, NEW c \in Clients, NEW p \in Paths, NEW u \in Uploads,
           BeginPut(c, p, u) \/ BeginGet(c, p) \/ BeginDelete(c, p)
    PROVE  TypeInv'
<1>1. CASE BeginPut(c, p, u)
  <2>1. HandlerType' /\ CursorInv'
    BY <1>1, StartType DEF BeginPut
  <2>2. SharedType'
    BY <1>1 DEF BeginPut, TypeInv, SharedType, bounds
  <2>. QED
    BY <2>1, <2>2 DEF TypeInv
<1>2. CASE BeginGet(c, p)
  <2>1. PICK f \in ResolvePath(tree, p) : Start(c, p, f.upload, "fetch", "send")
    BY <1>2 DEF BeginGet
  <2>2. HandlerType' /\ CursorInv'
    BY <2>1, ResolveType, StartType
  <2>3. SharedType'
    BY <1>2 DEF BeginGet, TypeInv, SharedType, historyVars, bounds
  <2>. QED
    BY <2>2, <2>3 DEF TypeInv
<1>3. CASE BeginDelete(c, p)
  <2>1. PICK f \in ResolvePath(tree, p) :
               /\ Start(c, p, f.upload, "wipe", "unlist")
               /\ doomed' = doomed \cup {f.upload}
    BY <1>3 DEF BeginDelete
  <2>2. HandlerType' /\ CursorInv'
    BY <2>1, ResolveType, StartType
  <2>3. f.upload \in Uploads
    BY ResolveType
  <2>4. SharedType'
    BY <1>3, <2>1, <2>3 DEF BeginDelete, TypeInv, SharedType, bounds
  <2>. QED
    BY <2>2, <2>4 DEF TypeInv
<1>. QED
  BY <1>1, <1>2, <1>3

(* A handler that only moves on within a block.                            *)
LEMMA GoToType ==
    ASSUME TypeInv, NEW c \in Clients, NEW where, GoTo(c, where),
           \/ pc[c] = "route" /\ where = "store"
           \/ pc[c] = "fetch" /\ where = "read"
           \/ pc[c] = "wipe" /\ where = "unroute"
    PROVE  HandlerType' /\ CursorInv'
<1>1. /\ pc'[c] = where /\ path'[c] = path[c] /\ upload'[c] = upload[c]
      /\ block'[c] = block[c] /\ opts'[c] = opts[c] /\ body'[c] = body[c]
  BY DEF GoTo, TypeInv, HandlerType
<1>2. CursorOf(c)
  BY DEF TypeInv, CursorInv
<1>3. opts[c] = <<>> /\ Len(opts[c]) < TotalShards
  BY <1>2, CodeAssumption DEF CursorOf
<1>4. CursorOf(c)'
  BY <1>1, <1>2, <1>3 DEF CursorOf
<1>5. ASSUME NEW d \in Clients, d # c PROVE CursorOf(d)'
  <2>1. /\ pc'[d] = pc[d] /\ path'[d] = path[d] /\ upload'[d] = upload[d]
        /\ block'[d] = block[d] /\ opts'[d] = opts[d] /\ body'[d] = body[d]
    BY <1>5 DEF GoTo, TypeInv, HandlerType
  <2>. QED
    BY <2>1 DEF TypeInv, CursorInv, CursorOf
<1>6. CursorInv'
  BY <1>4, <1>5 DEF CursorInv
<1>7. where \in HandlerPc
  BY DEF HandlerPc
<1>. QED
  BY <1>6, <1>7 DEF GoTo, TypeInv, HandlerType

LEMMA GroupInType ==
    ASSUME TypeInv, NEW c \in Clients,
           pc[c] \in {"route", "store", "fetch", "read", "decode", "wipe",
                      "unroute"}
    PROVE  /\ Group(c) \in GroupsOf(upload[c]) /\ Group(c) \in Groups
           /\ upload[c] \in Uploads /\ block[c] \in 1 .. Blocks[upload[c]]
<1>1. upload[c] \in Uploads
  BY DEF TypeInv, HandlerType
<1>2. block[c] \in 1 .. Blocks[upload[c]]
  BY DEF TypeInv, CursorInv, CursorOf
<1>. QED
  BY <1>1, <1>2, GroupType DEF Group

(* One more shard stored or read, not the last.                            *)
LEMMA OneShardType ==
    ASSUME TypeInv, NEW c \in Clients, pc[c] \in {"store", "read"},
           NEW b \in Content, opts' = [opts EXCEPT ![c] = Append(@, b)],
           pc' = [pc EXCEPT ![c] =
                     IF LastShard(c) THEN "decode" ELSE pc[c]],
           pc[c] = "store" => ~LastShard(c),
           UNCHANGED <<path, upload, block, body>>
    PROVE  HandlerType' /\ CursorInv'
<1>1. CursorOf(c) /\ opts[c] \in Seq(Content)
  BY DEF TypeInv, HandlerType, CursorInv
<1>2. /\ Append(opts[c], b) \in Seq(Content)
      /\ Len(Append(opts[c], b)) = Len(opts[c]) + 1 /\ Len(opts[c]) \in Nat
  BY <1>1
<1>3. /\ pc'[c] = IF LastShard(c) THEN "decode" ELSE pc[c]
      /\ opts'[c] = Append(opts[c], b)
  BY DEF TypeInv, HandlerType
<1>4. Len(opts[c]) < TotalShards
  BY <1>1 DEF CursorOf
<1>5. CursorOf(c)'
  BY <1>1, <1>2, <1>3, <1>4, CodeAssumption DEF CursorOf, LastShard
<1>6. ASSUME NEW d \in Clients, d # c PROVE CursorOf(d)'
  <2>1. pc'[d] = pc[d] /\ opts'[d] = opts[d]
    BY <1>6 DEF TypeInv, HandlerType
  <2>. QED
    BY <2>1 DEF TypeInv, CursorInv, CursorOf
<1>7. CursorInv'
  BY <1>5, <1>6 DEF CursorInv
<1>8. pc' \in [Clients -> HandlerPc] /\ opts' \in [Clients -> Seq(Content)]
  BY <1>2 DEF TypeInv, HandlerType, HandlerPc
<1>. QED
  BY <1>7, <1>8 DEF TypeInv, HandlerType

LEMMA TypePut ==
    ASSUME TypeInv, NEW c \in Clients, Put(c) PROVE TypeInv'
<1>1. CASE ComputeRoute(c)
  <2>1. HandlerType' /\ CursorInv'
    BY <1>1, GoToType DEF ComputeRoute
  <2>2. Group(c) \in Groups
    BY <1>1, GroupInType DEF ComputeRoute
  <2>3. SharedType'
    BY <1>1, <2>2 DEF ComputeRoute, TypeInv, SharedType, historyVars, bounds
  <2>. QED
    BY <2>1, <2>3 DEF TypeInv
<1>2. CASE StoreShard(c)
  <2>1. pc[c] = "store"
    BY <1>2 DEF StoreShard
  <2>2. HandlerType' /\ CursorInv'
    <3>1. CASE LastShard(c)
      <4>1. NextBlock(c, "route", "add") /\ body' = body
        BY <1>2, <3>1 DEF StoreShard
      <4>2. body' \in [Clients -> Seq(Pieces)]
        BY <4>1 DEF TypeInv, HandlerType
      <4>. QED
        BY <2>1, <4>1, <4>2, NextBlockType
    <3>2. CASE ~LastShard(c)
      <4>1. /\ opts' = [opts EXCEPT ![c] = Append(@, "whole")]
            /\ UNCHANGED <<pc, path, upload, block, body>>
        BY <1>2, <3>2 DEF StoreShard
      <4>2. pc' = [pc EXCEPT ![c] = IF LastShard(c) THEN "decode" ELSE pc[c]]
        BY <3>2, <4>1 DEF TypeInv, HandlerType
      <4>3. "whole" \in Content
        BY DEF Content
      <4>. QED
        BY <2>1, <3>2, <4>1, <4>2, <4>3, OneShardType
    <3>. QED
      BY <3>1, <3>2
  <2>3. Group(c) \in Groups
    BY <2>1, GroupInType
  <2>4. Len(opts[c]) \in Shard
    <3>1. opts[c] \in Seq(Content) /\ Len(opts[c]) < TotalShards
      BY <2>1 DEF TypeInv, HandlerType, CursorInv, CursorOf
    <3>. QED
      BY <3>1, CodeAssumption DEF Shard
  <2>5. /\ shards' \in [Groups -> SUBSET Shard]
        /\ cut' \in [Groups -> SUBSET Shard]
        /\ faults' \in Nat
    BY <1>2, <2>3, <2>4 DEF StoreShard, TypeInv, SharedType, Fault, NoFault
  <2>6. UNCHANGED <<tree, routes, zeroed, historyVars, mishaps>>
    BY <1>2 DEF StoreShard
  <2>7. SharedType'
    BY <2>5, <2>6 DEF TypeInv, SharedType, historyVars
  <2>. QED
    BY <2>2, <2>7 DEF TypeInv
<1>3. CASE AddToTree(c)
  <2>1. HandlerType' /\ CursorInv'
    BY <1>3, AnswerType DEF AddToTree
  <2>2. path[c] \in Paths /\ upload[c] \in Uploads
    BY <1>3 DEF AddToTree, TypeInv, HandlerType, CursorInv, CursorOf
  <2>3. /\ EntryOf(path[c], upload[c]) \in Entries
        /\ Front(path[c]) \in Seq(Components)
    BY <2>2, PathParts DEF Entries
  <2>4. AddFile(tree, Front(path[c]), EntryOf(path[c], upload[c]))
          \in TreesOver(Components, Entries)
    BY <2>3, RootParts, AddFileType DEF TypeInv, SharedType
  <2>5. tree' \in TreesOver(Components, Entries)
    BY <1>3, <2>4 DEF AddToTree, TypeInv, SharedType
  <2>6. faults' \in Nat
    BY <1>3 DEF AddToTree, TypeInv, SharedType, Fault, NoFault
  <2>7. SharedType'
    BY <1>3, <2>5, <2>6 DEF AddToTree, TypeInv, SharedType, historyVars
  <2>. QED
    BY <2>1, <2>7 DEF TypeInv
<1>. QED
  BY <1>1, <1>2, <1>3 DEF Put

LEMMA RebuiltType ==
    ASSUME TypeInv, NEW c \in Clients PROVE Rebuilt(c) \in Seq(Pieces)
<1>1. ASSUME NEW i \in 1 .. TotalShards
      PROVE  Piece(upload[c], block[c], i - 1, Form(c, i)) \in Pieces
  <2>1. i - 1 \in Shard
    BY CodeAssumption DEF Shard
  <2>2. Form(c, i) \in {"sealed", "spoiled"}
    BY DEF Form
  <2>3. upload[c] \in Uploads /\ block[c] \in Nat
    BY DEF TypeInv, HandlerType
  <2>. QED
    BY <2>1, <2>2, <2>3 DEF Piece, Pieces
<1>2. Rebuilt(c) \in [1 .. TotalShards -> Pieces]
  BY <1>1 DEF Rebuilt
<1>. QED
  BY <1>2, CodeAssumption, ArrayIsSeq

LEMMA TypeGet ==
    ASSUME TypeInv, NEW c \in Clients, Get(c) PROVE TypeInv'
<1>1. SharedType'
  <2>1. CASE GetRoute(c) \/ Reconstruct(c) \/ SendBody(c)
    <3>1. UNCHANGED <<tree, routes, vaultVars, historyVars, bounds>>
      BY <2>1 DEF GetRoute, Reconstruct, SendBody
    <3>. QED
      BY <3>1 DEF TypeInv, SharedType, historyVars, bounds
  <2>2. CASE ReadShard(c)
    <3>1. UNCHANGED <<tree, routes, vaultVars, home, doomed, deleted, mishaps>>
      BY <2>2 DEF ReadShard, historyVars
    <3>2. faults' = faults \/ faults' = faults + 1
      BY <2>2 DEF ReadShard, Fault, NoFault
    <3>. QED
      BY <3>1, <3>2 DEF TypeInv, SharedType
  <2>. QED
    BY <2>1, <2>2 DEF Get
<1>2. CASE GetRoute(c)
  <2>1. HandlerType' /\ CursorInv'
    BY <1>2, GoToType, AnswerType DEF GetRoute
  <2>. QED
    BY <1>1, <2>1 DEF TypeInv
<1>3. CASE ReadShard(c)
  <2>1. pc[c] = "read"
    BY <1>3 DEF ReadShard
  <2>2. PICK b \in Content : opts' = [opts EXCEPT ![c] = Append(@, b)]
    BY <1>3 DEF ReadShard
  <2>3. pc' = [pc EXCEPT ![c] = IF LastShard(c) THEN "decode" ELSE pc[c]]
    BY <1>3 DEF ReadShard
  <2>4. UNCHANGED <<path, upload, block, body>>
    BY <1>3 DEF ReadShard
  <2>5. HandlerType' /\ CursorInv'
    BY <2>1, <2>2, <2>3, <2>4, OneShardType
  <2>. QED
    BY <1>1, <2>5 DEF TypeInv
<1>4. CASE Reconstruct(c)
  <2>1. pc[c] = "decode"
    BY <1>4 DEF Reconstruct
  <2>2. HandlerType' /\ CursorInv'
    <3>1. CASE Answer(c)
      BY <3>1, AnswerType
    <3>2. CASE /\ body' = [body EXCEPT ![c] = @ \o Rebuilt(c)]
               /\ NextBlock(c, "fetch", "send")
      <4>1. Rebuilt(c) \in Seq(Pieces) /\ body[c] \in Seq(Pieces)
        BY RebuiltType DEF TypeInv, HandlerType
      <4>2. body[c] \o Rebuilt(c) \in Seq(Pieces)
        BY <4>1
      <4>3. /\ body' \in [Clients -> Seq(Pieces)]
            /\ \A d \in Clients \ {c} : body'[d] = body[d]
        BY <3>2, <4>2 DEF TypeInv, HandlerType
      <4>. QED
        BY <2>1, <3>2, <4>3, NextBlockType
    <3>. QED
      BY <1>4, <3>1, <3>2 DEF Reconstruct
  <2>. QED
    BY <1>1, <2>2 DEF TypeInv
<1>5. CASE SendBody(c)
  <2>1. HandlerType' /\ CursorInv'
    BY <1>5, AnswerType DEF SendBody
  <2>. QED
    BY <1>1, <2>1 DEF TypeInv
<1>. QED
  BY <1>2, <1>3, <1>4, <1>5 DEF Get

LEMMA ClearType ==
    ASSUME TypeInv, NEW g \in Groups, Clear(g)
    PROVE  /\ shards' \in [Groups -> SUBSET Shard]
           /\ cut' \in [Groups -> SUBSET Shard]
           /\ zeroed' \in [Groups -> SUBSET Shard]
  BY DEF Clear, TypeInv, SharedType

(* What a failed wipe may leave.                                           *)
Left(g, full, parts, zeros) ==
    /\ full \subseteq shards[g]
    /\ parts \subseteq shards[g] \cup cut[g] \cup zeroed[g]
    /\ zeros \subseteq shards[g] \cup zeroed[g]
    /\ shards' = [shards EXCEPT ![g] = full]
    /\ cut' = [cut EXCEPT ![g] = parts]
    /\ zeroed' = [zeroed EXCEPT ![g] = zeros]

LEMMA WipeLeaves ==
    ASSUME NEW g, WipeFails(g)
    PROVE  \E full, parts, zeros : Left(g, full, parts, zeros)
<1>1. PICK full \in SUBSET shards[g], parts \in SUBSET cut[g],
           zeros \in SUBSET zeroed[g] :
          \E one \in SUBSET ((shards[g] \cup zeroed[g]) \ (full \cup zeros)) :
             /\ \A i, j \in one : i = j
             /\ shards' = [shards EXCEPT ![g] = full]
             /\ \/ /\ cut' = [cut EXCEPT ![g] = parts \cup one]
                   /\ zeroed' = [zeroed EXCEPT ![g] = zeros]
                \/ /\ cut' = [cut EXCEPT ![g] = parts]
                   /\ zeroed' = [zeroed EXCEPT ![g] = zeros \cup one]
  BY Zenon DEF WipeFails
<1>2. PICK one \in SUBSET ((shards[g] \cup zeroed[g]) \ (full \cup zeros)) :
             /\ shards' = [shards EXCEPT ![g] = full]
             /\ \/ /\ cut' = [cut EXCEPT ![g] = parts \cup one]
                   /\ zeroed' = [zeroed EXCEPT ![g] = zeros]
                \/ /\ cut' = [cut EXCEPT ![g] = parts]
                   /\ zeroed' = [zeroed EXCEPT ![g] = zeros \cup one]
  BY <1>1
<1>3. Left(g, full, parts \cup one, zeros) \/ Left(g, full, parts, zeros \cup one)
  BY <1>2 DEF Left
<1>. QED
  BY <1>3

LEMMA WipeFailsType ==
    ASSUME TypeInv, NEW g \in Groups, WipeFails(g)
    PROVE  /\ shards' \in [Groups -> SUBSET Shard]
           /\ cut' \in [Groups -> SUBSET Shard]
           /\ zeroed' \in [Groups -> SUBSET Shard]
<1>1. PICK full, parts, zeros : Left(g, full, parts, zeros)
  BY WipeLeaves
<1>. QED
  BY <1>1 DEF Left, TypeInv, SharedType

LEMMA TypeDelete ==
    ASSUME TypeInv, NEW c \in Clients, Delete(c) PROVE TypeInv'
<1>1. CASE WipeGroup(c)
  <2>1. HandlerType' /\ CursorInv'
    BY <1>1, GoToType DEF WipeGroup
  <2>2. Group(c) \in Groups
    BY <1>1, GroupInType DEF WipeGroup
  <2>3. /\ shards' \in [Groups -> SUBSET Shard]
        /\ cut' \in [Groups -> SUBSET Shard]
        /\ zeroed' \in [Groups -> SUBSET Shard]
    BY <1>1, <2>2, ClearType, WipeFailsType DEF WipeGroup
  <2>4. faults' \in Nat
    BY <1>1 DEF WipeGroup, TypeInv, SharedType, Fault, NoFault
  <2>5. UNCHANGED <<tree, routes, historyVars, mishaps>>
    BY <1>1 DEF WipeGroup
  <2>6. SharedType'
    BY <2>3, <2>4, <2>5 DEF TypeInv, SharedType, historyVars
  <2>. QED
    BY <2>1, <2>6 DEF TypeInv
<1>2. CASE RemoveRoute(c)
  <2>1. body' \in [Clients -> Seq(Pieces)] /\ body' = body
    BY <1>2 DEF RemoveRoute, TypeInv, HandlerType
  <2>2. HandlerType' /\ CursorInv'
    BY <1>2, <2>1, NextBlockType DEF RemoveRoute
  <2>3. SharedType'
    BY <1>2 DEF RemoveRoute, TypeInv, SharedType, historyVars, bounds
  <2>. QED
    BY <2>2, <2>3 DEF TypeInv
<1>3. CASE Unlist(c)
  <2>1. HandlerType' /\ CursorInv'
    BY <1>3, AnswerType DEF Unlist
  <2>2. tree' \in TreesOver(Components, Entries)
    BY <1>3, RemoveFileType DEF Unlist, TypeInv, SharedType
  <2>3. path[c] \in Paths /\ upload[c] \in Uploads
    BY <1>3 DEF Unlist, TypeInv, HandlerType, CursorInv, CursorOf
  <2>4. faults' \in Nat
    BY <1>3 DEF Unlist, TypeInv, SharedType, Fault, NoFault
  <2>5. SharedType'
    BY <1>3, <2>2, <2>3, <2>4 DEF Unlist, TypeInv, SharedType
  <2>. QED
    BY <2>1, <2>5 DEF TypeInv
<1>. QED
  BY <1>1, <1>2, <1>3 DEF Delete

LEMMA TypeMishap ==
    ASSUME TypeInv,
           \/ \E c \in Clients : Disconnect(c)
           \/ \E u \in Uploads, g \in Groups : Purge(u, g)
           \/ Restart
    PROVE  TypeInv'
<1>1. ASSUME NEW c \in Clients, Disconnect(c) PROVE TypeInv'
  <2>1. HandlerType' /\ CursorInv'
    BY <1>1, AnswerType DEF Disconnect
  <2>2. SharedType'
    BY <1>1 DEF Disconnect, TypeInv, SharedType, historyVars, Mishap
  <2>. QED
    BY <2>1, <2>2 DEF TypeInv
<1>2. ASSUME NEW u \in Uploads, NEW g \in Groups, Purge(u, g) PROVE TypeInv'
  <2>1. UNCHANGED <<pc, path, upload, block, opts, body>>
    BY <1>2 DEF Purge, handlerVars
  <2>2. HandlerType' /\ CursorInv'
    BY <2>1 DEF TypeInv, HandlerType, CursorInv, CursorOf
  <2>3. /\ shards' \in [Groups -> SUBSET Shard]
        /\ cut' \in [Groups -> SUBSET Shard]
        /\ zeroed' \in [Groups -> SUBSET Shard]
    BY <1>2, ClearType DEF Purge
  <2>4. SharedType'
    BY <1>2, <2>3 DEF Purge, TypeInv, SharedType, Mishap
  <2>. QED
    BY <2>2, <2>4 DEF TypeInv
<1>3. CASE Restart
  <2>1. HandlerType' /\ CursorInv'
    BY <1>3, AnyUploadType DEF Restart, HandlerType, HandlerPc, CursorInv, CursorOf
  <2>2. tree' \in TreesOver(Components, Entries)
    BY <1>3 DEF Restart, NewTree, TreesOver
  <2>3. SharedType'
    BY <1>3, <2>2 DEF Restart, TypeInv, SharedType, historyVars, Mishap
  <2>. QED
    BY <2>1, <2>3 DEF TypeInv
<1>. QED
  BY <1>1, <1>2, <1>3

LEMMA TypeStep == ASSUME TypeInv, [Next]_vars PROVE TypeInv'
<1>1. CASE UNCHANGED vars
  BY <1>1 DEF vars, handlerVars, historyVars, bounds, TypeInv, HandlerType,
              SharedType, CursorInv, CursorOf
<1>2. ASSUME NEW c \in Clients, NEW p \in Paths, NotFound(c, p) PROVE TypeInv'
  BY <1>1, <1>2 DEF NotFound
<1>. QED
  <2>1. CASE Next
    <3>1. ASSUME NEW c \in Clients, NEW p \in Paths,
                 \/ \E u \in Uploads : BeginPut(c, p, u)
                 \/ BeginGet(c, p)
                 \/ BeginDelete(c, p)
          PROVE  TypeInv'
      BY <3>1, UploadAssumption, TypeStart
    <3>2. ASSUME NEW c \in Clients, Put(c) \/ Get(c) \/ Delete(c)
          PROVE  TypeInv'
      BY <3>2, TypePut, TypeGet, TypeDelete
    <3>3. ASSUME \/ \E c \in Clients : Disconnect(c)
                 \/ \E u \in Uploads, g \in Groups : Purge(u, g)
                 \/ Restart
          PROVE  TypeInv'
      BY <3>3, TypeMishap
    <3>. QED
      BY <1>2, <2>1, <3>1, <3>2, <3>3, Zenon DEF Next
  <2>. QED
    BY <1>1, <2>1

THEOREM TypeCorrect == Spec => []TypeOK
<1>1. TypeInv => TypeOK
  BY TypeParts DEF TypeInv
<1>. QED
  BY TypeInit, TypeStep, <1>1, PTL DEF Spec

----------------------------------------------------------------------------
(* Who has which upload.                                                   *)

Settled(u) ==
    /\ home[u] # <<>>
    /\ \A c \in Clients : pc[c] \in Putters => upload[c] # u

(* An upload is stored by one handler, and listed, read and deleted only   *)
(* after that.                                                             *)
OwnerInv ==
    /\ \A c \in Clients : pc[c] \in Putters => home[upload[c]] # <<>>
    /\ \A c, d \in Clients :
          pc[c] \in Putters /\ pc[d] \in Putters /\ upload[c] = upload[d]
            => c = d
    /\ \A c \in Clients :
          pc[c] \in Readers \cup Deleters => Settled(upload[c])
    /\ \A u \in Uploads : InTree(tree, u) => Settled(u)
    /\ \A d \in deleted : Settled(d[2])
    /\ \A c \in Clients : pc[c] \in Deleters => upload[c] \in doomed
    /\ Once(tree)

(* A handler stays what it is with the upload it has, until it ends.       *)
Moves ==
    \A c \in Clients : \A kind \in {Putters, Readers, Deleters} :
        pc'[c] \in kind => pc[c] \in kind /\ upload'[c] = upload[c]

LEMMA MovesOf ==
    ASSUME TypeInv, NEW c \in Clients,
           Put(c) \/ Get(c) \/ Delete(c) \/ Disconnect(c)
    PROVE  Moves /\ home' = home
<1>1. ASSUME NEW d \in Clients, d # c
      PROVE  pc'[d] = pc[d] /\ upload'[d] = upload[d]
  <2>1. CASE Put(c)
    BY <1>1, <2>1 DEF Put, ComputeRoute, StoreShard, AddToTree, GoTo, NextBlock,
         Answer, TypeInv, HandlerType
  <2>2. CASE Get(c)
    BY <1>1, <2>2 DEF Get, GetRoute, ReadShard, Reconstruct, SendBody, GoTo,
         NextBlock, Answer, TypeInv, HandlerType
  <2>3. CASE Delete(c)
    BY <1>1, <2>3 DEF Delete, WipeGroup, RemoveRoute, Unlist, GoTo, NextBlock,
         Answer, TypeInv, HandlerType
  <2>4. CASE Disconnect(c)
    BY <1>1, <2>4 DEF Disconnect, Answer, TypeInv, HandlerType
  <2>. QED
    BY <2>1, <2>2, <2>3, <2>4
<1>2. \/ pc'[c] = "idle"
      \/ /\ upload'[c] = upload[c]
         /\ \/ pc[c] \in Putters /\ pc'[c] \in Putters
            \/ pc[c] \in Readers /\ pc'[c] \in Readers
            \/ pc[c] \in Deleters /\ pc'[c] \in Deleters
  <2>1. CASE Put(c)
    <3>1. CASE ComputeRoute(c)
      BY <3>1 DEF ComputeRoute, GoTo, TypeInv, HandlerType, Putters
    <3>2. CASE StoreShard(c)
      BY <3>2 DEF StoreShard, NextBlock, TypeInv, HandlerType, Putters
    <3>3. CASE AddToTree(c)
      BY <3>3 DEF AddToTree, Answer, TypeInv, HandlerType
    <3>. QED
      BY <2>1, <3>1, <3>2, <3>3 DEF Put
  <2>2. CASE Get(c)
    <3>1. CASE GetRoute(c)
      BY <3>1 DEF GetRoute, GoTo, Answer, TypeInv, HandlerType, Readers
    <3>2. CASE ReadShard(c)
      BY <3>2 DEF ReadShard, TypeInv, HandlerType, Readers
    <3>3. CASE Reconstruct(c)
      BY <3>3 DEF Reconstruct, NextBlock, Answer, TypeInv, HandlerType, Readers
    <3>4. CASE SendBody(c)
      BY <3>4 DEF SendBody, Answer, TypeInv, HandlerType
    <3>. QED
      BY <2>2, <3>1, <3>2, <3>3, <3>4 DEF Get
  <2>3. CASE Delete(c)
    <3>1. CASE WipeGroup(c)
      BY <3>1 DEF WipeGroup, GoTo, TypeInv, HandlerType, Deleters
    <3>2. CASE RemoveRoute(c)
      BY <3>2 DEF RemoveRoute, NextBlock, TypeInv, HandlerType, Deleters
    <3>3. CASE Unlist(c)
      BY <3>3 DEF Unlist, Answer, TypeInv, HandlerType
    <3>. QED
      BY <2>3, <3>1, <3>2, <3>3 DEF Delete
  <2>4. CASE Disconnect(c)
    BY <2>4 DEF Disconnect, Answer, TypeInv, HandlerType
  <2>. QED
    BY <2>1, <2>2, <2>3, <2>4
<1>3. Moves
  BY <1>1, <1>2 DEF Moves, Putters, Readers, Deleters
<1>4. home' = home
  BY DEF Put, ComputeRoute, StoreShard, AddToTree, Get, GetRoute, ReadShard,
         Reconstruct, SendBody, Delete, WipeGroup, RemoveRoute, Unlist,
         Disconnect, historyVars
<1>. QED
  BY <1>3, <1>4

LEMMA MovesOfOthers ==
    ASSUME TypeInv,
           \/ \E u \in Uploads, g \in Groups : Purge(u, g)
           \/ Restart
           \/ UNCHANGED vars
    PROVE  Moves /\ home' = home
<1>1. CASE \E u \in Uploads, g \in Groups : Purge(u, g)
  BY <1>1 DEF Purge, handlerVars, Moves
<1>2. CASE Restart
  BY <1>2 DEF Restart, historyVars, Moves, Putters, Readers, Deleters
<1>3. CASE UNCHANGED vars
  BY <1>3 DEF vars, handlerVars, historyVars, Moves
<1>. QED
  BY <1>1, <1>2, <1>3

(* Such a step settles no less.                                            *)
LEMMA SettledStays ==
    ASSUME Moves, home' = home, NEW u, Settled(u) PROVE Settled(u)'
BY DEF Moves, Settled

(* What a step that only moves handlers owes OwnerInv: what it lists and   *)
(* records.                                                                *)
LEMMA OwnerKept ==
    ASSUME TypeInv, OwnerInv, Moves, home' = home, doomed \subseteq doomed',
           \A u \in Uploads : InTree(tree', u) => Settled(u)',
           \A d \in deleted' : Settled(d[2])',
           Once(tree')
    PROVE  OwnerInv'
<1>1. \A c \in Clients : pc'[c] \in Putters => home'[upload'[c]] # <<>>
  BY DEF OwnerInv, Moves
<1>2. \A c, d \in Clients :
         pc'[c] \in Putters /\ pc'[d] \in Putters /\ upload'[c] = upload'[d]
           => c = d
  BY DEF OwnerInv, Moves
<1>3. ASSUME NEW c \in Clients, pc'[c] \in Readers \cup Deleters
      PROVE  /\ home'[upload'[c]] # <<>>
             /\ \A d \in Clients : pc'[d] \in Putters => upload'[d] # upload'[c]
  <2>1. pc[c] \in Readers \cup Deleters /\ upload'[c] = upload[c]
    BY <1>3 DEF Moves
  <2>2. Settled(upload[c])
    BY <2>1 DEF OwnerInv
  <2>. QED
    BY <2>1, <2>2 DEF Settled, Moves
<1>4. \A c \in Clients : pc'[c] \in Deleters => upload'[c] \in doomed'
  BY DEF OwnerInv, Moves
<1>5. \A c \in Clients :
         pc'[c] \in Readers \cup Deleters => Settled(upload[c])'
  BY <1>3 DEF Settled
<1>. QED
  BY <1>1, <1>2, <1>4, <1>5 DEF OwnerInv

LEMMA OwnerCalm ==
    ASSUME TypeInv, OwnerInv, Moves, home' = home, doomed \subseteq doomed',
           tree' = tree, deleted' = deleted
    PROVE  OwnerInv'
<1>1. \A u \in Uploads : InTree(tree', u) => Settled(u)'
  BY SettledStays DEF OwnerInv
<1>2. \A d \in deleted' : Settled(d[2])'
  <2> SUFFICES ASSUME NEW d \in deleted PROVE Settled(d[2])'
    OBVIOUS
  <2>. QED
    BY SettledStays DEF OwnerInv
<1>3. Once(tree')
  BY DEF OwnerInv
<1>. QED
  BY <1>1, <1>2, <1>3, OwnerKept

LEMMA OwnerPut ==
    ASSUME TypeInv, OwnerInv, NEW c \in Clients, Put(c) PROVE OwnerInv'
<1>1. Moves /\ home' = home
  BY MovesOf
<1>2. deleted' = deleted /\ doomed' = doomed
  BY DEF Put, ComputeRoute, StoreShard, AddToTree, historyVars
<1>3. CASE tree' = tree
  BY <1>1, <1>2, <1>3, OwnerCalm
<1>4. CASE tree' # tree
  <2>1. /\ AddToTree(c) /\ pc[c] = "add"
        /\ tree' = AddFile(tree, Front(path[c]), EntryOf(path[c], upload[c]))
    BY <1>4 DEF Put, ComputeRoute, StoreShard, AddToTree
  <2>2. path[c] \in Paths /\ upload[c] \in Uploads
    BY <2>1 DEF TypeInv, HandlerType, CursorInv, CursorOf
  <2> DEFINE e == EntryOf(path[c], upload[c])
  <2>3. /\ e \in Entries /\ e.upload = upload[c]
        /\ Front(path[c]) \in Seq(Components)
    BY <2>2, PathParts DEF Entries, EntryOf
  <2>4. ~InTree(tree, upload[c])
    BY <2>1, <2>2 DEF OwnerInv, Settled, Putters
  <2> HIDE DEF e
  <2>5. tree \in TreesOver(Components, Entries) /\ Once(tree)
    BY DEF TypeInv, SharedType, OwnerInv
  <2>6. tree' = AddFile(tree, Front(path[c]), e)
    BY <2>1 DEF e
  <2>7. /\ Once(tree')
        /\ \A u : InTree(tree', u) => InTree(tree, u) \/ u = e.upload
    BY <2>3, <2>4, <2>5, <2>6, RootParts, AddFileOnce
  <2>8. ASSUME NEW u \in Uploads, InTree(tree', u) PROVE Settled(u)'
    <3>1. CASE InTree(tree, u)
      BY <1>1, <3>1, SettledStays DEF OwnerInv
    <3>2. CASE u = upload[c]
      <4>1. pc'[c] = "idle"
        BY <2>1 DEF AddToTree, Answer, TypeInv, HandlerType
      <4>2. home[u] # <<>>
        BY <2>1, <3>2 DEF OwnerInv, Putters
      <4>3. ASSUME NEW d \in Clients, pc'[d] \in Putters PROVE upload'[d] # u
        <5>1. pc[d] \in Putters /\ upload'[d] = upload[d] /\ d # c
          BY <1>1, <4>1, <4>3 DEF Moves, Putters
        <5>. QED
          BY <2>1, <3>2, <5>1 DEF OwnerInv, Putters
      <4>. QED
        BY <1>1, <4>2, <4>3 DEF Settled
    <3>. QED
      BY <2>3, <2>7, <2>8, <3>1, <3>2
  <2>9. \A d \in deleted' : Settled(d[2])'
    <3> SUFFICES ASSUME NEW d \in deleted PROVE Settled(d[2])'
      BY <1>2
    <3>. QED
      BY <1>1, SettledStays DEF OwnerInv
  <2>. QED
    BY <1>1, <1>2, <2>7, <2>8, <2>9, OwnerKept
<1>. QED
  BY <1>3, <1>4

LEMMA OwnerDelete ==
    ASSUME TypeInv, OwnerInv, NEW c \in Clients, Delete(c) PROVE OwnerInv'
<1>1. Moves /\ home' = home
  BY MovesOf
<1>2. doomed' = doomed
  BY DEF Delete, WipeGroup, RemoveRoute, Unlist, historyVars
<1>3. CASE WipeGroup(c) \/ RemoveRoute(c)
  <2>1. tree' = tree /\ deleted' = deleted
    BY <1>3 DEF WipeGroup, RemoveRoute, historyVars
  <2>. QED
    BY <1>1, <1>2, <2>1, OwnerCalm
<1>4. CASE Unlist(c)
  <2>1. /\ pc[c] = "unlist"
        /\ deleted' = deleted \cup {<<path[c], upload[c]>>}
    BY <1>4 DEF Unlist
  <2>2. Settled(upload[c])
    BY <2>1 DEF OwnerInv, Deleters
  <2>3. ASSUME NEW d \in deleted' PROVE Settled(d[2])'
    <3>1. Settled(d[2])
      BY <2>1, <2>2, <2>3 DEF OwnerInv
    <3>. QED
      BY <1>1, <3>1, SettledStays
  <2>4. /\ Once(tree')
        /\ \A u : InTree(tree', u) => InTree(tree, u)
    <3>1. CASE tree' = tree
      BY <3>1 DEF OwnerInv
    <3>2. CASE /\ ~RemoveFileFails(tree, path[c])
               /\ tree' = RemoveFile(tree, path[c])
      <4>1. tree \in TreesOver(Components, Entries) /\ Once(tree)
        BY DEF TypeInv, SharedType, OwnerInv
      <4>. QED
        BY <3>2, <4>1, RemoveFileOnce
    <3>. QED
      BY <1>4, <3>1, <3>2 DEF Unlist
  <2>5. \A u \in Uploads : InTree(tree', u) => Settled(u)'
    BY <1>1, <2>4, SettledStays DEF OwnerInv
  <2>. QED
    BY <1>1, <1>2, <2>3, <2>4, <2>5, OwnerKept
<1>. QED
  BY <1>3, <1>4 DEF Delete

LEMMA OwnerStart ==
    ASSUME TypeInv, OwnerInv, NEW c \in Clients, NEW p \in Paths,
           NEW u \in Uploads,
           BeginPut(c, p, u) \/ BeginGet(c, p) \/ BeginDelete(c, p)
    PROVE  OwnerInv'
<1>1. CASE BeginPut(c, p, u)
  <2>1. /\ home[u] = <<>> /\ pc[c] = "idle"
        /\ home' = [home EXCEPT ![u] = p]
        /\ UNCHANGED <<tree, doomed, deleted>>
    BY <1>1 DEF BeginPut, Start
  <2>2. /\ pc'[c] \in Putters /\ upload'[c] = u
        /\ \A d \in Clients \ {c} : pc'[d] = pc[d] /\ upload'[d] = upload[d]
    BY <1>1 DEF BeginPut, Start, Putters, TypeInv, HandlerType
  <2>3. home'[u] = p /\ p # <<>> /\ \A v \in Uploads \ {u} : home'[v] = home[v]
    BY <2>1, PathParts DEF TypeInv, SharedType
  <2>4. \A d \in Clients : upload[d] \in Uploads
    BY DEF TypeInv, HandlerType
  <2>5. ASSUME NEW v \in Uploads, Settled(v)
        PROVE  /\ home'[v] # <<>>
               /\ \A d \in Clients : pc'[d] \in Putters => upload'[d] # v
    <3>1. v # u
      BY <2>1, <2>5 DEF Settled
    <3>. QED
      BY <2>2, <2>3, <2>5, <3>1 DEF Settled
  <2>6. \A d \in Clients : pc'[d] \in Putters => home'[upload'[d]] # <<>>
    BY <2>2, <2>3, <2>4 DEF OwnerInv
  <2>7. \A d \in Clients : pc[d] \in Putters => upload[d] # u
    BY <2>1 DEF OwnerInv
  <2>8. \A d, e \in Clients :
           /\ pc'[d] \in Putters /\ pc'[e] \in Putters
           /\ upload'[d] = upload'[e]
           => d = e
    BY <2>2, <2>7 DEF OwnerInv
  <2>9. ASSUME NEW d \in Clients, pc'[d] \in Readers \cup Deleters
        PROVE  Settled(upload[d])' /\ (pc'[d] \in Deleters => upload'[d] \in doomed')
    <3>1. d # c
      BY <2>2, <2>9 DEF Putters, Readers, Deleters
    <3>2. pc'[d] = pc[d] /\ upload'[d] = upload[d]
      BY <2>2, <3>1
    <3>3. Settled(upload[d]) /\ (pc[d] \in Deleters => upload[d] \in doomed)
      BY <2>9, <3>2 DEF OwnerInv
    <3>. QED
      BY <2>1, <2>4, <2>5, <3>2, <3>3 DEF Settled
  <2>10. \A v \in Uploads : InTree(tree', v) => Settled(v)'
    BY <2>1, <2>5 DEF OwnerInv, Settled
  <2>11. ASSUME NEW d \in deleted' PROVE Settled(d[2])'
    <3>1. d \in deleted /\ d[2] \in Uploads /\ Settled(d[2])
      BY <2>1, <2>11 DEF OwnerInv, TypeInv, SharedType
    <3>. QED
      BY <2>5, <3>1 DEF Settled
  <2>12. Once(tree')
    BY <2>1 DEF OwnerInv
  <2>. QED
    BY <2>6, <2>8, <2>9, <2>10, <2>11, <2>12 DEF OwnerInv
<1>2. ASSUME NEW f \in ResolvePath(tree, p), NEW loop, NEW after,
             Start(c, p, f.upload, loop, after), home' = home,
             UNCHANGED <<tree, deleted>>, doomed \subseteq doomed',
             \/ {loop, after} \subseteq Readers
             \/ {loop, after} \subseteq Deleters /\ f.upload \in doomed'
      PROVE  OwnerInv'
  <2>1. InTree(tree, f.upload) /\ f.upload \in Uploads
    BY ResolveType
  <2>2. Settled(f.upload)
    BY <2>1 DEF OwnerInv
  <2>3. /\ pc'[c] \in {loop, after} /\ upload'[c] = f.upload
        /\ \A d \in Clients \ {c} : pc'[d] = pc[d] /\ upload'[d] = upload[d]
    BY <1>2 DEF Start, TypeInv, HandlerType
  <2>4. pc'[c] \in Readers \cup Deleters /\ pc'[c] \notin Putters
    BY <1>2, <2>3 DEF Readers, Deleters, Putters
  <2>5. pc'[c] \in Deleters => upload'[c] \in doomed'
    BY <1>2, <2>3 DEF Readers, Deleters
  <2>6. \A d \in Clients : pc'[d] \in Putters =>
           pc[d] \in Putters /\ upload'[d] = upload[d]
    BY <2>3, <2>4
  <2>7. \A v : Settled(v) => Settled(v)'
    BY <1>2, <2>6 DEF Settled
  <2>8. \A d \in Clients : pc'[d] \in Putters => home'[upload'[d]] # <<>>
    BY <1>2, <2>6 DEF OwnerInv
  <2>9. \A d, e \in Clients :
           /\ pc'[d] \in Putters /\ pc'[e] \in Putters
           /\ upload'[d] = upload'[e]
           => d = e
    BY <2>6 DEF OwnerInv
  <2>10. ASSUME NEW d \in Clients, pc'[d] \in Readers \cup Deleters
         PROVE  /\ home'[upload'[d]] # <<>>
                /\ \A e \in Clients : pc'[e] \in Putters => upload'[e] # upload'[d]
                /\ pc'[d] \in Deleters => upload'[d] \in doomed'
    <3>1. CASE d = c
      BY <1>2, <2>2, <2>3, <2>5, <2>6, <3>1 DEF Settled
    <3>2. CASE d # c
      <4>1. pc'[d] = pc[d] /\ upload'[d] = upload[d]
        BY <2>3, <3>2
      <4>2. Settled(upload[d]) /\ (pc[d] \in Deleters => upload[d] \in doomed)
        BY <2>10, <4>1 DEF OwnerInv
      <4>. QED
        BY <1>2, <2>6, <4>1, <4>2 DEF Settled
    <3>. QED
      BY <3>1, <3>2
  <2>11. \A v \in Uploads : InTree(tree', v) => Settled(v)'
    BY <1>2, <2>7 DEF OwnerInv
  <2>12. ASSUME NEW d \in deleted' PROVE Settled(d[2])'
    BY <1>2, <2>7, <2>12 DEF OwnerInv
  <2>13. Once(tree')
    BY <1>2 DEF OwnerInv
  <2>. QED
    BY <2>8, <2>9, <2>10, <2>11, <2>12, <2>13 DEF OwnerInv, Settled
<1>3. CASE BeginGet(c, p)
  <2>1. PICK f \in ResolvePath(tree, p) : Start(c, p, f.upload, "fetch", "send")
    BY <1>3 DEF BeginGet
  <2>2. home' = home /\ UNCHANGED <<tree, deleted>> /\ doomed \subseteq doomed'
    BY <1>3 DEF BeginGet, historyVars
  <2>3. {"fetch", "send"} \subseteq Readers
    BY DEF Readers
  <2>. QED
    BY <1>2, <2>1, <2>2, <2>3
<1>4. CASE BeginDelete(c, p)
  <2>1. PICK f \in ResolvePath(tree, p) :
               /\ Start(c, p, f.upload, "wipe", "unlist")
               /\ doomed' = doomed \cup {f.upload}
    BY <1>4 DEF BeginDelete
  <2>2. home' = home /\ UNCHANGED <<tree, deleted>>
    BY <1>4 DEF BeginDelete
  <2>3. {"wipe", "unlist"} \subseteq Deleters
    BY DEF Deleters
  <2>. QED
    BY <1>2, <2>1, <2>2, <2>3
<1>. QED
  BY <1>1, <1>3, <1>4

LEMMA OwnerInit == ASSUME Init PROVE OwnerInv
<1>1. tree = <<>> /\ DOMAIN tree = {}
  BY DEF Init, NewTree
<1>2. \A c \in Clients : pc[c] = "idle"
  BY DEF Init
<1>. QED
  BY <1>1, <1>2 DEF Init, OwnerInv, InTree, Once, Putters, Readers, Deleters

LEMMA OwnerStep == ASSUME TypeInv, OwnerInv, [Next]_vars PROVE OwnerInv'
<1>1. ASSUME NEW c \in Clients, NEW p \in Paths,
             \/ \E u \in Uploads : BeginPut(c, p, u)
             \/ BeginGet(c, p)
             \/ BeginDelete(c, p)
      PROVE  OwnerInv'
  BY <1>1, UploadAssumption, OwnerStart
<1>2. ASSUME NEW c \in Clients, Get(c) PROVE OwnerInv'
  <2>1. Moves /\ home' = home
    BY <1>2, MovesOf
  <2>2. UNCHANGED <<tree, doomed, deleted>>
    BY <1>2 DEF Get, GetRoute, ReadShard, Reconstruct, SendBody, historyVars
  <2>. QED
    BY <2>1, <2>2, OwnerCalm
<1>3. ASSUME NEW c \in Clients, Disconnect(c) PROVE OwnerInv'
  <2>1. Moves /\ home' = home
    BY <1>3, MovesOf
  <2>2. UNCHANGED <<tree, doomed, deleted>>
    BY <1>3 DEF Disconnect, historyVars
  <2>. QED
    BY <2>1, <2>2, OwnerCalm
<1>4. ASSUME \E u \in Uploads, g \in Groups : Purge(u, g) PROVE OwnerInv'
  <2>1. Moves /\ home' = home
    BY <1>4, MovesOfOthers
  <2>2. UNCHANGED <<tree, deleted>> /\ doomed \subseteq doomed'
    BY <1>4 DEF Purge
  <2>. QED
    BY <2>1, <2>2, OwnerCalm
<1>5. CASE Restart
  <2>1. Moves /\ home' = home
    BY <1>5, MovesOfOthers
  <2>2. UNCHANGED <<doomed, deleted>> /\ tree' = <<>>
    BY <1>5 DEF Restart, historyVars, NewTree
  <2>3. (\A u \in Uploads : ~InTree(tree', u)) /\ Once(tree')
    BY <2>2 DEF InTree, Once
  <2>4. \A d \in deleted' : Settled(d[2])'
    <3> SUFFICES ASSUME NEW d \in deleted PROVE Settled(d[2])'
      BY <2>2
    <3>. QED
      BY <2>1, SettledStays DEF OwnerInv
  <2>. QED
    BY <2>1, <2>2, <2>3, <2>4, OwnerKept
<1>6. CASE UNCHANGED vars
  <2>1. Moves /\ home' = home
    BY <1>6, MovesOfOthers
  <2>2. UNCHANGED <<tree, doomed, deleted>>
    BY <1>6 DEF vars, historyVars
  <2>. QED
    BY <2>1, <2>2, OwnerCalm
<1>7. CASE Next
  <2>1. ASSUME NEW c \in Clients, NEW p \in Paths, NotFound(c, p)
        PROVE  OwnerInv'
    BY <1>6, <2>1 DEF NotFound
  <2>2. ASSUME NEW c \in Clients, Put(c) \/ Get(c) \/ Delete(c) \/ Disconnect(c)
        PROVE  OwnerInv'
    BY <1>2, <1>3, <2>2, OwnerPut, OwnerDelete
  <2>. QED
    BY <1>1, <1>4, <1>5, <1>7, <2>1, <2>2, Zenon DEF Next
<1>. QED
  BY <1>6, <1>7

----------------------------------------------------------------------------
(* What a step does to the tree, to a group, and to the other handlers.    *)

LEMMA TreeSteps ==
    ASSUME TypeInv, [Next]_vars
    PROVE  \/ tree' = tree
           \/ tree' = <<>>
           \/ \E c \in Clients :
                 /\ pc[c] = "add"
                 /\ tree' = AddFile(tree, Front(path[c]),
                                    EntryOf(path[c], upload[c]))
           \/ \E c \in Clients :
                 /\ pc[c] = "unlist"
                 /\ ~RemoveFileFails(tree, path[c])
                 /\ tree' = RemoveFile(tree, path[c])
<1>1. ASSUME NEW c \in Clients, NEW p \in Paths,
             \/ \E u \in Uploads : BeginPut(c, p, u)
             \/ BeginGet(c, p)
             \/ BeginDelete(c, p)
             \/ NotFound(c, p)
      PROVE  tree' = tree
  BY <1>1 DEF BeginPut, BeginGet, BeginDelete, NotFound, vars
<1>2. ASSUME NEW c \in Clients, Put(c), tree' # tree
      PROVE  /\ pc[c] = "add"
             /\ tree' = AddFile(tree, Front(path[c]),
                                EntryOf(path[c], upload[c]))
  BY <1>2 DEF Put, ComputeRoute, StoreShard, AddToTree
<1>3. ASSUME NEW c \in Clients, Get(c) \/ Disconnect(c) PROVE tree' = tree
  BY <1>3 DEF Get, GetRoute, ReadShard, Reconstruct, SendBody, Disconnect
<1>4. ASSUME NEW c \in Clients, Delete(c), tree' # tree
      PROVE  /\ pc[c] = "unlist"
             /\ ~RemoveFileFails(tree, path[c])
             /\ tree' = RemoveFile(tree, path[c])
  BY <1>4 DEF Delete, WipeGroup, RemoveRoute, Unlist
<1>5. ASSUME \E u \in Uploads, g \in Groups : Purge(u, g) PROVE tree' = tree
  BY <1>5 DEF Purge
<1>6. CASE Restart
  BY <1>6 DEF Restart, NewTree
<1>7. CASE UNCHANGED vars
  BY <1>7 DEF vars
<1>8. CASE Next
  BY <1>1, <1>2, <1>3, <1>4, <1>5, <1>6, <1>8, Zenon DEF Next
<1>. QED
  BY <1>7, <1>8

(* A file stays at its path below the root as long as it is listed, and    *)
(* once it is not listed it never is again.                                *)
LEMMA PathSteps ==
    ASSUME TypeInv, OwnerInv, [Next]_vars, NEW u \in Uploads, Settled(u)
    PROVE  /\ InTree(tree', u) => InTree(tree, u)
           /\ \A p \in Paths :
                 /\ Len(p) = 2
                 /\ InTree(tree, u) => EntryOf(p, u) \in ResolvePath(tree, p)
                 => (InTree(tree', u) => EntryOf(p, u) \in ResolvePath(tree', p))
<1>1. /\ tree \in TreesOver(Components, Entries) /\ Once(tree)
  BY DEF TypeInv, SharedType, OwnerInv
<1>2. CASE tree' = tree
  BY <1>2
<1>3. CASE tree' = <<>>
  BY <1>3 DEF InTree
<1>4. ASSUME NEW c \in Clients, pc[c] = "add",
             tree' = AddFile(tree, Front(path[c]), EntryOf(path[c], upload[c]))
      PROVE  /\ InTree(tree', u) => InTree(tree, u)
             /\ \A p \in Paths :
                   /\ Len(p) = 2
                   /\ InTree(tree, u) => EntryOf(p, u) \in ResolvePath(tree, p)
                   => (InTree(tree', u) => EntryOf(p, u) \in ResolvePath(tree', p))
  <2>1. path[c] \in Paths /\ upload[c] \in Uploads
    BY <1>4 DEF TypeInv, HandlerType, CursorInv, CursorOf
  <2> DEFINE e == EntryOf(path[c], upload[c])
             parent == Front(path[c])
  <2>2. /\ e \in Entries /\ e.upload = upload[c]
        /\ parent \in Seq(Components)
    BY <2>1, PathParts DEF Entries, EntryOf
  <2>3. ~InTree(tree, upload[c]) /\ u # upload[c]
    BY <1>4, <2>1 DEF OwnerInv, Settled, Putters
  <2> HIDE DEF e, parent
  <2>4. tree' = AddFile(tree, parent, e)
    BY <1>4 DEF e, parent
  <2>5. \A v : InTree(tree', v) => InTree(tree, v) \/ v = e.upload
    BY <1>1, <2>2, <2>3, <2>4, RootParts, AddFileOnce
  <2>6. InTree(tree', u) => InTree(tree, u)
    BY <2>2, <2>3, <2>5
  <2>7. ASSUME NEW p \in Paths, Len(p) = 2,
               EntryOf(p, u) \in ResolvePath(tree, p)
        PROVE  EntryOf(p, u) \in ResolvePath(tree', p)
    <3> DEFINE f == EntryOf(p, u)
    <3>1. f \in ResolvePath(tree, p) /\ p \in Seq(Components)
      BY <2>7, PathParts
    <3> HIDE DEF f
    <3>2. f \in ResolvePath(tree', p)
      BY <1>1, <2>2, <2>4, <2>7, <3>1, RootParts, AddFileResolves
    <3>. QED
      BY <3>2 DEF f
  <2>. QED
    BY <2>6, <2>7
<1>5. ASSUME NEW c \in Clients, ~RemoveFileFails(tree, path[c]),
             tree' = RemoveFile(tree, path[c])
      PROVE  /\ InTree(tree', u) => InTree(tree, u)
             /\ \A p \in Paths :
                   /\ Len(p) = 2
                   /\ InTree(tree, u) => EntryOf(p, u) \in ResolvePath(tree, p)
                   => (InTree(tree', u) => EntryOf(p, u) \in ResolvePath(tree', p))
  <2> DEFINE i == RemovedDir(tree, path[c])
             k == RemovedPlace(tree, path[c])
  <2>1. /\ \A v : InTree(tree', v) => InTree(tree, v)
        /\ ~InTree(tree', tree[i].files[k].upload)
    BY <1>1, <1>5, RemoveFileOnce
  <2>2. ASSUME NEW p \in Paths, Len(p) = 2, InTree(tree', u),
               EntryOf(p, u) \in ResolvePath(tree, p)
        PROVE  EntryOf(p, u) \in ResolvePath(tree', p)
    <3> DEFINE f == EntryOf(p, u)
    <3>1. f \in ResolvePath(tree, p) /\ p \in Seq(Components) /\ f.upload = u
      BY <2>2, PathParts DEF EntryOf
    <3> HIDE DEF f
    <3>2. f = tree[i].files[k] \/ f \in ResolvePath(tree', p)
      BY <1>1, <1>5, <2>2, <3>1, RemoveFileResolves
    <3>3. f # tree[i].files[k]
      BY <2>1, <2>2, <3>1
    <3>. QED
      BY <3>2, <3>3 DEF f
  <2>. QED
    BY <2>1, <2>2
<1>. QED
  BY <1>2, <1>3, <1>4, <1>5, TreeSteps, Zenon

LEMMA GroupsApart ==
    ASSUME NEW u, NEW b, NEW v, NEW d, GroupOf(u, b) = GroupOf(v, d)
    PROVE  u = v /\ b = d
BY DEF GroupOf

(* Routes and shards come from the PUT of their upload only, and go only   *)
(* with the file or in a restart.                                          *)
GroupStep(u, g) ==
    /\ faults' \in Nat /\ faults <= faults' /\ doomed \subseteq doomed'
    /\ Settled(u) => /\ g \in routes' => g \in routes
                     /\ shards'[g] \subseteq shards[g]
    /\ u \notin doomed' => /\ shards[g] \subseteq shards'[g]
                           /\ cut[g] \subseteq cut'[g]
                           /\ zeroed'[g] = zeroed[g]
                           /\ g \in routes => g \in routes' \/ Restart

(* What a wipe of h does to g.                                             *)
ClearedOrLess(h, g) ==
    /\ shards'[g] \subseteq shards[g]
    /\ g # h => shards'[g] = shards[g] /\ cut'[g] = cut[g] /\ zeroed'[g] = zeroed[g]

LEMMA ClearLess ==
    ASSUME TypeInv, NEW h, NEW g \in Groups, Clear(h)
    PROVE  ClearedOrLess(h, g)
BY DEF Clear, ClearedOrLess, TypeInv, SharedType

LEMMA WipeFailsLess ==
    ASSUME TypeInv, NEW h, NEW g \in Groups, WipeFails(h)
    PROVE  ClearedOrLess(h, g)
<1>1. PICK full, parts, zeros : Left(h, full, parts, zeros)
  BY WipeLeaves
<1>. QED
  BY <1>1 DEF Left, ClearedOrLess, TypeInv, SharedType

LEMMA GroupSteps ==
    ASSUME TypeInv, OwnerInv, [Next]_vars,
           NEW u \in Uploads, NEW b \in 1 .. Blocks[u], NEW g, g = GroupOf(u, b)
    PROVE  GroupStep(u, g)
<1>1. faults \in Nat /\ g \in Groups
  BY GroupType DEF TypeInv, SharedType
<1>2. ASSUME UNCHANGED <<routes, vaultVars>>, doomed \subseteq doomed',
             faults' = faults \/ faults' = faults + 1
      PROVE  GroupStep(u, g)
  BY <1>1, <1>2 DEF GroupStep
<1>3. ASSUME NEW c \in Clients, NEW p \in Paths,
             \/ \E v \in Uploads : BeginPut(c, p, v)
             \/ BeginGet(c, p)
             \/ BeginDelete(c, p)
             \/ NotFound(c, p)
      PROVE  GroupStep(u, g)
  <2>1. UNCHANGED <<routes, vaultVars, faults>> /\ doomed \subseteq doomed'
    BY <1>3 DEF BeginPut, BeginGet, BeginDelete, NotFound, vars, historyVars,
                bounds
  <2>. QED
    BY <1>2, <2>1
<1>4. ASSUME NEW c \in Clients, Put(c) PROVE GroupStep(u, g)
  <2>1. CASE ComputeRoute(c)
    <3>1. /\ pc[c] = "route" /\ routes' = routes \cup {Group(c)}
          /\ UNCHANGED <<vaultVars, doomed, faults>>
      BY <2>1 DEF ComputeRoute, historyVars, bounds
    <3>2. Settled(u) => g # Group(c)
      BY <3>1, GroupsApart DEF Settled, Putters, Group
    <3>. QED
      BY <1>1, <3>1, <3>2 DEF GroupStep
  <2>2. CASE StoreShard(c)
    <3>1. /\ pc[c] = "store" /\ UNCHANGED <<routes, zeroed, doomed>>
          /\ faults' = faults \/ faults' = faults + 1
          /\ \/ shards' = [shards EXCEPT ![Group(c)] = @ \cup {Len(opts[c])}]
             \/ shards' = shards
          /\ \/ cut' = [cut EXCEPT ![Group(c)] = @ \cup {Len(opts[c])}]
             \/ cut' = cut
      BY <2>2 DEF StoreShard, historyVars, Fault, NoFault
    <3>2. Settled(u) => g # Group(c)
      BY <3>1, GroupsApart DEF Settled, Putters, Group
    <3>3. shards[g] \subseteq shards'[g] /\ cut[g] \subseteq cut'[g]
      BY <1>1, <3>1 DEF TypeInv, SharedType
    <3>4. Settled(u) => shards'[g] = shards[g]
      BY <1>1, <3>1, <3>2 DEF TypeInv, SharedType
    <3>. QED
      BY <1>1, <3>1, <3>3, <3>4 DEF GroupStep
  <2>3. CASE AddToTree(c)
    <3>1. /\ UNCHANGED <<routes, vaultVars, doomed>>
          /\ faults' = faults \/ faults' = faults + 1
      BY <2>3 DEF AddToTree, historyVars, Fault, NoFault
    <3>. QED
      BY <1>2, <3>1
  <2>. QED
    BY <1>4, <2>1, <2>2, <2>3 DEF Put
<1>5. ASSUME NEW c \in Clients, Get(c) \/ Disconnect(c) PROVE GroupStep(u, g)
  <2>1. CASE ReadShard(c)
    <3>1. /\ UNCHANGED <<routes, vaultVars, doomed>>
          /\ faults' = faults \/ faults' = faults + 1
      BY <2>1 DEF ReadShard, historyVars, Fault, NoFault
    <3>. QED
      BY <1>2, <3>1
  <2>2. CASE ~ReadShard(c)
    <3>1. UNCHANGED <<routes, vaultVars, doomed, faults>>
      BY <1>5, <2>2 DEF Get, GetRoute, Reconstruct, SendBody, Disconnect,
                        historyVars, bounds
    <3>. QED
      BY <1>2, <3>1
  <2>. QED
    BY <2>1, <2>2
<1>6. ASSUME NEW c \in Clients, Delete(c) PROVE GroupStep(u, g)
  <2>1. upload[c] \in doomed
    BY <1>6 DEF Delete, WipeGroup, RemoveRoute, Unlist, OwnerInv, Deleters
  <2>2. u \notin doomed' => u \notin doomed /\ g # Group(c)
    <3>1. doomed' = doomed
      BY <1>6 DEF Delete, WipeGroup, RemoveRoute, Unlist, historyVars
    <3>. QED
      BY <2>1, <3>1, GroupsApart DEF Group
  <2>3. CASE WipeGroup(c)
    <3>1. /\ pc[c] = "wipe" /\ UNCHANGED <<routes, doomed>>
          /\ faults' = faults \/ faults' = faults + 1
          /\ Clear(Group(c)) \/ WipeFails(Group(c))
      BY <2>3 DEF WipeGroup, historyVars, Fault, NoFault
    <3>2. ClearedOrLess(Group(c), g)
      BY <1>1, <3>1, ClearLess, WipeFailsLess
    <3>. QED
      BY <1>1, <2>2, <3>1, <3>2 DEF GroupStep, ClearedOrLess
  <2>4. CASE RemoveRoute(c)
    <3>1. /\ routes' = routes \ {Group(c)}
          /\ UNCHANGED <<vaultVars, doomed, faults>>
      BY <2>4 DEF RemoveRoute, historyVars, bounds
    <3>. QED
      BY <1>1, <2>2, <3>1 DEF GroupStep
  <2>5. CASE Unlist(c)
    <3>1. /\ UNCHANGED <<routes, vaultVars, doomed>>
          /\ faults' = faults \/ faults' = faults + 1
      BY <2>5 DEF Unlist, Fault, NoFault
    <3>. QED
      BY <1>2, <3>1
  <2>. QED
    BY <1>6, <2>3, <2>4, <2>5 DEF Delete
<1>7. ASSUME NEW v \in Uploads, NEW h \in Groups, Purge(v, h) PROVE GroupStep(u, g)
  <2>1. /\ UNCHANGED <<routes, faults>> /\ doomed' = doomed \cup {v}
        /\ h \in GroupsOf(v) /\ Clear(h)
    BY <1>7 DEF Purge
  <2>2. u # v => g # h
    BY <2>1, GroupsApart DEF GroupsOf
  <2>3. ClearedOrLess(h, g)
    BY <1>1, <2>1, ClearLess
  <2>. QED
    BY <1>1, <2>1, <2>2, <2>3 DEF GroupStep, ClearedOrLess
<1>8. CASE Restart
  BY <1>1, <1>8 DEF Restart, historyVars, GroupStep
<1>9. CASE UNCHANGED vars
  <2>1. UNCHANGED <<routes, vaultVars, doomed, faults>>
    BY <1>9 DEF vars, historyVars, bounds
  <2>. QED
    BY <1>2, <2>1
<1>10. CASE Next
  BY <1>3, <1>4, <1>5, <1>6, <1>7, <1>8, <1>10, Zenon DEF Next
<1>. QED
  BY <1>9, <1>10

Same(c) ==
    /\ pc'[c] = pc[c] /\ path'[c] = path[c] /\ upload'[c] = upload[c]
    /\ block'[c] = block[c] /\ opts'[c] = opts[c] /\ body'[c] = body[c]

Starts(c, p, u) == BeginPut(c, p, u) \/ BeginGet(c, p) \/ BeginDelete(c, p)

LEMMA OthersSame ==
    ASSUME TypeInv, NEW c \in Clients, NEW d \in Clients, d # c,
           \/ \E p \in Paths, u \in Uploads : Starts(c, p, u)
           \/ Put(c) \/ Get(c) \/ Delete(c) \/ Disconnect(c)
    PROVE  Same(d)
<1>1. ASSUME NEW p, NEW u, Starts(c, p, u) PROVE Same(d)
  <2>1. \E v, loop, after : Start(c, p, v, loop, after)
    BY <1>1 DEF Starts, BeginPut, BeginGet, BeginDelete
  <2>. QED
    BY <2>1 DEF Start, Same, TypeInv, HandlerType
<1>2. CASE Put(c)
  BY <1>2 DEF Put, ComputeRoute, StoreShard, AddToTree, GoTo, NextBlock, Answer,
              Same, TypeInv, HandlerType
<1>3. CASE Get(c)
  BY <1>3 DEF Get, GetRoute, ReadShard, Reconstruct, SendBody, GoTo, NextBlock,
              Answer, Same, TypeInv, HandlerType
<1>4. CASE Delete(c)
  BY <1>4 DEF Delete, WipeGroup, RemoveRoute, Unlist, GoTo, NextBlock, Answer,
              Same, TypeInv, HandlerType
<1>5. CASE Disconnect(c)
  BY <1>5 DEF Disconnect, Answer, Same, TypeInv, HandlerType
<1>. QED
  BY <1>1, <1>2, <1>3, <1>4, <1>5

HandlerStep(d) ==
    \/ Same(d)
    \/ pc'[d] = "idle"
    \/ \E p \in Paths, u \in Uploads : Starts(d, p, u)
    \/ Put(d) \/ Get(d) \/ Delete(d)

LEMMA HandlerSteps ==
    ASSUME TypeInv, [Next]_vars, NEW d \in Clients
    PROVE  HandlerStep(d)
<1>1. ASSUME NEW c \in Clients,
             \/ \E p \in Paths, u \in Uploads : Starts(c, p, u)
             \/ Put(c) \/ Get(c) \/ Delete(c) \/ Disconnect(c)
      PROVE  HandlerStep(d)
  <2>1. CASE c # d
    BY <1>1, <2>1, OthersSame DEF HandlerStep
  <2>2. CASE c = d /\ Disconnect(c)
    BY <2>2 DEF Disconnect, Answer, TypeInv, HandlerType, HandlerStep
  <2>3. CASE c = d /\ ~Disconnect(c)
    BY <1>1, <2>3 DEF HandlerStep
  <2>. QED
    BY <2>1, <2>2, <2>3
<1>2. ASSUME NEW c \in Clients, NEW p \in Paths,
             \/ \E u \in Uploads : BeginPut(c, p, u)
             \/ BeginGet(c, p)
             \/ BeginDelete(c, p)
      PROVE  \E q \in Paths, u \in Uploads : Starts(c, q, u)
  BY <1>2, UploadAssumption DEF Starts
<1>3. ASSUME \/ UNCHANGED vars
             \/ \E c \in Clients, p \in Paths : NotFound(c, p)
             \/ \E u \in Uploads, g \in Groups : Purge(u, g)
      PROVE  HandlerStep(d)
  <2>1. UNCHANGED handlerVars
    BY <1>3 DEF vars, NotFound, Purge
  <2>. QED
    BY <2>1 DEF handlerVars, Same, HandlerStep
<1>4. Restart => HandlerStep(d)
  BY DEF Restart, HandlerStep
<1>5. CASE Next
  <2>1. \/ \E c \in Clients : \/ \E p \in Paths, u \in Uploads : Starts(c, p, u)
                              \/ Put(c) \/ Get(c) \/ Delete(c) \/ Disconnect(c)
        \/ \E c \in Clients, p \in Paths : NotFound(c, p)
        \/ \E u \in Uploads, g \in Groups : Purge(u, g)
        \/ Restart
    BY <1>2, <1>5, Zenon DEF Next
  <2>. QED
    BY <1>1, <1>3, <1>4, <2>1, Zenon
<1>. QED
  BY <1>3, <1>5

----------------------------------------------------------------------------
(* DELETE.                                                                 *)

Wiped(u, b) ==
    /\ GroupOf(u, b) \notin routes
    /\ faults = 0 => shards[GroupOf(u, b)] = {}

AtPath(p, u) ==
    InTree(tree, u) => EntryOf(p, u) \in ResolvePath(tree, p)

(* What a handler has wiped when it is at a block, and where it finds the  *)
(* file when it comes to remove it.                                        *)
DeleteOf(c) ==
    pc[c] \in Deleters =>
        /\ \A b \in 1 .. Blocks[upload[c]] : b < block[c] => Wiped(upload[c], b)
        /\ pc[c] = "unroute" /\ faults = 0 => shards[Group(c)] = {}
        /\ Len(path[c]) = 2 => AtPath(path[c], upload[c])

DeletedOf(d) ==
    /\ \A b \in 1 .. Blocks[d[2]] : Wiped(d[2], b)
    /\ Len(d[1]) = 2 => ~InTree(tree, d[2])

GoneInv ==
    /\ \A c \in Clients : DeleteOf(c)
    /\ \A d \in deleted : DeletedOf(d)

LEMMA WipedStays ==
    ASSUME TypeInv, OwnerInv, [Next]_vars, NEW u \in Uploads, Settled(u),
           NEW b \in 1 .. Blocks[u], Wiped(u, b)
    PROVE  Wiped(u, b)'
<1>1. GroupStep(u, GroupOf(u, b))
  BY GroupSteps
<1>2. faults \in Nat
  BY DEF TypeInv, SharedType
<1>3. GroupOf(u, b)' = GroupOf(u, b)
  BY DEF GroupOf
<1>. QED
  BY <1>1, <1>2, <1>3 DEF Wiped, GroupStep

LEMMA DeletedOfStays ==
    ASSUME TypeInv, OwnerInv, [Next]_vars, NEW d \in Paths \X Uploads,
           Settled(d[2]), DeletedOf(d)
    PROVE  DeletedOf(d)'
<1>1. d[2] \in Uploads
  OBVIOUS
<1>2. \A b \in 1 .. Blocks[d[2]] : Wiped(d[2], b)'
  BY <1>1, WipedStays DEF DeletedOf
<1>3. Len(d[1]) = 2 => ~InTree(tree', d[2])
  BY <1>1, PathSteps DEF DeletedOf
<1>. QED
  BY <1>2, <1>3 DEF DeletedOf

(* A step of others leaves it as it is.                                    *)
LEMMA DeleteOfSame ==
    ASSUME TypeInv, OwnerInv, [Next]_vars, NEW c \in Clients, DeleteOf(c),
           Same(c)
    PROVE  DeleteOf(c)'
<1> SUFFICES ASSUME pc[c] \in Deleters
             PROVE  DeleteOf(c)'
  BY DEF DeleteOf, Same
<1>1. PICK u \in Uploads : u = upload[c] /\ u = upload'[c]
  BY DEF TypeInv, HandlerType, Same
<1>2. PICK p \in Paths : p = path[c] /\ p = path'[c]
  BY DEF TypeInv, CursorInv, CursorOf, Same, Deleters
<1>3. Settled(u)
  BY <1>1 DEF OwnerInv
<1>4. ASSUME NEW b \in 1 .. Blocks[u], b < block[c] PROVE Wiped(u, b)'
  BY <1>1, <1>3, <1>4, WipedStays DEF DeleteOf
<1>5. ASSUME pc[c] = "unroute", faults' = 0 PROVE shards'[GroupOf(u, block[c])] = {}
  <2>1. block[c] \in 1 .. Blocks[u]
    BY <1>1, <1>5 DEF TypeInv, CursorInv, CursorOf
  <2>2. GroupStep(u, GroupOf(u, block[c]))
    BY <2>1, GroupSteps
  <2>3. faults = 0
    BY <1>5, <2>2 DEF GroupStep, TypeInv, SharedType
  <2>. QED
    BY <1>1, <1>3, <1>5, <2>2, <2>3 DEF GroupStep, DeleteOf, Group
<1>6. ASSUME Len(p) = 2 PROVE AtPath(p, u)'
  BY <1>1, <1>2, <1>3, <1>6, PathSteps DEF DeleteOf, AtPath
<1>. QED
  BY <1>1, <1>2, <1>4, <1>5, <1>6 DEF DeleteOf, Same, Wiped, AtPath, Group

(* The file that a DELETE below the root finds, whole or not, is the one   *)
(* it has resolved: nothing else came before it in the meantime.           *)
LEMMA UnlistGone ==
    ASSUME TypeInv, OwnerInv, NEW p \in Paths, NEW u \in Uploads, Len(p) = 2,
           AtPath(p, u),
           IF RemoveFileFails(tree, p)
           THEN tree' = tree
           ELSE tree' = RemoveFile(tree, p)
    PROVE  ~InTree(tree', u)
<1>1. /\ tree \in TreesOver(Components, Entries) /\ Once(tree)
      /\ p \in Seq(Components)
  BY PathParts DEF TypeInv, SharedType, OwnerInv
<1> DEFINE d == DirIndex(tree, <<p[1]>>)
<1>2. RemovalDir(p) = <<p[1]>> /\ Last(p) = p[2]
  BY <1>1 DEF RemovalDir, Last
<1>3. ResolvePath(tree, p) = IF d = 0 THEN {} ELSE FindFile(tree[d].files, p[2])
  BY <1>1, ResolveBelow
<1>4. CASE RemoveFileFails(tree, p)
  <2>1. d = 0 \/ FileIndex(tree[d].files, p[2]) = 0
    BY <1>2, <1>4 DEF RemoveFileFails
  <2> HIDE DEF d
  <2>2. ResolvePath(tree, p) = {}
    BY <1>3, <2>1 DEF FindFile
  <2>. QED
    BY <1>4, <2>2 DEF AtPath
<1>5. CASE ~RemoveFileFails(tree, p)
  <2> DEFINE i == RemovedDir(tree, p)
             k == RemovedPlace(tree, p)
  <2>1. /\ \A v : InTree(tree', v) => InTree(tree, v)
        /\ ~InTree(tree', tree[i].files[k].upload)
    BY <1>1, <1>5, RemoveFileOnce
  <2>2. i = d /\ k = FileIndex(tree[d].files, p[2]) /\ d # 0 /\ k # 0
    BY <1>2, <1>5 DEF RemoveFileFails, RemovedDir, RemovedPlace
  <2> HIDE DEF i, k, d
  <2>3. ResolvePath(tree, p) = {tree[i].files[k]}
    BY <1>3, <2>2 DEF FindFile
  <2>4. InTree(tree, u) => tree[i].files[k].upload = u
    BY <2>3 DEF AtPath, EntryOf
  <2>. QED
    BY <2>1, <2>4
<1>. QED
  BY <1>4, <1>5

(* A handler that is answered or starts its DELETE has wiped nothing yet.  *)
LEMMA DeleteOfStart ==
    ASSUME TypeInv, NEW c \in Clients, NEW p \in Paths, NEW u \in Uploads,
           Starts(c, p, u)
    PROVE  DeleteOf(c)'
<1>1. CASE BeginPut(c, p, u) \/ BeginGet(c, p)
  <2>1. \E v : Start(c, p, v, "route", "add") \/ Start(c, p, v, "fetch", "send")
    BY <1>1 DEF BeginPut, BeginGet
  <2>2. pc'[c] \in {"route", "add", "fetch", "send"}
    BY <2>1 DEF Start, TypeInv, HandlerType
  <2>. QED
    BY <2>2 DEF DeleteOf, Deleters
<1>2. CASE BeginDelete(c, p)
  <2>1. PICK f \in ResolvePath(tree, p) : Start(c, p, f.upload, "wipe", "unlist")
    BY <1>2 DEF BeginDelete
  <2>2. PICK v \in Uploads : v = f.upload /\ EntryOf(p, v) \in ResolvePath(tree, p)
    BY ResolveType
  <2>3. /\ pc'[c] \in {"wipe", "unlist"} /\ block'[c] = 1
        /\ path'[c] = p /\ upload'[c] = v
    BY <2>1, <2>2 DEF Start, TypeInv, HandlerType
  <2>4. tree' = tree
    BY <1>2 DEF BeginDelete
  <2>5. AtPath(p, v)'
    BY <2>2, <2>4 DEF AtPath
  <2>6. \A b \in 1 .. Blocks[upload'[c]] : ~(b < block'[c])
    BY <2>2, <2>3, UploadAssumption
  <2>. QED
    BY <2>3, <2>5, <2>6 DEF DeleteOf, AtPath
<1>. QED
  BY <1>1, <1>2 DEF Starts

LEMMA DeleteOfOther ==
    ASSUME TypeInv, NEW c \in Clients, Put(c) \/ Get(c)
    PROVE  DeleteOf(c)'
<1>1. CASE Put(c)
  <2>1. pc'[c] \in {"idle", "route", "store", "add"}
    BY <1>1 DEF Put, ComputeRoute, StoreShard, AddToTree, GoTo, NextBlock,
                Answer, TypeInv, HandlerType
  <2>. QED
    BY <2>1 DEF DeleteOf, Deleters
<1>2. CASE Get(c)
  <2>1. pc'[c] \in {"idle", "fetch", "read", "decode", "send"}
    BY <1>2 DEF Get, GetRoute, ReadShard, Reconstruct, SendBody, GoTo, NextBlock,
                Answer, TypeInv, HandlerType
  <2>. QED
    BY <2>1 DEF DeleteOf, Deleters
<1>. QED
  BY <1>1, <1>2

(* Its own steps: the group is wiped, then its route is removed.           *)
LEMMA DeleteOfStep ==
    ASSUME TypeInv, OwnerInv, [Next]_vars, NEW c \in Clients, DeleteOf(c),
           Delete(c)
    PROVE  DeleteOf(c)'
<1>1. PICK u \in Uploads : u = upload[c]
  BY DEF TypeInv, HandlerType
<1>2. PICK p \in Paths : p = path[c]
  BY DEF TypeInv, CursorInv, CursorOf, Delete, WipeGroup, RemoveRoute, Unlist
<1>3. pc[c] \in Deleters /\ Settled(u)
  BY <1>1 DEF OwnerInv, Deleters, Delete, WipeGroup, RemoveRoute, Unlist
<1>4. \A b \in 1 .. Blocks[u] : b < block[c] => Wiped(u, b)'
  BY <1>1, <1>3, WipedStays DEF DeleteOf
<1>5. Len(p) = 2 => AtPath(p, u)'
  BY <1>1, <1>2, <1>3, PathSteps DEF DeleteOf, AtPath
<1>6. CASE WipeGroup(c)
  <2>1. /\ pc'[c] = "unroute" /\ upload'[c] = u /\ path'[c] = p
        /\ block'[c] = block[c]
    BY <1>1, <1>2, <1>6 DEF WipeGroup, GoTo, TypeInv, HandlerType
  <2>2. block[c] \in 1 .. Blocks[u]
    BY <1>1, <1>6 DEF WipeGroup, TypeInv, CursorInv, CursorOf
  <2> DEFINE g == GroupOf(u, block[c])
  <2>3. g \in Groups /\ g = Group(c) /\ Group(c)' = g
    BY <1>1, <2>1, <2>2, GroupType DEF Group, GroupOf
  <2>4. faults' = 0 => shards'[g] = {}
    <3>1. faults \in Nat /\ shards \in [Groups -> SUBSET Shard]
      BY DEF TypeInv, SharedType
    <3>2. \/ shards' = [shards EXCEPT ![g] = {}]
          \/ faults' = faults + 1
      BY <1>6, <2>3 DEF WipeGroup, Clear, Fault
    <3> HIDE DEF g
    <3>. QED
      BY <2>3, <3>1, <3>2
  <2>. QED
    BY <1>4, <1>5, <2>1, <2>3, <2>4 DEF DeleteOf, Wiped, AtPath
<1>7. CASE RemoveRoute(c)
  <2>1. /\ pc'[c] \in {"wipe", "unlist"} /\ upload'[c] = u /\ path'[c] = p
        /\ block'[c] = block[c] + 1 /\ pc[c] = "unroute"
    BY <1>1, <1>2, <1>7 DEF RemoveRoute, NextBlock, TypeInv, HandlerType
  <2>2. PICK k \in Nat : k = block[c]
    BY DEF TypeInv, HandlerType
  <2>3. Wiped(u, k)'
    <3>1. /\ routes' = routes \ {GroupOf(u, k)}
          /\ shards' = shards /\ faults' = faults
      BY <1>1, <1>7, <2>2 DEF RemoveRoute, Group, bounds
    <3>2. faults = 0 => shards[GroupOf(u, k)] = {}
      BY <1>1, <1>3, <2>1, <2>2 DEF DeleteOf, Group
    <3>. QED
      BY <3>1, <3>2 DEF Wiped, GroupOf
  <2>4. \A b \in 1 .. Blocks[u] : b < block'[c] => Wiped(u, b)'
    <3> SUFFICES ASSUME NEW b \in 1 .. Blocks[u], b < block'[c]
                 PROVE  Wiped(u, b)'
      OBVIOUS
    <3>1. b \in Nat
      BY UploadAssumption
    <3>2. b < block[c] \/ b = k
      BY <2>1, <2>2, <3>1
    <3>. QED
      BY <1>4, <2>3, <3>2
  <2>. QED
    BY <1>5, <2>1, <2>4 DEF DeleteOf, Wiped, AtPath
<1>8. CASE Unlist(c)
  <2>1. pc'[c] = "idle"
    BY <1>8 DEF Unlist, Answer, TypeInv, HandlerType
  <2>. QED
    BY <2>1 DEF DeleteOf, Deleters
<1>. QED
  BY <1>6, <1>7, <1>8 DEF Delete

LEMMA DeletedSteps ==
    ASSUME TypeInv, OwnerInv, [Next]_vars, NEW d \in deleted', d \notin deleted
    PROVE  \E c \in Clients : Unlist(c) /\ d = <<path[c], upload[c]>>
<1>1. ASSUME NEW c \in Clients, NEW p \in Paths,
             \/ \E v \in Uploads : BeginPut(c, p, v)
             \/ BeginGet(c, p)
             \/ BeginDelete(c, p)
             \/ NotFound(c, p)
      PROVE  FALSE
  BY <1>1 DEF BeginPut, BeginGet, BeginDelete, NotFound, vars, historyVars
<1>2. ASSUME NEW c \in Clients, Put(c) \/ Get(c) \/ Disconnect(c) PROVE FALSE
  BY <1>2 DEF Put, ComputeRoute, StoreShard, AddToTree, Get, GetRoute, ReadShard,
              Reconstruct, SendBody, Disconnect, historyVars
<1>3. ASSUME NEW c \in Clients, Delete(c)
      PROVE  Unlist(c) /\ d = <<path[c], upload[c]>>
  BY <1>3 DEF Delete, WipeGroup, RemoveRoute, Unlist, historyVars
<1>4. ~Restart /\ ~(\E u \in Uploads, g \in Groups : Purge(u, g))
  BY DEF Restart, Purge, historyVars
<1>5. ~UNCHANGED vars
  BY DEF vars, historyVars
<1>6. \E c \in Clients : Delete(c)
  BY <1>1, <1>2, <1>4, <1>5, Zenon DEF Next
<1>. QED
  BY <1>3, <1>6

LEMMA GoneStep ==
    ASSUME TypeInv, OwnerInv, GoneInv, [Next]_vars
    PROVE  GoneInv'
<1>1. ASSUME NEW c \in Clients PROVE DeleteOf(c)'
  <2>1. DeleteOf(c)
    BY DEF GoneInv
  <2>2. CASE pc'[c] = "idle"
    BY <2>2 DEF DeleteOf, Deleters
  <2>3. ASSUME NEW p \in Paths, NEW u \in Uploads, Starts(c, p, u)
        PROVE  DeleteOf(c)'
    BY <2>3, DeleteOfStart
  <2>. QED
    BY <2>1, <2>2, <2>3, HandlerSteps, DeleteOfSame, DeleteOfOther, DeleteOfStep,
       Zenon DEF HandlerStep
<1>2. ASSUME NEW d \in deleted' PROVE DeletedOf(d)'
  <2>1. CASE d \in deleted
    <3>1. d \in Paths \X Uploads /\ Settled(d[2]) /\ DeletedOf(d)
      BY <2>1 DEF TypeInv, SharedType, OwnerInv, GoneInv
    <3>. QED
      BY <3>1, DeletedOfStays
  <2>2. CASE d \notin deleted
    <3>1. PICK c \in Clients : Unlist(c) /\ d = <<path[c], upload[c]>>
      BY <1>2, <2>2, DeletedSteps
    <3>2. PICK u \in Uploads : u = upload[c]
      BY DEF TypeInv, HandlerType
    <3>3. PICK p \in Paths : p = path[c]
      BY <3>1 DEF Unlist, TypeInv, CursorInv, CursorOf
    <3>4. /\ d[1] = p /\ d[2] = u /\ pc[c] \in Deleters
          /\ block[c] = Blocks[u] + 1
      BY <3>1, <3>2, <3>3 DEF Unlist, Deleters, TypeInv, CursorInv, CursorOf
    <3>5. ASSUME NEW b \in 1 .. Blocks[u] PROVE Wiped(u, b)'
      <4>1. b < block[c]
        BY <3>4, UploadAssumption
      <4>2. Wiped(u, b) /\ Settled(u)
        BY <3>2, <3>4, <4>1 DEF GoneInv, DeleteOf, OwnerInv
      <4>. QED
        BY <4>2, WipedStays
    <3>6. ASSUME Len(p) = 2 PROVE ~InTree(tree', u)
      <4>1. AtPath(p, u)
        BY <3>2, <3>3, <3>4, <3>6 DEF GoneInv, DeleteOf
      <4>2. IF RemoveFileFails(tree, p)
            THEN tree' = tree
            ELSE tree' = RemoveFile(tree, p)
        BY <3>1, <3>3 DEF Unlist
      <4>. QED
        BY <3>6, <4>1, <4>2, UnlistGone
    <3>. QED
      BY <3>4, <3>5, <3>6 DEF DeletedOf, Wiped
  <2>. QED
    BY <2>1, <2>2
<1>. QED
  BY <1>1, <1>2 DEF GoneInv

(* What a DELETE has run to its end on has no routes, no shards and, below *)
(* the root, no entry again, as DavFs.DeletedStaysGone says.               *)
THEOREM DeletedGone == Spec => []DeletedStaysGone
<1>1. Init => TypeInv /\ OwnerInv /\ GoneInv
  <2>1. Init => GoneInv
    BY DEF Init, GoneInv, DeleteOf, Deleters
  <2>. QED
    BY <2>1, TypeInit, OwnerInit
<1>2. TypeInv /\ OwnerInv /\ GoneInv /\ [Next]_vars
        => (TypeInv /\ OwnerInv /\ GoneInv)'
  BY TypeStep, OwnerStep, GoneStep
<1>3. TypeInv /\ OwnerInv /\ GoneInv => DeletedStaysGone
  <2> SUFFICES ASSUME TypeInv, OwnerInv, GoneInv, NEW d \in deleted
               PROVE  /\ GroupsOf(d[2]) \cap routes = {}
                      /\ faults = 0 => \A g \in GroupsOf(d[2]) : shards[g] = {}
                      /\ Len(d[1]) = 2 =>
                            EntryOf(d[1], d[2]) \notin ResolvePath(tree, d[1])
    BY DEF DeletedStaysGone
  <2>1. DeletedOf(d) /\ d[1] \in Paths /\ d[2] \in Uploads
    BY DEF GoneInv, TypeInv, SharedType
  <2>2. GroupsOf(d[2]) \cap routes = {}
    BY <2>1 DEF DeletedOf, Wiped, GroupsOf
  <2>3. faults = 0 => \A g \in GroupsOf(d[2]) : shards[g] = {}
    BY <2>1 DEF DeletedOf, Wiped, GroupsOf
  <2>4. ASSUME Len(d[1]) = 2, EntryOf(d[1], d[2]) \in ResolvePath(tree, d[1])
        PROVE  FALSE
    <3>1. EntryOf(d[1], d[2]).upload = d[2]
      BY DEF EntryOf
    <3>2. InTree(tree, d[2])
      BY <2>1, <2>4, <3>1, ResolveType
    <3>. QED
      BY <2>1, <2>4, <3>2 DEF DeletedOf
  <2>. QED
    BY <2>2, <2>3, <2>4
<1>. QED
  BY <1>1, <1>2, <1>3, PTL DEF Spec

----------------------------------------------------------------------------
(* What is listed can be read.                                             *)

LEMMA Fewer ==
    ASSUME NEW S \in SUBSET Shard, NEW T \in SUBSET S, NEW k \in Nat,
           NEW m \in Nat, k <= m, Cardinality(S) <= k
    PROVE  Cardinality(T) <= m
<1>1. IsFiniteSet(Shard)
  BY CodeAssumption, FS_Interval DEF Shard
<1>2. IsFiniteSet(S)
  BY <1>1, FS_Subset
<1>3. IsFiniteSet(T) /\ Cardinality(T) <= Cardinality(S)
  BY <1>2, FS_Subset
<1>4. Cardinality(S) \in Nat /\ Cardinality(T) \in Nat
  BY <1>2, <1>3, FS_CardinalityType
<1>. QED
  BY <1>3, <1>4

LEMMA OneMore ==
    ASSUME NEW S \in SUBSET Shard, NEW x, NEW T \in SUBSET (S \cup {x}),
           NEW k \in Nat, Cardinality(S) <= k
    PROVE  Cardinality(T) <= k + 1
<1>1. IsFiniteSet(Shard)
  BY CodeAssumption, FS_Interval DEF Shard
<1>2. IsFiniteSet(S)
  BY <1>1, FS_Subset
<1>3. IsFiniteSet(S \cup {x}) /\ Cardinality(S \cup {x}) <= Cardinality(S) + 1
  <2>1. Cardinality(S) \in Nat
    BY <1>2, FS_CardinalityType
  <2>2. /\ IsFiniteSet(S \cup {x})
        /\ Cardinality(S \cup {x}) = IF x \in S THEN Cardinality(S)
                                      ELSE Cardinality(S) + 1
    BY <1>2, FS_AddElement
  <2>. QED
    BY <2>1, <2>2
<1>4. IsFiniteSet(T) /\ Cardinality(T) <= Cardinality(S \cup {x})
  BY <1>3, FS_Subset
<1>5. /\ Cardinality(S) \in Nat /\ Cardinality(T) \in Nat
      /\ Cardinality(S \cup {x}) \in Nat
  BY <1>2, <1>3, <1>4, FS_CardinalityType
<1>. QED
  BY <1>3, <1>4, <1>5

Lacks(u, b) == Shard \ shards[GroupOf(u, b)]

Safe(u, b) ==
    /\ GroupOf(u, b) \in routes
    /\ Cardinality(Lacks(u, b)) <= faults

(* The shards of its block that a PUT has tried and failed to store.       *)
Unstored(c) == {i \in Shard : i < Len(opts[c]) /\ i \notin shards[Group(c)]}

(* The shards of its block that a GET has not got in full, or will not     *)
(* get.                                                                    *)
Lost(c) ==
    {i \in Shard : IF i < Len(opts[c]) THEN opts[c][i + 1] # "whole"
                                       ELSE i \notin shards[Group(c)]}

(* It has got nothing that a wipe overwrote, and what is cut if the block  *)
(* is.                                                                     *)
FairlyRead(c) ==
    /\ ~Got(c, "zero")
    /\ Got(c, "cut") => cut[Group(c)] # {}

KeptOf(c) ==
    upload[c] \notin doomed =>
        /\ pc[c] \in Readers => \A b \in 1 .. Blocks[upload[c]] : Safe(upload[c], b)
        /\ pc[c] \in {"read", "decode"} => /\ Cardinality(Lost(c)) <= faults
                                          /\ FairlyRead(c)
        /\ pc[c] \in Putters => \A b \in 1 .. Blocks[upload[c]] :
                                   b < block[c] => Safe(upload[c], b)
        /\ pc[c] = "store" => /\ Group(c) \in routes
                              /\ Cardinality(Unstored(c)) <= faults

ListedSafe ==
    \A u \in Uploads \ doomed : InTree(tree, u) =>
        \A b \in 1 .. Blocks[u] : Safe(u, b)

NoZeros ==
    \A u \in Uploads \ doomed : \A b \in 1 .. Blocks[u] :
        zeroed[GroupOf(u, b)] = {}

KeptInv ==
    /\ \A c \in Clients : KeptOf(c)
    /\ ListedSafe
    /\ NoZeros

LEMMA DoomedStays ==
    ASSUME [Next]_vars PROVE doomed \subseteq doomed'
<1>1. ASSUME NEW c \in Clients, NEW p \in Paths,
             \/ \E v \in Uploads : BeginPut(c, p, v)
             \/ BeginGet(c, p)
             \/ BeginDelete(c, p)
             \/ NotFound(c, p)
      PROVE  doomed \subseteq doomed'
  BY <1>1 DEF BeginPut, BeginGet, BeginDelete, NotFound, vars, historyVars
<1>2. ASSUME NEW c \in Clients, Put(c) \/ Get(c) \/ Delete(c) \/ Disconnect(c)
      PROVE  doomed \subseteq doomed'
  BY <1>2 DEF Put, ComputeRoute, StoreShard, AddToTree, Get, GetRoute, ReadShard,
              Reconstruct, SendBody, Delete, WipeGroup, RemoveRoute, Unlist,
              Disconnect, historyVars
<1>3. ASSUME \/ Restart
             \/ \E u \in Uploads, g \in Groups : Purge(u, g)
             \/ UNCHANGED vars
      PROVE  doomed \subseteq doomed'
  BY <1>3 DEF Restart, Purge, vars, historyVars
<1>. QED
  BY <1>1, <1>2, <1>3, Zenon DEF Next

LEMMA SafeStays ==
    ASSUME TypeInv, OwnerInv, [Next]_vars, ~Restart, NEW u \in Uploads,
           u \notin doomed', NEW b \in 1 .. Blocks[u], Safe(u, b)
    PROVE  Safe(u, b)'
<1> DEFINE g == GroupOf(u, b)
<1>1. GroupStep(u, g)
  BY GroupSteps
<1>2. g \in routes' /\ shards[g] \subseteq shards'[g]
  BY <1>1 DEF GroupStep, Safe
<1>3. faults \in Nat /\ faults' \in Nat /\ faults <= faults'
  BY <1>1 DEF GroupStep, TypeInv, SharedType
<1>4. /\ Lacks(u, b) \in SUBSET Shard
      /\ Shard \ shards'[g] \in SUBSET Lacks(u, b)
  BY <1>2 DEF Lacks
<1>5. Cardinality(Lacks(u, b)) <= faults
  BY DEF Safe
<1>6. Cardinality(Shard \ shards'[g]) <= faults'
  BY <1>3, <1>4, <1>5, Fewer
<1>. QED
  BY <1>2, <1>6 DEF Safe, Lacks, GroupOf

(* A step of others leaves it as it is.                                    *)
LEMMA KeptOfSame ==
    ASSUME TypeInv, OwnerInv, [Next]_vars, ~Restart, NEW c \in Clients,
           KeptOf(c), Same(c)
    PROVE  KeptOf(c)'
<1>1. PICK u \in Uploads : u = upload[c] /\ u = upload'[c]
  BY DEF TypeInv, HandlerType, Same
<1>2. PICK k \in Nat : k = block[c] /\ k = block'[c]
  BY DEF TypeInv, HandlerType, Same
<1>3. PICK o \in Seq(Content) : o = opts[c] /\ o = opts'[c]
  BY DEF TypeInv, HandlerType, Same
<1>4. pc'[c] = pc[c]
  BY DEF Same
<1> SUFFICES ASSUME u \notin doomed' PROVE KeptOf(c)'
  BY <1>1 DEF KeptOf
<1>5. u \notin doomed
  BY DoomedStays
<1>6. \A b \in 1 .. Blocks[u] : Safe(u, b) => Safe(u, b)'
  BY SafeStays
<1> DEFINE g == GroupOf(u, k)
           L(s) == {i \in Shard :
                       IF i < Len(o) THEN o[i + 1] # "whole" ELSE i \notin s[g]}
           U(s) == {i \in Shard : i < Len(o) /\ i \notin s[g]}
<1>7. /\ Group(c) = g /\ Group(c)' = g
      /\ Lost(c) = L(shards) /\ Lost(c)' = L(shards')
      /\ Unstored(c) = U(shards) /\ Unstored(c)' = U(shards')
  BY <1>1, <1>2, <1>3 DEF Group, GroupOf, Lost, Unstored
<1>8. ASSUME pc[c] \in {"read", "decode", "store"}
      PROVE  /\ shards[g] \subseteq shards'[g] /\ cut[g] \subseteq cut'[g]
             /\ faults \in Nat /\ faults' \in Nat /\ faults <= faults'
             /\ g \in routes => g \in routes'
  <2>1. k \in 1 .. Blocks[u]
    BY <1>1, <1>2, <1>8 DEF TypeInv, CursorInv, CursorOf
  <2>2. GroupStep(u, g)
    BY <2>1, GroupSteps
  <2>. QED
    BY <2>2 DEF GroupStep, TypeInv, SharedType
<1>9. ASSUME pc[c] \in {"read", "decode"} PROVE Cardinality(L(shards')) <= faults'
  <2>1. L(shards) \in SUBSET Shard /\ L(shards') \in SUBSET L(shards)
    BY <1>8, <1>9
  <2>2. Cardinality(L(shards)) <= faults
    BY <1>1, <1>5, <1>7, <1>9 DEF KeptOf
  <2> HIDE DEF L
  <2>. QED
    BY <1>8, <1>9, <2>1, <2>2, Fewer
<1>10. ASSUME pc[c] = "store"
       PROVE  g \in routes' /\ Cardinality(U(shards')) <= faults'
  <2>1. U(shards) \in SUBSET Shard /\ U(shards') \in SUBSET U(shards)
    BY <1>8, <1>10
  <2>2. Cardinality(U(shards)) <= faults /\ g \in routes
    BY <1>1, <1>5, <1>7, <1>10 DEF KeptOf
  <2> HIDE DEF U
  <2>. QED
    BY <1>8, <1>10, <2>1, <2>2, Fewer
<1>17. ASSUME pc[c] \in {"read", "decode"} PROVE FairlyRead(c)'
  <2>1. FairlyRead(c)
    BY <1>1, <1>5, <1>17 DEF KeptOf
  <2> HIDE DEF g
  <2>2. opts'[c] = opts[c] /\ cut[Group(c)] \subseteq cut'[Group(c)']
    BY <1>3, <1>7, <1>8, <1>17
  <2>. QED
    BY <2>1, <2>2 DEF FairlyRead, Got
<1> HIDE DEF g, L, U
<1>11. pc[c] \in Readers => \A b \in 1 .. Blocks[u] : Safe(u, b)'
  BY <1>1, <1>5, <1>6 DEF KeptOf
<1>12. pc[c] \in Putters => \A b \in 1 .. Blocks[u] : b < k => Safe(u, b)'
  BY <1>1, <1>2, <1>5, <1>6 DEF KeptOf
<1>13. pc'[c] \in Readers => \A b \in 1 .. Blocks[upload'[c]] : Safe(upload[c], b)'
  BY <1>1, <1>4, <1>11 DEF Safe, Lacks, GroupOf
<1>14. pc'[c] \in Putters => \A b \in 1 .. Blocks[upload'[c]] :
          b < block'[c] => Safe(upload[c], b)'
  BY <1>1, <1>2, <1>4, <1>12 DEF Safe, Lacks, GroupOf
<1>15. pc'[c] \in {"read", "decode"} =>
          Cardinality(Lost(c)') <= faults' /\ FairlyRead(c)'
  BY <1>4, <1>7, <1>9, <1>17
<1>16. pc'[c] = "store" => Group(c)' \in routes' /\ Cardinality(Unstored(c)') <= faults'
  BY <1>4, <1>7, <1>10
<1>. QED
  BY <1>13, <1>14, <1>15, <1>16 DEF KeptOf

(* A handler that starts or takes a step of its own.                       *)
LEMMA KeptOfStart ==
    ASSUME TypeInv, OwnerInv, [Next]_vars, ~Restart, ListedSafe,
           NEW c \in Clients, NEW p \in Paths, NEW u \in Uploads, Starts(c, p, u)
    PROVE  KeptOf(c)'
<1>1. CASE BeginPut(c, p, u)
  <2>1. Start(c, p, u, "route", "add")
    BY <1>1 DEF BeginPut
  <2>2. pc'[c] \in {"route", "add"} /\ upload'[c] = u /\ block'[c] = 1
    BY <2>1 DEF Start, TypeInv, HandlerType
  <2>3. \A b \in 1 .. Blocks[u] : ~(b < 1)
    BY UploadAssumption
  <2>. QED
    BY <2>2, <2>3 DEF KeptOf, Readers
<1>2. CASE BeginGet(c, p)
  <2>1. PICK f \in ResolvePath(tree, p) : Start(c, p, f.upload, "fetch", "send")
    BY <1>2 DEF BeginGet
  <2>2. PICK v \in Uploads : v = f.upload /\ InTree(tree, v)
    BY ResolveType
  <2>3. pc'[c] \in {"fetch", "send"} /\ upload'[c] = v
    BY <2>1, <2>2 DEF Start, TypeInv, HandlerType
  <2>4. doomed' = doomed
    BY <1>2 DEF BeginGet, historyVars
  <2>5. ASSUME v \notin doomed', NEW b \in 1 .. Blocks[v] PROVE Safe(v, b)'
    BY <2>2, <2>4, <2>5, SafeStays DEF ListedSafe
  <2>. QED
    BY <2>3, <2>5 DEF KeptOf, Putters, Safe, Lacks, GroupOf
<1>3. CASE BeginDelete(c, p)
  <2>1. PICK f \in ResolvePath(tree, p) :
               /\ Start(c, p, f.upload, "wipe", "unlist")
               /\ doomed' = doomed \cup {f.upload}
    BY <1>3 DEF BeginDelete
  <2>2. upload'[c] = f.upload
    BY <2>1 DEF Start, TypeInv, HandlerType
  <2>. QED
    BY <2>1, <2>2 DEF KeptOf
<1>. QED
  BY <1>1, <1>2, <1>3 DEF Starts

LEMMA KeptOfPut ==
    ASSUME TypeInv, OwnerInv, [Next]_vars, ~Restart, NEW c \in Clients,
           KeptOf(c), Put(c)
    PROVE  KeptOf(c)'
<1>1. PICK u \in Uploads : u = upload[c]
  BY DEF TypeInv, HandlerType
<1>2. PICK k \in Nat : k = block[c]
  BY DEF TypeInv, HandlerType
<1>3. PICK o \in Seq(Content) : o = opts[c]
  BY DEF TypeInv, HandlerType
<1>4. CASE pc'[c] = "idle"
  BY <1>4 DEF KeptOf, Readers, Putters
<1>5. CASE u \in doomed'
  <2>1. pc'[c] = "idle" \/ upload'[c] = u
    BY <1>1 DEF Put, ComputeRoute, StoreShard, AddToTree, GoTo, NextBlock,
                Answer, TypeInv, HandlerType
  <2>. QED
    BY <1>4, <1>5, <2>1 DEF KeptOf
<1> SUFFICES ASSUME u \notin doomed', pc'[c] # "idle" PROVE KeptOf(c)'
  BY <1>4, <1>5
<1>6. u \notin doomed
  BY DoomedStays
<1>7. \A b \in 1 .. Blocks[u] : b < k => Safe(u, b)'
  <2>1. pc[c] \in Putters
    BY DEF Put, ComputeRoute, StoreShard, AddToTree, Putters
  <2>. QED
    BY <1>1, <1>2, <1>6, <2>1, SafeStays DEF KeptOf
<1> DEFINE g == GroupOf(u, k)
<1>8. Group(c) = g
  BY <1>1, <1>2 DEF Group
<1>9. CASE ComputeRoute(c)
  <2>1. /\ pc'[c] = "store" /\ upload'[c] = u /\ block'[c] = k
        /\ opts'[c] = <<>> /\ pc[c] = "route"
    BY <1>1, <1>2, <1>9 DEF ComputeRoute, GoTo, TypeInv, HandlerType, CursorInv,
                            CursorOf
  <2>2. Group(c)' = g /\ g \in routes'
    BY <1>8, <1>9, <2>1 DEF Group, GroupOf, ComputeRoute
  <2>3. Unstored(c)' = {}
    BY <2>1, CodeAssumption DEF Unstored, Shard
  <2>4. faults' \in Nat /\ Cardinality({}) = 0
    BY <1>9, FS_EmptySet DEF ComputeRoute, bounds, TypeInv, SharedType
  <2>5. Cardinality(Unstored(c)') <= faults'
    BY <2>3, <2>4
  <2>. QED
    BY <1>7, <2>1, <2>2, <2>5
       DEF KeptOf, Readers, Safe, Lacks, GroupOf
<1>10. CASE StoreShard(c)
  <2> DEFINE n == Len(o)
             Un == {i \in Shard : i < n /\ i \notin shards[g]}
             New == {i \in Shard : i < n + 1 /\ i \notin shards'[g]}
  <2>1. /\ pc[c] = "store" /\ k \in 1 .. Blocks[u] /\ n \in Nat
        /\ n < TotalShards
    BY <1>1, <1>2, <1>3, <1>10 DEF StoreShard, TypeInv, CursorInv, CursorOf
  <2>2. g \in Groups
    BY <2>1, GroupType
  <2>3. /\ g \in routes /\ Cardinality(Un) <= faults
        /\ Un \in SUBSET Shard /\ faults \in Nat
    <3>1. Un = Unstored(c)
      BY <1>3, <1>8 DEF Unstored
    <3> HIDE DEF Un
    <3>2. Cardinality(Un) <= faults /\ g \in routes
      BY <1>1, <1>6, <1>8, <2>1, <3>1 DEF KeptOf
    <3>. QED
      BY <3>1, <3>2 DEF Unstored, TypeInv, SharedType
  <2>4. \/ faults' = faults /\ shards'[g] = shards[g] \cup {n}
        \/ faults' = faults + 1 /\ shards[g] \subseteq shards'[g]
    <3>1. shards \in [Groups -> SUBSET Shard]
      BY DEF TypeInv, SharedType
    <3>2. \/ faults' = faults /\ shards' = [shards EXCEPT ![g] = @ \cup {n}]
          \/ /\ faults' = faults + 1
             /\ \/ shards' = [shards EXCEPT ![g] = @ \cup {n}]
                \/ shards' = shards
      BY <1>3, <1>8, <1>10 DEF StoreShard, NoFault, Fault
    <3> HIDE DEF g, n
    <3>. QED
      BY <2>2, <3>1, <3>2
  <2>5. Cardinality(New) <= faults'
    <3>1. \A i \in Shard : i < n + 1 => i < n \/ i = n
      <4>1. \A i \in Shard : i \in Int
        BY CodeAssumption DEF Shard
      <4> HIDE DEF n
      <4>. QED
        BY <2>1, <4>1
    <3> HIDE DEF g, n
    <3>2. CASE faults' = faults /\ shards'[g] = shards[g] \cup {n}
      <4>1. New \in SUBSET Un
        BY <3>1, <3>2
      <4> HIDE DEF New, Un
      <4>. QED
        BY <2>3, <3>2, <4>1, Fewer
    <3>3. CASE faults' = faults + 1 /\ shards[g] \subseteq shards'[g]
      <4>1. New \in SUBSET (Un \cup {n})
        BY <3>1, <3>3
      <4> HIDE DEF New, Un
      <4>. QED
        BY <2>3, <3>3, <4>1, OneMore
    <3>. QED
      BY <2>4, <3>2, <3>3
  <2>6. g \in routes'
    BY <1>10, <2>3 DEF StoreShard
  <2>7. CASE LastShard(c)
    <3>1. /\ pc'[c] \in {"route", "add"} /\ upload'[c] = u
          /\ block'[c] = k + 1
      BY <1>1, <1>2, <1>10, <2>7 DEF StoreShard, NextBlock, TypeInv, HandlerType
    <3>2. Shard \ shards'[g] = New
      <4>1. n + 1 = TotalShards
        BY <1>3, <2>7 DEF LastShard
      <4>2. \A i \in Shard : i < n + 1
        BY <4>1, CodeAssumption DEF Shard
      <4>. QED
        BY <4>2
    <3> HIDE DEF New
    <3>3. Safe(u, k)'
      BY <2>5, <2>6, <3>2 DEF Safe, Lacks, GroupOf
    <3>4. ASSUME NEW b \in 1 .. Blocks[u], b < k + 1 PROVE Safe(u, b)'
      <4>1. b \in Nat
        BY UploadAssumption
      <4>2. b < k \/ b = k
        BY <3>4, <4>1
      <4>. QED
        BY <1>7, <3>3, <4>2
    <3>. QED
      BY <3>1, <3>4 DEF KeptOf, Readers, Safe, Lacks, GroupOf
  <2>8. CASE ~LastShard(c)
    <3>1. /\ pc'[c] = "store" /\ upload'[c] = u /\ block'[c] = k
          /\ opts'[c] = Append(o, "whole")
      BY <1>1, <1>2, <1>3, <1>10, <2>1, <2>8
         DEF StoreShard, TypeInv, HandlerType
    <3>2. Len(opts'[c]) = n + 1
      BY <1>3, <3>1
    <3>3. Group(c)' = g
      BY <3>1 DEF Group, GroupOf
    <3>4. Unstored(c)' = New
      BY <3>2, <3>3 DEF Unstored
    <3> HIDE DEF New, g
    <3>. QED
      BY <1>7, <2>5, <2>6, <3>1, <3>3, <3>4
         DEF KeptOf, Readers, Safe, Lacks, GroupOf
  <2>. QED
    BY <2>7, <2>8
<1>11. CASE AddToTree(c)
  BY <1>11 DEF AddToTree, Answer, TypeInv, HandlerType
<1>. QED
  BY <1>9, <1>10, <1>11 DEF Put

(* What a read without an error finds.                                     *)
LEMMA FoundIs ==
    ASSUME NEW g, NEW i
    PROVE  /\ Found(g, i) = "whole" <=> i \in shards[g]
           /\ Found(g, i) = "cut" => i \in cut[g]
           /\ Found(g, i) = "zero" => i \in zeroed[g]
BY DEF Found

LEMMA KeptOfGet ==
    ASSUME TypeInv, OwnerInv, [Next]_vars, ~Restart, NEW c \in Clients,
           KeptOf(c), NoZeros, Get(c)
    PROVE  KeptOf(c)'
<1>1. PICK u \in Uploads : u = upload[c]
  BY DEF TypeInv, HandlerType
<1>2. PICK k \in Nat : k = block[c]
  BY DEF TypeInv, HandlerType
<1>3. PICK o \in Seq(Content) : o = opts[c]
  BY DEF TypeInv, HandlerType
<1>4. CASE pc'[c] = "idle"
  BY <1>4 DEF KeptOf, Readers, Putters
<1>5. CASE u \in doomed'
  <2>1. pc'[c] = "idle" \/ upload'[c] = u
    BY <1>1 DEF Get, GetRoute, ReadShard, Reconstruct, SendBody, GoTo, NextBlock,
                Answer, TypeInv, HandlerType
  <2>. QED
    BY <1>4, <1>5, <2>1 DEF KeptOf
<1> SUFFICES ASSUME u \notin doomed', pc'[c] # "idle" PROVE KeptOf(c)'
  BY <1>4, <1>5
<1>6. u \notin doomed
  BY DoomedStays
<1>7. pc[c] \in Readers
  BY DEF Get, GetRoute, ReadShard, Reconstruct, SendBody, Readers
<1>8. \A b \in 1 .. Blocks[u] : Safe(u, b) /\ Safe(u, b)'
  BY <1>1, <1>6, <1>7, SafeStays DEF KeptOf
<1> DEFINE g == GroupOf(u, k)
<1>9. Group(c) = g
  BY <1>1, <1>2 DEF Group
<1>10. CASE GetRoute(c)
  <2>1. pc[c] = "fetch" /\ pc'[c] = "read"
    BY <1>10 DEF GetRoute, GoTo, Answer, TypeInv, HandlerType
  <2>2. upload'[c] = u /\ block'[c] = k /\ opts'[c] = <<>>
    BY <1>1, <1>2, <1>10, <2>1
       DEF GetRoute, GoTo, Answer, TypeInv, HandlerType, CursorInv, CursorOf
  <2>3. k \in 1 .. Blocks[u]
    BY <1>1, <1>2, <2>1 DEF TypeInv, CursorInv, CursorOf
  <2>4. Lost(c)' = Shard \ shards'[g]
    <3>1. Group(c)' = g /\ Len(opts'[c]) = 0
      BY <2>2 DEF Group, GroupOf
    <3>2. \A i \in Shard : ~(i < 0)
      BY CodeAssumption DEF Shard
    <3>. QED
      BY <3>1, <3>2 DEF Lost
  <2>5. Cardinality(Shard \ shards'[g]) <= faults'
    BY <1>8, <2>3 DEF Safe, Lacks, GroupOf
  <2>6. Cardinality(Lost(c)') <= faults'
    BY <2>4, <2>5
  <2>7. FairlyRead(c)'
    BY <2>2 DEF FairlyRead, Got
  <2>. QED
    BY <1>8, <2>1, <2>2, <2>6, <2>7 DEF KeptOf, Putters, Safe, Lacks, GroupOf
<1>11. CASE ReadShard(c)
  <2> DEFINE n == Len(o)
             Old == {i \in Shard :
                        IF i < n THEN o[i + 1] # "whole" ELSE i \notin shards[g]}
  <2>1. pc[c] = "read" /\ n \in Nat /\ n < TotalShards
    BY <1>3, <1>11 DEF ReadShard, TypeInv, CursorInv, CursorOf
  <2>2. /\ Cardinality(Old) <= faults /\ Old \in SUBSET Shard /\ faults \in Nat
    <3>1. Old = Lost(c)
      BY <1>3, <1>9 DEF Lost
    <3> HIDE DEF Old
    <3>2. Cardinality(Old) <= faults
      BY <1>1, <1>6, <2>1, <3>1 DEF KeptOf
    <3>. QED
      BY <3>1, <3>2 DEF Lost, TypeInv, SharedType
  <2>3. PICK got \in Content :
               /\ opts' = [opts EXCEPT ![c] = Append(o, got)]
               /\ \/ faults' = faults /\ (got = "whole" <=> n \in shards[g])
                  \/ faults' = faults + 1
               /\ got # "zero" /\ (got = "cut" => cut[g] # {})
    <3>1. PICK got \in Content :
                 /\ opts' = [opts EXCEPT ![c] = Append(@, got)]
                 /\ \/ NoFault /\ got = Found(Group(c), Len(opts[c]))
                    \/ Fault /\ got = "none"
      BY <1>11 DEF ReadShard
    <3>2. /\ Found(g, n) = "whole" <=> n \in shards[g]
          /\ Found(g, n) = "cut" => n \in cut[g]
          /\ Found(g, n) = "zero" => n \in zeroed[g]
      BY FoundIs
    <3>3. zeroed[g] = {}
      BY <1>2, <1>1, <1>6, <2>1 DEF NoZeros, TypeInv, CursorInv, CursorOf
    <3>4. opts' = [opts EXCEPT ![c] = Append(o, got)]
      BY <1>3, <3>1
    <3> HIDE DEF g, n
    <3>5. CASE NoFault /\ got = Found(g, n)
      BY <3>2, <3>3, <3>4, <3>5 DEF NoFault
    <3>6. CASE Fault /\ got = "none"
      BY <3>4, <3>6 DEF Fault
    <3>7. \/ NoFault /\ got = Found(g, n)
          \/ Fault /\ got = "none"
      BY <1>3, <1>9, <3>1 DEF n
    <3>. QED
      BY <3>5, <3>6, <3>7
  <2>4. /\ opts'[c] = Append(o, got)
        /\ pc'[c] \in {"read", "decode"} /\ upload'[c] = u /\ block'[c] = k
        /\ shards' = shards
    <3>1. opts'[c] = Append(o, got)
      BY <2>3 DEF TypeInv, HandlerType
    <3>2. pc'[c] \in {"read", "decode"} /\ upload'[c] = u /\ block'[c] = k
          /\ shards' = shards
      BY <1>1, <1>2, <1>11 DEF ReadShard, TypeInv, HandlerType
    <3>. QED
      BY <3>1, <3>2
  <2> DEFINE all == Append(o, got)
  <2>5. /\ Len(all) = n + 1 /\ all[n + 1] = got
        /\ \A i \in Nat : i < n => all[i + 1] = o[i + 1]
    BY <1>3
  <2> DEFINE New == {i \in Shard : IF i < n + 1 THEN all[i + 1] # "whole"
                                                ELSE i \notin shards[g]}
  <2>6. Lost(c)' = New
    <3>1. Group(c)' = g
      BY <2>4 DEF Group, GroupOf
    <3>2. opts'[c] = all /\ Len(opts'[c]) = n + 1
      BY <2>4, <2>5
    <3> HIDE DEF all, n, g
    <3>. QED
      BY <2>4, <3>1, <3>2 DEF Lost
  <2>7. Shard \subseteq Nat
    BY CodeAssumption DEF Shard
  <2> HIDE DEF all
  <2>8. \A i \in New : i \in Old \/ i = n
    BY <2>1, <2>5, <2>7
  <2>9. n \in New => got # "whole"
    BY <2>1, <2>5
  <2>10. n \in Old <=> n \in Shard /\ n \notin shards[g]
    BY <2>1
  <2>11. New \subseteq Shard
    OBVIOUS
  <2> HIDE DEF New, Old
  <2>12. Cardinality(New) <= faults'
    <3>1. CASE faults' = faults /\ (got = "whole" <=> n \in shards[g])
      <4>1. New \in SUBSET Old
        BY <2>8, <2>9, <2>10, <2>11, <3>1
      <4>. QED
        BY <2>2, <3>1, <4>1, Fewer
    <3>2. CASE faults' = faults + 1
      <4>1. New \in SUBSET (Old \cup {n})
        BY <2>8
      <4>. QED
        BY <2>2, <3>2, <4>1, OneMore
    <3>. QED
      BY <2>3, <3>1, <3>2
  <2>13. FairlyRead(c)'
    <3>1. FairlyRead(c)
      BY <1>1, <1>6, <2>1 DEF KeptOf
    <3>2. \A i \in DOMAIN all : all[i] = got \/ (i \in DOMAIN o /\ all[i] = o[i])
      BY <1>3 DEF all
    <3>3. Group(c)' = g /\ cut' = cut /\ opts'[c] = all
      BY <1>11, <2>4 DEF Group, GroupOf, ReadShard, all
    <3> HIDE DEF g
    <3>4. \A what : Got(c, what)' => got = what \/ Got(c, what)
      BY <1>3, <3>2, <3>3 DEF Got
    <3>. QED
      BY <1>9, <2>3, <3>1, <3>3, <3>4 DEF FairlyRead
  <2>. QED
    BY <1>8, <2>4, <2>6, <2>12, <2>13 DEF KeptOf, Putters, Safe, Lacks, GroupOf
<1>12. CASE Reconstruct(c)
  <2>1. pc'[c] \in {"fetch", "send"} /\ upload'[c] = u
    BY <1>1, <1>12 DEF Reconstruct, NextBlock, Answer, TypeInv, HandlerType
  <2>. QED
    BY <1>8, <2>1 DEF KeptOf, Putters, Safe, Lacks, GroupOf
<1>13. CASE SendBody(c)
  BY <1>13 DEF SendBody, Answer, TypeInv, HandlerType
<1>. QED
  BY <1>10, <1>11, <1>12, <1>13 DEF Get

LEMMA KeptOfDelete ==
    ASSUME TypeInv, OwnerInv, [Next]_vars, NEW c \in Clients, Delete(c)
    PROVE  KeptOf(c)'
<1>1. pc[c] \in Deleters
  BY DEF Delete, WipeGroup, RemoveRoute, Unlist, Deleters
<1>2. upload[c] \in doomed'
  BY <1>1, DoomedStays DEF OwnerInv
<1>3. pc'[c] = "idle" \/ upload'[c] = upload[c]
  BY DEF Delete, WipeGroup, RemoveRoute, Unlist, GoTo, NextBlock, Answer,
         TypeInv, HandlerType
<1>. QED
  BY <1>2, <1>3 DEF KeptOf, Readers, Putters

LEMMA ListedSafeStep ==
    ASSUME TypeInv, OwnerInv, KeptInv, [Next]_vars, ~Restart
    PROVE  ListedSafe'
<1> SUFFICES ASSUME NEW u \in Uploads, u \notin doomed', InTree(tree', u),
                    NEW b \in 1 .. Blocks[u]
             PROVE  Safe(u, b)'
  BY DEF ListedSafe
<1>1. u \notin doomed
  BY DoomedStays
<1>2. ASSUME InTree(tree, u) PROVE Safe(u, b)'
  BY <1>1, <1>2, SafeStays DEF KeptInv, ListedSafe
<1>3. CASE tree' = tree
  BY <1>2, <1>3
<1>4. CASE tree' = <<>>
  BY <1>4 DEF InTree
<1>5. ASSUME NEW c \in Clients, pc[c] = "add",
             tree' = AddFile(tree, Front(path[c]), EntryOf(path[c], upload[c]))
      PROVE  Safe(u, b)'
  <2>1. path[c] \in Paths /\ upload[c] \in Uploads
    BY <1>5 DEF TypeInv, HandlerType, CursorInv, CursorOf
  <2> DEFINE e == EntryOf(path[c], upload[c])
             parent == Front(path[c])
  <2>2. /\ e \in Entries /\ e.upload = upload[c]
        /\ parent \in Seq(Components)
    BY <2>1, PathParts DEF Entries, EntryOf
  <2>3. ~InTree(tree, upload[c])
    BY <1>5, <2>1 DEF OwnerInv, Settled, Putters
  <2>4. tree \in TreesOver(Components, Entries) /\ Once(tree)
    BY DEF TypeInv, SharedType, OwnerInv
  <2> HIDE DEF e, parent
  <2>5. tree' = AddFile(tree, parent, e)
    BY <1>5 DEF e, parent
  <2>6. \A v : InTree(tree', v) => InTree(tree, v) \/ v = e.upload
    BY <2>2, <2>3, <2>4, <2>5, RootParts, AddFileOnce
  <2>7. CASE InTree(tree, u)
    BY <1>2, <2>7
  <2>8. CASE u = upload[c]
    <3>1. block[c] = Blocks[u] + 1 /\ pc[c] \in Putters
      BY <1>5, <2>8 DEF TypeInv, CursorInv, CursorOf, Putters
    <3>2. b < block[c]
      BY <3>1, UploadAssumption
    <3>3. Safe(u, b)
      BY <1>1, <2>8, <3>1, <3>2 DEF KeptInv, KeptOf
    <3>. QED
      BY <3>3, SafeStays
  <2>. QED
    BY <2>2, <2>6, <2>7, <2>8
<1>6. ASSUME NEW c \in Clients, ~RemoveFileFails(tree, path[c]),
             tree' = RemoveFile(tree, path[c])
      PROVE  Safe(u, b)'
  <2>1. tree \in TreesOver(Components, Entries) /\ Once(tree)
    BY DEF TypeInv, SharedType, OwnerInv
  <2>2. InTree(tree, u)
    BY <1>6, <2>1, RemoveFileOnce
  <2>. QED
    BY <1>2, <2>2
<1>. QED
  BY <1>3, <1>4, <1>5, <1>6, TreeSteps, Zenon

(* Only the wipe of a DELETE overwrites a shard.                           *)
LEMMA NoZerosStep ==
    ASSUME TypeInv, OwnerInv, KeptInv, [Next]_vars
    PROVE  NoZeros'
<1> SUFFICES ASSUME NEW u \in Uploads, u \notin doomed', NEW b \in 1 .. Blocks[u]
             PROVE  zeroed'[GroupOf(u, b)] = {}
  BY DEF NoZeros, GroupOf
<1>1. GroupStep(u, GroupOf(u, b))
  BY GroupSteps
<1>2. u \notin doomed
  BY DoomedStays
<1>. QED
  BY <1>1, <1>2 DEF GroupStep, KeptInv, NoZeros

LEMMA KeptStep ==
    ASSUME TypeInv, OwnerInv, KeptInv, [Next]_vars
    PROVE  KeptInv'
<1>1. CASE Restart
  <2>1. tree' = <<>> /\ \A c \in Clients : pc'[c] = "idle"
    BY <1>1 DEF Restart, NewTree
  <2>. QED
    BY <2>1, NoZerosStep DEF KeptInv, KeptOf, ListedSafe, InTree, Readers, Putters
<1>2. ASSUME ~Restart, NEW c \in Clients PROVE KeptOf(c)'
  <2>1. KeptOf(c) /\ ListedSafe /\ NoZeros
    BY DEF KeptInv
  <2>2. CASE pc'[c] = "idle"
    BY <2>2 DEF KeptOf, Readers, Putters
  <2>3. ASSUME NEW p \in Paths, NEW u \in Uploads, Starts(c, p, u)
        PROVE  KeptOf(c)'
    BY <1>2, <2>1, <2>3, KeptOfStart
  <2>. QED
    BY <1>2, <2>1, <2>2, <2>3, HandlerSteps, KeptOfSame, KeptOfPut, KeptOfGet,
       KeptOfDelete, Zenon DEF HandlerStep
<1>3. CASE ~Restart
  BY <1>2, <1>3, ListedSafeStep, NoZerosStep DEF KeptInv
<1>. QED
  BY <1>1, <1>3

LEMMA ListedInTree ==
    ASSUME TypeInv, NEW u, Listed(u) PROVE InTree(tree, u)
<1> DEFINE fs == [i \in DOMAIN tree |-> tree[i].files]
<1>1. tree \in Seq(DirsOver(Components, Entries))
  BY DEF TypeInv, SharedType, TreesOver
<1>2. \A i \in DOMAIN tree : tree[i].files \in Seq(Entries)
  BY FilesType DEF TypeInv, SharedType
<1>3. fs \in Seq(Seq(Entries)) /\ DOMAIN fs = DOMAIN tree
  <2>1. DOMAIN tree = 1 .. Len(tree) /\ Len(tree) \in Nat
    BY <1>1
  <2>2. fs \in [1 .. Len(tree) -> Seq(Entries)]
    BY <1>2, <2>1
  <2>. QED
    BY <2>1, <2>2, ArrayIsSeq
<1>4. PICK m \in DOMAIN AllFiles(tree) : AllFiles(tree)[m].upload = u
  BY DEF Listed, ToSet
<1>5. AllFiles(tree) = FlattenSeq(fs)
  BY DEF AllFiles
<1>6. \A i \in DOMAIN tree : fs[i] = tree[i].files
  OBVIOUS
<1> HIDE DEF fs
<1>7. PICK i \in DOMAIN fs : \E j \in DOMAIN fs[i] :
             FlattenSeq(fs)[m] = fs[i][j]
  BY <1>3, <1>4, <1>5, FlattenElement
<1>. QED
  BY <1>3, <1>4, <1>5, <1>6, <1>7 DEF InTree

LEMMA ReachableKept == Spec => [](TypeInv /\ OwnerInv /\ KeptInv)
<1>1. Init => TypeInv /\ OwnerInv /\ KeptInv
  <2>1. Init => KeptInv
    <3> SUFFICES ASSUME Init PROVE KeptInv
      OBVIOUS
    <3>1. (\A c \in Clients : KeptOf(c)) /\ ListedSafe
      BY DEF Init, NewTree, KeptOf, ListedSafe, InTree, Readers, Putters
    <3>2. NoZeros
      BY GroupType DEF Init, NoZeros
    <3>. QED
      BY <3>1, <3>2 DEF KeptInv
  <2>. QED
    BY <2>1, TypeInit, OwnerInit
<1>2. TypeInv /\ OwnerInv /\ KeptInv /\ [Next]_vars
        => (TypeInv /\ OwnerInv /\ KeptInv)'
  BY TypeStep, OwnerStep, KeptStep
<1>. QED
  BY <1>1, <1>2, PTL DEF Spec

(* A listed file that nobody deletes has its routes, and its shards but    *)
(* one for each I/O error, as DavFs.ListedReadable says.                   *)
THEOREM ListedCanBeRead == Spec => []ListedReadable
<1>1. TypeInv /\ KeptInv => ListedReadable
  <2> SUFFICES ASSUME TypeInv, KeptInv, NEW u \in Uploads \ doomed, Listed(u),
                      NEW g \in GroupsOf(u)
               PROVE  g \in routes /\ Cardinality(shards[g]) >= TotalShards - faults
    BY DEF ListedReadable
  <2>1. PICK b \in 1 .. Blocks[u] : g = GroupOf(u, b)
    BY DEF GroupsOf
  <2>2. Safe(u, b)
    BY ListedInTree DEF KeptInv, ListedSafe
  <2>3. g \in Groups /\ shards[g] \in SUBSET Shard /\ faults \in Nat
    BY <2>1, GroupType DEF TypeInv, SharedType
  <2>4. IsFiniteSet(Shard) /\ Cardinality(Shard) = TotalShards
    BY CodeAssumption, FS_Interval DEF Shard
  <2>5. Shard \cap shards[g] = shards[g]
    BY <2>3
  <2>6. Cardinality(Shard \ shards[g]) = Cardinality(Shard) - Cardinality(shards[g])
    BY <2>4, <2>5, FS_Difference
  <2>7. Cardinality(shards[g]) \in Nat
    BY <2>3, <2>4, FS_Subset, FS_CardinalityType
  <2>8. g \in routes /\ Cardinality(Shard \ shards[g]) <= faults
    BY <2>1, <2>2 DEF Safe, Lacks
  <2>. QED
    BY <2>3, <2>4, <2>6, <2>7, <2>8, CodeAssumption
<1>. QED
  BY <1>1, ReachableKept, PTL


----------------------------------------------------------------------------
(* What is read is what was stored.                                        *)

Row(u, b) == [i \in 1 .. TotalShards |-> Piece(u, b, i - 1, "sealed")]

Rows(u, n) == [b \in 1 .. n |-> Row(u, b)]

(* The answer of a GET is every block before the one it is at, unless      *)
(* every shard of one can have been hit by an error.                       *)
BodyOf(c) ==
    pc[c] \in Readers /\ upload[c] \notin doomed /\ faults < TotalShards
      => body[c] = FlattenSeq(Rows(upload[c], block[c] - 1))

BodyInv == \A c \in Clients : BodyOf(c)

(* Errors are only counted up.                                             *)
LEMMA FaultsStay ==
    ASSUME TypeInv, [Next]_vars
    PROVE  faults \in Nat /\ faults' \in Nat /\ faults <= faults'
<1>1. faults \in Nat
  BY DEF TypeInv, SharedType
<1>2. ASSUME NEW c \in Clients, NEW p \in Paths,
             \/ \E v \in Uploads : BeginPut(c, p, v)
             \/ BeginGet(c, p)
             \/ BeginDelete(c, p)
             \/ NotFound(c, p)
      PROVE  faults' = faults
  BY <1>2 DEF BeginPut, BeginGet, BeginDelete, NotFound, vars, bounds
<1>3. ASSUME NEW c \in Clients, Put(c) PROVE faults' = faults \/ faults' = faults + 1
  BY <1>3 DEF Put, ComputeRoute, StoreShard, AddToTree, bounds, NoFault, Fault
<1>4. ASSUME NEW c \in Clients, Get(c) PROVE faults' = faults \/ faults' = faults + 1
  BY <1>4 DEF Get, GetRoute, ReadShard, Reconstruct, SendBody, bounds, NoFault,
              Fault
<1>5. ASSUME NEW c \in Clients, Delete(c)
      PROVE  faults' = faults \/ faults' = faults + 1
  BY <1>5 DEF Delete, WipeGroup, RemoveRoute, Unlist, bounds, NoFault, Fault
<1>6. ASSUME \/ Restart
             \/ \E c \in Clients : Disconnect(c)
             \/ \E u \in Uploads, g \in Groups : Purge(u, g)
             \/ UNCHANGED vars
      PROVE  faults' = faults
  BY <1>6 DEF Restart, Disconnect, Purge, vars, bounds
<1>7. faults' = faults \/ faults' = faults + 1
  BY <1>2, <1>3, <1>4, <1>5, <1>6, Zenon DEF Next
<1>. QED
  BY <1>1, <1>7

LEMMA NoRows == ASSUME NEW u PROVE FlattenSeq(Rows(u, 0)) = <<>>
<1>1. Rows(u, 0) = <<>>
  BY DEF Rows
<1>. QED
  BY <1>1 DEF FlattenSeq

LEMMA AppendIs ==
    ASSUME NEW S, NEW s \in Seq(S), NEW e \in S, NEW n \in Nat \ {0},
           Len(s) = n - 1, NEW all, all = [i \in 1 .. n |-> all[i]],
           \A i \in 1 .. n - 1 : all[i] = s[i], all[n] = e
    PROVE  all = Append(s, e)
<1> DEFINE t == Append(s, e)
<1>1. t \in Seq(S) /\ Len(t) = n
  OBVIOUS
<1>2. t[n] = e /\ \A i \in 1 .. n - 1 : t[i] = s[i]
  OBVIOUS
<1> HIDE DEF t
<1>3. t = [i \in 1 .. n |-> t[i]]
  BY <1>1
<1>4. \A i \in 1 .. n : t[i] = all[i]
  <2>1. \A i \in 1 .. n : i = n \/ i \in 1 .. n - 1
    OBVIOUS
  <2>. QED
    BY <1>2, <2>1
<1>. QED
  BY <1>3, <1>4 DEF t

LEMMA OneMoreRow ==
    ASSUME NEW u \in Uploads, NEW n \in Nat \ {0}
    PROVE  FlattenSeq(Rows(u, n)) = FlattenSeq(Rows(u, n - 1)) \o Row(u, n)
<1>1. ASSUME NEW b \in Nat PROVE Row(u, b) \in Seq(Pieces)
  <2>1. \A i \in 1 .. TotalShards : i - 1 \in Shard
    BY CodeAssumption DEF Shard
  <2>2. Row(u, b) \in [1 .. TotalShards -> Pieces]
    BY <2>1 DEF Row, Piece, Pieces
  <2>. QED
    BY <2>2, CodeAssumption, ArrayIsSeq
<1>2. Row(u, n) \in Seq(Pieces)
  BY <1>1
<1>3. Rows(u, n - 1) \in [1 .. n - 1 -> Seq(Pieces)]
  BY <1>1 DEF Rows
<1>4. Rows(u, n - 1) \in Seq(Seq(Pieces))
  <2>1. n - 1 \in Nat
    OBVIOUS
  <2>. QED
    BY <1>3, <2>1, ArrayIsSeq
<1> DEFINE less == Rows(u, n - 1)
           all == Rows(u, n)
           row == Row(u, n)
<1>5. /\ \A b \in 1 .. n : all[b] = Row(u, b) /\ DOMAIN all = 1 .. n
      /\ all = [b \in 1 .. n |-> all[b]]
      /\ \A b \in 1 .. n - 1 : less[b] = Row(u, b)
      /\ DOMAIN less = 1 .. n - 1
  BY DEF Rows
<1> HIDE DEF less, all, row
<1>6. /\ Len(less) = n - 1 /\ less \in Seq(Seq(Pieces)) /\ row \in Seq(Pieces)
  BY <1>2, <1>4, <1>5 DEF less, row
<1>7. (\A b \in 1 .. n - 1 : all[b] = less[b]) /\ all[n] = row
  BY <1>5 DEF row
<1>8. all = Append(less, row)
  BY <1>5, <1>6, <1>7, AppendIs, ZenonT(40)
<1>9. FlattenSeq(Append(less, row)) = FlattenSeq(less) \o row
  BY <1>6, FlattenAppend
<1>. QED
  BY <1>8, <1>9 DEF less, all, row

(* Some shard has been got in full, so what was decoded is the block.      *)
LEMMA RebuiltIsRow ==
    ASSUME TypeInv, NEW c \in Clients, KeptOf(c), pc[c] = "decode",
           upload[c] \notin doomed, faults < TotalShards, Decodable(c)
    PROVE  Rebuilt(c) = Row(upload[c], block[c])
<1>1. Cardinality(Lost(c)) <= faults /\ FairlyRead(c)
  BY DEF KeptOf
<1>2. Cardinality(Shard) = TotalShards /\ faults \in Nat /\ TotalShards \in Nat
  BY CodeAssumption, FS_Interval DEF Shard, TypeInv, SharedType
<1>3. Lost(c) # Shard
  BY <1>1, <1>2
<1>4. PICK i \in Shard : i \notin Lost(c)
  BY <1>3 DEF Lost
<1>5. Len(opts[c]) = TotalShards /\ opts[c] \in Seq(Content)
  BY DEF TypeInv, HandlerType, CursorInv, CursorOf
<1>6. i \in Nat /\ i < TotalShards
  BY <1>2 DEF Shard
<1>7. opts[c][i + 1] = "whole" /\ i + 1 \in DOMAIN opts[c]
  BY <1>4, <1>5, <1>6 DEF Lost
<1>8. ~Got(c, "cut") /\ ~Got(c, "zero")
  BY <1>1, <1>7 DEF Decodable, FairlyRead, Got
<1>9. \A j : Form(c, j) = "sealed"
  BY <1>8 DEF Form
<1>. QED
  BY <1>9 DEF Rebuilt, Row

LEMMA BodyStep ==
    ASSUME TypeInv, KeptInv, BodyInv, [Next]_vars
    PROVE  BodyInv'
<1> SUFFICES ASSUME NEW c \in Clients PROVE BodyOf(c)'
  BY DEF BodyInv
<1>1. BodyOf(c)
  BY DEF BodyInv
<1>8. /\ doomed \subseteq doomed'
      /\ faults' < TotalShards => faults < TotalShards
  BY DoomedStays, FaultsStay, CodeAssumption
<1>2. CASE Same(c)
  <2>1. FlattenSeq(Rows(upload[c], block[c] - 1))' = FlattenSeq(Rows(upload[c], block[c] - 1))
    BY <1>2 DEF Same, Rows, Row
  <2>. QED
    BY <1>1, <1>2, <1>8, <2>1 DEF BodyOf, Same
<1>3. CASE pc'[c] = "idle"
  BY <1>3 DEF BodyOf, Readers
<1>4. ASSUME NEW p \in Paths, NEW u \in Uploads, Starts(c, p, u)
      PROVE  BodyOf(c)'
  <2>1. PICK v, loop, after : Start(c, p, v, loop, after)
    BY <1>4 DEF Starts, BeginPut, BeginGet, BeginDelete
  <2>2. body'[c] = <<>> /\ block'[c] = 1
    BY <2>1 DEF Start, TypeInv, HandlerType, CursorInv, CursorOf
  <2>3. \A v2 : FlattenSeq(Rows(v2, 1 - 1)) = <<>>
    BY NoRows
  <2>. QED
    BY <2>2, <2>3 DEF BodyOf, Rows, Row
<1>5. CASE Put(c)
  <2>1. pc'[c] \notin Readers
    BY <1>5 DEF Put, ComputeRoute, StoreShard, AddToTree, GoTo, NextBlock,
                Answer, TypeInv, HandlerType, Readers
  <2>. QED
    BY <2>1 DEF BodyOf
<1>6. CASE Delete(c)
  <2>1. pc'[c] \notin Readers
    BY <1>6 DEF Delete, WipeGroup, RemoveRoute, Unlist, GoTo, NextBlock, Answer,
                TypeInv, HandlerType, Readers
  <2>. QED
    BY <2>1 DEF BodyOf
<1>7. CASE Get(c)
  <2>1. pc[c] \in Readers
    BY <1>7 DEF Get, GetRoute, ReadShard, Reconstruct, SendBody, Readers
  <2>2. CASE GetRoute(c) \/ ReadShard(c) \/ SendBody(c)
    <3>1. \/ pc'[c] = "idle"
          \/ /\ upload'[c] = upload[c] /\ block'[c] = block[c]
             /\ body'[c] = body[c]
      BY <2>2 DEF GetRoute, ReadShard, SendBody, GoTo, Answer, TypeInv, HandlerType
    <3>2. CASE pc'[c] # "idle"
      <4>1. upload'[c] = upload[c] /\ block'[c] = block[c] /\ body'[c] = body[c]
        BY <3>1, <3>2
      <4>2. FlattenSeq(Rows(upload[c], block[c] - 1))' = FlattenSeq(Rows(upload[c], block[c] - 1))
        BY <4>1 DEF Rows, Row
      <4>. QED
        BY <1>1, <1>8, <2>1, <4>1, <4>2 DEF BodyOf
    <3>. QED
      BY <1>3, <3>2
  <2>3. CASE Reconstruct(c)
    <3>1. PICK u \in Uploads : u = upload[c]
      BY DEF TypeInv, HandlerType
    <3>2. PICK k \in Nat \ {0} : k = block[c]
      <4>1. pc[c] = "decode"
        BY <2>3 DEF Reconstruct
      <4>2. block[c] \in 1 .. Blocks[upload[c]] /\ block[c] \in Nat
        BY <4>1 DEF TypeInv, HandlerType, CursorInv, CursorOf
      <4>. QED
        BY <4>2
    <3>3. CASE Answer(c)
      <4>1. pc'[c] = "idle"
        BY <3>3 DEF Answer, TypeInv, HandlerType
      <4>. QED
        BY <1>3, <4>1
    <3>4. CASE /\ Decodable(c)
               /\ body' = [body EXCEPT ![c] = @ \o Rebuilt(c)]
               /\ NextBlock(c, "fetch", "send")
      <4> SUFFICES ASSUME u \notin doomed, faults < TotalShards
                   PROVE  BodyOf(c)'
        <5>1. upload'[c] = u
          BY <3>1, <3>4 DEF NextBlock, TypeInv, HandlerType
        <5>. QED
          BY <1>8, <5>1 DEF BodyOf
      <4>1. upload'[c] = u /\ block'[c] = k + 1
        BY <3>1, <3>2, <3>4 DEF NextBlock, TypeInv, HandlerType
      <4>2. Rebuilt(c) = Row(u, k)
        BY <2>3, <3>1, <3>2, <3>4, RebuiltIsRow DEF KeptInv, Reconstruct
      <4>3. body'[c] = body[c] \o Row(u, k)
        BY <3>4, <4>2 DEF TypeInv, HandlerType
      <4>4. body[c] = FlattenSeq(Rows(u, k - 1))
        BY <1>1, <2>1, <3>1, <3>2 DEF BodyOf
      <4>5. body'[c] = FlattenSeq(Rows(u, k))
        BY <4>3, <4>4, OneMoreRow
      <4>6. k + 1 - 1 = k
        OBVIOUS
      <4>. QED
        BY <4>1, <4>5, <4>6 DEF BodyOf, Rows, Row
    <3>. QED
      BY <2>3, <3>3, <3>4 DEF Reconstruct
  <2>. QED
    BY <1>7, <2>2, <2>3 DEF Get
<1>. QED
  BY <1>2, <1>3, <1>4, <1>5, <1>6, <1>7, HandlerSteps, Zenon DEF HandlerStep

(* A handler that is answered takes a step of its own.                     *)
LEMMA AnsweredSteps ==
    ASSUME TypeInv, [Next]_vars, NEW c \in Clients, Answered(c)
    PROVE  Put(c) \/ Get(c) \/ Delete(c)
<1>1. pc[c] # "idle" /\ pc'[c] = "idle" /\ mishaps' = mishaps /\ mishaps \in Nat
  BY DEF Answered, TypeInv, SharedType
<1>2. ASSUME NEW d \in Clients,
             \/ \E p \in Paths, u \in Uploads : Starts(d, p, u)
             \/ Put(d) \/ Get(d) \/ Delete(d) \/ Disconnect(d)
      PROVE  Put(c) \/ Get(c) \/ Delete(c)
  <2>1. d = c
    BY <1>1, <1>2, OthersSame DEF Same
  <2>2. ~Disconnect(d)
    BY <1>1 DEF Disconnect, Mishap
  <2>3. ASSUME NEW p \in Paths, NEW u \in Uploads, Starts(c, p, u) PROVE FALSE
    BY <1>1, <2>3 DEF Starts, BeginPut, BeginGet, BeginDelete, Start
  <2>. QED
    BY <1>2, <2>1, <2>2, <2>3
<1>3. ASSUME NEW d \in Clients, NEW p \in Paths,
             \/ \E u \in Uploads : BeginPut(d, p, u)
             \/ BeginGet(d, p)
             \/ BeginDelete(d, p)
      PROVE  \E q \in Paths, u \in Uploads : Starts(d, q, u)
  BY <1>3, UploadAssumption DEF Starts
<1>4. ~UNCHANGED vars
  BY <1>1 DEF vars, handlerVars
<1>5. ~(\E d \in Clients, p \in Paths : NotFound(d, p))
  BY <1>4 DEF NotFound
<1>6. ~(\E u \in Uploads, g \in Groups : Purge(u, g)) /\ ~Restart
  BY <1>1 DEF Purge, Restart, Mishap
<1>. QED
  BY <1>2, <1>3, <1>4, <1>5, <1>6, Zenon DEF Next

(* Answered as an action of one handler: the property of ReadsAreAsStored. *)
ReadAsStored(c) ==
    Answered(c) /\ upload[c] \notin doomed
      => /\ pc[c] \in {"fetch", "decode"} =>
               \/ faults > TotalShards - DataShards
               \/ cut[Group(c)] # {}
         /\ pc[c] = "send" /\ faults < TotalShards =>
               body[c] = StoredBody(upload[c])

LEMMA AsStoredStep ==
    ASSUME TypeInv, KeptInv, BodyInv, [Next]_vars, NEW c \in Clients
    PROVE  ReadAsStored(c)
<1> SUFFICES ASSUME Answered(c), upload[c] \notin doomed
             PROVE  /\ pc[c] \in {"fetch", "decode"} =>
                          \/ faults > TotalShards - DataShards
                          \/ cut[Group(c)] # {}
                    /\ pc[c] = "send" /\ faults < TotalShards =>
                          body[c] = StoredBody(upload[c])
  BY DEF ReadAsStored
<1>1. Put(c) \/ Get(c) \/ Delete(c)
  BY AnsweredSteps
<1>2. PICK u \in Uploads : u = upload[c]
  BY DEF TypeInv, HandlerType
<1>3. KeptOf(c) /\ BodyOf(c) /\ CursorOf(c) /\ pc'[c] = "idle"
  BY DEF KeptInv, BodyInv, TypeInv, CursorInv, Answered
<1>4. ASSUME pc[c] = "fetch" PROVE FALSE
  <2>1. GetRoute(c)
    BY <1>1, <1>4 DEF Put, ComputeRoute, StoreShard, AddToTree, Get, ReadShard,
                      Reconstruct, SendBody, Delete, WipeGroup, RemoveRoute, Unlist
  <2>2. Group(c) \notin routes
    BY <1>3, <2>1 DEF GetRoute, GoTo, TypeInv, HandlerType
  <2>3. block[c] \in 1 .. Blocks[u]
    BY <1>2, <1>3, <1>4 DEF CursorOf
  <2>4. Safe(u, block[c])
    BY <1>2, <1>3, <1>4, <2>3 DEF KeptOf, Readers
  <2>. QED
    BY <1>2, <2>2, <2>4 DEF Safe, Group
<1>5. ASSUME pc[c] = "decode", cut[Group(c)] = {}
      PROVE  faults > TotalShards - DataShards
  <2>1. Reconstruct(c)
    BY <1>1, <1>5 DEF Put, ComputeRoute, StoreShard, AddToTree, Get, GetRoute,
                      ReadShard, SendBody, Delete, WipeGroup, RemoveRoute, Unlist
  <2>2. ~(TotalShards - Cardinality(Missing(c)) >= DataShards)
    <3>1. FairlyRead(c)
      BY <1>3, <1>5 DEF KeptOf
    <3>2. ~Got(c, "cut")
      BY <1>5, <3>1 DEF FairlyRead
    <3>3. ~NextBlock(c, "fetch", "send")
      BY <1>3 DEF NextBlock, TypeInv, HandlerType
    <3>4. ~Decodable(c)
      BY <2>1, <3>2, <3>3 DEF Reconstruct
    <3>. QED
      BY <3>2, <3>4 DEF Decodable
  <2>3. /\ opts[c] \in Seq(Content) /\ Len(opts[c]) = TotalShards
        /\ TotalShards \in Nat /\ DataShards \in Nat /\ faults \in Nat
    BY <1>3, <1>5, CodeAssumption DEF CursorOf, TypeInv, HandlerType, SharedType
  <2>4. Cardinality(Lost(c)) <= faults
    BY <1>3, <1>5 DEF KeptOf
  <2>5. /\ IsFiniteSet(Lost(c)) /\ Cardinality(Lost(c)) \in Nat
    <3>1. IsFiniteSet(Shard)
      BY CodeAssumption, FS_Interval DEF Shard
    <3>2. Lost(c) \in SUBSET Shard
      BY DEF Lost
    <3>. QED
      BY <3>1, <3>2, FS_Subset, FS_CardinalityType
  <2> DEFINE f == [i \in Missing(c) |-> i - 1]
  <2>6. f \in Injection(Missing(c), Lost(c))
    <3>1. \A i \in Missing(c) : i \in 1 .. TotalShards /\ opts[c][i] # "whole"
      BY <2>3 DEF Missing
    <3>2. \A i \in Missing(c) : i - 1 \in Lost(c)
      <4>1. ASSUME NEW i \in Missing(c) PROVE i - 1 \in Lost(c)
        <5>1. i - 1 \in Shard /\ i - 1 < Len(opts[c]) /\ i - 1 + 1 = i
          BY <2>3, <3>1 DEF Shard
        <5>. QED
          BY <3>1, <5>1 DEF Lost
      <4>. QED
        BY <4>1
    <3>3. f \in [Missing(c) -> Lost(c)]
      BY <3>2
    <3>4. \A i, j \in Missing(c) : f[i] = f[j] => i = j
      BY <2>3, <3>1
    <3>. QED
      BY <3>3, <3>4 DEF Injection, IsInjective
  <2>7. /\ IsFiniteSet(Missing(c))
        /\ Cardinality(Missing(c)) <= Cardinality(Lost(c))
    BY <2>5, <2>6, FS_Injection
  <2>8. Cardinality(Missing(c)) \in Nat
    BY <2>7, FS_CardinalityType
  <2>. QED
    BY <2>2, <2>3, <2>4, <2>5, <2>7, <2>8, SMTT(30)
<1>6. ASSUME pc[c] = "send", faults < TotalShards
      PROVE  body[c] = StoredBody(upload[c])
  <2>1. block[c] - 1 = Blocks[u]
    BY <1>2, <1>3, <1>6, UploadAssumption DEF CursorOf
  <2>2. body[c] = FlattenSeq(Rows(u, Blocks[u]))
    BY <1>2, <1>3, <1>6, <2>1 DEF BodyOf, Readers
  <2>. QED
    BY <1>2, <2>2 DEF StoredBody, Rows, Row
<1>. QED
  BY <1>4, <1>5, <1>6

(* Who GETs a file that nobody deletes gets all that was stored of it or   *)
(* an error that its lost and cut shards explain, as DavFs.ReadsAreAsStored *)
(* says.                                                                   *)
THEOREM ReadsStored == Spec => ReadsAreAsStored
<1>1. Init => BodyInv
  BY DEF Init, BodyInv, BodyOf, Readers
<1>2. TypeInv /\ KeptInv /\ BodyInv /\ [Next]_vars => BodyInv'
  BY BodyStep
<1>3. TypeInv /\ KeptInv /\ BodyInv /\ [Next]_vars
        => [\A c \in Clients : ReadAsStored(c)]_vars
  BY AsStoredStep
<1>4. Spec => [][\A c \in Clients : ReadAsStored(c)]_vars
  BY <1>1, <1>2, <1>3, ReachableKept, PTL DEF Spec
<1>. QED
  BY <1>4 DEF ReadsAreAsStored, ReadAsStored
=============================================================================
