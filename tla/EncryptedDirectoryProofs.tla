---------------------- MODULE EncryptedDirectoryProofs ----------------------
(***************************************************************************)
(* For every set of handlers, paths and contents and all bounds: the       *)
(* directory is well typed, its names are unique, its file mirrors the     *)
(* tree once the flushes are done, what was acknowledged is on disk, what  *)
(* a directory lists can be opened, and below the root the directory is a  *)
(* map from paths to files.                                                *)
(***************************************************************************)
EXTENDS EncryptedDirectory, DirectoryTreeProofs

LEMMA PathParts ==
    ASSUME NEW p \in Paths
    PROVE  Front(p) \in Seq(Names) /\ Last(p) \in Names
<1>1. p \in Seq(Names) /\ p # <<>>
  BY PathsAssumption
<1>2. Len(p) \in Nat /\ Len(p) > 0
  BY <1>1
<1>3. SubSeq(p, 1, Len(p) - 1) \in Seq(Names)
  BY <1>1, <1>2
<1>. QED
  BY <1>1, <1>2, <1>3 DEF Front, Last

LEMMA AppliedType ==
    ASSUME TypeOK, NEW req \in Request, ~Fails(req)
    PROVE  Applied(req) \in TreeType
<1>1. CASE req.kind = "add"
  <2>1. req.path \in Paths /\ req.upload \in Uploads
    BY <1>1 DEF Request, NoRequest
  <2>2. EntryOf(req) \in Entry
    BY <2>1, PathParts DEF EntryOf, Entry
  <2>3. Front(req.path) \in Seq(Names)
    BY <2>1, PathParts
  <2>4. tree \in TreesOver(Names, Entry)
    BY DEF TypeOK, TreeType
  <2>5. AddFile(tree, Front(req.path), EntryOf(req)) \in TreesOver(Names, Entry)
    BY <2>2, <2>3, <2>4, PathsAssumption, AddFileType
  <2>. QED  BY <1>1, <2>5 DEF Applied, TreeType
<1>2. CASE req.kind # "add"
  BY <1>2, RemoveFileType DEF Applied, Fails, TypeOK, TreeType
<1>. QED
  BY <1>1, <1>2

LEMMA TypeInit == Init => TypeOK
<1> SUFFICES ASSUME Init PROVE TypeOK
  OBVIOUS
<1>1. NewTree \in TreeType
  BY DEF NewTree, TreeType, TreesOver
<1>2. tree \in TreeType /\ snap \in [Clients -> TreeType]
  BY <1>1 DEF Init
<1>3. disk \in [state : {"absent", "empty", "partial", "sealed"},
               key : Nat, tree : TreeType]
  BY <1>1 DEF Init, Blank
<1>4. /\ pc \in [Clients -> Answered \cup {"mutate", "flush"} \cup Writing]
      /\ op \in [Clients -> Request]
  BY DEF Init, Answered, Request
<1>5. orphaned \in BOOLEAN
  BY DEF Init
<1>. QED
  BY <1>2, <1>3, <1>4, <1>5 DEF Init, TypeOK

(* The disk is well typed whatever is written to it.                       *)
LEMMA DiskType ==
    ASSUME TypeOK, NEW c \in Clients
    PROVE  LET D == [state : {"absent", "empty", "partial", "sealed"},
                     key : Nat, tree : TreeType]
           IN  /\ Blank("empty") \in D
               /\ Sealed(key, snap[c]) \in D
               /\ \A t \in Lengths(c) : Partial(t) \in D
<1>1. NewTree \in TreeType
  BY DEF NewTree, TreeType, TreesOver
<1>2. snap[c] \in TreeType /\ disk.tree \in TreeType /\ key \in Nat
  BY DEF TypeOK
<1>3. \A t \in Lengths(c) : t \in TreeType
  BY <1>2 DEF Lengths
<1>. QED
  BY <1>1, <1>2, <1>3 DEF Blank, Sealed, Partial

LEMMA TypeStep == TypeOK /\ [Next]_vars => TypeOK'
<1> SUFFICES ASSUME TypeOK, [Next]_vars PROVE TypeOK'
  OBVIOUS
<1> USE DEF TypeOK
<1>1. NewTree \in TreeType
  BY DEF NewTree, TreeType, TreesOver
<1>2. ASSUME NEW c \in Clients, NEW p \in Paths, NEW u \in Uploads,
             RequestAdd(c, p, u)
      PROVE  TypeOK'
  BY <1>2 DEF RequestAdd, Request
<1>3. ASSUME NEW c \in Clients, NEW p \in Paths, RequestRemove(c, p)
      PROVE  TypeOK'
  BY <1>3 DEF RequestRemove, Request
<1>4. ASSUME NEW c \in Clients, Mutate(c) PROVE TypeOK'
  <2>1. queue' \in Seq(Clients)
    <3>1. queue \in Seq(Clients) /\ queue # <<>>
      BY <1>4 DEF Mutate
    <3>2. Tail(queue) \in Seq(Clients)
      BY <3>1
    <3>3. Append(Tail(queue), c) \in Seq(Clients)
      BY <3>2
    <3>. QED  BY <1>4, <3>2, <3>3 DEF Mutate
  <2>2. pc' \in [Clients -> Answered \cup {"mutate", "flush"} \cup Writing]
    BY <1>4 DEF Mutate, Answered
  <2>3. op' \in [Clients -> Request]
    BY <1>4 DEF Mutate, Request
  <2>4. tree' \in TreeType
    BY <1>4, AppliedType DEF Mutate
  <2>. QED  BY <1>4, <2>1, <2>2, <2>3, <2>4 DEF Mutate
<1>5. ASSUME NEW c \in Clients, FlushBegin(c) PROVE TypeOK'
  BY <1>5 DEF FlushBegin, Writing
<1>6. ASSUME NEW c \in Clients, FlushTruncate(c) PROVE TypeOK'
  BY <1>6, DiskType DEF FlushTruncate, Writing
<1>7. ASSUME NEW c \in Clients, NEW answer \in {"ok", "err"}, Leave(c, answer)
      PROVE  /\ pc' \in [Clients -> Answered \cup {"mutate", "flush"}
                                     \cup Writing]
             /\ snap' \in [Clients -> TreeType]
             /\ readers' \in SUBSET Clients
  BY <1>1, <1>7 DEF Leave, Answered
<1>8. ASSUME NEW c \in Clients, FlushWrite(c) PROVE TypeOK'
  BY <1>7, <1>8, DiskType DEF FlushWrite
<1>9. ASSUME NEW c \in Clients, FlushFails(c) PROVE TypeOK'
  BY <1>7, <1>9, DiskType DEF FlushFails
<1>10. ASSUME NEW c \in Clients, Disconnect(c) PROVE TypeOK'
  <2>1. ASSUME NEW i \in DOMAIN queue
        PROVE  RemoveAt(queue, i) \in Seq(Clients)
    <3>1. SubSeq(queue, 1, i - 1) \in Seq(Clients)
      OBVIOUS
    <3>2. SubSeq(queue, i + 1, Len(queue)) \in Seq(Clients)
      OBVIOUS
    <3>. QED  BY <3>1, <3>2 DEF RemoveAt
  <2>2. queue' \in Seq(Clients)
    BY <1>10, <2>1 DEF Disconnect
  <2>3. pc' \in [Clients -> Answered \cup {"mutate", "flush"} \cup Writing]
    BY <1>10 DEF Disconnect, Answered
  <2>4. op' \in [Clients -> Request]
    BY <1>10 DEF Disconnect, Request
  <2>5. orphaned' \in BOOLEAN
    BY <1>10, Zenon DEF Disconnect
  <2>. QED  BY <1>10, <2>2, <2>3, <2>4, <2>5 DEF Disconnect
<1>11. ASSUME Restart PROVE TypeOK'
  <2>1. tree' \in TreeType /\ snap' \in [Clients -> TreeType]
    BY <1>1, <1>11 DEF Restart, OpenTree
  <2>2. /\ pc' \in [Clients -> Answered \cup {"mutate", "flush"}
                                 \cup Writing]
        /\ op' \in [Clients -> Request]
    BY <1>11 DEF Restart, Answered, Request
  <2>3. queue' \in Seq(Clients) /\ key' \in Nat /\ readers' \in SUBSET Clients
    BY <1>11 DEF Restart
  <2>4. orphaned' \in BOOLEAN
    BY <1>11 DEF Restart
  <2>. QED  BY <1>11, <2>1, <2>2, <2>3, <2>4 DEF Restart
<1>12. CASE UNCHANGED vars
  BY <1>12 DEF vars
<1>. QED
  BY <1>2, <1>3, <1>4, <1>5, <1>6, <1>8, <1>9, <1>10, <1>11, <1>12
     DEF Next, Step

(* The directory, its file and its handlers stay well typed.               *)
THEOREM TypeCorrect == Spec => []TypeOK
<1>. QED
  BY TypeInit, TypeStep, PTL DEF Spec

(***************************************************************************)
(* Why the file is right.  Who holds the read lock writes the tree as it   *)
(* is; unless some write has lost its lock, every writer holds it; and     *)
(* then a file that has been truncated holds nothing but that tree's       *)
(* image, so that no tail of another one can stay behind.                  *)
(***************************************************************************)
WritersWriteTree ==
    \A c \in readers : pc[c] \in Writing /\ snap[c] = tree

WritersHoldLock ==
    ~orphaned => \A c \in Clients : pc[c] \in Writing => c \in readers

OneImage ==
    ~orphaned => \A c \in Clients :
                    pc[c] = "write" => disk.state = "empty" \/ disk.tree = tree

FlushInv ==
    /\ WritersWriteTree
    /\ WritersHoldLock
    /\ OneImage
    /\ orphaned => disconnects # 0
    /\ DiskMirrorsTree

(* What a writer leaves in the file when no write has lost its lock.       *)
LEMMA WrittenTree ==
    ASSUME TypeOK, FlushInv, NEW c \in Clients, FlushWrite(c), ~orphaned
    PROVE  disk' = Sealed(key, tree) /\ c \in readers
<1>1. c \in readers /\ snap[c] = tree
  BY DEF FlushInv, WritersHoldLock, WritersWriteTree, FlushWrite, Writing
<1>2. Lengths(c) \ {snap[c]} = {}
  BY <1>1 DEF FlushInv, OneImage, FlushWrite, Lengths
<1>. QED
  BY <1>1, <1>2 DEF FlushWrite

LEMMA FlushInit == Init => FlushInv
  BY DEF Init, FlushInv, WritersWriteTree, WritersHoldLock, OneImage,
         DiskMirrorsTree, OpenTree, Blank, Writing

LEMMA FlushStep == TypeOK /\ FlushInv /\ [Next]_vars => FlushInv'
<1> SUFFICES ASSUME TypeOK, FlushInv, [Next]_vars PROVE FlushInv'
  OBVIOUS
<1> USE DEF FlushInv, Writing
<1>0. /\ pc \in [Clients -> Answered \cup {"mutate", "flush"} \cup Writing]
      /\ snap \in [Clients -> TreeType]
      /\ readers \in SUBSET Clients
      /\ faults \in Nat /\ disconnects \in Nat /\ orphaned \in BOOLEAN
  BY DEF TypeOK
<1>1. ASSUME NEW c \in Clients,
             \/ \E p \in Paths, u \in Uploads : RequestAdd(c, p, u)
             \/ \E p \in Paths : RequestRemove(c, p)
      PROVE  FlushInv'
  <2>1. /\ pc[c] \in Answered /\ pc' = [pc EXCEPT ![c] = "mutate"]
        /\ UNCHANGED <<tree, disk, key, readers, snap, orphaned, faults,
                       disconnects>>
    BY <1>1 DEF RequestAdd, RequestRemove
  <2>. QED
    BY <1>0, <2>1 DEF WritersWriteTree, WritersHoldLock, OneImage,
                      DiskMirrorsTree, Answered
<1>2. ASSUME NEW c \in Clients, Mutate(c) PROVE FlushInv'
  <2>1. readers = {} /\ readers' = {} /\ UNCHANGED <<disk, key, orphaned>>
    BY <1>2 DEF Mutate
  <2>2. \A d \in Clients : pc'[d] \in Writing => pc[d] \in Writing
    BY <1>0, <1>2 DEF Mutate
  <2>3. WritersWriteTree' /\ WritersHoldLock' /\ OneImage'
    BY <2>1, <2>2 DEF WritersWriteTree, WritersHoldLock, OneImage
  <2>4. DiskMirrorsTree'
    BY <1>0, <1>2 DEF Mutate, DiskMirrorsTree
  <2>. QED  BY <1>2, <2>3, <2>4 DEF Mutate
<1>3. ASSUME NEW c \in Clients, FlushBegin(c) PROVE FlushInv'
  BY <1>0, <1>3 DEF FlushBegin, WritersWriteTree, WritersHoldLock, OneImage,
                    DiskMirrorsTree
<1>4. ASSUME NEW c \in Clients, FlushTruncate(c) PROVE FlushInv'
  BY <1>0, <1>4 DEF FlushTruncate, WritersWriteTree, WritersHoldLock, OneImage,
                    DiskMirrorsTree, Blank
<1>5. ASSUME NEW c \in Clients, NEW answer \in {"ok", "err"}, Leave(c, answer),
             pc[c] \in Writing, UNCHANGED <<tree, orphaned>>
      PROVE  /\ WritersWriteTree' /\ WritersHoldLock'
             /\ \A d \in Clients : pc'[d] = "write" => pc[d] = "write"
  BY <1>0, <1>5 DEF Leave, WritersWriteTree, WritersHoldLock
<1>6. ASSUME NEW c \in Clients, FlushWrite(c) PROVE FlushInv'
  <2>1. ~orphaned => disk' = Sealed(key, tree)
    BY <1>6, WrittenTree
  <2>2. WritersWriteTree' /\ WritersHoldLock' /\ OneImage'
    BY <1>5, <1>6, <2>1 DEF FlushWrite, OneImage, Sealed
  <2>3. DiskMirrorsTree'
    BY <1>6, <2>1 DEF FlushWrite, DiskMirrorsTree, OpenTree, Sealed
  <2>. QED  BY <1>6, <2>2, <2>3 DEF FlushWrite
<1>7. ASSUME NEW c \in Clients, FlushFails(c) PROVE FlushInv'
  <2>1. WritersWriteTree' /\ WritersHoldLock'
    BY <1>5, <1>7 DEF FlushFails
  <2>2. OneImage'
    <3> SUFFICES ASSUME ~orphaned', NEW d \in Clients, pc'[d] = "write"
                 PROVE  disk'.state = "empty" \/ disk'.tree = tree'
      BY DEF OneImage
    <3>1. pc[d] = "write" /\ tree' = tree /\ ~orphaned
      BY <1>5, <1>7 DEF FlushFails
    <3>2. disk.state = "empty" \/ disk.tree = tree
      BY <3>1 DEF OneImage
    <3>3. snap[c] = tree
      BY <1>7, <3>1 DEF FlushFails, WritersHoldLock, WritersWriteTree
    <3>4. \A t \in Lengths(c) : t = tree
      BY <3>2, <3>3 DEF Lengths
    <3>. QED  BY <1>7, <3>1, <3>2, <3>4 DEF FlushFails, Partial
  <2>3. faults' # 0
    BY <1>0, <1>7 DEF FlushFails
  <2>. QED  BY <1>7, <2>1, <2>2, <2>3 DEF FlushFails, DiskMirrorsTree
<1>8. ASSUME NEW c \in Clients, Disconnect(c) PROVE FlushInv'
  <2>1. disconnects' # 0
    BY <1>0, <1>8 DEF Disconnect
  <2>2. /\ \A d \in Clients : pc'[d] \in Writing <=> pc[d] \in Writing
        /\ \A d \in Clients : pc'[d] = "write" <=> pc[d] = "write"
    BY <1>0, <1>8 DEF Disconnect
  <2>3. UNCHANGED <<tree, disk, snap>>
    BY <1>8 DEF Disconnect
  <2>4. /\ readers' \subseteq readers
        /\ ~orphaned' => ~orphaned /\ readers' = readers
        /\ \A d \in readers' : pc'[d] = pc[d]
    BY <1>0, <1>8 DEF Disconnect, WritersWriteTree
  <2>. QED
    BY <1>0, <2>1, <2>2, <2>3, <2>4
       DEF WritersWriteTree, WritersHoldLock, OneImage, DiskMirrorsTree
<1>9. ASSUME Restart PROVE FlushInv'
  BY <1>9 DEF Restart, WritersWriteTree, WritersHoldLock, OneImage,
              DiskMirrorsTree
<1>10. CASE UNCHANGED vars
  BY <1>10 DEF vars, WritersWriteTree, WritersHoldLock, OneImage,
               DiskMirrorsTree
<1>. QED
  BY <1>1, <1>2, <1>3, <1>4, <1>6, <1>7, <1>8, <1>9, <1>10 DEF Next, Step

LEMMA InvariantHolds == Spec => [](TypeOK /\ FlushInv)
<1>1. Init => TypeOK /\ FlushInv
  BY TypeInit, FlushInit
<1>2. TypeOK /\ FlushInv /\ [Next]_vars => (TypeOK /\ FlushInv)'
  BY TypeStep, FlushStep
<1>. QED
  BY <1>1, <1>2, PTL DEF Spec

(* With no flush under way and no failure or hang-up so far, the file      *)
(* decrypts to the tree in memory.                                         *)
THEOREM DiskMirrors == Spec => []DiskMirrorsTree
<1>1. FlushInv => DiskMirrorsTree
  BY DEF FlushInv
<1>. QED
  BY <1>1, InvariantHolds, PTL

(* The moment a change is acknowledged, the file holds the whole tree: the *)
(* change and all the changes before it.                                   *)
THEOREM Durable == Spec => AckedIsDurable
<1> DEFINE Acked(c) == pc[c] = "write" /\ pc'[c] = "ok" /\ ~orphaned
<1>1. TypeOK /\ FlushInv /\ [Next]_vars
         => [\A c \in Clients : Acked(c) => OpenTree(disk', key') = tree']_vars
  <2> SUFFICES ASSUME TypeOK, FlushInv, Next, NEW c \in Clients, Acked(c)
               PROVE  OpenTree(disk', key') = tree'
    OBVIOUS
  <2>1. pc \in [Clients -> Answered \cup {"mutate", "flush"} \cup Writing]
    BY DEF TypeOK
  <2>2. FlushWrite(c)
    <3>1. ASSUME NEW d \in Clients, Step(d), ~FlushWrite(c) PROVE FALSE
      BY <2>1, <3>1 DEF Step, Mutate, FlushBegin, FlushTruncate, FlushWrite,
                        Leave
    <3>2. ASSUME NEW d \in Clients, FlushFails(d) PROVE FALSE
      BY <2>1, <3>2 DEF FlushFails, Leave
    <3>3. ASSUME NEW d \in Clients, Disconnect(d) PROVE FALSE
      BY <2>1, <3>3 DEF Disconnect
    <3>4. ~Restart
      BY DEF Restart
    <3>5. ASSUME NEW d \in Clients, NEW p \in Paths
          PROVE  /\ ~RequestRemove(d, p)
                 /\ \A u \in Uploads : ~RequestAdd(d, p, u)
      BY <2>1 DEF RequestAdd, RequestRemove
    <3>. QED  BY <3>1, <3>2, <3>3, <3>4, <3>5 DEF Next
  <2>3. disk' = Sealed(key, tree)
    BY <2>2, WrittenTree
  <2>. QED  BY <2>2, <2>3 DEF FlushWrite, OpenTree, Sealed
<1>. QED
  BY <1>1, InvariantHolds, PTL DEF Spec, AckedIsDurable

----------------------------------------------------------------------------
(* Names: the tree in memory has unique names, and so has every tree it    *)
(* can be replaced by: the one on disk, and those about to be written.     *)

Tidy(t) == UniqueNames(t) /\ NoSubdirs(t)

UniqueInv ==
    /\ Tidy(tree)
    /\ Tidy(disk.tree)
    /\ \A c \in Clients : Tidy(snap[c])

LEMMA NewTreeUnique == Tidy(NewTree)
BY DEF Tidy, UniqueNames, NoSubdirs, NewTree

LEMMA AppliedUnique ==
    ASSUME TypeOK, UniqueInv, NEW req \in Request, ~Fails(req)
    PROVE  Tidy(Applied(req))
<1>1. tree \in TreesOver(Names, Entry) /\ Tidy(tree)
  BY DEF TypeOK, TreeType, UniqueInv
<1>2. CASE req.kind = "add"
  <2>1. req.path \in Paths /\ req.upload \in Uploads
    BY <1>2 DEF Request, NoRequest
  <2>2. EntryOf(req) \in Entry
    BY <2>1, PathParts DEF EntryOf, Entry
  <2>3. Front(req.path) \in Seq(Names)
    BY <2>1, PathParts
  <2>4. ~AddFileFails(tree, Front(req.path), EntryOf(req))
    BY <1>2 DEF Fails
  <2>5. Tidy(AddFile(tree, Front(req.path), EntryOf(req)))
    BY <1>1, <2>2, <2>3, <2>4, PathsAssumption, AddFileUnique,
       AddFileHolds DEF Tidy
  <2>. QED  BY <1>2, <2>5 DEF Applied
<1>3. CASE req.kind # "add"
  <2>1. ~RemoveFileFails(tree, req.path)
    BY <1>3 DEF Fails
  <2>2. Tidy(RemoveFile(tree, req.path))
    BY <1>1, <2>1, RemoveFileUnique, RemoveFileHolds DEF Tidy
  <2>. QED  BY <1>3, <2>2 DEF Applied
<1>. QED
  BY <1>2, <1>3

(* Whatever a write leaves on disk has unique names.                       *)
LEMMA DiskUnique ==
    ASSUME UniqueInv, NEW c \in Clients
    PROVE  /\ Tidy(Blank("empty").tree)
           /\ Tidy(Sealed(key, snap[c]).tree)
           /\ \A t \in Lengths(c) : Tidy(Partial(t).tree)
<1>1. Tidy(snap[c]) /\ Tidy(disk.tree)
  BY DEF UniqueInv
<1>2. \A t \in Lengths(c) : Tidy(t)
  BY <1>1 DEF Lengths
<1>. QED
  BY <1>1, <1>2, NewTreeUnique DEF Blank, Sealed, Partial

LEMMA UniqueInit == Init => UniqueInv
BY NewTreeUnique DEF Init, UniqueInv, Blank

LEMMA UniqueStep == TypeOK /\ UniqueInv /\ [Next]_vars => UniqueInv'
<1> SUFFICES ASSUME TypeOK, UniqueInv, [Next]_vars PROVE UniqueInv'
  OBVIOUS
<1>1. ASSUME NEW c \in Clients, NEW p \in Paths, NEW u \in Uploads,
             RequestAdd(c, p, u)
      PROVE  UniqueInv'
  BY <1>1 DEF RequestAdd, UniqueInv
<1>2. ASSUME NEW c \in Clients, NEW p \in Paths, RequestRemove(c, p)
      PROVE  UniqueInv'
  BY <1>2 DEF RequestRemove, UniqueInv
<1>3. ASSUME NEW c \in Clients, Mutate(c) PROVE UniqueInv'
  <2>1. op[c] \in Request
    BY DEF TypeOK
  <2>2. Tidy(tree')
    <3>1. CASE Fails(op[c])
      BY <1>3, <3>1 DEF Mutate, UniqueInv
    <3>2. CASE ~Fails(op[c])
      BY <1>3, <2>1, <3>2, AppliedUnique DEF Mutate
    <3>. QED
      BY <3>1, <3>2
  <2>. QED
    BY <1>3, <2>2 DEF Mutate, UniqueInv
<1>4. ASSUME NEW c \in Clients, FlushBegin(c) PROVE UniqueInv'
  <2>1. \A d \in Clients : snap'[d] = IF d = c THEN tree ELSE snap[d]
    BY <1>4 DEF FlushBegin, TypeOK
  <2>. QED
    BY <1>4, <2>1 DEF FlushBegin, UniqueInv
<1>5. ASSUME NEW c \in Clients, FlushTruncate(c) PROVE UniqueInv'
  BY <1>5, DiskUnique DEF FlushTruncate, UniqueInv
<1>6. ASSUME NEW c \in Clients, NEW answer, Leave(c, answer)
      PROVE  \A d \in Clients : Tidy(snap'[d])
  <2>1. \A d \in Clients : snap'[d] = IF d = c THEN NewTree ELSE snap[d]
    BY <1>6 DEF Leave, TypeOK
  <2>. QED
    BY <2>1, NewTreeUnique DEF UniqueInv
<1>7. ASSUME NEW c \in Clients, FlushWrite(c) PROVE UniqueInv'
  <2>1. Tidy(disk'.tree)
    BY <1>7, DiskUnique DEF FlushWrite
  <2>. QED
    BY <1>6, <1>7, <2>1 DEF FlushWrite, UniqueInv
<1>8. ASSUME NEW c \in Clients, FlushFails(c) PROVE UniqueInv'
  <2>1. \/ disk' = disk
        \/ \E t \in Lengths(c) : disk' = Partial(t)
    BY <1>8 DEF FlushFails
  <2>2. Tidy(disk'.tree)
    BY <2>1, DiskUnique DEF UniqueInv
  <2>. QED
    BY <1>6, <1>8, <2>2 DEF FlushFails, UniqueInv
<1>9. ASSUME NEW c \in Clients, Disconnect(c) PROVE UniqueInv'
  BY <1>9 DEF Disconnect, UniqueInv
<1>10. CASE Restart
  <2>1. tree' = disk.tree \/ tree' = NewTree
    BY <1>10 DEF Restart, OpenTree
  <2>2. \A c \in Clients : snap'[c] = NewTree
    BY <1>10 DEF Restart
  <2>. QED
    BY <1>10, <2>1, <2>2, NewTreeUnique DEF Restart, UniqueInv
<1>11. CASE UNCHANGED vars
  BY <1>11 DEF vars, UniqueInv
<1>. QED
  BY <1>1, <1>2, <1>3, <1>4, <1>5, <1>7, <1>8, <1>9, <1>10, <1>11
     DEF Next, Step

LEMMA UniqueNamesInjective ==
    ASSUME UniqueInv PROVE NamesUnique
<1>1. UniqueNames(tree)
  BY DEF UniqueInv, Tidy
<1>2. IsInjective([i \in DOMAIN tree |-> tree[i].dirname])
  BY <1>1 DEF UniqueNames, IsInjective
<1>3. ASSUME NEW i \in DOMAIN tree, tree[i].dirname # RootDir
      PROVE  IsInjective([j \in DOMAIN tree[i].files
                             |-> tree[i].files[j].filename])
  BY <1>1, <1>3 DEF UniqueNames, UniqueFiles, IsInjective
<1>. QED
  BY <1>2, <1>3 DEF NamesUnique

(* No two directories, and no two files of a directory below the root,     *)
(* ever have one name: add_file looks for duplicates under the write lock, *)
(* and every tree that replaces the one in memory came from it.            *)
THEOREM UniquelyNamed == Spec => []NamesUnique
<1>1. TypeOK /\ UniqueInv /\ [Next]_vars => (TypeOK /\ UniqueInv)'
  BY TypeStep, UniqueStep
<1>. QED
  BY TypeInit, UniqueInit, <1>1, UniqueNamesInjective, PTL DEF Spec

(* Every file that a directory below the root lists can be opened there,   *)
(* and is the file that was listed: unique names make the first match of   *)
(* each lookup the only one.                                               *)
THEOREM ListedCanBeOpened == Spec => []ListingResolves
<1>1. TypeOK /\ UniqueInv /\ [Next]_vars => (TypeOK /\ UniqueInv)'
  BY TypeStep, UniqueStep
<1>2. TypeOK /\ UniqueInv => ListingResolves
  <2> SUFFICES ASSUME TypeOK, UniqueInv,
                      NEW d \in ToSet(ListSubdirs(tree)), Len(d) = 1,
                      NEW f \in ToSet(ListDirectory(tree, d))
               PROVE  ResolvePath(tree, Append(d, f.filename)) = {f}
    BY DEF ListingResolves
  <2>1. tree \in TreesOver(Names, Entry) /\ UniqueNames(tree)
    BY DEF TypeOK, TreeType, UniqueInv, Tidy
  <2>2. \A e \in Entry : e.filename \in Names
    BY DEF Entry
  <2>3. d \in Seq(Names) /\ d # RootDir
    BY <2>1, ListedSubdir
  <2>4. f.filename \in Names
    <3>1. d # <<>>
      OBVIOUS
    <3>2. f \in Entry
      BY <2>1, <2>3, <3>1, ListedFile
    <3>. QED
      BY <2>2, <3>2
  <2>5. PICK p : p = Append(d, f.filename)
    OBVIOUS
  <2>6. p \in Seq(Names) /\ Len(p) = 2 /\ <<p[1]>> = d /\ p[2] = f.filename
    <3>1. /\ Append(d, f.filename) \in Seq(Names)
          /\ Len(Append(d, f.filename)) = 2
          /\ Append(d, f.filename)[2] = f.filename
          /\ <<Append(d, f.filename)[1]>> = d
      BY <2>3, <2>4, PathBelow, Zenon
    <3>. QED
      BY <2>5, <3>1, Zenon
  <2>7. ResolvePath(tree, p) = {f}
    BY <2>1, <2>2, <2>3, <2>6, ListedFileResolves
  <2>. QED
    BY <2>5, <2>7, Zenon
<1>. QED
  BY TypeInit, UniqueInit, <1>1, <1>2, PTL DEF Spec

----------------------------------------------------------------------------
(* The directory as a map.                                                 *)

(* What a request under way asks for; remove_file is called only for paths *)
(* that resolve, and those have one or two components.  What is on disk    *)
(* was sealed by this identity or an earlier one.                          *)
MapInv ==
    /\ \A c \in Clients : pc[c] = "mutate" =>
          /\ op[c].kind \in {"add", "remove"}
          /\ op[c].kind = "remove" =>
                op[c].path \in Paths /\ Len(op[c].path) \in {1, 2}
    /\ disk.key <= key

LEMMA MapInit == Init => MapInv
BY DEF Init, MapInv, Blank

LEMMA MapStep == TypeOK /\ UniqueInv /\ MapInv /\ [Next]_vars => MapInv'
<1> SUFFICES ASSUME TypeOK, UniqueInv, MapInv, [Next]_vars PROVE MapInv'
  OBVIOUS
<1>0. /\ pc \in [Clients -> Answered \cup {"mutate", "flush"} \cup Writing]
      /\ op \in [Clients -> Request] /\ key \in Nat /\ disk.key \in Nat
      /\ disk.key <= key
  BY DEF TypeOK, MapInv
<1> DEFINE Sound(r) ==
              /\ r.kind \in {"add", "remove"}
              /\ r.kind = "remove" =>
                    r.path \in Paths /\ Len(r.path) \in {1, 2}
<1>1. SUFFICES /\ \A c \in Clients : pc'[c] = "mutate" => Sound(op'[c])
               /\ disk'.key <= key'
  BY DEF MapInv
<1>2. \A c \in Clients : pc[c] = "mutate" => Sound(op[c])
  BY DEF MapInv
<1>3. ASSUME NEW c \in Clients, NEW p \in Paths, NEW u \in Uploads,
             RequestAdd(c, p, u)
      PROVE  /\ \A d \in Clients : pc'[d] = "mutate" => Sound(op'[d])
             /\ disk'.key <= key'
  BY <1>0, <1>2, <1>3 DEF RequestAdd
<1>4. ASSUME NEW c \in Clients, NEW p \in Paths, RequestRemove(c, p)
      PROVE  /\ \A d \in Clients : pc'[d] = "mutate" => Sound(op'[d])
             /\ disk'.key <= key'
  <2>1. p \in Seq(Names) /\ p # <<>>
    BY PathsAssumption
  <2>2. tree \in TreesOver(Names, Entry) /\ NoSubdirs(tree)
    BY DEF TypeOK, TreeType, UniqueInv, Tidy
  <2>3. Len(p) \in {1, 2}
    BY <1>4, <2>1, <2>2, ResolveShallow DEF RequestRemove
  <2>. QED
    BY <1>0, <1>2, <1>4, <2>3 DEF RequestRemove
<1>5. ASSUME NEW c \in Clients,
             \/ Mutate(c) \/ FlushBegin(c) \/ FlushTruncate(c)
             \/ FlushWrite(c) \/ FlushFails(c) \/ Disconnect(c)
      PROVE  /\ \A d \in Clients : pc'[d] = "mutate" =>
                    pc[d] = "mutate" /\ op'[d] = op[d]
             /\ disk'.key \in {0, key, disk.key} /\ key' = key
  <2>1. CASE Mutate(c)
    BY <1>0, <2>1 DEF Mutate
  <2>2. CASE FlushBegin(c) \/ FlushTruncate(c)
    BY <1>0, <2>2 DEF FlushBegin, FlushTruncate, Blank
  <2>3. CASE FlushWrite(c)
    <3>1. disk'.key \in {0, key}
      BY <2>3 DEF FlushWrite, Sealed, Partial
    <3>. QED
      BY <1>0, <2>3, <3>1 DEF FlushWrite, Leave
  <2>4. CASE FlushFails(c)
    <3>1. disk'.key \in {0, disk.key}
      BY <2>4 DEF FlushFails, Partial
    <3>. QED
      BY <1>0, <2>4, <3>1 DEF FlushFails, Leave
  <2>5. CASE Disconnect(c)
    BY <1>0, <2>5 DEF Disconnect
  <2>. QED
    BY <1>5, <2>1, <2>2, <2>3, <2>4, <2>5
<1>6. CASE Restart
  BY <1>0, <1>6 DEF Restart
<1>7. CASE UNCHANGED vars
  BY <1>0, <1>2, <1>7 DEF vars
<1>. QED
  BY <1>0, <1>2, <1>3, <1>4, <1>5, <1>6, <1>7 DEF Next, Step

LEMMA FlatPathParts ==
    ASSUME NEW p \in FlatPath
    PROVE  p \in Seq(Names) /\ Len(p) = 2 /\ <<p[1]>> # RootDir
BY PathsAssumption DEF FlatPath, RootDir

LEMMA FlatPathsEqual ==
    ASSUME NEW p \in Seq(Names), NEW q \in Seq(Names),
           Len(p) = 2, Len(q) = 2, p[1] = q[1], p[2] = q[2]
    PROVE  p = q
<1>1. p = [i \in 1 .. 2 |-> p[i]] /\ q = [i \in 1 .. 2 |-> q[i]]
  OBVIOUS
<1>2. \A i \in 1 .. 2 : p[i] = q[i]
  OBVIOUS
<1>. QED
  BY <1>1, <1>2

(* add_file below the root puts the file at its path, which was free, and  *)
(* leaves all other paths alone.                                           *)
LEMMA FlatAdd ==
    ASSUME TypeOK, UniqueInv, NEW req \in Request, req.kind = "add",
           ~Fails(req), NEW p \in FlatPath
    PROVE  /\ p = req.path => /\ ResolvePath(tree, p) = {}
                              /\ ResolvePath(Applied(req), p) = {EntryOf(req)}
           /\ p # req.path =>
                ResolvePath(Applied(req), p) = ResolvePath(tree, p)
<1> DEFINE q == req.path
           parent == Front(q)
           e == EntryOf(req)
           new == AddFile(tree, parent, e)
<1>1. q \in Paths /\ req.upload \in Uploads
  BY DEF Request, NoRequest
<1>2. /\ q \in Seq(Names) /\ Len(q) \in Nat /\ Len(q) > 0
      /\ parent \in Seq(Names) /\ Last(q) \in Names
  BY <1>1, PathParts, PathsAssumption
<1>3. e \in Entry /\ e.filename = Last(q)
  BY <1>1, <1>2 DEF EntryOf, Entry
<1>4. tree \in TreesOver(Names, Entry) /\ UniqueNames(tree)
  BY DEF TypeOK, TreeType, UniqueInv, Tidy
<1>5. ~AddFileFails(tree, parent, e) /\ Applied(req) = new
  BY DEF Fails, Applied
<1>6. /\ new \in TreesOver(Names, Entry) /\ UniqueNames(new)
      /\ \A d, f : Holds(new, d, f)
                     <=> Holds(tree, d, f) \/ (d = ParentDir(parent) /\ f = e)
      /\ parent \notin {<<>>, RootDir} =>
            \A f : Holds(tree, parent, f) => f.filename # e.filename
  BY <1>2, <1>3, <1>4, <1>5, PathsAssumption, AddFileType, AddFileUnique,
     AddFileHolds
<1>7. p \in Seq(Names) /\ Len(p) = 2 /\ <<p[1]>> # RootDir
  BY FlatPathParts
<1>8. Len(q) = 2 => parent = <<q[1]>> /\ Last(q) = q[2]
  <2> SUFFICES ASSUME Len(q) = 2 PROVE parent = <<q[1]>> /\ Last(q) = q[2]
    OBVIOUS
  <2> DEFINE front == SubSeq(q, 1, 1)
  <2>1. front = [j \in 1 .. 1 |-> q[j]]
    BY <1>2
  <2>2. <<q[1]>> = [j \in 1 .. 1 |-> q[j]]
    OBVIOUS
  <2>3. parent = front /\ Last(q) = q[2]
    BY DEF Front, Last
  <2>. QED
    BY <2>1, <2>2, <2>3
<1>9. Len(parent) = Len(q) - 1
  BY <1>2 DEF Front
<1> HIDE DEF parent, e, new, q
<1>10. \A f : /\ f \in ResolvePath(tree, p)
                   <=> Holds(tree, <<p[1]>>, f) /\ f.filename = p[2]
              /\ f \in ResolvePath(new, p)
                   <=> Holds(new, <<p[1]>>, f) /\ f.filename = p[2]
  BY <1>4, <1>6, <1>7, ResolveFlat
<1>11. ParentDir(parent) = <<p[1]>> => Len(q) = 2 /\ parent = <<p[1]>>
  <2> SUFFICES ASSUME ParentDir(parent) = <<p[1]>>
               PROVE  Len(q) = 2 /\ parent = <<p[1]>>
    OBVIOUS
  <2>1. parent = <<p[1]>>
    BY <1>7 DEF ParentDir
  <2>2. Len(<<p[1]>>) = 1
    OBVIOUS
  <2>. QED
    BY <1>2, <1>9, <2>1, <2>2
<1>12. CASE p = q
  <2>1. parent = <<p[1]>> /\ e.filename = p[2]
    BY <1>3, <1>7, <1>8, <1>12
  <2>2. parent \notin {<<>>, RootDir}
    BY <1>7, <2>1
  <2>3. ParentDir(parent) = <<p[1]>>
    BY <2>1, <2>2 DEF ParentDir
  <2>4. \A f : f \notin ResolvePath(tree, p)
    BY <1>6, <1>10, <2>1, <2>2
  <2>5. \A f : f \in ResolvePath(new, p) <=> f = e
    BY <1>6, <1>10, <2>1, <2>3, <2>4
  <2>. QED
    BY <1>5, <1>12, <2>4, <2>5 DEF q, e
<1>13. CASE p # q
  <2>1. ParentDir(parent) = <<p[1]>> => e.filename # p[2]
    <3> SUFFICES ASSUME ParentDir(parent) = <<p[1]>>, e.filename = p[2]
                 PROVE  FALSE
      OBVIOUS
    <3>1. Len(q) = 2 /\ <<p[1]>> = <<q[1]>> /\ q[2] = p[2]
      BY <1>3, <1>8, <1>11
    <3>2. p[1] = q[1]
      BY <3>1
    <3>. QED
      BY <1>2, <1>7, <1>13, <3>1, <3>2, FlatPathsEqual
  <2>2. \A f : f \in ResolvePath(new, p) <=> f \in ResolvePath(tree, p)
    BY <1>6, <1>10, <2>1
  <2>. QED
    BY <1>5, <1>13, <2>2 DEF q
<1>. QED
  BY <1>12, <1>13

(* remove_file takes away the file at its path if that is one level below  *)
(* the root, and nothing from the other paths.                             *)
LEMMA FlatRemove ==
    ASSUME TypeOK, UniqueInv, NEW req, req.kind # "add",
           req.path \in Paths, Len(req.path) \in {1, 2},
           ~Fails(req), NEW p \in FlatPath
    PROVE  /\ p = req.path => /\ ResolvePath(tree, p) # {}
                              /\ ResolvePath(Applied(req), p) = {}
           /\ p # req.path =>
                ResolvePath(Applied(req), p) = ResolvePath(tree, p)
<1> DEFINE q == req.path
           new == RemoveFile(tree, q)
           d == RemovalDir(q)
<1>1. q \in Seq(Names) /\ Len(q) \in {1, 2}
  BY PathsAssumption
<1>2. tree \in TreesOver(Names, Entry) /\ UniqueNames(tree)
  BY DEF TypeOK, TreeType, UniqueInv, Tidy
<1>3. ~RemoveFileFails(tree, q) /\ Applied(req) = new
  BY DEF Fails, Applied
<1>4. /\ new \in TreesOver(Names, Entry) /\ UniqueNames(new)
      /\ \A b, f : b # d => (Holds(new, b, f) <=> Holds(tree, b, f))
      /\ d # RootDir =>
            \A f : Holds(new, d, f) <=> Holds(tree, d, f) /\ f.filename # Last(q)
      /\ \E f : Holds(tree, d, f) /\ f.filename = Last(q)
  BY <1>2, <1>3, RemoveFileType, RemoveFileUnique, RemoveFileHolds
<1>5. p \in Seq(Names) /\ Len(p) = 2 /\ <<p[1]>> # RootDir
  BY FlatPathParts
<1>6. d = IF Len(q) = 2 THEN <<q[1]>> ELSE RootDir
  <2>1. \A n \in {1, 2} : n > 1 <=> n = 2
    OBVIOUS
  <2>2. Len(q) > 1 <=> Len(q) = 2
    BY <1>1, <2>1, Zenon
  <2>. QED
    BY <2>2 DEF RemovalDir
<1>7. Len(q) = 2 => Last(q) = q[2]
  BY DEF Last
<1> HIDE DEF q, new, d
<1>8. \A f : /\ f \in ResolvePath(tree, p)
                  <=> Holds(tree, <<p[1]>>, f) /\ f.filename = p[2]
             /\ f \in ResolvePath(new, p)
                  <=> Holds(new, <<p[1]>>, f) /\ f.filename = p[2]
  BY <1>2, <1>4, <1>5, ResolveFlat
<1>9. CASE p = q
  <2>1. d = <<p[1]>> /\ Last(q) = p[2]
    BY <1>5, <1>6, <1>7, <1>9
  <2>2. \E f : f \in ResolvePath(tree, p)
    BY <1>4, <1>8, <2>1
  <2>3. \A f : f \notin ResolvePath(new, p)
    BY <1>4, <1>5, <1>8, <2>1
  <2>. QED
    BY <1>3, <1>9, <2>2, <2>3 DEF q
<1>10. CASE p # q
  <2>1. d = <<p[1]>> => Last(q) # p[2]
    <3> SUFFICES ASSUME d = <<p[1]>>, Last(q) = p[2] PROVE FALSE
      OBVIOUS
    <3>1. Len(q) = 2 /\ <<p[1]>> = <<q[1]>> /\ q[2] = p[2]
      BY <1>5, <1>6, <1>7
    <3>2. p[1] = q[1]
      BY <3>1
    <3>. QED
      BY <1>1, <1>5, <1>10, <3>1, <3>2, FlatPathsEqual
  <2>2. \A f : f \in ResolvePath(new, p) <=> f \in ResolvePath(tree, p)
    BY <1>4, <1>5, <1>8, <2>1
  <2>. QED
    BY <1>3, <1>10, <2>2 DEF q
<1>. QED
  BY <1>9, <1>10

(* As seen through resolve_path, the files one level below the root are a  *)
(* map: every step of handlers, flushes, hang-ups and restarts is a step   *)
(* of FileMap on them or none.                                             *)
THEOREM ImplementsMap == Spec => FilesAreAMap
<1> DEFINE Files == [p \in FlatPath |-> ResolvePath(tree, p)]
           Asked == {[path |-> op[c].path,
                      file |-> IF op[c].kind = "add" THEN {EntryOf(op[c])} ELSE {}]
                        : c \in {d \in Clients : pc[d] = "mutate"}}
<1>1. ASSUME NEW t, t = NewTree PROVE \A p \in FlatPath : ResolvePath(t, p) = {}
  <2>1. t \in TreesOver(Names, Entry) /\ UniqueNames(t)
    BY <1>1, NewTreeUnique DEF NewTree, TreesOver, Tidy
  <2>2. \A d, f : ~Holds(t, d, f)
    BY <1>1 DEF NewTree, Holds
  <2>3. \A p \in FlatPath : \A f : f \notin ResolvePath(t, p)
    BY <2>1, <2>2, FlatPathParts, ResolveFlat
  <2>. QED
    BY <2>3
<1>2. Init => Map!Init
  <2> SUFFICES ASSUME Init PROVE Files = [p \in FlatPath |-> {}] /\ Asked = {}
    BY DEF Map!Init
  <2>1. \A p \in FlatPath : ResolvePath(tree, p) = {}
    BY <1>1 DEF Init
  <2>2. \A d \in Clients : pc[d] # "mutate"
    BY DEF Init
  <2>. QED
    BY <2>1, <2>2
<1>3. ASSUME TypeOK, UniqueInv, MapInv, [Next]_vars
      PROVE  [Map!Next]_<<Files, Asked>>
  <2>1. ASSUME tree' = tree PROVE Files' = Files
    BY <2>1
  <2>2. ASSUME Restart PROVE Map!StartOver \/ Files' = Files
    <3>1. disk.key # key'
      BY <1>3, <2>2 DEF Restart, MapInv, TypeOK
    <3>2. tree' = NewTree
      BY <2>2, <3>1 DEF Restart, OpenTree
    <3>3. \A p \in FlatPath : ResolvePath(tree', p) = {}
      BY <1>1, <3>2
    <3>. QED
      BY <3>3 DEF Map!StartOver
  <2>3. ASSUME NEW c \in Clients, Mutate(c)
        PROVE  \/ Files' = Files
               \/ \E p \in FlatPath :
                     Map!Delete(p) \/ \E f \in Entry : Map!Create(p, f)
    <3> DEFINE req == op[c]
    <3>1. CASE Fails(req)
      BY <2>1, <2>3, <3>1 DEF Mutate
    <3>2. CASE ~Fails(req)
      <4>1. tree' = Applied(req) /\ pc[c] = "mutate" /\ req \in Request
        BY <1>3, <2>3, <3>2 DEF Mutate, TypeOK
      <4>2. [path |-> req.path,
             file |-> IF req.kind = "add" THEN {EntryOf(req)} ELSE {}] \in Asked
        BY <4>1
      <4> HIDE DEF req, Asked
      <4>3. CASE req.kind = "add"
        <5>1. \A p \in FlatPath :
                 /\ p = req.path => /\ ResolvePath(tree, p) = {}
                                    /\ ResolvePath(tree', p) = {EntryOf(req)}
                 /\ p # req.path => ResolvePath(tree', p) = ResolvePath(tree, p)
          BY <1>3, <3>2, <4>1, <4>3, FlatAdd
        <5>2. CASE req.path \in FlatPath
          <6>1. Files' = [Files EXCEPT ![req.path] = {EntryOf(req)}]
            BY <5>1, <5>2
          <6>2. Files[req.path] = {}
            BY <5>1, <5>2
          <6>3. EntryOf(req) \in Entry
            <7>1. req.path \in Paths /\ req.upload \in Uploads
              BY <4>1, <4>3 DEF Request, NoRequest
            <7>. QED
              BY <7>1, PathParts DEF EntryOf, Entry
          <6>4. [path |-> req.path, file |-> {EntryOf(req)}] \in Asked
            BY <4>2, <4>3
          <6>5. Map!Create(req.path, EntryOf(req))
            BY <6>1, <6>2, <6>4 DEF Map!Create, Asked
          <6>. QED
            BY <5>2, <6>3, <6>5
        <5>3. CASE req.path \notin FlatPath
          BY <5>1, <5>3
        <5>. QED
          BY <5>2, <5>3
      <4>4. CASE req.kind # "add"
        <5>1. req.path \in Paths /\ Len(req.path) \in {1, 2}
          BY <1>3, <4>1, <4>4 DEF MapInv, req
        <5>2. \A p \in FlatPath :
                 /\ p = req.path => /\ ResolvePath(tree, p) # {}
                                    /\ ResolvePath(tree', p) = {}
                 /\ p # req.path => ResolvePath(tree', p) = ResolvePath(tree, p)
          BY <1>3, <3>2, <4>1, <4>4, <5>1, FlatRemove
        <5>3. CASE req.path \in FlatPath
          <6>1. Files' = [Files EXCEPT ![req.path] = {}]
            BY <5>2, <5>3
          <6>2. Files[req.path] # {}
            BY <5>2, <5>3
          <6>3. [path |-> req.path, file |-> {}] \in Asked
            BY <4>2, <4>4
          <6>4. Map!Delete(req.path)
            BY <6>1, <6>2, <6>3 DEF Map!Delete, Asked
          <6>. QED
            BY <5>3, <6>4
        <5>4. CASE req.path \notin FlatPath
          BY <5>2, <5>4
        <5>. QED
          BY <5>3, <5>4
      <4>. QED
        BY <4>3, <4>4
    <3>. QED
      BY <3>1, <3>2
  <2>4. \/ tree' = tree
        \/ Restart
        \/ \E c \in Clients : Mutate(c)
    BY <1>3 DEF Next, Step, RequestAdd, RequestRemove, FlushBegin,
                FlushTruncate, FlushWrite, FlushFails, Disconnect, vars
  <2>. QED
    BY <2>1, <2>2, <2>3, <2>4 DEF Map!Next, Map!Lookup
<1>4. /\ Init => TypeOK /\ UniqueInv /\ MapInv
      /\ TypeOK /\ UniqueInv /\ MapInv /\ [Next]_vars
           => (TypeOK /\ UniqueInv /\ MapInv)'
  BY TypeInit, TypeStep, UniqueInit, UniqueStep, MapInit, MapStep
<1>. QED
  BY <1>2, <1>3, <1>4, PTL DEF Spec, FilesAreAMap, Map!Spec
=============================================================================
