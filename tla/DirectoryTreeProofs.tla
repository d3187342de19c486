------------------------- MODULE DirectoryTreeProofs -------------------------
(***************************************************************************)
(* Lemmas about the operators of DirectoryTree: what the lookups return,   *)
(* that add_file and remove_file take trees to trees, and that what is     *)
(* listed below the root resolves.                                         *)
(***************************************************************************)
EXTENDS DirectoryTree, TLAPS, WellFoundedInduction, NaturalsInduction

(* Every nonempty set of numbers has a least one, and Min picks it: what   *)
(* iter().find and iter().position rely on.                                *)
LEMMA MinInSet ==
    ASSUME NEW I \in SUBSET Nat, I # {}
    PROVE  Min(I) \in I /\ \A i \in I : Min(I) <= i
<1> DEFINE less == {ss \in Nat \X Nat : ss[1] < ss[2]}
<1>1. less = OpToRel(<, Nat)
  BY Zenon DEF OpToRel
<1>2. IsWellFoundedOn(less, Nat)
  BY <1>1, NatLessThanWellFounded, Zenon
<1>3. PICK i \in I : \A j \in I : ~(<<j, i>> \in less)
  <2> HIDE DEF less
  <2>. QED  BY <1>2, WFMin
<1>4. ASSUME NEW j \in I PROVE i <= j
  <2>1. i \in Nat /\ j \in Nat
    OBVIOUS
  <2>2. j < i => <<j, i>> \in less
    BY <2>1
  <2>3. ~(j < i)
    BY <1>3, <2>2
  <2>. QED
    BY <2>1, <2>3
<1>. QED
  BY <1>4 DEF Min

LEMMA DirIndexFinds ==
    ASSUME NEW C, NEW F, NEW tree \in TreesOver(C, F), NEW dirname
    PROVE  LET i == DirIndex(tree, dirname)
           IN  \/ i = 0 /\ \A j \in DOMAIN tree : tree[j].dirname # dirname
               \/ i \in DOMAIN tree /\ tree[i].dirname = dirname
<1> DEFINE I == {i \in 1..Len(tree) : tree[i].dirname = dirname}
<1>1. DirIndex(tree, dirname) = IF I # {} THEN Min(I) ELSE 0
  BY DEF DirIndex, SelectInSeq
<1>4. I \in SUBSET Nat
  OBVIOUS
<1>2. DOMAIN tree = 1..Len(tree)
  BY DEF TreesOver
<1>3. I # {} => Min(I) \in I
  <2> HIDE DEF I
  <2>. QED  BY MinInSet, <1>4
<1>. QED
  BY <1>1, <1>2, <1>3

LEMMA FileIndexFinds ==
    ASSUME NEW F, NEW files \in Seq(F), NEW name
    PROVE  LET i == FileIndex(files, name)
           IN  \/ i = 0 /\ \A j \in DOMAIN files : files[j].filename # name
               \/ i \in DOMAIN files /\ files[i].filename = name
<1> DEFINE I == {i \in 1..Len(files) : files[i].filename = name}
<1>1. FileIndex(files, name) = IF I # {} THEN Min(I) ELSE 0
  BY DEF FileIndex, SelectInSeq
<1>2. DOMAIN files = 1..Len(files)
  OBVIOUS
<1>3. I \in SUBSET Nat
  OBVIOUS
<1>4. I # {} => Min(I) \in I
  <2> HIDE DEF I
  <2>. QED  BY MinInSet, <1>3
<1>. QED
  BY <1>1, <1>2, <1>4

LEMMA FilesType ==
    ASSUME NEW C, NEW F, NEW tree \in TreesOver(C, F), NEW i \in DOMAIN tree
    PROVE  tree[i] \in DirsOver(C, F) /\ tree[i].files \in Seq(F)
<1>1. tree[i] \in DirsOver(C, F)
  BY DEF TreesOver
<1>. QED
  BY <1>1 DEF DirsOver

(* A directory given another list of files is a directory.                 *)
LEMMA WithFilesType ==
    ASSUME NEW C, NEW F, NEW tree \in TreesOver(C, F), NEW i \in DOMAIN tree,
           NEW fs \in Seq(F)
    PROVE  [tree EXCEPT ![i].files = fs] \in TreesOver(C, F)
<1>1. [tree[i] EXCEPT !.files = fs] \in DirsOver(C, F)
  BY FilesType DEF DirsOver
<1>2. [tree EXCEPT ![i] = [tree[i] EXCEPT !.files = fs]] \in TreesOver(C, F)
  BY <1>1 DEF TreesOver
<1>. QED
  BY <1>2

LEMMA AddFileType ==
    ASSUME NEW C, NEW F, RootDir \in Seq(C), NEW tree \in TreesOver(C, F),
           NEW parent \in Seq(C), NEW entry \in F
    PROVE  AddFile(tree, parent, entry) \in TreesOver(C, F)
<1> DEFINE d == ParentDir(parent)
           i == DirIndex(tree, d)
<1>1. d \in Seq(C)
  BY DEF ParentDir
<1>2. NewDir(d, entry) \in DirsOver(C, F)
  BY <1>1 DEF NewDir, DirsOver
<1>3. i = 0 \/ i \in DOMAIN tree
  BY DirIndexFinds
<1>4. AddFile(tree, parent, entry)
         = IF i = 0 THEN Append(tree, NewDir(d, entry))
                    ELSE [tree EXCEPT ![i].files = Append(tree[i].files, entry)]
  BY DEF AddFile
<1> HIDE DEF d, i
<1>5. CASE i = 0
  BY <1>2, <1>4, <1>5 DEF TreesOver
<1>6. CASE i # 0
  <2>1. Append(tree[i].files, entry) \in Seq(F)
    BY <1>3, <1>6, FilesType
  <2>2. [tree EXCEPT ![i].files = Append(tree[i].files, entry)]
           \in TreesOver(C, F)
    BY <1>3, <1>6, <2>1, WithFilesType
  <2>. QED  BY <1>4, <1>6, <2>2
<1>. QED
  BY <1>5, <1>6

LEMMA RemoveFileType ==
    ASSUME NEW C, NEW F, NEW tree \in TreesOver(C, F), NEW path,
           ~RemoveFileFails(tree, path)
    PROVE  RemoveFile(tree, path) \in TreesOver(C, F)
<1> DEFINE i == DirIndex(tree, RemovalDir(path))
           fs == tree[i].files
           k == FileIndex(fs, Last(path))
<1>1. i # 0 /\ k # 0
  BY DEF RemoveFileFails
<1>2. i \in DOMAIN tree
  BY <1>1, DirIndexFinds
<1>3. RemoveFile(tree, path) = [tree EXCEPT ![i].files = RemoveAt(fs, k)]
  BY DEF RemoveFile
<1>4. fs \in Seq(F)
  <2> HIDE DEF i
  <2>. QED  BY <1>2, FilesType
<1> HIDE DEF fs
<1>5. k \in 1..Len(fs)
  BY <1>1, <1>4, FileIndexFinds
<1> HIDE DEF i, k
<1>6. RemoveAt(fs, k) \in Seq(F)
  <2>1. SubSeq(fs, 1, k - 1) \in Seq(F) /\ SubSeq(fs, k + 1, Len(fs)) \in Seq(F)
    BY <1>4, <1>5
  <2>. QED  BY <2>1 DEF RemoveAt
<1>7. [tree EXCEPT ![i].files = RemoveAt(fs, k)] \in TreesOver(C, F)
  BY <1>2, <1>6, WithFilesType
<1>. QED
  BY <1>3, <1>7

----------------------------------------------------------------------------
(* Names.                                                                  *)

UniqueFiles(files) ==
    \A a, b \in DOMAIN files : files[a].filename = files[b].filename => a = b

UniqueNames(tree) ==
    /\ \A i, j \in DOMAIN tree : tree[i].dirname = tree[j].dirname => i = j
    /\ \A i \in DOMAIN tree :
          tree[i].dirname # RootDir => UniqueFiles(tree[i].files)

(* Another list of files of unique names keeps the names unique.           *)
LEMMA WithFilesUnique ==
    ASSUME NEW C, NEW F, NEW tree \in TreesOver(C, F), UniqueNames(tree),
           NEW i \in DOMAIN tree, NEW fs,
           tree[i].dirname # RootDir => UniqueFiles(fs)
    PROVE  UniqueNames([tree EXCEPT ![i].files = fs])
<1> DEFINE new == [tree EXCEPT ![i].files = fs]
<1>1. /\ DOMAIN new = DOMAIN tree
      /\ \A j \in DOMAIN tree \ {i} : new[j] = tree[j]
      /\ new[i].dirname = tree[i].dirname /\ new[i].files = fs
  <2>1. tree[i] \in DirsOver(C, F)
    BY FilesType
  <2>2. new[i] = [tree[i] EXCEPT !.files = fs]
    OBVIOUS
  <2>3. new[i].dirname = tree[i].dirname /\ new[i].files = fs
    BY <2>1, <2>2 DEF DirsOver
  <2>. QED
    BY <2>3
<1> HIDE DEF new
<1>2. UniqueNames(new)
  BY <1>1 DEF UniqueNames
<1>. QED
  BY <1>2 DEF new

(* add_file keeps names apart, except those of files at the root.          *)
LEMMA AddFileUnique ==
    ASSUME NEW C, NEW F, RootDir \in Seq(C), NEW tree \in TreesOver(C, F),
           NEW parent \in Seq(C), NEW entry \in F,
           UniqueNames(tree), ~AddFileFails(tree, parent, entry)
    PROVE  UniqueNames(AddFile(tree, parent, entry))
<1> DEFINE d == ParentDir(parent)
           i == DirIndex(tree, d)
           fs == tree[i].files
<1>1. \/ i = 0 /\ \A j \in DOMAIN tree : tree[j].dirname # d
      \/ i \in DOMAIN tree /\ tree[i].dirname = d
  BY DirIndexFinds
<1>2. AddFile(tree, parent, entry)
         = IF i = 0 THEN Append(tree, NewDir(d, entry))
                    ELSE [tree EXCEPT ![i].files = Append(fs, entry)]
  BY DEF AddFile
<1>3. i # 0 /\ d # RootDir => FileIndex(fs, entry.filename) = 0
  BY DEF AddFileFails, ParentDir
<1> HIDE DEF d, i
<1>4. CASE i = 0
  <2> DEFINE new == Append(tree, NewDir(d, entry))
  <2>1. tree \in Seq(DirsOver(C, F)) /\ Len(tree) \in Nat
    BY DEF TreesOver
  <2>2. /\ DOMAIN new = 1 .. Len(tree) + 1 /\ DOMAIN tree = 1 .. Len(tree)
        /\ \A j \in 1 .. Len(tree) : new[j] = tree[j]
        /\ new[Len(tree) + 1] = NewDir(d, entry)
    BY <2>1
  <2>3. /\ new[Len(tree) + 1].dirname = d
        /\ new[Len(tree) + 1].files = <<entry>>
    BY <2>2 DEF NewDir
  <2>4. UniqueFiles(<<entry>>)
    BY DEF UniqueFiles
  <2> HIDE DEF new
  <2>5. \A j, k \in DOMAIN new : new[j].dirname = new[k].dirname => j = k
    BY <1>1, <1>4, <2>1, <2>2, <2>3 DEF UniqueNames
  <2>6. ASSUME NEW j \in DOMAIN new, new[j].dirname # RootDir
        PROVE  UniqueFiles(new[j].files)
    <3>1. CASE j \in DOMAIN tree
      <4>1. new[j] = tree[j]
        BY <2>2, <3>1
      <4>. QED
        BY <2>6, <3>1, <4>1 DEF UniqueNames
    <3>2. CASE j = Len(tree) + 1
      BY <2>3, <2>4, <3>2
    <3>. QED
      BY <2>1, <2>2, <3>1, <3>2
  <2>. QED
    BY <1>2, <1>4, <2>5, <2>6 DEF UniqueNames, new
<1>5. CASE i # 0
  <2>1. i \in DOMAIN tree /\ tree[i].dirname = d /\ fs \in Seq(F)
    BY <1>1, <1>5, FilesType
  <2>2. d # RootDir => UniqueFiles(Append(fs, entry))
    <3> SUFFICES ASSUME d # RootDir PROVE UniqueFiles(Append(fs, entry))
      OBVIOUS
    <3>1. UniqueFiles(fs)
      BY <2>1 DEF UniqueNames
    <3> HIDE DEF fs
    <3>2. \A j \in DOMAIN fs : fs[j].filename # entry.filename
      BY <1>3, <1>5, <2>1, FileIndexFinds
    <3>3. /\ DOMAIN Append(fs, entry) = 1 .. Len(fs) + 1
          /\ DOMAIN fs = 1 .. Len(fs) /\ Len(fs) \in Nat
          /\ \A j \in 1 .. Len(fs) : Append(fs, entry)[j] = fs[j]
          /\ Append(fs, entry)[Len(fs) + 1] = entry
      BY <2>1
    <3>. QED
      BY <3>1, <3>2, <3>3 DEF UniqueFiles
  <2> HIDE DEF fs
  <2>3. UniqueNames([tree EXCEPT ![i].files = Append(fs, entry)])
    BY <2>1, <2>2, WithFilesUnique
  <2>. QED
    BY <1>2, <1>5, <2>3 DEF fs
<1>. QED
  BY <1>4, <1>5

LEMMA RemoveFileUnique ==
    ASSUME NEW C, NEW F, NEW tree \in TreesOver(C, F), NEW path,
           UniqueNames(tree), ~RemoveFileFails(tree, path)
    PROVE  UniqueNames(RemoveFile(tree, path))
<1> DEFINE i == DirIndex(tree, RemovalDir(path))
           fs == tree[i].files
           k == FileIndex(fs, Last(path))
<1>1. i # 0 /\ k # 0
  BY DEF RemoveFileFails
<1>2. i \in DOMAIN tree
  BY <1>1, DirIndexFinds
<1>3. RemoveFile(tree, path) = [tree EXCEPT ![i].files = RemoveAt(fs, k)]
  BY DEF RemoveFile
<1> HIDE DEF i
<1>4. fs \in Seq(F) /\ (tree[i].dirname # RootDir => UniqueFiles(fs))
  BY <1>2, FilesType DEF UniqueNames
<1> HIDE DEF fs
<1>5. k \in 1 .. Len(fs)
  BY <1>1, <1>4, FileIndexFinds
<1> HIDE DEF k
<1>6. tree[i].dirname # RootDir => UniqueFiles(RemoveAt(fs, k))
  <2> DEFINE front == SubSeq(fs, 1, k - 1)
             rest == SubSeq(fs, k + 1, Len(fs))
  <2>1. /\ front \in Seq(F) /\ Len(front) = k - 1
        /\ rest \in Seq(F) /\ Len(rest) = Len(fs) - k
        /\ \A j \in 1 .. k - 1 : front[j] = fs[j]
        /\ \A j \in 1 .. Len(fs) - k : rest[j] = fs[k + j]
    BY <1>4, <1>5
  <2>2. RemoveAt(fs, k) = front \o rest
    BY DEF RemoveAt
  <2> HIDE DEF front, rest
  <2>3. /\ DOMAIN (front \o rest) = 1 .. Len(fs) - 1
        /\ \A j \in 1 .. k - 1 : (front \o rest)[j] = front[j]
        /\ \A j \in k .. Len(fs) - 1 : (front \o rest)[j] = rest[j - (k - 1)]
    BY <1>4, <1>5, <2>1
  <2>4. \A j \in 1 .. Len(fs) - 1 :
           (front \o rest)[j] = IF j < k THEN fs[j] ELSE fs[j + 1]
    <3> SUFFICES ASSUME NEW j \in 1 .. Len(fs) - 1
                 PROVE  (front \o rest)[j] = IF j < k THEN fs[j] ELSE fs[j + 1]
      OBVIOUS
    <3>1. CASE j < k
      BY <1>4, <1>5, <2>1, <2>3, <3>1
    <3>2. CASE ~(j < k)
      <4>1. j \in k .. Len(fs) - 1 /\ j - (k - 1) \in 1 .. Len(fs) - k
        BY <1>4, <1>5, <3>2
      <4>2. (front \o rest)[j] = rest[j - (k - 1)]
        BY <2>3, <4>1
      <4>3. rest[j - (k - 1)] = fs[k + (j - (k - 1))] /\ k + (j - (k - 1)) = j + 1
        BY <1>5, <2>1, <4>1
      <4>. QED
        BY <3>2, <4>2, <4>3
    <3>. QED
      BY <3>1, <3>2
  <2>5. ASSUME UniqueFiles(fs) PROVE UniqueFiles(front \o rest)
    <3> DEFINE at(j) == IF j < k THEN j ELSE j + 1
    <3> SUFFICES ASSUME NEW a \in 1 .. Len(fs) - 1, NEW b \in 1 .. Len(fs) - 1,
                        (front \o rest)[a].filename = (front \o rest)[b].filename
                 PROVE  a = b
      BY <2>3 DEF UniqueFiles
    <3>1. at(a) \in DOMAIN fs /\ at(b) \in DOMAIN fs
      BY <1>4, <1>5
    <3>2. fs[at(a)].filename = fs[at(b)].filename
      BY <2>4
    <3>3. at(a) = at(b)
      BY <2>5, <3>1, <3>2 DEF UniqueFiles
    <3>. QED
      BY <1>4, <1>5, <3>3
  <2>. QED
    BY <1>4, <2>2, <2>5
<1>7. UniqueNames([tree EXCEPT ![i].files = RemoveAt(fs, k)])
  BY <1>2, <1>6, WithFilesUnique
<1>. QED
  BY <1>3, <1>7

----------------------------------------------------------------------------
(* Lookups.                                                                *)

(* Some directory of the name has the file.                                *)
Holds(tree, dirname, f) ==
    \E i \in DOMAIN tree :
        /\ tree[i].dirname = dirname
        /\ \E j \in DOMAIN tree[i].files : tree[i].files[j] = f

(* No operation ever lists a subdirectory.                                 *)
NoSubdirs(tree) == \A i \in DOMAIN tree : tree[i].subdirs = <<>>

(* With unique names, the first file of a name is the one of that name.    *)
LEMMA FindFileFinds ==
    ASSUME NEW F, NEW files \in Seq(F), UniqueFiles(files), NEW name, NEW f
    PROVE  f \in FindFile(files, name)
             <=> f.filename = name /\ \E j \in DOMAIN files : files[j] = f
<1> DEFINE i == FileIndex(files, name)
<1>1. \/ i = 0 /\ \A j \in DOMAIN files : files[j].filename # name
      \/ i \in DOMAIN files /\ files[i].filename = name
  BY FileIndexFinds
<1>2. FindFile(files, name) = IF i = 0 THEN {} ELSE {files[i]}
  BY DEF FindFile
<1>3. DOMAIN files = 1 .. Len(files)
  OBVIOUS
<1> HIDE DEF i
<1>. QED
  BY <1>1, <1>2, <1>3 DEF UniqueFiles

(* resolve_path one level below the root.                                  *)
LEMMA ResolveFlat ==
    ASSUME NEW C, NEW F, NEW tree \in TreesOver(C, F), UniqueNames(tree),
           NEW p \in Seq(C), Len(p) = 2, <<p[1]>> # RootDir, NEW f
    PROVE  f \in ResolvePath(tree, p)
             <=> Holds(tree, <<p[1]>>, f) /\ f.filename = p[2]
<1> DEFINE d == DirIndex(tree, <<p[1]>>)
<1>1. Front(p) = <<p[1]>> /\ Last(p) = p[2]
  <2> DEFINE front == SubSeq(p, 1, 1)
  <2>1. front = [j \in 1 .. 1 |-> p[j]]
    OBVIOUS
  <2>2. <<p[1]>> = [j \in 1 .. 1 |-> p[j]]
    OBVIOUS
  <2>3. Front(p) = front /\ Last(p) = p[2]
    BY DEF Front, Last
  <2>. QED
    BY <2>1, <2>2, <2>3
<1>2. WalkedDir(tree, <<p[1]>>) = d
  <2>1. DOMAIN <<p[1]>> = {1} /\ Len(<<p[1]>>) = 1 /\ <<p[1]>>[1] = p[1]
    OBVIOUS
  <2>. QED
    BY <2>1 DEF WalkedDir
<1>3. ResolvePath(tree, p)
        = IF d = 0 THEN {} ELSE FindFile(tree[d].files, p[2])
  BY <1>1, <1>2 DEF ResolvePath
<1>4. \/ d = 0 /\ \A j \in DOMAIN tree : tree[j].dirname # <<p[1]>>
      \/ d \in DOMAIN tree /\ tree[d].dirname = <<p[1]>>
  BY DirIndexFinds
<1>5. DOMAIN tree = 1 .. Len(tree)
  BY DEF TreesOver
<1> HIDE DEF d
<1>6. CASE d = 0
  BY <1>3, <1>4, <1>5, <1>6 DEF Holds
<1>7. CASE d # 0
  <2>1. d \in DOMAIN tree /\ tree[d].dirname = <<p[1]>>
    BY <1>4, <1>7
  <2>2. tree[d].files \in Seq(F) /\ UniqueFiles(tree[d].files)
    BY <2>1, FilesType DEF UniqueNames
  <2>3. f \in FindFile(tree[d].files, p[2])
          <=> f.filename = p[2] /\ \E j \in DOMAIN tree[d].files : tree[d].files[j] = f
    BY <2>2, FindFileFinds
  <2>4. Holds(tree, <<p[1]>>, f)
          <=> \E j \in DOMAIN tree[d].files : tree[d].files[j] = f
    BY <2>1 DEF Holds, UniqueNames
  <2>. QED
    BY <1>3, <1>7, <2>3, <2>4
<1>. QED
  BY <1>6, <1>7

(* Another list of files in a directory is all that changes.               *)
LEMMA WithFilesHolds ==
    ASSUME NEW C, NEW F, NEW tree \in TreesOver(C, F), UniqueNames(tree),
           NEW i \in DOMAIN tree, NEW fs, NEW dirname, NEW f
    PROVE  /\ Holds([tree EXCEPT ![i].files = fs], dirname, f)
                <=> IF dirname = tree[i].dirname
                    THEN \E j \in DOMAIN fs : fs[j] = f
                    ELSE Holds(tree, dirname, f)
           /\ NoSubdirs(tree) => NoSubdirs([tree EXCEPT ![i].files = fs])
<1> DEFINE new == [tree EXCEPT ![i].files = fs]
<1>1. /\ DOMAIN new = DOMAIN tree
      /\ \A j \in DOMAIN tree \ {i} : new[j] = tree[j]
      /\ new[i].dirname = tree[i].dirname /\ new[i].files = fs
      /\ new[i].subdirs = tree[i].subdirs
  <2>1. tree[i] \in DirsOver(C, F)
    BY FilesType
  <2>2. new[i] = [tree[i] EXCEPT !.files = fs]
    OBVIOUS
  <2>3. /\ new[i].dirname = tree[i].dirname /\ new[i].files = fs
        /\ new[i].subdirs = tree[i].subdirs
    BY <2>1, <2>2 DEF DirsOver
  <2>. QED
    BY <2>3
<1> HIDE DEF new
<1>2. Holds(new, dirname, f)
        <=> IF dirname = tree[i].dirname
            THEN \E j \in DOMAIN fs : fs[j] = f
            ELSE Holds(tree, dirname, f)
  <2>1. CASE dirname = tree[i].dirname
    <3>1. \A j \in DOMAIN new : new[j].dirname = dirname => j = i
      BY <1>1, <2>1 DEF UniqueNames
    <3>. QED
      BY <1>1, <2>1, <3>1 DEF Holds
  <2>2. CASE dirname # tree[i].dirname
    BY <1>1, <2>2 DEF Holds
  <2>. QED
    BY <2>1, <2>2
<1>3. NoSubdirs(tree) => NoSubdirs(new)
  BY <1>1 DEF NoSubdirs
<1>. QED
  BY <1>2, <1>3 DEF new

(* add_file adds the entry to the directory of the parent's name, and      *)
(* nothing else; below the root it refuses a name that is there.           *)
LEMMA AddFileHolds ==
    ASSUME NEW C, NEW F, RootDir \in Seq(C), NEW tree \in TreesOver(C, F),
           NEW parent \in Seq(C), NEW entry \in F,
           UniqueNames(tree), ~AddFileFails(tree, parent, entry)
    PROVE  /\ \A dirname, f :
                 Holds(AddFile(tree, parent, entry), dirname, f)
                   <=> \/ Holds(tree, dirname, f)
                       \/ dirname = ParentDir(parent) /\ f = entry
           /\ NoSubdirs(tree) => NoSubdirs(AddFile(tree, parent, entry))
           /\ parent \notin {<<>>, RootDir} =>
                 \A f : Holds(tree, parent, f) => f.filename # entry.filename
<1> DEFINE d == ParentDir(parent)
           i == DirIndex(tree, d)
           fs == tree[i].files
<1>1. \/ i = 0 /\ \A j \in DOMAIN tree : tree[j].dirname # d
      \/ i \in DOMAIN tree /\ tree[i].dirname = d
  BY DirIndexFinds
<1>2. AddFile(tree, parent, entry)
         = IF i = 0 THEN Append(tree, NewDir(d, entry))
                    ELSE [tree EXCEPT ![i].files = Append(fs, entry)]
  BY DEF AddFile
<1>3. parent # <<>> => d = parent
  BY DEF ParentDir
<1>4. i # 0 /\ parent # <<>> => FileIndex(fs, entry.filename) = 0
  BY <1>3 DEF AddFileFails
<1>0. DOMAIN tree = 1 .. Len(tree) /\ Len(tree) \in Nat
  BY DEF TreesOver
<1> HIDE DEF d, i
<1>5. CASE i = 0
  <2> DEFINE new == Append(tree, NewDir(d, entry))
  <2>1. /\ DOMAIN new = 1 .. Len(tree) + 1
        /\ \A j \in 1 .. Len(tree) : new[j] = tree[j]
        /\ new[Len(tree) + 1] = NewDir(d, entry)
    BY DEF TreesOver
  <2>2. /\ NewDir(d, entry).dirname = d
        /\ NewDir(d, entry).files = <<entry>>
        /\ NewDir(d, entry).subdirs = <<>>
    BY DEF NewDir
  <2>3. \A f : (\E j \in DOMAIN <<entry>> : <<entry>>[j] = f) <=> f = entry
    OBVIOUS
  <2> HIDE DEF new
  <2>4. \A dirname, f : Holds(new, dirname, f)
                           <=> Holds(tree, dirname, f) \/ (dirname = d /\ f = entry)
    <3> TAKE dirname, f
    <3>1. ASSUME Holds(new, dirname, f)
          PROVE  Holds(tree, dirname, f) \/ (dirname = d /\ f = entry)
      <4>1. PICK k \in DOMAIN new :
                   /\ new[k].dirname = dirname
                   /\ \E j \in DOMAIN new[k].files : new[k].files[j] = f
        BY <3>1 DEF Holds
      <4>2. CASE k \in 1 .. Len(tree)
        BY <1>0, <2>1, <4>1, <4>2 DEF Holds
      <4>3. CASE k = Len(tree) + 1
        BY <2>1, <2>2, <2>3, <4>1, <4>3
      <4>. QED
        BY <1>0, <2>1, <4>1, <4>2, <4>3
    <3>2. ASSUME Holds(tree, dirname, f) PROVE Holds(new, dirname, f)
      BY <1>0, <2>1, <3>2 DEF Holds
    <3>3. ASSUME dirname = d, f = entry PROVE Holds(new, dirname, f)
      <4>1. Len(tree) + 1 \in DOMAIN new
        BY <1>0, <2>1
      <4>2. /\ new[Len(tree) + 1].dirname = dirname
            /\ \E j \in DOMAIN new[Len(tree) + 1].files :
                  new[Len(tree) + 1].files[j] = f
        BY <2>1, <2>2, <2>3, <3>3
      <4>. QED
        BY <4>1, <4>2 DEF Holds
    <3>. QED
      BY <3>1, <3>2, <3>3
  <2>5. NoSubdirs(tree) => NoSubdirs(new)
    BY <1>0, <2>1, <2>2 DEF NoSubdirs
  <2>6. \A f : ~Holds(tree, d, f)
    BY <1>0, <1>1, <1>5 DEF Holds
  <2>. QED
    BY <1>2, <1>3, <1>5, <2>4, <2>5, <2>6 DEF new, d
<1>6. CASE i # 0
  <2>1. i \in DOMAIN tree /\ tree[i].dirname = d /\ fs \in Seq(F)
    BY <1>1, <1>6, FilesType
  <2> HIDE DEF fs
  <2>2. /\ DOMAIN Append(fs, entry) = 1 .. Len(fs) + 1
        /\ DOMAIN fs = 1 .. Len(fs) /\ Len(fs) \in Nat
        /\ \A j \in 1 .. Len(fs) : Append(fs, entry)[j] = fs[j]
        /\ Append(fs, entry)[Len(fs) + 1] = entry
    BY <2>1
  <2>3. \A f : (\E j \in DOMAIN Append(fs, entry) : Append(fs, entry)[j] = f)
                <=> (\E j \in DOMAIN fs : fs[j] = f) \/ f = entry
    BY <2>2
  <2>4. \A f : Holds(tree, d, f) <=> \E j \in DOMAIN fs : fs[j] = f
    BY <2>1 DEF Holds, UniqueNames, fs
  <2>5. \A dirname, f :
           Holds([tree EXCEPT ![i].files = Append(fs, entry)], dirname, f)
             <=> Holds(tree, dirname, f) \/ (dirname = d /\ f = entry)
    <3> TAKE dirname, f
    <3> DEFINE more == Append(fs, entry)
    <3> HIDE DEF more
    <3>0. Holds([tree EXCEPT ![i].files = more], dirname, f)
            <=> IF dirname = tree[i].dirname
                THEN \E j \in DOMAIN more : more[j] = f
                ELSE Holds(tree, dirname, f)
      BY <2>1, WithFilesHolds
    <3>1. Holds([tree EXCEPT ![i].files = Append(fs, entry)], dirname, f)
            <=> IF dirname = d
                THEN \E j \in DOMAIN Append(fs, entry) : Append(fs, entry)[j] = f
                ELSE Holds(tree, dirname, f)
      BY <2>1, <3>0 DEF more
    <3>2. CASE dirname = d
      BY <2>3, <2>4, <3>1, <3>2
    <3>3. CASE dirname # d
      BY <3>1, <3>3
    <3>. QED
      BY <3>2, <3>3
  <2>6. NoSubdirs(tree) =>
           NoSubdirs([tree EXCEPT ![i].files = Append(fs, entry)])
    BY <2>1, WithFilesHolds
  <2>7. parent # <<>> =>
           \A f : Holds(tree, parent, f) => f.filename # entry.filename
    <3> SUFFICES ASSUME parent # <<>>, NEW f, Holds(tree, parent, f)
                 PROVE  f.filename # entry.filename
      OBVIOUS
    <3>1. \A j \in DOMAIN fs : fs[j].filename # entry.filename
      BY <1>4, <1>6, <2>1, <2>2, FileIndexFinds, SMTT(30) DEF fs
    <3>. QED
      BY <1>3, <2>4, <3>1
  <2>. QED
    BY <1>2, <1>6, <2>5, <2>6, <2>7 DEF d, fs
<1>. QED
  BY <1>5, <1>6

(* remove_file takes one file from the directory it looks in; below the    *)
(* root it is the only one of its name there.                              *)
LEMMA RemoveFileHolds ==
    ASSUME NEW C, NEW F, NEW tree \in TreesOver(C, F), NEW path,
           UniqueNames(tree), ~RemoveFileFails(tree, path)
    PROVE  /\ \A dirname, f : dirname # RemovalDir(path) =>
                 (Holds(RemoveFile(tree, path), dirname, f)
                    <=> Holds(tree, dirname, f))
           /\ RemovalDir(path) # RootDir =>
                 \A f : Holds(RemoveFile(tree, path), RemovalDir(path), f)
                         <=> /\ Holds(tree, RemovalDir(path), f)
                             /\ f.filename # Last(path)
           /\ \E f : Holds(tree, RemovalDir(path), f) /\ f.filename = Last(path)
           /\ NoSubdirs(tree) => NoSubdirs(RemoveFile(tree, path))
<1> DEFINE d == RemovalDir(path)
           name == Last(path)
           i == DirIndex(tree, d)
           fs == tree[i].files
           k == FileIndex(fs, name)
<1>1. i # 0 /\ k # 0
  BY DEF RemoveFileFails
<1>2. i \in DOMAIN tree /\ tree[i].dirname = d
  BY <1>1, DirIndexFinds
<1>3. RemoveFile(tree, path) = [tree EXCEPT ![i].files = RemoveAt(fs, k)]
  BY DEF RemoveFile
<1> HIDE DEF i, d, name
<1>4. fs \in Seq(F) /\ (d # RootDir => UniqueFiles(fs))
  BY <1>2, FilesType DEF UniqueNames
<1>4a. \A f : Holds(tree, d, f) <=> \E j \in DOMAIN fs : fs[j] = f
  BY <1>2 DEF Holds, UniqueNames
<1> HIDE DEF fs
<1>5. k \in 1 .. Len(fs) /\ fs[k].filename = name
  BY <1>1, <1>4, FileIndexFinds
<1> HIDE DEF k
<1>6. UniqueFiles(fs) =>
        \A f : (\E j \in DOMAIN RemoveAt(fs, k) : RemoveAt(fs, k)[j] = f)
               <=> (\E j \in DOMAIN fs : fs[j] = f) /\ f.filename # name
  <2> DEFINE front == SubSeq(fs, 1, k - 1)
             rest == SubSeq(fs, k + 1, Len(fs))
  <2>1. /\ front \in Seq(F) /\ Len(front) = k - 1
        /\ rest \in Seq(F) /\ Len(rest) = Len(fs) - k
        /\ \A j \in 1 .. k - 1 : front[j] = fs[j]
        /\ \A j \in 1 .. Len(fs) - k : rest[j] = fs[k + j]
    BY <1>4, <1>5
  <2>2. RemoveAt(fs, k) = front \o rest
    BY DEF RemoveAt
  <2> HIDE DEF front, rest
  <2>3. /\ DOMAIN (front \o rest) = 1 .. Len(fs) - 1
        /\ \A j \in 1 .. k - 1 : (front \o rest)[j] = front[j]
        /\ \A j \in 1 .. Len(fs) - k : (front \o rest)[k - 1 + j] = rest[j]
    BY <1>4, <1>5, <2>1
  <2>4. DOMAIN fs = 1 .. Len(fs) /\ Len(fs) \in Nat
    BY <1>4
  <2> SUFFICES ASSUME UniqueFiles(fs), NEW f
               PROVE  (\E j \in 1 .. Len(fs) - 1 : (front \o rest)[j] = f)
                        <=> (\E j \in DOMAIN fs : fs[j] = f) /\ f.filename # name
    BY <2>2, <2>3
  <2>5. ASSUME NEW j \in 1 .. Len(fs) - 1, (front \o rest)[j] = f
        PROVE  (\E m \in DOMAIN fs : fs[m] = f) /\ f.filename # name
    <3>1. CASE j < k
      <4>1. fs[j] = f /\ j \in DOMAIN fs /\ j # k /\ k \in DOMAIN fs
        BY <1>5, <2>1, <2>3, <2>4, <2>5, <3>1
      <4>. QED
        BY <1>5, <4>1 DEF UniqueFiles
    <3>2. CASE ~(j < k)
      <4>1. j - (k - 1) \in 1 .. Len(fs) - k /\ k - 1 + (j - (k - 1)) = j
        BY <1>5, <2>4, <3>2
      <4>2. rest[j - (k - 1)] = f
        BY <2>3, <2>5, <4>1
      <4>3. fs[k + (j - (k - 1))] = f
        BY <2>1, <4>1, <4>2
      <4>4. k + (j - (k - 1)) \in DOMAIN fs /\ k + (j - (k - 1)) # k /\ k \in DOMAIN fs
        BY <1>5, <2>4, <4>1
      <4>. QED
        BY <1>5, <4>3, <4>4 DEF UniqueFiles
    <3>. QED
      BY <3>1, <3>2
  <2>6. ASSUME NEW m \in DOMAIN fs, fs[m] = f, f.filename # name
        PROVE  \E j \in 1 .. Len(fs) - 1 : (front \o rest)[j] = f
    <3>1. CASE m < k
      <4>1. m \in 1 .. k - 1 /\ m \in 1 .. Len(fs) - 1
        BY <1>5, <2>4, <3>1
      <4>. QED
        BY <2>1, <2>3, <2>6, <4>1
    <3>2. CASE m > k
      <4>1. m - k \in 1 .. Len(fs) - k /\ k + (m - k) = m
            /\ k - 1 + (m - k) \in 1 .. Len(fs) - 1
        BY <1>5, <2>4, <3>2
      <4>2. (front \o rest)[k - 1 + (m - k)] = f
        BY <2>1, <2>3, <2>6, <4>1
      <4>. QED
        BY <4>1, <4>2
    <3>3. m # k /\ m \in Nat /\ k \in Nat
      BY <1>5, <2>4, <2>6
    <3>4. m < k \/ m > k
      BY <3>3
    <3>. QED
      BY <3>1, <3>2, <3>4, Zenon
  <2>. QED
    BY <2>5, <2>6
<1> DEFINE less == RemoveAt(fs, k)
           new == [tree EXCEPT ![i].files = less]
<1> HIDE DEF less
<1>7. \A dirname, f :
        Holds(new, dirname, f)
          <=> IF dirname = tree[i].dirname
              THEN \E j \in DOMAIN less : less[j] = f
              ELSE Holds(tree, dirname, f)
  BY <1>2, WithFilesHolds
<1>8. NoSubdirs(tree) => NoSubdirs(new)
  BY <1>2, WithFilesHolds
<1>9. Holds(tree, d, fs[k]) /\ fs[k].filename = name
  BY <1>4, <1>4a, <1>5
<1>10. RemoveFile(tree, path) = new
  BY <1>3 DEF less
<1> HIDE DEF new
<1>11. \A dirname, f : dirname # d =>
          (Holds(new, dirname, f) <=> Holds(tree, dirname, f))
  BY <1>2, <1>7
<1>12. d # RootDir =>
          \A f : Holds(new, d, f) <=> Holds(tree, d, f) /\ f.filename # name
  BY <1>2, <1>4, <1>4a, <1>6, <1>7 DEF less
<1>. QED
  BY <1>8, <1>9, <1>10, <1>11, <1>12 DEF d, name

(* No path of more than two components leads anywhere.                     *)
LEMMA ResolveShallow ==
    ASSUME NEW C, NEW F, NEW tree \in TreesOver(C, F), NoSubdirs(tree),
           NEW p \in Seq(C), p # <<>>, ResolvePath(tree, p) # {}
    PROVE  Len(p) \in {1, 2}
<1> SUFFICES ASSUME Len(p) \notin {1, 2} PROVE FALSE
  OBVIOUS
<1>0. Len(p) \in Nat /\ Len(p) > 2
  <2>1. Len(p) \in Nat /\ Len(p) > 0
    OBVIOUS
  <2>2. \A n \in Nat : n > 0 /\ n \notin {1, 2} => n > 2
    OBVIOUS
  <2>. QED
    BY <2>1, <2>2, Zenon
<1> DEFINE dirs == Front(p)
<1>1. 1 \in DOMAIN dirs /\ 2 \in DOMAIN dirs
  <2>1. dirs = SubSeq(p, 1, Len(p) - 1) /\ Len(p) \in Nat /\ Len(p) - 1 >= 2
    BY <1>0 DEF Front
  <2>2. DOMAIN dirs = 1 .. Len(p) - 1
    BY <2>1
  <2>. QED
    BY <2>1, <2>2
<1> HIDE DEF dirs
<1>2. DOMAIN tree = 1 .. Len(tree)
  BY DEF TreesOver
<1>3. \A j \in DOMAIN tree : ToSet(tree[j].subdirs) = {}
  BY DEF NoSubdirs, ToSet
<1>4. DirIndex(tree, <<dirs[1]>>) # 0
        => dirs[2] \notin ToSet(tree[DirIndex(tree, <<dirs[1]>>)].subdirs)
  BY <1>3, DirIndexFinds
<1>5. WalkedDir(tree, dirs) = 0
  <2>1. 2 > 1 /\ 2 - 1 = 1
    OBVIOUS
  <2>. QED
    BY <1>1, <1>4, <2>1 DEF WalkedDir
<1>6. ResolvePath(tree, p) = {}
  <2>1. Len(p) # 1
    BY <1>0
  <2>2. WalkedDir(tree, Front(p)) = 0
    BY <1>5 DEF dirs
  <2>. QED
    BY <2>1, <2>2 DEF ResolvePath
<1>. QED
  BY <1>6

----------------------------------------------------------------------------
(* Concatenated lists.                                                     *)

(* What the recursive function of FlattenSeq is, up to its n-th value.     *)
Unrolls(f, seqs, n) ==
    f = [i \in 1 .. n |-> IF i = 1 THEN seqs[i] ELSE f[i - 1] \o seqs[i]]

LEMMA ArrayIsSeq ==
    ASSUME NEW S, NEW n \in Nat, NEW f \in [1 .. n -> S] PROVE f \in Seq(S)
  OBVIOUS

LEMMA UnrollsExists ==
    ASSUME NEW seqs, NEW n \in Nat PROVE \E f : Unrolls(f, seqs, n)
<1> DEFINE Bad == {m \in Nat : ~\E f : Unrolls(f, seqs, m)}
<1> SUFFICES ASSUME Bad # {} PROVE FALSE
  OBVIOUS
<1>1. Bad \in SUBSET Nat
  OBVIOUS
<1> DEFINE m == Min(Bad)
<1>2. m \in Bad /\ \A k \in Bad : m <= k
  <2> HIDE DEF Bad
  <2>. QED  BY <1>1, MinInSet
<1> HIDE DEF m
<1>3. m \in Nat /\ ~\E f : Unrolls(f, seqs, m)
  BY <1>2
<1>4. CASE m = 0
  <2> DEFINE f == [i \in 1 .. 0 |-> <<>>]
  <2>1. Unrolls(f, seqs, 0)
    BY DEF Unrolls
  <2>. QED  BY <1>3, <1>4, <2>1
<1>5. CASE m # 0
  <2>1. m - 1 \in Nat /\ m - 1 \notin Bad
    BY <1>2, <1>3, <1>5
  <2>2. PICK f : Unrolls(f, seqs, m - 1)
    BY <2>1
  <2> DEFINE g == [i \in 1 .. m |-> IF i < m THEN f[i]
                                   ELSE IF i = 1 THEN seqs[i]
                                   ELSE f[i - 1] \o seqs[i]]
  <2>3. ASSUME NEW i \in 1 .. m
        PROVE  g[i] = IF i = 1 THEN seqs[i] ELSE g[i - 1] \o seqs[i]
    <3>1. CASE i < m
      <4>1. i \in 1 .. m - 1 /\ (i # 1 => i - 1 \in 1 .. m /\ i - 1 < m)
        BY <1>3, <3>1
      <4>2. f[i] = IF i = 1 THEN seqs[i] ELSE f[i - 1] \o seqs[i]
        BY <2>2, <4>1 DEF Unrolls
      <4>. QED
        BY <3>1, <4>1, <4>2
    <3>2. CASE i = m
      <4>1. i # 1 => i - 1 \in 1 .. m /\ i - 1 < m
        BY <1>3, <3>2
      <4>. QED
        BY <3>2, <4>1
    <3>. QED
      BY <1>3, <3>1, <3>2
  <2>4. Unrolls(g, seqs, m)
    BY <2>3 DEF Unrolls
  <2>. QED
    BY <1>3, <2>4
<1>. QED
  BY <1>4, <1>5

LEMMA FlattenUnrolls ==
    ASSUME NEW seqs, Len(seqs) \in Nat, Len(seqs) # 0
    PROVE  \E f : Unrolls(f, seqs, Len(seqs)) /\ FlattenSeq(seqs) = f[Len(seqs)]
<1> DEFINE f == CHOOSE f : Unrolls(f, seqs, Len(seqs))
<1>1. Unrolls(f, seqs, Len(seqs))
  BY UnrollsExists
<1>2. FlattenSeq(seqs) = f[Len(seqs)]
  BY DEF FlattenSeq, Unrolls
<1>. QED
  BY <1>1, <1>2

LEMMA FlattenType ==
    ASSUME NEW S, NEW seqs \in Seq(Seq(S))
    PROVE  FlattenSeq(seqs) \in Seq(S)
<1>1. Len(seqs) \in Nat /\ DOMAIN seqs = 1 .. Len(seqs)
  OBVIOUS
<1>2. CASE Len(seqs) = 0
  <2>1. FlattenSeq(seqs) = seqs
    BY <1>2 DEF FlattenSeq
  <2>2. seqs = <<>>
    BY <1>2
  <2>. QED
    BY <2>1, <2>2
<1>3. CASE Len(seqs) # 0
  <2>1. PICK f : /\ Unrolls(f, seqs, Len(seqs))
                 /\ FlattenSeq(seqs) = f[Len(seqs)]
    BY <1>1, <1>3, FlattenUnrolls
  <2>2. \A i \in 1 .. Len(seqs) :
           f[i] = IF i = 1 THEN seqs[i] ELSE f[i - 1] \o seqs[i]
    BY <2>1 DEF Unrolls
  <2> DEFINE Bad == {i \in 1 .. Len(seqs) : f[i] \notin Seq(S)}
  <2>3. ASSUME Bad # {} PROVE FALSE
    <3>1. Bad \in SUBSET Nat
      BY <1>1
    <3> DEFINE m == Min(Bad)
    <3>2. m \in Bad /\ \A k \in Bad : m <= k
      <4> HIDE DEF Bad
      <4>. QED  BY <2>3, <3>1, MinInSet
    <3> HIDE DEF m
    <3>3. m \in 1 .. Len(seqs) /\ f[m] \notin Seq(S) /\ seqs[m] \in Seq(S)
      BY <1>1, <3>2
    <3>4. m # 1
      BY <2>2, <3>3
    <3>5. m - 1 \in 1 .. Len(seqs) /\ ~(m <= m - 1)
      BY <1>1, <3>3, <3>4
    <3>6. f[m - 1] \in Seq(S)
      BY <3>2, <3>5
    <3>7. f[m] = f[m - 1] \o seqs[m]
      BY <2>2, <3>3, <3>4
    <3>. QED
      BY <3>3, <3>6, <3>7
  <2>4. Len(seqs) \in 1 .. Len(seqs)
    BY <1>1, <1>3
  <2>. QED
    BY <2>1, <2>3, <2>4
<1>. QED
  BY <1>2, <1>3

(* What is in a flattened sequence is in one of its parts.                 *)
LEMMA FlattenElement ==
    ASSUME NEW S, NEW seqs \in Seq(Seq(S)), NEW k \in DOMAIN FlattenSeq(seqs)
    PROVE  \E i \in DOMAIN seqs : \E j \in DOMAIN seqs[i] :
              FlattenSeq(seqs)[k] = seqs[i][j]
<1> DEFINE E == {e \in S : \E i \in DOMAIN seqs : \E j \in DOMAIN seqs[i] :
                              e = seqs[i][j]}
<1>1. \A i \in DOMAIN seqs : seqs[i] \in Seq(E)
  <2> SUFFICES ASSUME NEW i \in DOMAIN seqs PROVE seqs[i] \in Seq(E)
    OBVIOUS
  <2>1. seqs[i] \in Seq(S)
    OBVIOUS
  <2>2. Len(seqs[i]) \in Nat /\ DOMAIN seqs[i] = 1 .. Len(seqs[i])
    BY <2>1
  <2>3. \A j \in 1 .. Len(seqs[i]) : seqs[i][j] \in E
    BY <2>1, <2>2
  <2>4. seqs[i] = [j \in 1 .. Len(seqs[i]) |-> seqs[i][j]]
    BY <2>1
  <2> HIDE DEF E
  <2>5. seqs[i] \in [1 .. Len(seqs[i]) -> E]
    BY <2>3, <2>4
  <2>. QED
    BY <2>2, <2>5, ArrayIsSeq
<1> HIDE DEF E
<1>2. seqs \in Seq(Seq(E))
  <2>1. Len(seqs) \in Nat /\ DOMAIN seqs = 1 .. Len(seqs)
        /\ seqs = [i \in 1 .. Len(seqs) |-> seqs[i]]
    OBVIOUS
  <2>2. seqs \in [1 .. Len(seqs) -> Seq(E)]
    BY <1>1, <2>1
  <2>. QED
    BY <2>1, <2>2, ArrayIsSeq
<1>3. FlattenSeq(seqs) \in Seq(E)
  BY <1>2, FlattenType
<1>4. FlattenSeq(seqs)[k] \in E
  BY <1>3
<1>. QED
  BY <1>4 DEF E

(* One more part at the end.                                               *)
LEMMA FlattenAppend ==
    ASSUME NEW S, NEW seqs \in Seq(Seq(S)), NEW s \in Seq(S)
    PROVE  FlattenSeq(Append(seqs, s)) = FlattenSeq(seqs) \o s
<1> DEFINE all == Append(seqs, s)
           n == Len(seqs)
<1>1. /\ n \in Nat /\ Len(all) = n + 1
      /\ \A i \in 1 .. n : all[i] = seqs[i]
      /\ all[n + 1] = s
  OBVIOUS
<1> HIDE DEF all, n
<1>2. PICK f : Unrolls(f, all, n + 1) /\ FlattenSeq(all) = f[n + 1]
  BY <1>1, FlattenUnrolls
<1>3. \A i \in 1 .. n + 1 :
         f[i] = IF i = 1 THEN all[i] ELSE f[i - 1] \o all[i]
  BY <1>2 DEF Unrolls
<1>4. CASE n = 0
  <2>1. FlattenSeq(seqs) = seqs /\ seqs = <<>>
    BY <1>4 DEF FlattenSeq, n
  <2>2. FlattenSeq(all) = s
    BY <1>1, <1>2, <1>3, <1>4
  <2>3. <<>> \o s = s
    OBVIOUS
  <2>. QED
    BY <2>1, <2>2, <2>3 DEF all
<1>5. CASE n # 0
  <2>1. PICK g : Unrolls(g, seqs, n) /\ FlattenSeq(seqs) = g[n]
    BY <1>1, <1>5, FlattenUnrolls DEF n
  <2>2. \A i \in 1 .. n :
           g[i] = IF i = 1 THEN seqs[i] ELSE g[i - 1] \o seqs[i]
    BY <2>1 DEF Unrolls
  <2> DEFINE Bad == {i \in 1 .. n : f[i] # g[i]}
  <2>3. ASSUME Bad # {} PROVE FALSE
    <3>1. Bad \in SUBSET Nat
      BY <1>1
    <3> DEFINE m == Min(Bad)
    <3>2. m \in Bad /\ \A k \in Bad : m <= k
      <4> HIDE DEF Bad
      <4>. QED  BY <2>3, <3>1, MinInSet
    <3> HIDE DEF m
    <3>3. m \in 1 .. n /\ m \in 1 .. n + 1 /\ f[m] # g[m] /\ all[m] = seqs[m]
      BY <1>1, <3>2
    <3>4. m # 1
      BY <1>3, <2>2, <3>3
    <3>5. m - 1 \in 1 .. n /\ ~(m <= m - 1)
      BY <1>1, <3>3, <3>4
    <3>6. f[m - 1] = g[m - 1]
      BY <3>2, <3>5
    <3>. QED
      BY <1>3, <2>2, <3>3, <3>4, <3>6
  <2>4. n \in 1 .. n /\ n + 1 \in 1 .. n + 1 /\ n + 1 # 1 /\ n + 1 - 1 = n
    BY <1>1, <1>5
  <2>5. f[n] = g[n]
    BY <2>3, <2>4
  <2>6. f[n + 1] = f[n] \o all[n + 1]
    <3> HIDE DEF Bad
    <3>1. ASSUME NEW k \in 1 .. n + 1, k # 1 PROVE f[k] = f[k - 1] \o all[k]
      BY <1>3, <3>1
    <3> DEFINE j == n + 1
    <3>2. j \in 1 .. n + 1 /\ j # 1 /\ j - 1 = n
      BY <2>4
    <3> HIDE DEF j
    <3>3. f[j] = f[j - 1] \o all[j]
      BY <3>1, <3>2
    <3>. QED
      BY <3>2, <3>3 DEF j
  <2>7. FlattenSeq(all) = g[n] \o s
    BY <1>1, <1>2, <2>5, <2>6
  <2>. QED
    BY <2>1, <2>7 DEF all
<1>. QED
  BY <1>4, <1>5

----------------------------------------------------------------------------
(* Places in the tree: a path leads to the first file of its name, and     *)
(* what is added or removed besides it does not come before it.            *)

(* iter().find returns the first match.                                    *)
LEMMA FirstFile ==
    ASSUME NEW F, NEW files \in Seq(F), NEW name
    PROVE  /\ FileIndex(files, name) # 0 =>
                 \A j \in DOMAIN files : files[j].filename = name =>
                     FileIndex(files, name) <= j
           /\ \A m \in DOMAIN files :
                 /\ files[m].filename = name
                 /\ \A j \in DOMAIN files : j < m => files[j].filename # name
                 => FileIndex(files, name) = m
<1> DEFINE I == {i \in 1..Len(files) : files[i].filename = name}
<1>1. FileIndex(files, name) = IF I # {} THEN Min(I) ELSE 0
  BY DEF FileIndex, SelectInSeq
<1>2. DOMAIN files = 1..Len(files) /\ Len(files) \in Nat
  OBVIOUS
<1>3. I \in SUBSET Nat
  OBVIOUS
<1>4. I # {} => Min(I) \in I /\ \A i \in I : Min(I) <= i
  <2> HIDE DEF I
  <2>. QED  BY MinInSet, <1>3
<1>5. ASSUME NEW m \in DOMAIN files, files[m].filename = name,
             \A j \in DOMAIN files : j < m => files[j].filename # name
      PROVE  FileIndex(files, name) = m
  <2>1. m \in I
    BY <1>2, <1>5
  <2> DEFINE n == Min(I)
  <2>2. n \in I /\ n <= m
    BY <1>4, <2>1
  <2> HIDE DEF n
  <2>3. ~(n < m)
    BY <1>2, <1>5, <2>2
  <2>4. n = m
    BY <1>2, <2>1, <2>2, <2>3
  <2>. QED
    BY <1>1, <2>1, <2>4 DEF n
<1>6. ASSUME FileIndex(files, name) # 0, NEW j \in DOMAIN files,
             files[j].filename = name
      PROVE  FileIndex(files, name) <= j
  <2>1. j \in I
    BY <1>2, <1>6
  <2>. QED
    BY <1>1, <1>4, <2>1
<1>. QED
  BY <1>5, <1>6

LEMMA FirstFileIs ==
    ASSUME NEW F, NEW files \in Seq(F), NEW name,
           NEW m \in DOMAIN files, files[m].filename = name,
           \A j \in DOMAIN files : j < m => files[j].filename # name
    PROVE  FileIndex(files, name) = m
<1>. QED
  BY FirstFile

LEMMA FirstDir ==
    ASSUME NEW C, NEW F, NEW tree \in TreesOver(C, F), NEW dirname
    PROVE  /\ DirIndex(tree, dirname) # 0 =>
                 \A j \in DOMAIN tree : tree[j].dirname = dirname =>
                     DirIndex(tree, dirname) <= j
           /\ \A m \in DOMAIN tree :
                 /\ tree[m].dirname = dirname
                 /\ \A j \in DOMAIN tree : j < m => tree[j].dirname # dirname
                 => DirIndex(tree, dirname) = m
<1> DEFINE I == {i \in 1..Len(tree) : tree[i].dirname = dirname}
<1>1. DirIndex(tree, dirname) = IF I # {} THEN Min(I) ELSE 0
  BY DEF DirIndex, SelectInSeq
<1>2. DOMAIN tree = 1..Len(tree) /\ Len(tree) \in Nat
  BY DEF TreesOver
<1>3. I \in SUBSET Nat
  OBVIOUS
<1>4. I # {} => Min(I) \in I /\ \A i \in I : Min(I) <= i
  <2> HIDE DEF I
  <2>. QED  BY MinInSet, <1>3
<1>5. ASSUME NEW m \in DOMAIN tree, tree[m].dirname = dirname,
             \A j \in DOMAIN tree : j < m => tree[j].dirname # dirname
      PROVE  DirIndex(tree, dirname) = m
  <2>1. m \in I
    BY <1>2, <1>5
  <2> DEFINE n == Min(I)
  <2>2. n \in I /\ n <= m
    BY <1>4, <2>1
  <2> HIDE DEF n
  <2>3. ~(n < m)
    BY <1>2, <1>5, <2>2
  <2>4. n = m
    BY <1>2, <2>1, <2>2, <2>3
  <2>. QED
    BY <1>1, <2>1, <2>4 DEF n
<1>6. ASSUME DirIndex(tree, dirname) # 0, NEW j \in DOMAIN tree,
             tree[j].dirname = dirname
      PROVE  DirIndex(tree, dirname) <= j
  <2>1. j \in I
    BY <1>2, <1>6
  <2>. QED
    BY <1>1, <1>4, <2>1
<1>. QED
  BY <1>5, <1>6

LEMMA FirstDirIs ==
    ASSUME NEW C, NEW F, NEW tree \in TreesOver(C, F), NEW dirname,
           NEW m \in DOMAIN tree, tree[m].dirname = dirname,
           \A j \in DOMAIN tree : j < m => tree[j].dirname # dirname
    PROVE  DirIndex(tree, dirname) = m
<1>. QED
  BY FirstDir

LEMMA SameDirIndex ==
    ASSUME NEW C, NEW F, NEW tree \in TreesOver(C, F),
           NEW new \in TreesOver(C, F), DOMAIN new = DOMAIN tree,
           \A j \in DOMAIN tree : new[j].dirname = tree[j].dirname, NEW dirname
    PROVE  DirIndex(new, dirname) = DirIndex(tree, dirname)
<1> DEFINE I(t) == {i \in 1..Len(t) : t[i].dirname = dirname}
<1>1. /\ DOMAIN tree = 1 .. Len(tree) /\ Len(tree) \in Nat
      /\ DOMAIN new = 1 .. Len(new) /\ Len(new) \in Nat
  BY DEF TreesOver
<1>2. I(new) = I(tree)
  BY <1>1
<1>3. /\ DirIndex(tree, dirname) = IF I(tree) # {} THEN Min(I(tree)) ELSE 0
      /\ DirIndex(new, dirname) = IF I(new) # {} THEN Min(I(new)) ELSE 0
  BY DEF DirIndex, SelectInSeq
<1> HIDE DEF I
<1>. QED
  BY <1>2, <1>3

WithFiles(tree, i, fs) == [tree EXCEPT ![i].files = fs]

(* Another list of files moves no directory.                               *)
LEMMA WithFilesPlaces ==
    ASSUME NEW C, NEW F, NEW tree \in TreesOver(C, F), NEW i \in DOMAIN tree,
           NEW fs \in Seq(F)
    PROVE  /\ WithFiles(tree, i, fs) \in TreesOver(C, F)
           /\ DOMAIN WithFiles(tree, i, fs) = DOMAIN tree
           /\ WithFiles(tree, i, fs)[i].files = fs
           /\ \A j \in DOMAIN tree \ {i} : WithFiles(tree, i, fs)[j] = tree[j]
           /\ \A d : DirIndex(WithFiles(tree, i, fs), d) = DirIndex(tree, d)
<1> DEFINE new == WithFiles(tree, i, fs)
<1>1. /\ DOMAIN new = DOMAIN tree
      /\ new[i].files = fs /\ new[i].dirname = tree[i].dirname
      /\ \A j \in DOMAIN tree \ {i} : new[j] = tree[j]
  BY FilesType DEF DirsOver, WithFiles
<1>2. new \in TreesOver(C, F)
  BY WithFilesType DEF WithFiles
<1>3. \A j \in DOMAIN tree : new[j].dirname = tree[j].dirname
  BY <1>1
<1> HIDE DEF new
<1>4. ASSUME NEW d PROVE DirIndex(new, d) = DirIndex(tree, d)
  BY <1>1, <1>2, <1>3, SameDirIndex
<1>. QED
  BY <1>1, <1>2, <1>4 DEF new

(* remove(i) moves the later entries up by one.                            *)
LEMMA RemoveAtPlaces ==
    ASSUME NEW F, NEW fs \in Seq(F), NEW k \in DOMAIN fs
    PROVE  /\ RemoveAt(fs, k) \in Seq(F)
           /\ DOMAIN RemoveAt(fs, k) = 1 .. Len(fs) - 1
           /\ \A j \in 1 .. Len(fs) - 1 :
                 RemoveAt(fs, k)[j] = IF j < k THEN fs[j] ELSE fs[j + 1]
<1> DEFINE front == SubSeq(fs, 1, k - 1)
           rest == SubSeq(fs, k + 1, Len(fs))
<1>1. DOMAIN fs = 1 .. Len(fs) /\ Len(fs) \in Nat /\ k \in 1 .. Len(fs)
  OBVIOUS
<1>2. /\ front \in Seq(F) /\ Len(front) = k - 1
      /\ rest \in Seq(F) /\ Len(rest) = Len(fs) - k
      /\ \A j \in 1 .. k - 1 : front[j] = fs[j]
      /\ \A j \in 1 .. Len(fs) - k : rest[j] = fs[k + j]
  <2>1. /\ front \in Seq(F) /\ Len(front) = k - 1
        /\ \A j \in 1 .. k - 1 : front[j] = fs[j]
    BY <1>1
  <2>2. /\ rest \in Seq(F) /\ Len(rest) = Len(fs) - k
        /\ \A j \in 1 .. Len(fs) - k : rest[j] = fs[k + j]
    BY <1>1
  <2> HIDE DEF front, rest
  <2>. QED
    BY <2>1, <2>2
<1>3. RemoveAt(fs, k) = front \o rest
  BY DEF RemoveAt
<1> HIDE DEF front, rest
<1>4. /\ front \o rest \in Seq(F)
      /\ DOMAIN (front \o rest) = 1 .. Len(fs) - 1
      /\ \A j \in 1 .. k - 1 : (front \o rest)[j] = front[j]
      /\ \A j \in 1 .. Len(fs) - k : (front \o rest)[k - 1 + j] = rest[j]
  <2>1. k - 1 + (Len(fs) - k) = Len(fs) - 1
    BY <1>1
  <2>2. /\ front \o rest \in Seq(F)
        /\ DOMAIN (front \o rest) = 1 .. Len(front) + Len(rest)
        /\ \A j \in 1 .. Len(front) : (front \o rest)[j] = front[j]
        /\ \A j \in 1 .. Len(rest) :
              (front \o rest)[Len(front) + j] = rest[j]
    <3>1. front \in Seq(F) /\ rest \in Seq(F)
      BY <1>2
    <3>2. front \o rest \in Seq(F)
      BY <3>1
    <3>3. DOMAIN (front \o rest) = 1 .. Len(front) + Len(rest)
      BY <3>1
    <3>4. \A j \in 1 .. Len(front) : (front \o rest)[j] = front[j]
      BY <3>1
    <3>5. \A j \in 1 .. Len(rest) :
              (front \o rest)[Len(front) + j] = rest[j]
      BY <3>1
    <3>. QED
      BY <3>2, <3>3, <3>4, <3>5
  <2>3. Len(front) = k - 1 /\ Len(rest) = Len(fs) - k
    BY <1>2
  <2>. QED
    BY <2>1, <2>2, <2>3, Zenon
<1>5. ASSUME NEW j \in 1 .. Len(fs) - 1
      PROVE  (front \o rest)[j] = IF j < k THEN fs[j] ELSE fs[j + 1]
  <2>1. CASE j < k
    <3>1. j \in 1 .. k - 1
      BY <1>1, <2>1
    <3>. QED
      BY <1>2, <1>4, <2>1, <3>1
  <2>2. CASE ~(j < k)
    <3> DEFINE m == j - (k - 1)
    <3>1. m \in 1 .. Len(fs) - k /\ k - 1 + m = j /\ k + m = j + 1
      BY <1>1, <2>2
    <3> HIDE DEF m
    <3>2. (front \o rest)[k - 1 + m] = rest[m] /\ rest[m] = fs[k + m]
      BY <1>2, <1>4, <3>1
    <3>. QED
      BY <2>2, <3>1, <3>2
  <2>. QED
    BY <2>1, <2>2
<1>. QED
  BY <1>3, <1>4, <1>5

(* A path of two components is looked for in the directory of the first.   *)
LEMMA ResolveBelow ==
    ASSUME NEW tree, NEW C, NEW p \in Seq(C), Len(p) = 2
    PROVE  LET d == DirIndex(tree, <<p[1]>>)
           IN  ResolvePath(tree, p)
                 = IF d = 0 THEN {} ELSE FindFile(tree[d].files, p[2])
<1>1. /\ Front(p) \in Seq(C) /\ Len(Front(p)) = 1 /\ Front(p)[1] = p[1]
      /\ DOMAIN Front(p) = {1} /\ Last(p) = p[2]
  <2>1. SubSeq(p, 1, 1) \in Seq(C) /\ Len(SubSeq(p, 1, 1)) = 1
        /\ SubSeq(p, 1, 1)[1] = p[1]
    OBVIOUS
  <2>. QED
    BY <2>1 DEF Front, Last
<1> DEFINE d == DirIndex(tree, <<p[1]>>)
<1>2. WalkedDir(tree, Front(p)) = IF d # 0 THEN d ELSE 0
  BY <1>1 DEF WalkedDir
<1> HIDE DEF d
<1>3. ResolvePath(tree, p)
        = IF d = 0 THEN {} ELSE FindFile(tree[d].files, p[2])
  BY <1>1, <1>2 DEF ResolvePath
<1>. QED
  BY <1>3 DEF d

(* A path leads to a file of a directory, of the name it ends in.          *)
LEMMA ResolveListed ==
    ASSUME NEW C, NEW F, NEW tree \in TreesOver(C, F),
           NEW p \in Seq(C), p # <<>>, NEW f \in ResolvePath(tree, p)
    PROVE  /\ f \in F /\ f.filename = Last(p)
           /\ \E i \in DOMAIN tree : \E j \in DOMAIN tree[i].files :
                 tree[i].files[j] = f
<1>1. ASSUME NEW files \in Seq(F), NEW name, f \in FindFile(files, name)
      PROVE  /\ f \in F /\ f.filename = name
             /\ \E j \in DOMAIN files : files[j] = f
  <2> DEFINE m == FileIndex(files, name)
  <2>1. \/ m = 0
        \/ m \in DOMAIN files /\ files[m].filename = name
    BY FileIndexFinds
  <2>2. m # 0 /\ f = files[m]
    BY <1>1 DEF FindFile
  <2> HIDE DEF m
  <2>. QED
    BY <2>1, <2>2
<1>2. CASE Len(p) = 1
  <2> DEFINE lists == [i \in DOMAIN tree |-> tree[i].files]
  <2>1. DOMAIN tree = 1 .. Len(tree) /\ Len(tree) \in Nat
    BY DEF TreesOver
  <2>2. lists \in Seq(Seq(F))
    <3>1. lists \in [1 .. Len(tree) -> Seq(F)]
      BY <2>1, FilesType
    <3> HIDE DEF lists
    <3>. QED
      BY <2>1, <3>1, ArrayIsSeq
  <2>3. AllFiles(tree) = FlattenSeq(lists)
    BY DEF AllFiles
  <2>4. FlattenSeq(lists) \in Seq(F)
    BY <2>2, FlattenType
  <2>5. f \in FindFile(FlattenSeq(lists), p[1]) /\ Last(p) = p[1]
    BY <1>2, <2>3 DEF ResolvePath, Last
  <2>6. /\ f \in F /\ f.filename = p[1]
        /\ \E k \in DOMAIN FlattenSeq(lists) : FlattenSeq(lists)[k] = f
    BY <1>1, <2>4, <2>5
  <2>7. \E i \in DOMAIN lists : \E j \in DOMAIN lists[i] : lists[i][j] = f
    BY <2>2, <2>6, FlattenElement
  <2>. QED
    BY <2>5, <2>6, <2>7
<1>3. CASE Len(p) # 1
  <2> DEFINE d == WalkedDir(tree, Front(p))
  <2>1. d # 0 /\ f \in FindFile(tree[d].files, Last(p))
    BY <1>3 DEF ResolvePath
  <2>2. d \in DOMAIN tree
    <3> DEFINE e == DirIndex(tree, <<Front(p)[Len(Front(p))]>>)
    <3>1. d = e
      BY <2>1 DEF WalkedDir
    <3>. QED
      BY <2>1, <3>1, DirIndexFinds
  <2> HIDE DEF d
  <2>3. tree[d].files \in Seq(F)
    BY <2>2, FilesType
  <2>. QED
    BY <1>1, <2>1, <2>2, <2>3
<1>. QED
  BY <1>2, <1>3

(* One more file goes behind the others of its directory.                  *)
LEMMA AddFilePlaces ==
    ASSUME NEW C, NEW F, RootDir \in Seq(C), NEW tree \in TreesOver(C, F),
           NEW parent \in Seq(C), NEW entry \in F,
           NEW new, new = AddFile(tree, parent, entry)
    PROVE  \/ \E i \in DOMAIN tree :
                 new = WithFiles(tree, i, Append(tree[i].files, entry))
           \/ new = Append(tree, NewDir(ParentDir(parent), entry))
<1> DEFINE i == DirIndex(tree, ParentDir(parent))
<1>1. \/ i = 0
      \/ i \in DOMAIN tree
  BY DirIndexFinds
<1>2. AddFile(tree, parent, entry)
        = IF i = 0
          THEN Append(tree, NewDir(ParentDir(parent), entry))
          ELSE WithFiles(tree, i, Append(tree[i].files, entry))
  BY DEF AddFile, WithFiles
<1> HIDE DEF i
<1>. QED
  BY <1>1, <1>2

LEMMA AddFileResolves ==
    ASSUME NEW C, NEW F, RootDir \in Seq(C), NEW tree \in TreesOver(C, F),
           NEW parent \in Seq(C), NEW entry \in F,
           NEW new, new = AddFile(tree, parent, entry),
           NEW p \in Seq(C), Len(p) = 2, NEW f \in ResolvePath(tree, p)
    PROVE  f \in ResolvePath(new, p)
<1> DEFINE d == DirIndex(tree, <<p[1]>>)
           m == FileIndex(tree[d].files, p[2])
<1>1. d # 0 /\ f \in FindFile(tree[d].files, p[2])
  BY ResolveBelow
<1>2. m # 0 /\ f = tree[d].files[m]
  BY <1>1 DEF FindFile
<1>3. /\ d \in DOMAIN tree /\ tree[d].dirname = <<p[1]>>
      /\ \A j \in DOMAIN tree : tree[j].dirname = <<p[1]>> => d <= j
  <2>1. d \in DOMAIN tree /\ tree[d].dirname = <<p[1]>>
    BY <1>1, DirIndexFinds
  <2>2. \A j \in DOMAIN tree : tree[j].dirname = <<p[1]>> => d <= j
    BY <1>1, FirstDir
  <2> HIDE DEF d
  <2>. QED
    BY <2>1, <2>2
<1> HIDE DEF d
<1>4. tree[d].files \in Seq(F)
  BY <1>3, FilesType
<1>5. /\ m \in DOMAIN tree[d].files /\ tree[d].files[m].filename = p[2]
      /\ \A j \in DOMAIN tree[d].files :
            tree[d].files[j].filename = p[2] => m <= j
  BY <1>2, <1>4, FileIndexFinds, FirstFile
<1> HIDE DEF m
<1>6. new \in TreesOver(C, F)
  BY AddFileType
<1> SUFFICES ASSUME TRUE
             PROVE  /\ DirIndex(new, <<p[1]>>) = d
                    /\ FileIndex(new[d].files, p[2]) = m
                    /\ new[d].files[m] = f
  <2>1. d # 0 /\ m # 0
    BY <1>1, <1>2
  <2>. QED
    BY <2>1, ResolveBelow DEF FindFile
<1>7. CASE \E i \in DOMAIN tree :
              new = WithFiles(tree, i, Append(tree[i].files, entry))
  <2>1. PICK i \in DOMAIN tree :
               new = WithFiles(tree, i, Append(tree[i].files, entry))
    BY <1>7
  <2>2. tree[i].files \in Seq(F) /\ Append(tree[i].files, entry) \in Seq(F)
    BY FilesType
  <2>3. /\ DirIndex(new, <<p[1]>>) = d
        /\ new[d].files = IF d = i THEN Append(tree[i].files, entry)
                                   ELSE tree[d].files
    <3>1. /\ \A e : DirIndex(new, e) = DirIndex(tree, e)
          /\ new[i].files = Append(tree[i].files, entry)
          /\ \A j \in DOMAIN tree \ {i} : new[j] = tree[j]
      <4> DEFINE more == Append(tree[i].files, entry)
      <4>1. more \in Seq(F) /\ new = WithFiles(tree, i, more)
        BY <2>1, <2>2
      <4> HIDE DEF more
      <4>2. /\ \A e : DirIndex(new, e) = DirIndex(tree, e)
            /\ new[i].files = more
            /\ \A j \in DOMAIN tree \ {i} : new[j] = tree[j]
        BY <4>1, WithFilesPlaces
      <4>. QED
        BY <4>2 DEF more
    <3>. QED
      BY <1>3, <3>1 DEF d
  <2>4. CASE d = i
    <3> DEFINE fs == tree[i].files
               more == Append(fs, entry)
    <3>1. /\ DOMAIN fs \subseteq DOMAIN more /\ DOMAIN fs \subseteq Nat
          /\ DOMAIN more \subseteq Nat
          /\ \A j \in DOMAIN fs : more[j] = fs[j]
          /\ \A j \in DOMAIN more \ DOMAIN fs : \A k \in DOMAIN fs : k < j
      BY <2>2
    <3>2. more \in Seq(F)
      BY <2>2
    <3>3. /\ m \in DOMAIN fs /\ fs[m].filename = p[2]
          /\ \A j \in DOMAIN fs : fs[j].filename = p[2] => m <= j
      BY <1>5, <2>4
    <3> HIDE DEF fs, more
    <3>4. m \in DOMAIN more /\ more[m] = fs[m]
      BY <3>1, <3>3
    <3>5. ASSUME NEW j \in DOMAIN more, j < m PROVE more[j].filename # p[2]
      <4>1. j \in Nat /\ m \in Nat /\ ~(m <= j) /\ ~(m < j)
        BY <3>1, <3>3, <3>5
      <4>2. j \in DOMAIN fs
        BY <3>1, <3>3, <4>1
      <4>. QED
        BY <3>1, <3>3, <4>1, <4>2
    <3>6. FileIndex(more, p[2]) = m
      BY <3>2, <3>3, <3>4, <3>5, FirstFileIs
    <3>. QED
      BY <1>2, <2>3, <2>4, <3>4, <3>6 DEF more, fs
  <2>5. CASE d # i
    BY <1>2, <2>3, <2>5 DEF m
  <2>. QED
    BY <2>4, <2>5
<1>8. CASE new = Append(tree, NewDir(ParentDir(parent), entry))
  <2>1. /\ DOMAIN tree \subseteq DOMAIN new /\ DOMAIN tree \subseteq Nat
        /\ DOMAIN new \subseteq Nat
        /\ \A j \in DOMAIN tree : new[j] = tree[j]
        /\ \A j \in DOMAIN new \ DOMAIN tree : \A k \in DOMAIN tree : k < j
    <3>1. tree \in Seq(DirsOver(C, F))
      BY DEF TreesOver
    <3>. QED
      BY <1>8, <3>1
  <2>2. d \in DOMAIN new /\ new[d] = tree[d]
    BY <1>3, <2>1
  <2>3. ASSUME NEW j \in DOMAIN new, j < d PROVE new[j].dirname # <<p[1]>>
    <3>1. j \in Nat /\ d \in Nat /\ ~(d <= j) /\ ~(d < j)
      BY <1>3, <2>1, <2>3
    <3>2. j \in DOMAIN tree
      BY <1>3, <2>1, <3>1
    <3>. QED
      BY <1>3, <2>1, <3>1, <3>2
  <2>4. DirIndex(new, <<p[1]>>) = d
    <3>1. d \in DOMAIN new /\ new[d].dirname = <<p[1]>>
      BY <1>3, <2>2
    <3>. QED
      BY <1>6, <2>3, <3>1, FirstDirIs, SMTT(30)
  <2>. QED
    BY <1>2, <2>2, <2>4 DEF m
<1>9. \/ \E i \in DOMAIN tree :
            new = WithFiles(tree, i, Append(tree[i].files, entry))
      \/ new = Append(tree, NewDir(ParentDir(parent), entry))
  BY AddFilePlaces
<1>. QED
  BY <1>7, <1>8, <1>9

(* What remove_file takes away, and where.                                 *)
RemovedDir(tree, path) == DirIndex(tree, RemovalDir(path))
RemovedPlace(tree, path) ==
    FileIndex(tree[RemovedDir(tree, path)].files, Last(path))

LEMMA RemoveFilePlaces ==
    ASSUME NEW C, NEW F, NEW tree \in TreesOver(C, F), NEW path,
           ~RemoveFileFails(tree, path),
           NEW i, i = RemovedDir(tree, path),
           NEW k, k = RemovedPlace(tree, path),
           NEW fs, fs = tree[i].files
    PROVE  /\ i \in DOMAIN tree /\ tree[i].dirname = RemovalDir(path)
           /\ fs \in Seq(F) /\ k \in DOMAIN fs /\ fs[k].filename = Last(path)
           /\ k = FileIndex(fs, Last(path))
           /\ RemoveAt(fs, k) \in Seq(F)
           /\ RemoveFile(tree, path) = WithFiles(tree, i, RemoveAt(fs, k))
<1>1. i # 0 /\ k # 0 /\ k = FileIndex(fs, Last(path))
  BY DEF RemoveFileFails, RemovedDir, RemovedPlace
<1>2. i \in DOMAIN tree /\ tree[i].dirname = RemovalDir(path)
  BY <1>1, DirIndexFinds DEF RemovedDir
<1>3. fs \in Seq(F)
  BY <1>2, FilesType
<1>4. k \in DOMAIN fs /\ fs[k].filename = Last(path)
  BY <1>1, <1>3, FileIndexFinds
<1>5. RemoveAt(fs, k) \in Seq(F)
  BY <1>3, <1>4, RemoveAtPlaces
<1>6. RemoveFile(tree, path) = WithFiles(tree, i, RemoveAt(fs, k))
  BY DEF RemoveFile, WithFiles, RemovedDir, RemovedPlace
<1>. QED
  BY <1>1, <1>2, <1>3, <1>4, <1>5, <1>6

(* Removing a file hides no other: the path of another file still leads    *)
(* to it.                                                                  *)
LEMMA RemoveFileResolves ==
    ASSUME NEW C, NEW F, NEW tree \in TreesOver(C, F), NEW path,
           ~RemoveFileFails(tree, path),
           NEW i, i = RemovedDir(tree, path),
           NEW k, k = RemovedPlace(tree, path),
           NEW p \in Seq(C), Len(p) = 2, NEW f \in ResolvePath(tree, p)
    PROVE  f = tree[i].files[k] \/ f \in ResolvePath(RemoveFile(tree, path), p)
<1> DEFINE fs == tree[i].files
           less == RemoveAt(fs, k)
           new == RemoveFile(tree, path)
           d == DirIndex(tree, <<p[1]>>)
           m == FileIndex(tree[d].files, p[2])
<1>1. /\ i \in DOMAIN tree
      /\ fs \in Seq(F) /\ k \in DOMAIN fs
      /\ less \in Seq(F) /\ new = WithFiles(tree, i, less)
  BY RemoveFilePlaces
<1>2. /\ DOMAIN less = 1 .. Len(fs) - 1
      /\ \A j \in 1 .. Len(fs) - 1 :
            less[j] = IF j < k THEN fs[j] ELSE fs[j + 1]
  BY <1>1, RemoveAtPlaces
<1>3. d # 0 /\ m # 0 /\ f = tree[d].files[m]
  BY ResolveBelow DEF FindFile
<1>4. d \in DOMAIN tree
  BY <1>3, DirIndexFinds
<1>5. ResolvePath(new, p)
        = LET e == DirIndex(new, <<p[1]>>)
          IN  IF e = 0 THEN {} ELSE FindFile(new[e].files, p[2])
  BY ResolveBelow
<1> HIDE DEF new, less
<1>6. /\ DirIndex(new, <<p[1]>>) = d
      /\ new[i].files = less
      /\ \A j \in DOMAIN tree \ {i} : new[j] = tree[j]
  BY <1>1, WithFilesPlaces
<1>7. ResolvePath(new, p) = FindFile(new[d].files, p[2])
  BY <1>3, <1>5, <1>6
<1> HIDE DEF d
<1>8. CASE d # i
  BY <1>3, <1>4, <1>6, <1>7, <1>8 DEF FindFile, new
<1>9. CASE d = i
  <2>1. /\ m \in DOMAIN fs /\ fs[m].filename = p[2] /\ f = fs[m]
    BY <1>1, <1>3, <1>9, FileIndexFinds
  <2>2. \A j \in DOMAIN fs : fs[j].filename = p[2] => m <= j
    BY <1>1, <1>3, <1>9, FirstFile
  <2> HIDE DEF m
  <2>3. ResolvePath(new, p) = FindFile(less, p[2])
    BY <1>6, <1>7, <1>9
  <2>4. DOMAIN fs = 1 .. Len(fs) /\ Len(fs) \in Nat
    BY <1>1
  <2> DEFINE n == IF m < k THEN m ELSE m - 1
  <2>5. CASE m = k
    BY <1>9, <2>1, <2>5 DEF fs
  <2>6. CASE m # k
    <3>1. n \in DOMAIN less /\ less[n] = fs[m]
      <4>1. CASE m < k
        BY <1>1, <1>2, <2>1, <2>4, <4>1
      <4>2. CASE ~(m < k)
        BY <1>1, <1>2, <2>1, <2>4, <2>6, <4>2
      <4>. QED
        BY <4>1, <4>2
    <3>2. ASSUME NEW j \in DOMAIN less, j < n PROVE less[j].filename # p[2]
      <4>1. CASE j < k
        <5>1. less[j] = fs[j] /\ j \in DOMAIN fs /\ ~(m <= j)
          BY <1>1, <1>2, <2>1, <2>4, <3>2, <4>1
        <5>. QED
          BY <2>2, <5>1
      <4>2. CASE ~(j < k)
        <5>1. /\ less[j] = fs[j + 1] /\ j + 1 \in DOMAIN fs
              /\ ~(m <= j + 1)
          BY <1>1, <1>2, <2>1, <2>4, <3>2, <4>2
        <5>. QED
          BY <2>2, <5>1
      <4>. QED
        BY <4>1, <4>2
    <3> HIDE DEF n
    <3>3. FileIndex(less, p[2]) = n
      <4>1. less \in Seq(F) /\ less[n].filename = p[2]
        BY <1>1, <2>1, <3>1
      <4>. QED
        BY <3>1, <3>2, <4>1, FirstFileIs
    <3>4. n # 0
      BY <1>2, <3>1
    <3>5. f \in FindFile(less, p[2])
      BY <2>1, <3>1, <3>3, <3>4 DEF FindFile
    <3>. QED
      BY <2>3, <3>5 DEF new
  <2>. QED
    BY <2>5, <2>6
<1>. QED
  BY <1>8, <1>9

----------------------------------------------------------------------------
(* Listings.                                                               *)

(* A directory that list_subdirs names is in the tree, below the root.     *)
LEMMA ListedSubdir ==
    ASSUME NEW C, NEW F, NEW tree \in TreesOver(C, F),
           NEW d \in ToSet(ListSubdirs(tree))
    PROVE  d \in Seq(C) /\ d # RootDir
<1> DEFINE names == [i \in DOMAIN tree |->
                        IF tree[i].dirname = RootDir THEN <<>>
                        ELSE <<tree[i].dirname>>]
<1>1. DOMAIN tree = 1 .. Len(tree) /\ Len(tree) \in Nat
  BY DEF TreesOver
<1>2. \A i \in DOMAIN tree : tree[i].dirname \in Seq(C)
  <2>1. \A i \in DOMAIN tree : tree[i] \in DirsOver(C, F)
    BY DEF TreesOver
  <2>. QED
    BY <2>1 DEF DirsOver
<1>3. names \in Seq(Seq(Seq(C)))
  <2>1. \A i \in DOMAIN tree : names[i] \in Seq(Seq(C))
    BY <1>2
  <2>2. names \in [1 .. Len(tree) -> Seq(Seq(C))]
    BY <1>1, <2>1
  <2> HIDE DEF names
  <2>. QED
    BY <1>1, <2>2, ArrayIsSeq
<1>4. ListSubdirs(tree) = FlattenSeq(names)
  BY DEF ListSubdirs
<1>5. PICK k \in DOMAIN FlattenSeq(names) : d = FlattenSeq(names)[k]
  BY <1>4 DEF ToSet
<1>6. PICK i \in DOMAIN names : \E j \in DOMAIN names[i] : d = names[i][j]
  <2> HIDE DEF names
  <2>. QED
    BY <1>3, <1>5, FlattenElement
<1>7. PICK j \in DOMAIN names[i] : d = names[i][j]
  BY <1>6
<1>8. CASE tree[i].dirname = RootDir
  BY <1>7, <1>8
<1>9. CASE tree[i].dirname # RootDir
  <2>1. d = tree[i].dirname
    BY <1>7, <1>9
  <2>. QED
    BY <1>2, <1>9, <2>1
<1>. QED
  BY <1>8, <1>9

(* What a path of a directory below the root and a name looks like.        *)
LEMMA AppendTwo ==
    ASSUME NEW C, NEW s \in Seq(C), NEW x \in C
    PROVE  /\ Append(s, x) \in Seq(C)
           /\ Len(s) = 1 =>
                /\ Len(Append(s, x)) = 2
                /\ Append(s, x)[2] = x
                /\ Append(s, x)[1] = s[1]
<1>1. /\ Append(s, x) \in Seq(C)
      /\ Len(Append(s, x)) = Len(s) + 1
      /\ Append(s, x)[Len(s) + 1] = x
      /\ Len(s) >= 1 => Append(s, x)[1] = s[1]
  OBVIOUS
<1>2. PICK n, p : n = Len(s) /\ p = Append(s, x)
  OBVIOUS
<1>3. /\ p \in Seq(C)
      /\ Len(p) = n + 1
      /\ p[n + 1] = x
      /\ n >= 1 => p[1] = s[1]
  BY <1>1, <1>2
<1>4. n = 1 => Len(p) = 2 /\ p[2] = x /\ p[1] = s[1]
  BY <1>3
<1>5. Append(s, x) \in Seq(C)
  BY <1>1
<1>6. ASSUME Len(s) = 1
      PROVE  /\ Len(Append(s, x)) = 2
             /\ Append(s, x)[2] = x
             /\ Append(s, x)[1] = s[1]
  <2>1. n = 1
    BY <1>2, <1>6, Zenon
  <2>2. Len(p) = 2 /\ p[2] = x /\ p[1] = s[1]
    BY <1>4, <2>1, Zenon
  <2>. QED
    BY <1>2, <2>2, Zenon
<1>. QED
  BY <1>5, <1>6, Zenon

LEMMA SeqIsFunction ==
    ASSUME NEW C, NEW s \in Seq(C) PROVE s \in [1 .. Len(s) -> C]
OBVIOUS

LEMMA SingleShape ==
    ASSUME NEW C, NEW d \in Seq(C), NEW n, n = Len(d), n = 1
    PROVE  d[1] \in C /\ d = <<d[1]>>
<1>0. d \in [1 .. n -> C]
  BY SeqIsFunction, Zenon
<1>1. d \in [1 .. 1 -> C]
  BY <1>0, Zenon
<1>2. d[1] \in C
  BY <1>1
<1>3. <<d[1]>> \in [1 .. 1 -> C]
  BY <1>2
<1>4. \A k \in 1 .. 1 : d[k] = <<d[1]>>[k]
  OBVIOUS
<1>. QED
  BY <1>1, <1>2, <1>3, <1>4

LEMMA PathBelow ==
    ASSUME NEW C, NEW d \in Seq(C), Len(d) = 1, NEW x \in C
    PROVE  /\ Append(d, x) \in Seq(C)
           /\ Len(Append(d, x)) = 2
           /\ Append(d, x)[2] = x
           /\ <<Append(d, x)[1]>> = d
<1>1. PICK n : n = Len(d)
  OBVIOUS
<1>2. n = 1
  BY <1>1, Zenon
<1>3. d = <<d[1]>>
  BY <1>1, <1>2, SingleShape, Zenon
<1>4. PICK p, c : p = Append(d, x) /\ c = d[1]
  OBVIOUS
<1>5. /\ Append(d, x) \in Seq(C)
      /\ Len(d) = 1 =>
            /\ Len(Append(d, x)) = 2
            /\ Append(d, x)[2] = x
            /\ Append(d, x)[1] = d[1]
  BY AppendTwo, ZenonT(60)
<1>6. p \in Seq(C)
  BY <1>4, <1>5, Zenon
<1>7. Len(p) = 2
  BY <1>4, <1>5, Zenon
<1>8. p[2] = x
  BY <1>4, <1>5, Zenon
<1>9. p[1] = c
  BY <1>4, <1>5, Zenon
<1>10. d = <<c>>
  BY <1>3, <1>4, Zenon
<1>. QED
  BY <1>4, <1>6, <1>7, <1>8, <1>9, <1>10, Zenon

LEMMA ListedFile ==
    ASSUME NEW C, NEW F, NEW tree \in TreesOver(C, F),
           NEW d \in Seq(C) \ {<<>>, RootDir},
           NEW f \in ToSet(ListDirectory(tree, d))
    PROVE  f \in F
<1> DEFINE i == DirIndex(tree, d)
<1>1. ListDirectory(tree, d) = IF i = 0 THEN <<>> ELSE tree[i].files
  BY DEF ListDirectory
<1>2. i = 0 \/ i \in DOMAIN tree
  BY DirIndexFinds
<1>3. i # 0
  BY <1>1 DEF ToSet
<1> HIDE DEF i
<1>4. tree[i].files \in Seq(F)
  BY <1>2, <1>3, FilesType
<1>. QED
  BY <1>1, <1>3, <1>4 DEF ToSet

(* What list_directory shows of a directory one level below the root,      *)
(* resolve_path finds there.                                               *)
LEMMA ListedFileResolves ==
    ASSUME NEW C, NEW F, NEW tree \in TreesOver(C, F), UniqueNames(tree),
           \A e \in F : e.filename \in C,
           NEW d, d # RootDir, NEW f \in ToSet(ListDirectory(tree, d)),
           NEW p \in Seq(C), Len(p) = 2, <<p[1]>> = d, p[2] = f.filename
    PROVE  ResolvePath(tree, p) = {f}
<1> DEFINE i == DirIndex(tree, d)
<1>0. d \notin {<<>>, RootDir}
  OBVIOUS
<1>1. ListDirectory(tree, d) = IF i = 0 THEN <<>> ELSE tree[i].files
  BY <1>0 DEF ListDirectory
<1>2. \/ i = 0 /\ \A j \in DOMAIN tree : tree[j].dirname # d
      \/ i \in DOMAIN tree /\ tree[i].dirname = d
  BY DirIndexFinds
<1>3. i # 0
  BY <1>1 DEF ToSet
<1> HIDE DEF i
<1>4. i \in DOMAIN tree /\ tree[i].dirname = d
  BY <1>2, <1>3
<1>5. PICK j \in DOMAIN tree[i].files : f = tree[i].files[j]
  BY <1>1, <1>3 DEF ToSet
<1>6. f \in F /\ f.filename \in C
  BY <1>4, <1>5, FilesType
<1>7. f \in ResolvePath(tree, p)
  <2>1. Holds(tree, d, f)
    BY <1>4, <1>5 DEF Holds
  <2>. QED
    BY <2>1, ResolveFlat
<1>8. \E x : ResolvePath(tree, p) \subseteq {x}
  <2>1. \A files, name : \E x : FindFile(files, name) \subseteq {x}
    BY DEF FindFile
  <2> DEFINE e == DirIndex(tree, <<p[1]>>)
  <2>2. ResolvePath(tree, p)
          = IF e = 0 THEN {} ELSE FindFile(tree[e].files, p[2])
    BY ResolveBelow, Zenon
  <2> HIDE DEF e
  <2>3. CASE e = 0
    BY <2>2, <2>3
  <2>4. CASE e # 0
    <3>1. ResolvePath(tree, p) = FindFile(tree[e].files, p[2])
      BY <2>2, <2>4
    <3>2. PICK x : FindFile(tree[e].files, p[2]) \subseteq {x}
      BY <2>1, Zenon
    <3>. QED
      BY <3>1, <3>2, Zenon
  <2>. QED
    BY <2>3, <2>4
<1>. QED
  BY <1>7, <1>8
=============================================================================
