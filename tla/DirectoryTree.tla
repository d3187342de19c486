--------------------------- MODULE DirectoryTree ---------------------------
(***************************************************************************)
(* The pure part of directory.rs: what each operation of                   *)
(* EncryptedDirectory computes on the in-memory DirectoryTree while it     *)
(* holds the tree's RwLock.                                                *)
(*                                                                         *)
(* A tree is the vector `root` of DirEntry records, in order of creation.  *)
(* A path is the nonempty sequence of its '/'-separated components, and a  *)
(* dirname (a path with its last component cut off, joined again by '/')   *)
(* is the sequence of its components, so that the dirname "a/b" is         *)
(* <<"a", "b">>, one flat name and not a nested directory.  A FileEntry is *)
(* a record with a field `filename`; its other fields are not looked at.   *)
(***************************************************************************)
EXTENDS Naturals, Sequences, SequencesExt

(* The pseudo-directory of the files uploaded without a parent directory.  *)
RootDir == <<"_root">>

(* DirEntry and DirectoryTree, over sets of name components and entries.   *)
DirsOver(C, F) == [dirname : Seq(C), subdirs : Seq(C), files : Seq(F)]

TreesOver(C, F) == Seq(DirsOver(C, F))

NewTree == <<>>

(* Neither add_file nor any other operation ever puts a name in `subdirs`. *)
NewDir(dirname, entry) ==
    [dirname |-> dirname, subdirs |-> <<>>, files |-> <<entry>>]

(* iter().find(...): the first match, 0 when there is none.                *)
DirIndex(tree, dirname) == SelectInSeq(tree, LAMBDA d : d.dirname = dirname)

FileIndex(files, name) == SelectInSeq(files, LAMBDA f : f.filename = name)

(* An Option<FileEntry>: {} is None, {f} is Some(f).                       *)
FindFile(files, name) ==
    LET i == FileIndex(files, name) IN IF i = 0 THEN {} ELSE {files[i]}

AllFiles(tree) == FlattenSeq([i \in DOMAIN tree |-> tree[i].files])

(***************************************************************************)
(* The directory the walk of resolve_path ends in: the first component is  *)
(* looked up by name; every later one must be listed in the subdirs of the *)
(* directory before it and is then looked up by its own name only.         *)
(***************************************************************************)
WalkedDir(tree, dirs) ==
    LET at(k) == DirIndex(tree, <<dirs[k]>>)
    IN  IF \A k \in DOMAIN dirs :
              /\ at(k) # 0
              /\ k > 1 => dirs[k] \in ToSet(tree[at(k - 1)].subdirs)
        THEN at(Len(dirs))
        ELSE 0

(* A path of one component is looked for in every directory of the tree.   *)
ResolvePath(tree, path) ==
    IF Len(path) = 1
    THEN FindFile(AllFiles(tree), path[1])
    ELSE LET d == WalkedDir(tree, Front(path))
         IN  IF d = 0 THEN {} ELSE FindFile(tree[d].files, Last(path))

(* add_file: `parent` is <<>> for "" and "/".                              *)
ParentDir(parent) == IF parent = <<>> THEN RootDir ELSE parent

\* As the code would be without its duplicate check.
AddFileNeverFails(tree, parent, entry) == FALSE

(* Err(PathExists): the root branch pushes without looking for duplicates. *)
AddFileFails(tree, parent, entry) ==
    /\ parent # <<>>
    /\ \E i \in {DirIndex(tree, parent)} \ {0} :
          FileIndex(tree[i].files, entry.filename) # 0

\* As the code would be if it did not look for the existing directory.
AddFileAlwaysNewDir(tree, parent, entry) ==
    Append(tree, NewDir(ParentDir(parent), entry))

AddFile(tree, parent, entry) ==
    LET i == DirIndex(tree, ParentDir(parent))
    IN  IF i = 0
        THEN Append(tree, NewDir(ParentDir(parent), entry))
        ELSE [tree EXCEPT ![i].files = Append(@, entry)]

(* remove_file looks only in the directory of the first component.         *)
RemovalDir(path) == IF Len(path) > 1 THEN <<path[1]>> ELSE RootDir

RemoveFileFails(tree, path) ==
    LET i == DirIndex(tree, RemovalDir(path))
    IN  i = 0 \/ FileIndex(tree[i].files, Last(path)) = 0

\* As the code would be if it removed the file at the wrong position.
RemoveFileOffByOne(tree, path) ==
    LET i == DirIndex(tree, RemovalDir(path))
    IN  [tree EXCEPT ![i].files = Tail(@)]

RemoveFile(tree, path) ==
    LET i == DirIndex(tree, RemovalDir(path))
    IN  [tree EXCEPT ![i].files = RemoveAt(@, FileIndex(@, Last(path)))]

FileCount(tree) == Len(AllFiles(tree))

ListDirectory(tree, dirname) ==
    IF dirname \in {<<>>, RootDir}
    THEN AllFiles(tree)
    ELSE LET i == DirIndex(tree, dirname)
         IN  IF i = 0 THEN <<>> ELSE tree[i].files

(* list_subdirs: every name but that of the pseudo-directory.              *)
ListSubdirs(tree) ==
    FlattenSeq([i \in DOMAIN tree |->
        IF tree[i].dirname = RootDir THEN <<>> ELSE <<tree[i].dirname>>])
=============================================================================
