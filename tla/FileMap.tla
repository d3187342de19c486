------------------------------ MODULE FileMap ------------------------------
(***************************************************************************)
(* What the encrypted directory promises of the files kept one level below *)
(* the root: a map from paths to at most one file each.  A file appears    *)
(* only where there was none (add_file's PathExists), and it disappears    *)
(* only by its own removal or with all the others, when the process starts *)
(* again under a new identity.                                             *)
(***************************************************************************)
CONSTANTS FlatPath, File

VARIABLES
    files,   \* files[p]: {} or {the file at p}
    asked    \* requests under way: a path, and {} or {the file to put there}

Init ==
    /\ files = [p \in FlatPath |-> {}]
    /\ asked = {}

Create(p, f) ==
    /\ [path |-> p, file |-> {f}] \in asked
    /\ files[p] = {}
    /\ files' = [files EXCEPT ![p] = {f}]

Delete(p) ==
    /\ [path |-> p, file |-> {}] \in asked
    /\ files[p] # {}
    /\ files' = [files EXCEPT ![p] = {}]

StartOver == files' = [p \in FlatPath |-> {}]

(* Requests come and go, resolve_path and the listings only read.          *)
Lookup == UNCHANGED files

Next ==
    \/ Lookup
    \/ \E p \in FlatPath : Delete(p) \/ \E f \in File : Create(p, f)
    \/ StartOver

Spec == Init /\ [][Next]_<<files, asked>>
=============================================================================
