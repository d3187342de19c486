------------------------------ MODULE MCDavFs ------------------------------
(* Instances of DavFs for TLC.                                             *)
EXTENDS DavFs, TLC

(* A file below the root, and one of the same name at the root.            *)
MCPaths == {<<"a", "f">>, <<"f">>}

(* One file below the root.                                                *)
MCFlatPath == {<<"a", "f">>}

(* Bodies of one block each.                                               *)
MCOneBlock == [u \in Uploads |-> 1]

(* A body of two blocks and one of one.                                    *)
MCTwoAndOne == [u \in Uploads |-> IF u = 1 THEN 2 ELSE 1]

(* Handlers are alike.                                                     *)
MCSymmetry == Permutations(Clients)
=============================================================================
