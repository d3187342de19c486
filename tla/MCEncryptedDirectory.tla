------------------------ MODULE MCEncryptedDirectory ------------------------
(* Instances of EncryptedDirectory for TLC.                                *)
EXTENDS EncryptedDirectory, TLC

MCNames == {"_root", "a", "b", "f", "g"}

(* One file name at the root, below a directory and below a nested one,    *)
(* and a second name that collides with none of them.                      *)
MCPaths == {<<"f">>, <<"a", "f">>, <<"a", "g">>, <<"a", "b", "f">>}

(* The shapes the nested and the root lookups need.                        *)
MCShortPaths == {<<"f">>, <<"a", "f">>}

(* The handlers are interchangeable, and so are the contents.              *)
MCSymmetry == Permutations(Clients) \cup Permutations(Uploads)
=============================================================================
