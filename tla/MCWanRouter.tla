---------------------------- MODULE MCWanRouter ----------------------------
(* Instances of WanRouter for TLC.                                         *)
EXTENDS WanRouter

(* No peer, some peers in two orders, and more of them.                    *)
MCPeerLists == {<<>>, <<"p">>, <<"p", "q">>, <<"q", "r", "p">>}

(* Node fingerprints are reported as well, and are no peers' names.        *)
MCNames == {"p", "q", "r", "fingerprint"}
=============================================================================
