------------------------------ MODULE MCVault ------------------------------
(* Instances of Vault for TLC.                                             *)
EXTENDS Vault, TLC

(* One block inside the first replay window of its file, one beyond it.    *)
MCCounter(G) == CHOOSE f \in [G -> {1, WSize + 2}] :
                   \E g \in G : f[g] = WSize + 2 /\ \A h \in G \ {g} : f[h] = 1

MCGroupCounter == MCCounter(Groups)
=============================================================================
