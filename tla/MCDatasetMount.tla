-------------------------- MODULE MCDatasetMount ---------------------------
(* Instances of DatasetMount for TLC.                                      *)
EXTENDS DatasetMount
=============================================================================
