--------------------------- MODULE MCMerkleTree ----------------------------
(* Instances of MerkleTree for TLC.                                        *)
EXTENDS MerkleTree

CONSTANTS a, b     \* two shards of other contents

(* A third shard is the 64 bytes of the hashes of the first two.           *)
MCShardData == {a, b, <<Hash(a), Hash(b)>>}
=============================================================================
