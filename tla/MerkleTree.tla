----------------------------- MODULE MerkleTree -----------------------------
(***************************************************************************)
(* The Merkle tree over the shards of a group, of crypto.rs: the loop that *)
(* merkle_root and merkle_proof share, one step per level, and the loop of *)
(* verify_merkle_proof, one step per sibling.  The reference is the tree   *)
(* that is split at the largest power of two below its size, written       *)
(* recursively from the root down; the code goes from the leaves up and    *)
(* hands an odd last hash to the next level as it is.                      *)
(*                                                                         *)
(* BLAKE3 is ideal: bytes with the same hash are the same.  Shards and     *)
(* nodes are hashed alike, with nothing that tells them apart, so a shard  *)
(* which is the 64 bytes of two hashes has the hash of the node above      *)
(* them; ShardData may contain such pairs.  Positions start at 1 where the *)
(* code's start at 0.                                                      *)
(***************************************************************************)
EXTENDS Integers, Sequences

CONSTANTS
    ShardData,     \* the contents of a shard
    MaxShards      \* bound on the shards of a group

ASSUME SizeAssumption == MaxShards \in Nat \ {0}

VARIABLES
    leaves,        \* the shards of the group
    index,         \* the shard that the proof is for
    pc,            \* "build", "prove", "verify" or "done"
    level,         \* the hashes of the level that the loop has come to
    idx,           \* the place on it of the path from the shard to the root
    siblings,      \* the proof's siblings so far, or those still to be hashed
    shard,         \* the shard that is verified
    hash,          \* the hash that verification has come to
    root,          \* the proof's root
    verdict       \* the verdict

merkleVars == <<leaves, index, pc, level, idx, siblings, shard, hash, root, verdict>>

Groups == UNION {[1 .. n -> ShardData] : n \in 1 .. MaxShards}

Hash(bytes) == <<bytes>>
LeafHash(data) == Hash(data)
NodeHash(left, right) == Hash(<<left, right>>)

----------------------------------------------------------------------------
\* As the code would be if it took the chunks of exactly two only.
NextLevelDropsOdd(hashes) ==
    [k \in 1 .. Len(hashes) \div 2 |-> NodeHash(hashes[2 * k - 1], hashes[2 * k])]

(* Chunks of two are hashed together; an odd last hash goes up as it is.   *)
NextLevel(hashes) ==
    [k \in 1 .. (Len(hashes) + 1) \div 2 |->
        IF 2 * k <= Len(hashes)
        THEN NodeHash(hashes[2 * k - 1], hashes[2 * k])
        ELSE hashes[2 * k - 1]]

\* As the code would be if it had no check for a missing right sibling.
SiblingOrSelf(hashes, k) ==
    IF k % 2 = 0 THEN <<hashes[k - 1]>>
    ELSE IF k < Len(hashes) THEN <<hashes[k + 1]>> ELSE <<hashes[k]>>

(* What merkle_proof adds for the hash at place k: an odd last one has no  *)
(* sibling.                                                                *)
Sibling(hashes, k) ==
    IF k % 2 = 0 THEN <<hashes[k - 1]>>
    ELSE IF k < Len(hashes) THEN <<hashes[k + 1]>> ELSE <<>>

MerkleInit ==
    /\ leaves \in Groups
    /\ index \in DOMAIN leaves
    /\ pc = "build"
    /\ level = [i \in DOMAIN leaves |-> LeafHash(leaves[i])]
    /\ idx = index
    /\ siblings = <<>>
    /\ shard \in ShardData
    /\ hash = <<>>
    /\ root = <<>>
    /\ verdict = FALSE

BuildLevel ==
    /\ pc = "build" /\ Len(level) > 1
    /\ siblings' = siblings \o Sibling(level, idx)
    /\ level' = NextLevel(level)
    /\ idx' = (idx + 1) \div 2
    /\ UNCHANGED <<leaves, index, pc, shard, hash, root, verdict>>

Prove ==
    /\ pc = "build" /\ Len(level) = 1
    /\ root' = level[1]
    /\ pc' = "prove"
    /\ UNCHANGED <<leaves, index, level, idx, siblings, shard, hash, verdict>>

StartVerify ==
    /\ pc = "prove"
    /\ hash' = LeafHash(shard)
    /\ pc' = "verify"
    /\ UNCHANGED <<leaves, index, level, idx, siblings, shard, root, verdict>>

(* Each sibling is hashed to the right of what there is.                   *)
VerifySibling ==
    /\ pc = "verify" /\ siblings # <<>>
    /\ hash' = NodeHash(hash, Head(siblings))
    /\ siblings' = Tail(siblings)
    /\ UNCHANGED <<leaves, index, pc, level, idx, shard, root, verdict>>

\* As the code would be if it took a proof without siblings for granted.
VerdictTrustsEmpty ==
    /\ pc = "verify" /\ siblings = <<>>
    /\ verdict' = (hash = root \/ hash = LeafHash(shard))
    /\ pc' = "done"
    /\ UNCHANGED <<leaves, index, level, idx, siblings, shard, hash, root>>

Verdict ==
    /\ pc = "verify" /\ siblings = <<>>
    /\ verdict' = (hash = root)
    /\ pc' = "done"
    /\ UNCHANGED <<leaves, index, level, idx, siblings, shard, hash, root>>

MerkleNext == BuildLevel \/ Prove \/ StartVerify \/ VerifySibling \/ Verdict

MerkleSpec == MerkleInit /\ [][MerkleNext]_merkleVars

----------------------------------------------------------------------------
(* The reference.                                                          *)

(* The largest power of two below n: twice that of half of n, rounded up.  *)
Split[n \in 1 .. MaxShards] == IF n <= 2 THEN 1 ELSE 2 * Split[(n + 1) \div 2]

Left(data) == SubSeq(data, 1, Split[Len(data)])
Right(data) == SubSeq(data, Split[Len(data)] + 1, Len(data))

TreeHash[data \in Groups] ==
    IF Len(data) = 1 THEN LeafHash(data[1])
    ELSE NodeHash(TreeHash[Left(data)], TreeHash[Right(data)])

(* The hashes beside the path from each leaf to the root, from below.      *)
AuditPaths[data \in Groups] ==
    [i \in DOMAIN data |->
        IF Len(data) = 1 THEN <<>>
        ELSE IF i <= Split[Len(data)]
        THEN AuditPaths[Left(data)][i] \o <<TreeHash[Right(data)]>>
        ELSE AuditPaths[Right(data)][i - Split[Len(data)]]
                 \o <<TreeHash[Left(data)]>>]

(* For every number of shards, odd ones included, the loop comes to the    *)
(* root of the reference tree, which no other group of the same size has:  *)
(* one shard of another content, or the same shards in another order, give *)
(* another root.                                                           *)
RootBindsShards ==
    pc = "prove" =>
        \A other \in Groups :
            Len(other) = Len(leaves) =>
                ((TreeHash[other] = root) <=> (other = leaves))

(* The siblings of a proof are the hashes beside the shard's path, each    *)
(* level where the path has no sibling left out.                           *)
ProofIsAuditPath == pc = "prove" => siblings = AuditPaths[leaves][index]

(* What verify_merkle_proof accepts with a proof made for a place is the   *)
(* shard at that place.                                                    *)
AcceptedIsTheShard == pc = "done" /\ verdict => shard = leaves[index]

----------------------------------------------------------------------------
(* "Verify a Merkle proof": the proof of a shard of the group verifies.    *)
EveryProofVerifies == pc = "done" /\ shard = leaves[index] => verdict

(* No other group has the root, of whatever size: not so, the two hashes   *)
(* of one group are a single shard of another.                             *)
RootBindsSize ==
    pc = "prove" => \A other \in Groups : TreeHash[other] = root => other = leaves
=============================================================================
