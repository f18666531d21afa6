---------------------------- MODULE MerkleTree ----------------------------
(***************************************************************************)
(* The Merkle tree of src/state/mod.rs as functions of the leaf list:      *)
(* rebuild_tree's levels and root, generate_merkle_proof's path, and       *)
(* verify_merkle_proof.  Indices are the code's, from 0.                   *)
(***************************************************************************)
EXTENDS MMR

LeafLevel(leaves) == [i \in 1..Len(leaves) |-> LeafHash(leaves[i])]

(* chunks(2); a chunk of one is hashed with itself.                        *)
ParentLevel(level) ==
  [i \in 1..((Len(level) + 1) \div 2) |->
     NodeHash(level[2 * i - 1],
              IF 2 * i <= Len(level) THEN level[2 * i] ELSE level[2 * i - 1])]

(* The levels one after the other, each half of the one below.             *)
Levels(leaves) ==
  LET level[k \in 1..Len(leaves)] ==
        IF k = 1 THEN LeafLevel(leaves) ELSE ParentLevel(level[k - 1])
  IN level

(* tree_levels after rebuild_tree: leaf level first, one-hash level last.  *)
merkle_levels(leaves) ==
  LET depth == Least({k \in 1..Len(leaves) : Len(Levels(leaves)[k]) = 1})
  IN IF leaves = <<>> THEN <<>> ELSE [k \in 1..depth |-> Levels(leaves)[k]]

(* state_root after rebuild_tree.                                          *)
merkle_root(leaves) ==
  LET levels == merkle_levels(leaves)
  IN IF leaves = <<>> THEN ZeroHash ELSE levels[Len(levels)][1]

(* Where the nodes above the leaf at index are in their levels.            *)
Ancestors(levels, index) ==
  LET idx[k \in 1..Len(levels)] == IF k = 1 THEN index ELSE idx[k - 1] \div 2
  IN idx

(* The (sibling, self-is-left) pairs for the leaf at index, bottom up.     *)
merkle_path(levels, index) ==
  [k \in 1..(Len(levels) - 1) |->
     LET idx == Ancestors(levels, index)[k]
         sibling == IF idx % 2 = 1 THEN idx - 1
                    ELSE IF idx + 1 < Len(levels[k]) THEN idx + 1 ELSE idx
     IN [hash |-> levels[k][sibling + 1], is_left |-> idx % 2 = 0]]

(* The hash a verifier has after k steps of the path.                      *)
Climbed(proof) ==
  LET current[k \in 0..Len(proof.path)] ==
        IF k = 0 THEN LeafHash(proof.leaf)
        ELSE IF proof.path[k].is_left
             THEN NodeHash(current[k - 1], proof.path[k].hash)
             ELSE NodeHash(proof.path[k].hash, current[k - 1])
  IN current

verify_merkle_proof(proof) == Climbed(proof)[Len(proof.path)] = proof.root

(* leaves.iter().position(|l| l == key), or NoIndex.                       *)
NoIndex == -1

(* Mutant: the newest leaf is not looked at.                               *)
position_misses_last(leaves, key) ==
  FirstIndex(SubSeq(leaves, 1, Len(leaves) - 1), LAMBDA leaf : leaf = key) - 1

position(leaves, key) == FirstIndex(leaves, LAMBDA leaf : leaf = key) - 1
=============================================================================
