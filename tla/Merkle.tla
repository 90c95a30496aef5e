-------------------------------- MODULE Merkle --------------------------------
(***************************************************************************)
(* merkle-tree/merkle_tree.py: MerkleTree, for two replicas that compare   *)
(* their trees.                                                            *)
(*                                                                         *)
(* SHA-256 is taken to be injective: a hash is what was hashed.  The array *)
(* of hashes starts at 0, the node of index i has the children 2i+1, 2i+2. *)
(***************************************************************************)
EXTENDS Integers, Sequences, FiniteSets, SequencesExt, FiniteSetsExt

CONSTANTS
    BlockData,      \* data blocks
    EmptyBlock,     \* b"", whose hash pads the leaves
    MaxLeaves       \* bound: leaves

VARIABLES
    merkle          \* the tree of each replica

merkleVars == <<merkle>>

HashOf(d) == <<"leaf", d>>
HashPair(l, r) == <<"node", l, r>>
PaddedSize(n) == Min({p \in {2^k : k \in 0..n} : p >= n})

\* __init__ from the leaves up
Build(blocks) ==
    LET size == PaddedSize(Len(blocks))
        hash[i \in 0..(2 * size - 2)] ==
            IF i >= size - 1
            THEN IF i - size + 1 < Len(blocks) THEN HashOf(blocks[i - size + 2]) ELSE HashOf(EmptyBlock)
            ELSE HashPair(hash[2 * i + 1], hash[2 * i + 2])
    IN  [blocks |-> blocks, size |-> size, hashes |-> hash]

\* The indices above a node, up to the root.
Path[i \in 0..(2 * PaddedSize(MaxLeaves))] ==
    IF i = 0 THEN <<>> ELSE <<(i - 1) \div 2>> \o Path[(i - 1) \div 2]

\* update_leaf rehashes them.
RehashPath_Parent(i) == IF i = 0 THEN <<>> ELSE <<(i - 1) \div 2>>
RehashPath(i) == Path[i]
Rehash(h, i) == [h EXCEPT ![i] = HashPair(h[2 * i + 1], h[2 * i + 2])]
UpdateLeaf(r, i, d) ==
    LET t == merkle[r]
        a == t.size - 1 + i
    IN  /\ i < Len(t.blocks)
        /\ merkle' = [merkle EXCEPT ![r].blocks[i + 1] = d,
                                    ![r].hashes = FoldLeft(Rehash, [@ EXCEPT ![a] = HashOf(d)], RehashPath(a))]

MerkleInit == \E a, b \in BoundedSeq(BlockData, MaxLeaves) : merkle = <<Build(a), Build(b)>>

MerkleNext == \E r \in {1, 2}, i \in 0..(MaxLeaves - 1), d \in BlockData : UpdateLeaf(r, i, d)

MerkleSpec == MerkleInit /\ [][MerkleNext]_merkleVars

(***************************************************************************)
(* Reads                                                                   *)
(***************************************************************************)

\* get_proof: the sibling of every node on the path, with its side
Sibling(t, i) == IF i % 2 = 1 THEN [hash |-> t.hashes[i + 1], side |-> "right"]
                 ELSE [hash |-> t.hashes[i - 1], side |-> "left"]
GetProof(t, i) ==
    LET a    == t.size - 1 + i
        path == Front(<<a>> \o Path[a])
    IN  [leaf |-> t.hashes[a], root |-> t.hashes[0],
         siblings |-> [j \in DOMAIN path |-> Sibling(t, path[j])]]
VerifyProof(d, proof) ==
    LET up(h, s) == IF s.side = "left" THEN HashPair(s.hash, h) ELSE HashPair(h, s.hash)
    IN  HashOf(d) = proof.leaf /\ FoldLeft(up, HashOf(d), proof.siblings) = proof.root

\* diff: down from the root where the hashes differ
Diff(t, u) ==
    LET below[i \in DOMAIN t.hashes] ==
            IF t.hashes[i] = u.hashes[i] THEN {}
            ELSE IF i >= t.size - 1 THEN {i - t.size + 1}
            ELSE below[2 * i + 1] \cup below[2 * i + 2]
    IN  {i \in below[0] : i < Max({Len(t.blocks), Len(u.blocks)})}

(***************************************************************************)
(* Properties                                                              *)
(***************************************************************************)

BlockAt(t, i) == IF i < Len(t.blocks) THEN t.blocks[i + 1] ELSE EmptyBlock

\* After any updates a tree is the one built from its blocks; diff of two trees of
\* one padded size is exactly the leaves whose blocks differ, a missing block
\* counting as an empty one; the proof for a leaf accepts its block and no other.
TreesAgree ==
    /\ \A r \in {1, 2} : merkle[r] = Build(merkle[r].blocks)
    /\ merkle[1].size = merkle[2].size =>
          Diff(merkle[1], merkle[2]) =
             {i \in 0..(MaxLeaves - 1) : BlockAt(merkle[1], i) # BlockAt(merkle[2], i)}
    /\ \A r \in {1, 2} : \A i \in 0..(Len(merkle[r].blocks) - 1) : \A d \in BlockData :
          VerifyProof(d, GetProof(merkle[r], i)) <=> d = merkle[r].blocks[i + 1]
=============================================================================
