------------------------ MODULE MCCheckpointFinality ------------------------
(* Instances of CheckpointFinality for TLC.                                *)
EXTENDS CheckpointFinality, TLC

CONSTANTS a, b, g, h1, h2, h3, h4, NoBlock

OnlyAB == {{a, b}}

InterchangeableBlocks == Permutations(Hashes \ {Genesis})

(* Blocks other than genesis are interchangeable, and so are the nodes of  *)
(* an instance with one validator set and no faulty validator.             *)
Interchangeable ==
    {p @@ q : p \in Permutations(Hashes \ {Genesis}), q \in Permutations(Nodes)}

(* Bound on the blocks of a behaviour: three of any difficulty, or four    *)
(* that were all sealed out of turn (two complete forks of two blocks).    *)
ThreeBlocksOrOutOfTurn ==
    Cardinality(Blocks) <= 4 \/ \A h \in Blocks : hdr[h].td = hdr[h].number

BoundedSpec == Init /\ [][Next /\ ThreeBlocksOrOutOfTurn']_vars
=============================================================================
