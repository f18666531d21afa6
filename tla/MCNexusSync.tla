---------------------------- MODULE MCNexusSync ----------------------------
(* A chain of three microblocks, the third one empty, and a fork of the     *)
(* second one.                                                              *)
EXTENDS NexusSync

CONSTANTS a, b, c

MCBlocks == {[id |-> "m1", parent |-> "genesis", txs |-> <<a>>],
             [id |-> "m2", parent |-> "m1", txs |-> <<b, c>>],
             [id |-> "m3", parent |-> "m2", txs |-> <<>>],
             [id |-> "m2x", parent |-> "m1", txs |-> <<c>>]}
=============================================================================
