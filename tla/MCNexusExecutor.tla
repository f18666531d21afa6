-------------------------- MODULE MCNexusExecutor --------------------------
(* Clients and transaction ids are interchangeable.                        *)
EXTENDS NexusExecutor, TLC

Symmetry == Permutations(Clients) \union Permutations(TxIds)
=============================================================================
