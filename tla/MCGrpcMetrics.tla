-------------------------- MODULE MCGrpcMetrics ---------------------------
(* GrpcMetrics for TLC: clients are interchangeable.                       *)
EXTENDS GrpcMetrics, TLC

ClientSymmetry == Permutations(GrpcClients)
=============================================================================
