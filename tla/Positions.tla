----------------------------- MODULE Positions ------------------------------
(***************************************************************************)
(* The first place of a sequence where a test holds: Iterator::position    *)
(* and the chains of or_else the code looks things up with, counted from   *)
(* 1, and 0 for None.  A module of its own, with nothing else in it, to    *)
(* keep what the proofs have in scope small.                               *)
(***************************************************************************)
EXTENDS Integers, Sequences

Least(S) == CHOOSE i \in S : \A j \in S : i <= j

FirstIndex(seq, Test(_)) ==
  LET hits == {i \in 1..Len(seq) : Test(seq[i])}
  IN IF hits = {} THEN 0 ELSE Least(hits)
=============================================================================
