---------------------------- MODULE MCTempServer ----------------------------
(* The instances of TempServer that TLC checks.                             *)
EXTENDS TempServer, TLC

CONSTANTS c1, c2, c3

Sym == Permutations(Conns)
=============================================================================
