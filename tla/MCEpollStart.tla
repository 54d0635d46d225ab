---------------------------- MODULE MCEpollStart ----------------------------
(* The instances of EpollStart that TLC checks.                             *)
EXTENDS EpollStart, TLC

CONSTANTS c1, c2, c3

Sym == Permutations(Conns)
=============================================================================
