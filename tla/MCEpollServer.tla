--------------------------- MODULE MCEpollServer ---------------------------
(* The instances of EpollServer that TLC checks.                            *)
EXTENDS EpollServer, TLC

CONSTANTS c1, c2, c3

Sym == Permutations(Conns)
=============================================================================
