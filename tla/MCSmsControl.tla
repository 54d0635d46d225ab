---------------------------- MODULE MCSmsControl ----------------------------
(* The instance of SmsControl that TLC checks: two fun_rvmsg slots, so that *)
(* a cancelled reader and its replacement can be alive together.            *)
EXTENDS SmsControl, TLC

CONSTANTS r1, r2

Sym == Permutations(Readers)
=============================================================================
