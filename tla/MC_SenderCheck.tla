---------------------------- MODULE MC_SenderCheck ----------------------------
(* Small instances of SenderCheck for TLC. *)
EXTENDS SenderCheck

CONSTANTS a1, a2

MCAddrs == {a1, a2}

=============================================================================
