----------------------------- MODULE MC_Gateway -----------------------------
(* Small instances of Gateway for TLC. *)
EXTENDS Gateway

\* GetSyncProgress retries without bound: explore it for this many rounds
MCMaxRounds == 3

MCRoundBound == round <= MCMaxRounds

=============================================================================
