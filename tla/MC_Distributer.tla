--------------------------- MODULE MC_Distributer ---------------------------
(* Small instances of Distributer for TLC. *)
EXTENDS Distributer

CONSTANTS a1, a2

\* two receivers, a repeated account, a zero reward, and an empty file
MCBatches ==
    { << [account |-> a1, reward |-> 2],
         [account |-> a2, reward |-> 0],
         [account |-> a1, reward |-> 1] >>,
      << [account |-> a2, reward |-> 1] >>,
      << >> }

\* a batch whose negative line lowers the total below what is sent
MCNegativeBatches ==
    { << [account |-> a1, reward |-> 2],
         [account |-> a2, reward |-> -1] >> }

=============================================================================
