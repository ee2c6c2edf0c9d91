--------------------------- MODULE MCReceivedClock ---------------------------
(***************************************************************************)
(* Model-checking instance of ReceivedClock: two remote replicas, counters *)
(* up to 5, every arrival order with repetitions and snapshots.            *)
(***************************************************************************)
EXTENDS ReceivedClock
=============================================================================
