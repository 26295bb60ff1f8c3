---------------------------- MODULE MCStatsTopic ----------------------------
(***************************************************************************)
(* StatsTopic on small instances.                                          *)
(***************************************************************************)
EXTENDS StatsTopic, TLC

CONSTANTS w1, w2

WorkerSymmetry == Permutations({w1, w2})

=============================================================================
