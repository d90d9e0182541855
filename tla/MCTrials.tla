------------------------------ MODULE MCTrials ------------------------------
(* A small instance of Trials for TLC: three parties modulo three, with the *)
(* keys and hashes of MCMultiReconciliation.                                *)
EXTENDS MCMultiReconciliation, Trials
=============================================================================
