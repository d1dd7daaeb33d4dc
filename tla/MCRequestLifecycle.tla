-------------------------- MODULE MCRequestLifecycle --------------------------
(* Small instances of RequestLifecycle for TLC.                                *)
EXTENDS RequestLifecycle, TLC

RequestSymmetry == Permutations(Requests)
===============================================================================
