----------------------------- MODULE MCDispatch -----------------------------
(* Small instances of Dispatch for TLC.                                       *)
EXTENDS Dispatch, TLC

DispatchSymmetry == Permutations(Requests) \cup Permutations(Slots)
=============================================================================
