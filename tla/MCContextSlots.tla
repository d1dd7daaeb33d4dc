---------------------------- MODULE MCContextSlots ----------------------------
(* Small instances of ContextSlots for TLC.                                     *)
EXTENDS ContextSlots
===============================================================================
