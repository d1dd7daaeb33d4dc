---------------------------- MODULE MCPhpThreads -----------------------------
(* Small instances of PhpThreads for TLC.  One controller: a second one could *)
(* only wait for SCALING, which every call takes first and releases last.     *)
EXTENDS PhpThreads

MCCells == Slots \cup {Main}
MCActors == MCCells \cup Controllers
=============================================================================
