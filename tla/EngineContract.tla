---------------------------- MODULE EngineContract ----------------------------
(***************************************************************************)
(* What the PHP engine demands of whoever embeds it, and what the thread   *)
(* pool promises: threads exist only while the engine is up, each index    *)
(* has at most one, and the engine goes down only when none is left        *)
(* (thread.rs, drain_generation: "Every PHP pthread has therefore reached  *)
(* Done (after ts_free_thread)").                                          *)
(***************************************************************************)
EXTENDS FiniteSets

CONSTANT Indexes

VARIABLES up,       \* between php_tsrm_startup and tsrm_shutdown
          threads   \* indexes whose pthread may still use TSRM

vars == <<up, threads>>

Init == ~up /\ threads = {}

BringUp == ~up /\ threads = {} /\ up' = TRUE /\ UNCHANGED threads

Spawn(i) == up /\ i \notin threads /\ threads' = threads \cup {i} /\ UNCHANGED up

Retire(i) == i \in threads /\ threads' = threads \ {i} /\ UNCHANGED up

TearDown == up /\ threads = {} /\ up' = FALSE /\ UNCHANGED threads

Next == BringUp \/ TearDown \/ \E i \in Indexes : Spawn(i) \/ Retire(i)

Spec == Init /\ [][Next]_vars
===============================================================================
