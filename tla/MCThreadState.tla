--------------------------- MODULE MCThreadState ----------------------------
(* A small instance of ThreadState for TLC: three clients.                    *)
EXTENDS ThreadState

\* Lists the code waits for, cut down to the published states below; a further one is
\* that of request_safe_state_change itself.
MCWaitSets == { {"Done"}, {"Reserved"}, {"Ready", "Inactive"} }

\* A safe state, an unstable one, and the states that end a shutdown.
MCTargets == {"Ready", "TransitionRequested", "Done", "Reserved"}
=============================================================================
