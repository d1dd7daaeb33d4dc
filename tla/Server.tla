-------------------------------- MODULE Server --------------------------------
(***************************************************************************)
(* The server's `run` (crates/frankenrust-server/src/server.rs): boot, the *)
(* accept loop with its back-off, the connection tasks in a JoinSet, and   *)
(* the shutdown: a latch that tells every connection to finish, a bounded  *)
(* wait, an abort of the stragglers, and the drain of the PHP pool.        *)
(*                                                                         *)
(* A connection is idle or has one request in flight, whose blocking       *)
(* dispatch is `jobs[c]`.  The dispatch survives the connection: dropping  *)
(* a `handle` future does not stop the spawn_blocking task it started.     *)
(* The pool is NumThreads threads that take dispatches; of its drain the   *)
(* grace period, the one kill and the wait without bound are here, and     *)
(* what a drain does inside is PhpThreads.  hyper and tokio are external.  *)
(***************************************************************************)
EXTENDS Integers, FiniteSets

CONSTANTS Conns,       \* connections that may arrive
          NumThreads   \* ServerConfig::num_threads

ASSUME ServerAssumption == IsFiniteSet(Conns) /\ NumThreads \in Nat \ {0}

\* Milliseconds.
INITIAL_ACCEPT_BACKOFF == 5
MAX_ACCEPT_BACKOFF == 1000

VARIABLES at,        \* where `run` is
          stop,      \* the caller's shutdown future has resolved
          fatal,     \* an accept error that cannot be retried
          backoff,   \* accept_backoff
          latch,     \* the value in the graceful_tx watch channel
          conns,     \* [Conns -> connection task]
          told,      \* connections that have called graceful_shutdown
          jobs,      \* [Conns -> the blocking dispatch of its request]
          pool,      \* the PHP thread pool
          lost,      \* slots whose pthread bailed out and could not be replaced
          hit        \* the dispatches whose script the force-kill has reached

poolVars == <<pool, lost, hit>>

vars == <<at, stop, fatal, backoff, latch, conns, told, jobs, pool, lost, hit>>

Places == {"boot", "accept", "backoff", "close", "join", "abort", "drain", "draining",
           "waiting", "returned"}

Init ==
  /\ at = "boot"
  /\ stop = FALSE
  /\ fatal = FALSE
  /\ backoff = INITIAL_ACCEPT_BACKOFF
  /\ latch = FALSE
  /\ conns = [c \in Conns |-> "absent"]
  /\ told = {}
  /\ jobs = [c \in Conns |-> "none"]
  /\ pool = "down"
  /\ lost = 0
  /\ hit = {}

Live(c) == conns[c] \in {"idle", "busy"}

Running == {c \in Conns : jobs[c] = "running"}

\* The dispatches a PHP thread has: one that was taken is not yet a running script.
Busy == {c \in Conns : jobs[c] \in {"taken", "running"}}

Go(from, to) == at = from /\ at' = to
-------------------------------------------------------------------------------
(* run *)

\* init_php_threads and the conversion of every slot to a regular thread; when init
\* fails it has cleaned up behind itself and run returns its error.
Boot(ok) ==
  /\ Go("boot", IF ok THEN "accept" ELSE "returned")
  /\ pool' = IF ok THEN "up" ELSE "down"
  /\ UNCHANGED <<stop, fatal, backoff, latch, conns, told, jobs, lost, hit>>

\* accept: a connection task is spawned, subscribed to the latch.
Accept(c) ==
  /\ at = "accept" /\ conns[c] = "absent"
  /\ conns' = [conns EXCEPT ![c] = "idle"]
  /\ backoff' = INITIAL_ACCEPT_BACKOFF
  /\ UNCHANGED <<at, stop, fatal, latch, told, jobs, poolVars>>

\* A transient accept error: sleep, unless the shutdown comes first.
AcceptFails ==
  /\ Go("accept", "backoff")
  /\ UNCHANGED <<stop, fatal, backoff, latch, conns, told, jobs, poolVars>>

\* Seeded fault: the back-off has no upper bound.
BackoffDoubles ==
  /\ Go("backoff", "accept")
  /\ backoff' = 2 * backoff
  /\ UNCHANGED <<stop, fatal, latch, conns, told, jobs, poolVars>>

BackoffEnds ==
  /\ Go("backoff", "accept")
  /\ backoff' = IF 2 * backoff < MAX_ACCEPT_BACKOFF THEN 2 * backoff ELSE MAX_ACCEPT_BACKOFF
  /\ UNCHANGED <<stop, fatal, latch, conns, told, jobs, poolVars>>

\* Seeded fault: a fatal accept error is returned at once, as `?` would.
AcceptErrorReturns ==
  /\ Go("accept", "returned")
  /\ fatal' = TRUE
  /\ UNCHANGED <<stop, backoff, latch, conns, told, jobs, poolVars>>

\* Any other accept error leaves the loop, but not the function.
AcceptIsFatal ==
  /\ Go("accept", "close")
  /\ fatal' = TRUE
  /\ UNCHANGED <<stop, backoff, latch, conns, told, jobs, poolVars>>

\* Seeded fault: tasks are joined only at shutdown.
ReapAtShutdown(c) ==
  /\ at \in {"join", "abort"}
  /\ conns[c] = "finished"
  /\ conns' = [conns EXCEPT ![c] = "reaped"]
  /\ UNCHANGED <<at, stop, fatal, backoff, latch, told, jobs, poolVars>>

\* The join_next arm of the loop, and the joins after it.
Reap(c) ==
  /\ at \in {"accept", "join", "abort"}
  /\ conns[c] = "finished"
  /\ conns' = [conns EXCEPT ![c] = "reaped"]
  /\ UNCHANGED <<at, stop, fatal, backoff, latch, told, jobs, poolVars>>

\* The shutdown arm, in the loop and in the back-off.
LeaveLoop ==
  /\ stop
  /\ at \in {"accept", "backoff"} /\ at' = "close"
  /\ UNCHANGED <<stop, fatal, backoff, latch, conns, told, jobs, poolVars>>

\* drop(listener) and graceful_tx.send(true).
CloseListener ==
  /\ Go("close", "join")
  /\ latch' = TRUE
  /\ UNCHANGED <<stop, fatal, backoff, conns, told, jobs, poolVars>>

AllReaped == \A c \in Conns : conns[c] \in {"absent", "reaped"}

\* join_next returns None, within the deadline or after the abort.
AllJoined ==
  /\ at \in {"join", "abort"} /\ AllReaped
  /\ at' = "drain"
  /\ UNCHANGED <<stop, fatal, backoff, latch, conns, told, jobs, poolVars>>

\* Seeded fault: a connection with a request in flight is waited for without a
\* deadline.
AbortIdleOnly ==
  /\ Go("join", "abort") /\ ~AllReaped
  /\ \A c \in Conns : conns[c] # "busy"
  /\ conns' = [c \in Conns |-> IF Live(c) THEN "finished" ELSE conns[c]]
  /\ UNCHANGED <<stop, fatal, backoff, latch, told, jobs, poolVars>>

\* CONNECTION_DRAIN_TIMEOUT passes: abort_all.  The dispatches are not aborted.
AbortAll ==
  /\ Go("join", "abort") /\ ~AllReaped
  /\ conns' = [c \in Conns |-> IF Live(c) THEN "finished" ELSE conns[c]]
  /\ UNCHANGED <<stop, fatal, backoff, latch, told, jobs, poolVars>>

\* drain_php_threads: the threads are asked to stop and have a grace period.
BeginDrain ==
  /\ Go("drain", "draining")
  /\ UNCHANGED <<stop, fatal, backoff, latch, conns, told, jobs, poolVars>>

\* Its deadline passes: one kill for every thread that is not done.  It ends the scripts
\* that run; a dispatch that was taken and whose script has not begun is missed.
ForceKill ==
  /\ Go("draining", "waiting")
  /\ hit' = Running
  /\ UNCHANGED <<stop, fatal, backoff, latch, conns, told, jobs, pool, lost>>

\* Every thread is waited for, without bound; then run returns.
EndDrain ==
  /\ at \in {"draining", "waiting"} /\ at' = "returned"
  /\ Busy = {} /\ lost = 0
  /\ pool' = "drained"
  /\ UNCHANGED <<stop, fatal, backoff, latch, conns, told, jobs, lost, hit>>
-------------------------------------------------------------------------------
(* The connection tasks, the dispatches and the outside *)

Stop ==
  /\ ~stop /\ stop' = TRUE
  /\ UNCHANGED <<at, fatal, backoff, latch, conns, told, jobs, poolVars>>

\* A request arrives on a keep-alive connection: handle spawns its dispatch.
Request(c) ==
  /\ conns[c] = "idle" /\ c \notin told
  /\ conns' = [conns EXCEPT ![c] = "busy"]
  /\ jobs' = [jobs EXCEPT ![c] = "queued"]
  /\ UNCHANGED <<at, stop, fatal, backoff, latch, told, poolVars>>

\* A PHP thread takes it; a thread that is being drained may still do so.
JobTaken(c) ==
  /\ jobs[c] = "queued" /\ pool = "up" /\ Cardinality(Busy) + lost < NumThreads
  /\ jobs' = [jobs EXCEPT ![c] = "taken"]
  /\ UNCHANGED <<at, stop, fatal, backoff, latch, conns, told, poolVars>>

\* php_request_startup is over.
ScriptStarts(c) ==
  /\ jobs[c] = "taken"
  /\ jobs' = [jobs EXCEPT ![c] = "running"]
  /\ UNCHANGED <<at, stop, fatal, backoff, latch, conns, told, poolVars>>

\* The context is closed: after the script, or after a bailout anywhere.
JobEnds(c) ==
  /\ c \in Busy
  /\ jobs' = [jobs EXCEPT ![c] = "done"]
  /\ UNCHANGED <<at, stop, fatal, backoff, latch, conns, told, poolVars>>

\* A bailout whose thread cannot be replaced.
ThreadIsLost(c) ==
  /\ c \in Busy
  /\ jobs' = [jobs EXCEPT ![c] = "done"]
  /\ lost' = lost + 1
  /\ UNCHANGED <<at, stop, fatal, backoff, latch, conns, told, pool, hit>>

\* handle returns its response; a connection told to shut down then closes.
Respond(c) ==
  /\ conns[c] = "busy" /\ jobs[c] = "done"
  /\ conns' = [conns EXCEPT ![c] = IF c \in told THEN "finished" ELSE "idle"]
  /\ jobs' = [jobs EXCEPT ![c] = "none"]
  /\ UNCHANGED <<at, stop, fatal, backoff, latch, told, poolVars>>

\* Seeded fault: the task ends at the latch, request or not.
HearAndDrop(c) ==
  /\ latch /\ Live(c) /\ c \notin told
  /\ told' = told \cup {c}
  /\ conns' = [conns EXCEPT ![c] = "finished"]
  /\ UNCHANGED <<at, stop, fatal, backoff, latch, jobs, poolVars>>

\* graceful_rx.changed: graceful_shutdown, which closes an idle connection.
Hear(c) ==
  /\ latch /\ Live(c) /\ c \notin told
  /\ told' = told \cup {c}
  /\ conns' = [conns EXCEPT ![c] = IF @ = "idle" THEN "finished" ELSE @]
  /\ UNCHANGED <<at, stop, fatal, backoff, latch, jobs, poolVars>>

\* The peer hangs up: the task ends and its handle future is dropped.
HangUp(c) ==
  /\ Live(c)
  /\ conns' = [conns EXCEPT ![c] = "finished"]
  /\ UNCHANGED <<at, stop, fatal, backoff, latch, told, jobs, poolVars>>

RunSteps ==
  \/ LeaveLoop \/ CloseListener \/ AllJoined \/ AbortAll \/ BeginDrain \/ ForceKill
  \/ EndDrain

Next ==
  \/ (\E ok \in BOOLEAN : Boot(ok)) \/ AcceptFails \/ BackoffEnds \/ AcceptIsFatal
  \/ RunSteps \/ Stop
  \/ \E c \in Conns :
       \/ Accept(c) \/ Reap(c) \/ Request(c) \/ Respond(c) \/ Hear(c) \/ HangUp(c)
       \/ JobTaken(c) \/ ScriptStarts(c) \/ JobEnds(c) \/ ThreadIsLost(c)

Spec == Init /\ [][Next]_vars

\* tokio polls what is ready; select! picks among ready arms at random, so an arm
\* that is ready again and again is taken.  The deadlines pass.  A script that the kill
\* has reached ends; nothing is assumed of other scripts, of peers or of the shutdown
\* signal.
Fairness ==
  /\ WF_vars(BackoffEnds) /\ SF_vars(LeaveLoop) /\ WF_vars(RunSteps)
  /\ \A c \in Conns : SF_vars(Reap(c)) /\ WF_vars(Hear(c)) /\ WF_vars(Respond(c))
                   /\ WF_vars(c \in hit /\ JobEnds(c))

FairSpec == Spec /\ Fairness
-------------------------------------------------------------------------------
\* The types; the back-off stays between its two bounds.
TypeOK ==
  /\ at \in Places
  /\ {stop, fatal, latch} \subseteq BOOLEAN
  /\ backoff \in INITIAL_ACCEPT_BACKOFF .. MAX_ACCEPT_BACKOFF
  /\ conns \in [Conns -> {"absent", "idle", "busy", "finished", "reaped"}]
  /\ told \subseteq Conns
  /\ jobs \in [Conns -> {"none", "queued", "taken", "running", "done"}]
  /\ pool \in {"down", "up", "drained"}
  /\ lost \in 0..NumThreads
  /\ hit \subseteq Conns

\* run never returns with the pool up: on a clean shutdown, on a shutdown during the
\* back-off and on a fatal accept error alike the PHP threads have been drained.
NeverReturnsUndrained == at = "returned" => pool # "up"

\* run never starts a dispatch after its drain: by then no connection is left to make
\* one.  What is still queued are orphans, whose connection is gone.
NoDispatchAfterDrain ==
  at \in {"drain", "draining", "waiting", "returned"} => \A c \in Conns : ~Live(c)

\* run never returns while a PHP thread has a dispatch: one that lost its connection to
\* the deadline, or to its peer, is waited for like any other.
OrphansAreWaitedFor == at = "returned" => Busy = {}

\* The drain comes last: after every connection, before every return, and it is whole.
DrainIsLast == NeverReturnsUndrained /\ NoDispatchAfterDrain /\ OrphansAreWaitedFor

\* A response is only lost to a peer that hung up or to the deadline: shutting down
\* lets a request in flight finish, even one that arrived after the latch was set.
InFlightIsFinished ==
  [][\A c \in Conns : conns[c] = "busy" /\ conns'[c] = "finished" =>
       AbortAll \/ HangUp(c) \/ jobs[c] = "done"]_vars

\* A script that the one kill came too early for: the thread had taken its dispatch, or
\* took it from a select! whose request arm won against the closed drain.
HeldByScript == at = "waiting" /\ ~(Busy \subseteq hit)

\* A slot that has no pthread never becomes Done.
HeldByLoss == at \in {"draining", "waiting"} /\ lost > 0

\* Once asked to, run returns: idle keep-alive connections, requests in flight, accept
\* errors and scripts that would never end do not keep it.  Only the unbounded wait of
\* the drain does, for a script the kill has missed or a slot that has lost its pthread.
RunReturns == (at # "boot" /\ stop) ~> (at = "returned" \/ HeldByScript \/ HeldByLoss)

\* No finished connection task stays in the JoinSet.
TasksAreReaped == \A c \in Conns : (conns[c] = "finished") ~> (conns[c] = "reaped")
===============================================================================
