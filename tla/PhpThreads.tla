------------------------------ MODULE PhpThreads ------------------------------
(***************************************************************************)
(* The PHP thread pool: the pthreads of PhpPthreads, the main pthread and  *)
(* the controllers of ThreadController, interleaved.                       *)
(***************************************************************************)
EXTENDS PhpPthreads, ThreadController

Init ==
  /\ state = [c \in Cells |-> "Reserved"]
  /\ waits = [a \in Actors |-> NotWaiting]
  /\ pc = [a \in Actors |-> IF a \in Controllers THEN "idle" ELSE "none"]
  /\ slots = [i \in Slots |-> FreshSlot]
  /\ php = [i \in Slots |-> NoPthread]
  /\ engine = FALSE
  /\ metrics = FALSE
  /\ installed = FALSE
  /\ scaling = Free
  /\ job = NoJob

Next ==
  \/ \E i \in Slots : PthreadRuns(i)
  \/ \E i \in Slots, s \in Scripts : SelectRequest(i, s)
  \/ \E i \in Slots : ScriptBailsOut(i) \/ RespawnFails(i)
  \/ MainRuns
  \/ \E c \in Controllers : Begin(c) \/ ControllerRuns(c) \/ GraceExpires(c)

Spec == Init /\ [][Next]_vars

\* OS threads that can run do run, and the 30 s of a grace period pass.  No
\* fairness is given to what the outside decides: new calls, requests,
\* bailouts and failures.
Fairness ==
  /\ \A i \in Slots : WF_vars(PthreadRuns(i))
  /\ WF_vars(MainRuns)
  /\ \A c \in Controllers : /\ WF_vars(ControllerRuns(c))
                            /\ WF_vars(GraceExpires(c))

FairSpec == Spec /\ Fairness
-------------------------------------------------------------------------------
PthreadLabels ==
  {"none", "created", "register", "before", "loop", "publish_tip", "park_tip",
   "await_complete", "publish_inactive", "park_inactive", "await_inactive",
   "publish_ready", "fetch_drain", "select", "startup", "script", "after", "clear",
   "free", "on_shutdown", "respawn"}

MainLabels ==
  {"none", "startup", "publish_ready", "park_main", "await_done", "publish_reserved"}

ControllerLabels ==
  {"idle", "launch_main", "park_main_ready", "await_main_ready", "boot", "boot_install",
   "boot_launch", "park_booted", "await_booted", "scan", "claim", "request",
   "request_park", "request_await", "drain_main", "close_drain", "park_tip", "await_tip",
   "reopen", "complete", "grace", "await_grace", "grace_expired", "kill", "park_done",
   "await_done", "finish", "main_done", "park_reserved", "await_reserved"}

\* The types of the pool's state and of the calls on it.
TypeOK ==
  /\ state \in [Cells -> State]
  /\ waits \in [Actors -> Subscriber]
  /\ pc \in [Actors -> PthreadLabels \cup MainLabels \cup ControllerLabels]
  /\ slots \in [Slots -> Slot]
  /\ php \in [Slots -> Pthread]
  /\ engine \in BOOLEAN /\ metrics \in BOOLEAN /\ installed \in BOOLEAN
  /\ scaling \in Controllers \cup {Free}
  /\ job \in Job

\* A stored force-kill slot points into live TSRM storage, so a kill, which may
\* come from a controller at any time, never writes through freed pointers.
KillSlotIsLive == \A i \in Slots : slots[i].kill => php[i].tsrm

\* A handler loop never reads a state it has no arm for; upstream panics there,
\* and the port would wait for a controller that may never come.
NoUnexpectedState ==
  \A i \in Slots : At(i, "loop") => state[i] \in Recognised[php[i].running]

\* A pthread runs the loop of the handler that is installed on its slot: the
\* replacement happens only while the pthread is parked in the transition.
RunsInstalledHandler ==
  \A i \in Slots :
    pc[i] \in {"loop", "publish_tip", "publish_inactive", "park_inactive", "await_inactive",
               "publish_ready", "fetch_drain", "select", "startup", "script", "after"}
      => php[i].running = slots[i].handler

\* Pthread and controller stay in step through every swap of a handler.
HandlersAreInStep == RunsInstalledHandler /\ NoUnexpectedState

\* Whoever closes a drain generation finds it open, so the error returns of
\* set_handler_locked and begin_shutdown, which would leave the slot in a state
\* nobody finishes, are never taken.
DrainIsOpen ==
  /\ \A c \in Controllers : Holds(c, "close_drain") => slots[job.slot].open
  /\ scaling = Free => \A i \in Slots : slots[i].open

\* A slot that is free to be claimed and booted has no pthread: the previous one, or the
\* replacement of one that bailed out, has ended.  Two would share an index and its
\* context slot.
OnePthreadPerSlot ==
  /\ \A i \in Slots : state[i] \in {"Reserved", "BootRequested", "Done"} => At(i, "none")
  /\ \A c \in Controllers : Holds(c, "boot_launch") => At(job.slot, "none")

\* A dequeued request belongs to a pthread that will close it: no pthread goes
\* back for more work, is replaced or ends while its context slot is occupied.
NoStrandedRequest ==
  \A i \in Slots : php[i].script # "none" <=> pc[i] \in {"startup", "script", "after"}

\* C's unguarded store to thread_metrics, made after each script, finds the array.
MetricsOutliveScripts == \A i \in Slots : At(i, "script") => metrics

\* What threads reach into from outside is there: the storage a kill writes through and
\* the array C stores into, both freed by somebody else.
SharedMemoryIsLive == KillSlotIsLive /\ MetricsOutliveScripts

\* A slot is Done only while the call that asked for its shutdown is running, so
\* no slot retires by itself and none is left Done for a later call to find.
DoneIsAwaited ==
  \A i \in Slots :
    state[i] = "Done" =>
      /\ Stopping
      /\ i \in job.pending \/ \E c \in Controllers : Holds(c, "close_drain") /\ i = job.slot

\* A slot is given to a new pthread only after somebody has waited for the end of the old.
ReuseIsSafe == OnePthreadPerSlot /\ DoneIsAwaited

\* When no call is running every slot is in a state the next call can work with.
QuietSlots ==
  scaling = Free =>
    \A i \in Slots : state[i] \in {"Reserved", "Inactive", "Ready", "TransitionComplete"}

\* However a call ends, with an error of a launch half-way through it too, the next one
\* finds slots it can work with and drains it can close.
CallsFindTheirSlots == QuietSlots /\ DrainIsOpen

\* The slots that have a pthread.
Occupied == {i \in Slots : pc[i] # "none"}

Contract == INSTANCE EngineContract
              WITH Indexes <- Slots, up <- engine, threads <- Occupied

\* The pool keeps the engine's contract: through boots, bailouts, kills, failed
\* launches and drains, no pthread is launched without the engine, and tsrm_shutdown
\* runs only when every pthread has ended: the unbounded waits for Done are there for
\* this (thread.rs, shutdown_locked and drain_generation).
KeepsEngineContract == Contract!Spec

\* A call that waits without bound for a script that never ends by itself: a
\* set_handler, which has no deadline and kills nobody, or a shutdown or drain whose
\* kill, sent once, came before that script had begun: the pthread was in its request
\* startup, or took the request from select! afterwards, where a request arm may win
\* against a closed drain.
HeldByScript ==
  \/ job.op = "to_inactive" /\ php[job.slot].script = "runaway"
  \/ Stopping /\ \E i \in job.pending : php[i].script = "runaway" /\ php[i].missed

\* A slot whose pthread bailed out and could not be replaced: it never becomes Done.
Lost(i) == At(i, "none") /\ state[i] \in {"Ready", "TransitionRequested", "ShuttingDown"}

HeldByLoss == \E i \in job.pending : Lost(i)

\* Every call returns and releases SCALING.  A shutdown and a drain do so whatever
\* the pthreads are doing: parked, in transition, in a script that never ends by
\* itself, or being replaced after a bailout; the grace period may elapse at any
\* moment.  Only a script that no kill has reached, and a slot that has lost its
\* pthread, hold a call up.
CallsReturn ==
  \A c \in Controllers : (scaling = c) ~> (scaling = Free \/ HeldByScript \/ HeldByLoss)
===============================================================================
