--------------------------- MODULE ThreadController ---------------------------
(***************************************************************************)
(* The controller calls of thread.rs: init_php_threads, the claim of an    *)
(* inactive slot with its handler (get_inactive_php_thread and             *)
(* assign_handler, as convert_to_regular_thread uses them), set_handler    *)
(* (convert_to_inactive_thread), shutdown, and drain_php_threads.          *)
(*                                                                         *)
(* Each of them takes SCALING before anything else and releases it last,   *)
(* so the locals of the running call are one record, `job`: the call, the  *)
(* slot it is at, the slots whose shutdown it has requested, and whether   *)
(* it is on its error path.                                                *)
(***************************************************************************)
EXTENDS PhpThreadSlots

\* The caller that holds SCALING stands at a label.
Holds(c, label) == scaling = c /\ At(c, label)

JobAt(label, c) == Holds(c, label) /\ UNCHANGED <<php, engine, metrics, installed>>

\* Return from the call: SCALING is dropped.
Finish(c) ==
  /\ scaling' = Free
  /\ job' = NoJob
  /\ Goto(c, "idle")

Continue(c, label) == Goto(c, label) /\ UNCHANGED <<scaling, job>>

\* Go on at another slot.
GoToSlot(c, i, label) ==
  /\ job' = [job EXCEPT !.slot = i]
  /\ Goto(c, label)
  /\ UNCHANGED scaling

\* Seeded fault: the loop runs one slot too far.
NextSlotPastTheEnd(c, label, end) ==
  IF job.slot < NumSlots THEN GoToSlot(c, job.slot + 1, label) ELSE GoToSlot(c, 0, end)

\* The for loops over the slots: on to the next one, or past the last.
NextSlot(c, label, end) ==
  IF job.slot + 1 < NumSlots THEN GoToSlot(c, job.slot + 1, label) ELSE GoToSlot(c, 0, end)

\* Wait for cell to reach S, as two steps: `label` subscribes, "await" receives.
ParkFor(c, label, cell, S, await) ==
  JobAt(label, c) /\ subscribe(c, cell, S) /\ Continue(c, await) /\ UNCHANGED slots

\* What the first statement of a call decides, with SCALING just acquired.
Acquire(c, op, i, label) ==
  /\ scaling = Free
  /\ scaling' = c
  /\ job' = [NoJob EXCEPT !.op = op, !.slot = i]
  /\ Goto(c, label)
  /\ UNCHANGED engine
-------------------------------------------------------------------------------
(* init_php_threads *)

\* Validation, and the installation of a fresh main object and slots.  A second
\* init returns AlreadyInitialized and changes nothing.
BeginInit(c) ==
  /\ ~installed
  /\ installed' = TRUE
  /\ slots' = [i \in Slots |-> FreshSlot]
  /\ Acquire(c, "init", 0, "launch_main")
  /\ UNCHANGED <<state, waits, php, metrics>>

\* frankenphp_new_main_thread returns 0, or the code of a failed pthread_detach,
\* after which the pthread is live and has to be shut down again.
LaunchMain(c, detached) ==
  /\ Holds(c, "launch_main")
  /\ pc' = [pc EXCEPT ![Main] = "startup", ![c] = "park_main_ready"]
  /\ job' = [job EXCEPT !.failed = ~detached]
  /\ UNCHANGED <<state, waits, slots, php, engine, metrics, installed, scaling>>

\* It returns -1: no pthread was created.
LaunchMainFails(c) ==
  /\ Holds(c, "launch_main")
  /\ installed' = FALSE
  /\ Finish(c)
  /\ UNCHANGED <<state, waits, slots, php, engine, metrics>>

ParkForMainReady(c) == ParkFor(c, "park_main_ready", Main, {"Ready"}, "await_main_ready")

\* frankenphp_init_thread_metrics and the installation of all slots; with no
\* thread to boot the call is over.  After a failed detach: release main.
MainIsReady(c) ==
  /\ Holds(c, "await_main_ready") /\ ~Subscribed(c)
  /\ IF job.failed THEN /\ Continue(c, "main_done")
                        /\ UNCHANGED metrics
                   ELSE /\ metrics' = TRUE
                        /\ IF NumThreads = 0 THEN Finish(c) ELSE Continue(c, "boot")
  /\ UNCHANGED <<state, waits, slots, php, engine, installed>>
-------------------------------------------------------------------------------
(* PhpThread::boot, for the slot the job is at *)

\* The compare-and-swap to Booting.
BootSwap(c) ==
  /\ JobAt("boot", c)
  /\ \/ CompareAndSwap(job.slot, "Reserved", "Booting")
     \/ CompareAndSwap(job.slot, "BootRequested", "Booting")
  /\ Continue(c, "boot_install")
  /\ UNCHANGED slots

\* The inactive handler is installed and the drain generation renewed.
BootInstall(c) ==
  /\ JobAt("boot_install", c)
  /\ slots' = [slots EXCEPT ![job.slot].handler = "inactive"]
  /\ Continue(c, "boot_launch")
  /\ UNCHANGED <<state, waits>>

\* frankenphp_new_php_thread succeeds.
BootLaunch(c) ==
  /\ Holds(c, "boot_launch")
  /\ pc' = [pc EXCEPT ![job.slot] = "created", ![c] = "park_booted"]
  /\ UNCHANGED <<state, waits, slots, php, engine, metrics, installed, scaling, job>>

\* Seeded fault: a claim whose launch fails leaves the slot Booting.
ClaimFailsSilently(c) ==
  /\ JobAt("boot_launch", c)
  /\ IF job.op = "init"
     THEN /\ Set(job.slot, "Reserved")
          /\ job' = [job EXCEPT !.failed = TRUE]
          /\ Goto(c, "drain_main") /\ UNCHANGED scaling
     ELSE Finish(c) /\ UNCHANGED <<state, waits>>
  /\ UNCHANGED slots

\* It fails: the slot goes back to Reserved.  init then drains what it booted;
\* a claim returns None.
BootLaunchFails(c) ==
  /\ JobAt("boot_launch", c)
  /\ Set(job.slot, "Reserved")
  /\ IF job.op = "init"
     THEN /\ job' = [job EXCEPT !.failed = TRUE]
          /\ Goto(c, "drain_main") /\ UNCHANGED scaling
     ELSE Finish(c)
  /\ UNCHANGED slots

ParkForBooted(c) == ParkFor(c, "park_booted", job.slot, {"Inactive"}, "await_booted")

\* boot returns: init boots the next slot, a claim goes on to its handler.
Booted(c) ==
  /\ JobAt("await_booted", c) /\ ~Subscribed(c)
  /\ IF job.op = "convert" THEN Continue(c, "request")
     ELSE IF job.slot + 1 < NumThreads
     THEN GoToSlot(c, job.slot + 1, "boot")
     ELSE Finish(c)
  /\ UNCHANGED <<state, waits, slots>>
-------------------------------------------------------------------------------
(* get_inactive_php_thread *)

BeginConvert(c) ==
  /\ installed
  /\ Acquire(c, "convert", 0, "scan")
  /\ UNCHANGED <<state, waits, slots, php, metrics, installed>>

\* find(|thread| thread.state.is(Inactive)), one slot at a time.
ScanInactive(c) ==
  /\ JobAt("scan", c)
  /\ IF state[job.slot] = "Inactive" THEN Continue(c, "request")
                                     ELSE NextSlot(c, "scan", "claim")
  /\ UNCHANGED <<state, waits, slots>>

\* The loop over Reserved slots: claim one and boot it, or return None.
ClaimReserved(c) ==
  /\ JobAt("claim", c)
  /\ IF state[job.slot] = "Reserved"
     THEN Set(job.slot, "BootRequested") /\ Continue(c, "boot")
     ELSE /\ IF job.slot + 1 < NumSlots THEN GoToSlot(c, job.slot + 1, "claim") ELSE Finish(c)
          /\ UNCHANGED <<state, waits>>
  /\ UNCHANGED slots
-------------------------------------------------------------------------------
(* set_handler, shutdown and drain_php_threads open with the same request *)

BeginSetHandler(c, i) ==
  /\ installed
  /\ Acquire(c, "to_inactive", i, "request")
  /\ UNCHANGED <<state, waits, slots, php, metrics, installed>>

BeginShutdown(c, i) ==
  /\ installed
  /\ Acquire(c, "shutdown", i, "request")
  /\ UNCHANGED <<state, waits, slots, php, metrics, installed>>

\* drain_php_threads returns at once unless a main thread is installed and Ready.
BeginDrain(c) ==
  /\ installed /\ state[Main] = "Ready"
  /\ Acquire(c, "drain", 0, "drain_main")
  /\ UNCHANGED <<state, waits, slots, php, metrics, installed>>

\* drain_generation publishes main's ShuttingDown first, then asks slot 0.
DrainMain(c) ==
  /\ JobAt("drain_main", c)
  /\ Set(Main, "ShuttingDown")
  /\ GoToSlot(c, 0, "request")
  /\ UNCHANGED slots

Stopping == job.op \in {"shutdown", "drain", "init"}

Requested == IF Stopping THEN "ShuttingDown" ELSE "TransitionRequested"

Draining == job.op \in {"drain", "init"}

\* A loop of drain_generation goes on; shutdown has just its own slot.
Visit(c, label, end) == IF Draining THEN NextSlot(c, label, end) ELSE Continue(c, end)

\* request_safe_state_change(Requested), when it changes the state ...
RequestGranted(c) ==
  /\ JobAt("request", c)
  /\ state[job.slot] \in SafeStates
  /\ Set(job.slot, Requested)
  /\ Continue(c, "close_drain")
  /\ UNCHANGED slots

\* ... when it refuses (begin_shutdown's swap from Done to Reserved then finds no
\* Done slot, see DoneIsAwaited): the call returns, or drain asks the next slot ...
RequestRefused(c) ==
  /\ JobAt("request", c)
  /\ state[job.slot] \in RefusingStates
  /\ IF Draining THEN NextSlot(c, "request", "grace") ELSE Finish(c)
  /\ UNCHANGED <<state, waits, slots>>

\* ... and when it has to wait for a stable state and try again.
RequestParks(c) ==
  /\ JobAt("request", c)
  /\ state[job.slot] \notin SafeStates \cup RefusingStates
  /\ Continue(c, "request_park")
  /\ UNCHANGED <<state, waits, slots>>

ParkForStable(c) == ParkFor(c, "request_park", job.slot, SafeChangeWakes, "request_await")

RequestRetries(c) ==
  /\ JobAt("request_await", c) /\ ~Subscribed(c)
  /\ Continue(c, "request")
  /\ UNCHANGED <<state, waits, slots>>

\* drain.close(), right after the state change (DrainIsOpen: it never fails).  The
\* slot joins those whose drain this call has closed and will reopen.
CloseDrain(c) ==
  /\ JobAt("close_drain", c)
  /\ slots[job.slot].open
  /\ slots' = [slots EXCEPT ![job.slot].open = FALSE]
  /\ LET last == job.slot + 1 = NumSlots
     IN  /\ job' = [job EXCEPT !.pending = @ \cup {job.slot},
                               !.slot = IF ~Draining THEN @ ELSE IF last THEN 0 ELSE @ + 1]
         /\ Goto(c, IF ~Stopping THEN "park_tip"
                    ELSE IF Draining /\ ~last THEN "request" ELSE "grace")
  /\ UNCHANGED <<state, waits, scaling>>
-------------------------------------------------------------------------------
(* set_handler_locked, after the request *)

\* Seeded fault: the controller waits for its own request, not for the pthread
\* to park.
ParkForRequest(c) == ParkFor(c, "park_tip", job.slot, {"TransitionRequested"}, "await_tip")

ParkForTransition(c) == ParkFor(c, "park_tip", job.slot, {"TransitionInProgress"}, "await_tip")

\* handler.replace
InstallHandler(c) ==
  /\ JobAt("await_tip", c) /\ ~Subscribed(c)
  /\ slots' = [slots EXCEPT ![job.slot].handler =
                              IF job.op = "convert" THEN "regular" ELSE "inactive"]
  /\ Continue(c, "reopen")
  /\ UNCHANGED <<state, waits>>

\* drain.reopen: a new generation, to which no receiver belongs yet.
ReopenDrain(c) ==
  /\ Holds(c, "reopen")
  /\ slots' = [slots EXCEPT ![job.slot].open = TRUE]
  /\ php' = [php EXCEPT ![job.slot].fresh = FALSE]
  /\ Continue(c, "complete")
  /\ UNCHANGED <<state, waits, engine, metrics, installed>>

PublishComplete(c) ==
  /\ JobAt("complete", c)
  /\ Set(job.slot, "TransitionComplete")
  /\ Finish(c)
  /\ UNCHANGED slots
-------------------------------------------------------------------------------
(* shutdown_locked and drain_generation, after the requests *)

\* Slots that have no ticket are passed over.
SkipSlot(c, label, end) ==
  /\ JobAt(label, c)
  /\ job.slot \notin job.pending
  /\ NextSlot(c, label, end)
  /\ UNCHANGED <<state, waits, slots>>

\* wait_for_state_with_timeout(.., Done)
ParkForGrace(c) ==
  job.slot \in job.pending /\ ParkFor(c, "grace", job.slot, {"Done"}, "await_grace")

\* Seeded fault: the last slot to be done in time stands for all of them.
GraceDoneForAll(c) ==
  /\ JobAt("await_grace", c) /\ ~Subscribed(c)
  /\ IF Draining THEN NextSlot(c, "grace", "main_done") ELSE Continue(c, "finish")
  /\ UNCHANGED <<state, waits, slots>>

\* It returns true: shutdown skips the kill, drain goes on to the next slot.
GraceDone(c) ==
  /\ JobAt("await_grace", c) /\ ~Subscribed(c)
  /\ IF Draining THEN NextSlot(c, "grace", "kill") ELSE Continue(c, "finish")
  /\ UNCHANGED <<state, waits, slots>>

\* The deadline passes: recv_timeout gives up, without the lock ...
GraceExpires(c) ==
  /\ JobAt("await_grace", c)
  /\ Continue(c, "grace_expired")
  /\ UNCHANGED <<state, waits, slots>>

\* ... and the subscriber is taken out in a later critical section.
GraceCleanUp(c) ==
  /\ JobAt("grace_expired", c)
  /\ Unsubscribe(c)
  /\ Visit(c, "grace", "kill")
  /\ UNCHANGED slots

\* Seeded fault: the kill signal reaches no pthread.
KillNobody(c) ==
  /\ Holds(c, "kill")
  /\ job.slot \in job.pending
  /\ Visit(c, "kill", "park_done")
  /\ UNCHANGED <<state, waits, slots, php, engine, metrics, installed>>

\* send_kill_signal: nothing when no slot is stored, otherwise the EG() flags of
\* the pthread are written, which ends the script it is in.
SendKillSignal(c) ==
  /\ Holds(c, "kill")
  /\ job.slot \in job.pending
  /\ php' = [php EXCEPT ![job.slot].interrupted =
                          slots[job.slot].kill /\ At(job.slot, "script"),
                        ![job.slot].missed = ~At(job.slot, "script")]
  /\ Visit(c, "kill", "park_done")
  /\ UNCHANGED <<state, waits, slots, engine, metrics, installed>>

\* Seeded fault: the last wait is satisfied by the request to shut down.
ParkForShuttingDown(c) ==
  /\ job.slot \in job.pending
  /\ ParkFor(c, "park_done", job.slot, {"ShuttingDown", "Done"}, "await_done")

\* The unbounded wait for Done.
ParkForDone(c) ==
  job.slot \in job.pending /\ ParkFor(c, "park_done", job.slot, {"Done"}, "await_done")

ThreadIsDone(c) ==
  /\ JobAt("await_done", c) /\ ~Subscribed(c)
  /\ Visit(c, "park_done", "finish")
  /\ UNCHANGED <<state, waits, slots>>

\* finish_shutdown: the drain is reopened and the slot is Reserved again.
FinishShutdown(c) ==
  /\ Holds(c, "finish")
  /\ job.slot \in job.pending
  /\ Set(job.slot, "Reserved")
  /\ slots' = [slots EXCEPT ![job.slot].open = TRUE]
  /\ php' = [php EXCEPT ![job.slot].fresh = FALSE]
  /\ IF Draining THEN NextSlot(c, "finish", "main_done") ELSE Finish(c)
  /\ UNCHANGED <<engine, metrics, installed>>

\* Main is released into tsrm_shutdown, and has to come back as Reserved.
ReleaseMain(c) ==
  /\ JobAt("main_done", c)
  /\ Set(Main, "Done")
  /\ Continue(c, "park_reserved")
  /\ UNCHANGED slots

ParkForMainReserved(c) ==
  ParkFor(c, "park_reserved", Main, {"Reserved"}, "await_reserved")

\* frankenphp_destroy_thread_metrics and clear_registry.
DestroyGeneration(c) ==
  /\ Holds(c, "await_reserved") /\ ~Subscribed(c)
  /\ metrics' = FALSE
  /\ installed' = FALSE
  /\ Finish(c)
  /\ UNCHANGED <<state, waits, slots, php, engine>>

Begin(c) ==
  \/ BeginInit(c) \/ BeginConvert(c) \/ BeginDrain(c)
  \/ \E i \in Slots : BeginSetHandler(c, i) \/ BeginShutdown(c, i)

LoopLabels == { <<"grace", "kill">>, <<"kill", "park_done">>, <<"park_done", "finish">>,
                <<"finish", "main_done">> }

ControllerRuns(c) ==
  \/ (\E d \in BOOLEAN : LaunchMain(c, d)) \/ LaunchMainFails(c)
  \/ ParkForMainReady(c) \/ MainIsReady(c)
  \/ BootSwap(c) \/ BootInstall(c) \/ BootLaunch(c) \/ BootLaunchFails(c)
  \/ ParkForBooted(c) \/ Booted(c)
  \/ ScanInactive(c) \/ ClaimReserved(c)
  \/ DrainMain(c) \/ RequestGranted(c) \/ RequestRefused(c) \/ RequestParks(c)
  \/ ParkForStable(c) \/ RequestRetries(c) \/ CloseDrain(c)
  \/ ParkForTransition(c) \/ InstallHandler(c) \/ ReopenDrain(c) \/ PublishComplete(c)
  \/ (\E l \in LoopLabels : SkipSlot(c, l[1], l[2]))
  \/ ParkForGrace(c) \/ GraceDone(c) \/ GraceCleanUp(c)
  \/ SendKillSignal(c) \/ ParkForDone(c) \/ ThreadIsDone(c) \/ FinishShutdown(c)
  \/ ReleaseMain(c) \/ ParkForMainReserved(c) \/ DestroyGeneration(c)
===============================================================================
