----------------------------- MODULE PhpPthreads ------------------------------
(***************************************************************************)
(* The PHP side: the pthread of a slot (`php_thread` of frankenphp.c with  *)
(* the callbacks of callbacks/thread.rs and the handlers of                *)
(* thread_inactive.rs and thread_regular.rs), and the main PHP pthread     *)
(* (`php_main` with callbacks/mainthread.rs).                              *)
(*                                                                         *)
(* The arms of the handler loops for Rebooting, ForceRebooting and         *)
(* RebootReady are left out: nothing in the tree publishes those states.   *)
(* The arm for an unexpected state is left out because NoUnexpectedState   *)
(* shows that it is never entered.                                         *)
(***************************************************************************)
EXTENDS PhpThreadSlots

PhpUnchanged == UNCHANGED <<engine, metrics, installed, scaling, job>>

\* ts_resource(0), on the new pthread.
TsResource(i) ==
  /\ At(i, "created")
  /\ php' = [php EXCEPT ![i].tsrm = TRUE]
  /\ Goto(i, "register")
  /\ UNCHANGED <<state, waits, slots>> /\ PhpUnchanged

\* go_frankenphp_store_force_kill_slot
StoreForceKillSlot(i) ==
  /\ At(i, "register")
  /\ slots' = [slots EXCEPT ![i].kill = TRUE]
  /\ Goto(i, "before")
  /\ UNCHANGED <<state, waits, php>> /\ PhpUnchanged

\* before_script_execution, and the end of transition_to_new_handler: the handler
\* is read once, and its loop then runs to the end.
BeforeScriptExecution(i) ==
  /\ At(i, "before")
  /\ php' = [php EXCEPT ![i].running = slots[i].handler]
  /\ Goto(i, "loop")
  /\ UNCHANGED <<state, waits, slots>> /\ PhpUnchanged

\* The states each handler's loop has an arm for.
Recognised ==
  [inactive |-> {"TransitionRequested", "Booting", "TransitionComplete", "Inactive",
                 "ShuttingDown"},
   regular  |-> {"TransitionRequested", "TransitionComplete", "Ready", "ShuttingDown"}]

\* The arm a handler takes for the state it read.
Arm(h, s) ==
  CASE s = "TransitionRequested"                          -> "publish_tip"
    [] s = "ShuttingDown"                                 -> "clear"
    [] h = "inactive" /\ s \in {"Booting", "TransitionComplete", "Inactive"}
                                                          -> "publish_inactive"
    [] h = "regular" /\ s = "TransitionComplete"          -> "publish_ready"
    [] h = "regular" /\ s = "Ready"                       -> "fetch_drain"

\* One turn of the handler's loop: get() and the choice of the arm.
HandlerLoop(i) ==
  /\ At(i, "loop")
  /\ state[i] \in Recognised[php[i].running]
  /\ Goto(i, Arm(php[i].running, state[i]))
  /\ UNCHANGED <<state, waits, rest>>

\* transition_to_new_handler
PublishTransition(i) == SetThen(i, "publish_tip", i, "TransitionInProgress", "park_tip")
ParkForNewHandler(i) == SubscribeThen(i, "park_tip", i, {"TransitionComplete"}, "await_complete")
TakeNewHandler(i) == Woken(i, "await_complete") /\ Move(i, "await_complete", "before")

\* InactiveThread: publish Inactive and park.
PublishInactive(i) == SetThen(i, "publish_inactive", i, "Inactive", "park_inactive")
InactiveWakes == {"TransitionRequested", "ShuttingDown", "Rebooting", "ForceRebooting"}
ParkInactive(i) == SubscribeThen(i, "park_inactive", i, InactiveWakes, "await_inactive")
LeaveInactive(i) == Woken(i, "await_inactive") /\ Move(i, "await_inactive", "loop")

\* RegularThread: publish Ready.
PublishReady(i) == SetThen(i, "publish_ready", i, "Ready", "loop")

\* wait_for_request: the drain receiver is fetched afresh, then select! runs.
FetchDrain(i) ==
  /\ At(i, "fetch_drain")
  /\ php' = [php EXCEPT ![i].fresh = TRUE]
  /\ Goto(i, "select")
  /\ UNCHANGED <<state, waits, slots>> /\ PhpUnchanged

\* The drain arm of select!.
SelectDrained(i) ==
  /\ At(i, "select")
  /\ Drained(i)
  /\ Move(i, "select", "loop")

\* A request arm of select!, taken even when the drain arm is ready too; the
\* context goes into CONTEXT_SLOTS and its path, never empty, back to C.
SelectRequest(i, s) ==
  /\ At(i, "select")
  /\ php' = [php EXCEPT ![i].script = s]
  /\ Goto(i, "startup")
  /\ UNCHANGED <<state, waits, slots>> /\ PhpUnchanged

\* php_request_startup initialises the executor, the flags a kill writes included: a kill
\* that came before it is lost.
RequestStartup(i) == Move(i, "startup", "script")

\* php_execute_script returns: by itself, or because it was interrupted.
ScriptReturns(i) ==
  /\ At(i, "script")
  /\ php[i].script = "finite" \/ php[i].interrupted
  /\ Move(i, "script", "after")

\* A bailout out of request startup, the script or request shutdown: the pthread is
\* unhealthy.
ScriptBailsOut(i) ==
  /\ pc[i] \in {"startup", "script"}
  /\ php' = [php EXCEPT ![i].healthy = FALSE]
  /\ Goto(i, "after")
  /\ UNCHANGED <<state, waits, slots>> /\ PhpUnchanged

\* Seeded fault: an unhealthy pthread frees its storage without clearing its
\* force-kill slot.
UnhealthySkipsClear(i) ==
  /\ At(i, "after")
  /\ php' = [php EXCEPT ![i].script = "none", ![i].interrupted = FALSE]
  /\ Goto(i, IF php[i].healthy THEN "before" ELSE "free")
  /\ UNCHANGED <<state, waits, slots>> /\ PhpUnchanged

\* Seeded fault: the context of an unhealthy pthread stays in its slot.
UnhealthyKeepsContext(i) ==
  /\ At(i, "after")
  /\ php' = [php EXCEPT ![i].script = IF php[i].healthy THEN "none" ELSE @,
                        ![i].interrupted = FALSE]
  /\ Goto(i, IF php[i].healthy THEN "before" ELSE "clear")
  /\ UNCHANGED <<state, waits, slots>> /\ PhpUnchanged

\* after_script_execution: the context is closed and its slot cleared; a healthy
\* pthread asks for the next script, an unhealthy one leaves the loop.
AfterScriptExecution(i) ==
  /\ At(i, "after")
  /\ php' = [php EXCEPT ![i].script = "none", ![i].interrupted = FALSE]
  /\ Goto(i, IF php[i].healthy THEN "before" ELSE "clear")
  /\ UNCHANGED <<state, waits, slots>> /\ PhpUnchanged

\* go_frankenphp_clear_force_kill_slot
ClearForceKillSlot(i) ==
  /\ At(i, "clear")
  /\ slots' = [slots EXCEPT ![i].kill = FALSE]
  /\ Goto(i, "free")
  /\ UNCHANGED <<state, waits, php>> /\ PhpUnchanged

\* ts_free_thread
TsFreeThread(i) ==
  /\ At(i, "free")
  /\ php' = [php EXCEPT ![i].tsrm = FALSE]
  /\ Goto(i, IF php[i].healthy THEN "on_shutdown" ELSE "respawn")
  /\ UNCHANGED <<state, waits, slots>> /\ PhpUnchanged

\* on_thread_shutdown, and the end of the pthread.
OnThreadShutdown(i) ==
  /\ At(i, "on_shutdown")
  /\ Set(i, "Done")
  /\ php' = [php EXCEPT ![i] = NoPthread]
  /\ Goto(i, "none")
  /\ UNCHANGED slots /\ PhpUnchanged

\* An unhealthy pthread replaces itself and leaves its lifecycle state alone.
Respawn(i) ==
  /\ At(i, "respawn")
  /\ php' = [php EXCEPT ![i] = NoPthread]
  /\ Goto(i, "created")
  /\ UNCHANGED <<state, waits, slots>> /\ PhpUnchanged

\* pthread_create fails: C logs it, and nothing in the pool hears of it.
RespawnFails(i) ==
  /\ At(i, "respawn")
  /\ php' = [php EXCEPT ![i] = NoPthread]
  /\ Goto(i, "none")
  /\ UNCHANGED <<state, waits, slots>> /\ PhpUnchanged

\* What the pthread does by itself; requests, bailouts and failures come from outside.
PthreadRuns(i) ==
  \/ TsResource(i) \/ StoreForceKillSlot(i) \/ BeforeScriptExecution(i) \/ HandlerLoop(i)
  \/ PublishTransition(i) \/ ParkForNewHandler(i) \/ TakeNewHandler(i)
  \/ PublishInactive(i) \/ ParkInactive(i) \/ LeaveInactive(i)
  \/ PublishReady(i) \/ FetchDrain(i) \/ SelectDrained(i)
  \/ RequestStartup(i) \/ ScriptReturns(i) \/ AfterScriptExecution(i)
  \/ ClearForceKillSlot(i) \/ TsFreeThread(i) \/ OnThreadShutdown(i) \/ Respawn(i)
-------------------------------------------------------------------------------
\* php_main up to its ready callback.
MainStartup ==
  /\ At(Main, "startup")
  /\ engine' = TRUE
  /\ Goto(Main, "publish_ready")
  /\ UNCHANGED <<state, waits, slots, php, metrics, installed, scaling, job>>

\* go_frankenphp_main_thread_is_ready
MainPublishReady == SetThen(Main, "publish_ready", Main, "Ready", "park_main")
MainPark == SubscribeThen(Main, "park_main", Main, {"Done", "Rebooting"}, "await_done")

\* Its return: SAPI shutdown and tsrm_shutdown.
MainTeardown ==
  /\ Woken(Main, "await_done")
  /\ engine' = FALSE
  /\ Goto(Main, "publish_reserved")
  /\ UNCHANGED <<state, waits, slots, php, metrics, installed, scaling, job>>

\* go_frankenphp_shutdown_main_thread (nothing publishes Rebooting).
MainPublishReserved == SetThen(Main, "publish_reserved", Main, "Reserved", "none")

MainRuns ==
  MainStartup \/ MainPublishReady \/ MainPark \/ MainTeardown \/ MainPublishReserved
===============================================================================
