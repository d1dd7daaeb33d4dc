--------------------------- MODULE PhpThreadsProofs ---------------------------
(***************************************************************************)
(* The safety of the thread pool and the engine's contract, for any number *)
(* of slots, threads and controllers.                                      *)
(*                                                                         *)
(* The inductive invariant has four parts for one slot.  Finds: the states *)
(* its pthread may find at each of its places, by the installed handler.   *)
(* Owns: what belongs to the pthread itself.  Owner: the call a state      *)
(* belongs to, since a slot leaves the quiet states only for the call that *)
(* holds SCALING.  Knows: what that call may rely on at each of its        *)
(* labels.  CallInv and HolderWaits are about the call, MainShape and      *)
(* MainCall tie the main pthread, the engine and the metrics to it.  The   *)
(* first half shows that the pthreads keep it, the second that the calls   *)
(* of ThreadController do, and what follows from it.                       *)
(***************************************************************************)
EXTENDS PhpThreads, TLAPS

\* Where the call that holds SCALING is.
Label == IF scaling = Free THEN "idle" ELSE pc[scaling]

BootLabels == {"boot", "boot_install", "boot_launch", "park_booted", "await_booted"}
AskLabels == {"request", "request_park", "request_await", "close_drain"}
SwapLabels == {"park_tip", "await_tip", "reopen", "complete"}
StopLabels == {"grace", "await_grace", "grace_expired", "kill", "park_done", "await_done", "finish"}
EndLabels == {"main_done", "park_reserved", "await_reserved"}
StartLabels == {"launch_main", "park_main_ready", "await_main_ready"}

\* A wait_for in progress: subscribed, or woken and the state it waited for is still there.
Waiting(a, c, S) == waits[a] = IF state[c] \in S THEN NotWaiting ELSE Subscription(c, S)

\* States in which the regular handler works or a call has just asked it to stop.
Work == {"Ready", "TransitionRequested", "ShuttingDown"}
Handlers == {"inactive", "regular"}

\* The states a pthread may find at a place, by the handler of its slot.
Finds(i) ==
  LET p == pc[i]
      s == state[i]
      h == slots[i].handler
  IN  /\ p = "none" => s \in {"Reserved", "BootRequested", "Booting", "Done"} \/ (s \in Work /\ h = "regular")
      /\ p \in {"created", "register"} =>
           (s = "Booting" /\ h = "inactive") \/ (s \in Work /\ h = "regular")
      /\ p = "before" => \/ s = "Booting" /\ h = "inactive"
                         \/ s = "TransitionComplete" /\ h \in Handlers
                         \/ s \in Work /\ h = "regular"
      /\ p = "loop" =>
           \/ h = "inactive" /\ s \in {"Booting", "TransitionComplete", "TransitionRequested", "ShuttingDown"}
           \/ h = "regular" /\ s \in {"TransitionComplete"} \cup Work
      /\ p = "publish_tip" => s = "TransitionRequested"
      /\ p \in {"park_tip", "await_complete"} =>
           s = "TransitionInProgress" \/ (s = "TransitionComplete" /\ h \in Handlers)
      /\ p = "publish_inactive" => h = "inactive" /\ s \in {"Booting", "TransitionComplete"}
      /\ p \in {"park_inactive", "await_inactive"} =>
           h = "inactive" /\ s \in {"Inactive", "TransitionRequested", "ShuttingDown"}
      /\ p = "publish_ready" => h = "regular" /\ s = "TransitionComplete"
      /\ p \in {"fetch_drain", "select", "startup", "script", "after", "respawn"} =>
           h = "regular" /\ s \in Work
      /\ p \in {"clear", "free"} =>
           IF php[i].healthy THEN s = "ShuttingDown" ELSE h = "regular" /\ s \in Work
      /\ p = "on_shutdown" => s = "ShuttingDown"

\* What belongs to the pthread itself.
Owns(i) ==
  /\ php[i].script # "none" <=> pc[i] \in {"startup", "script", "after"}
  /\ php[i].tsrm <=> pc[i] \notin {"none", "created", "on_shutdown", "respawn"}
  /\ slots[i].kill => pc[i] \notin {"none", "created", "register", "free", "on_shutdown", "respawn"}
  /\ ~php[i].healthy => pc[i] \in {"after", "clear", "free", "respawn"}
  /\ pc[i] \in {"loop", "publish_tip", "publish_inactive", "park_inactive", "await_inactive",
                "publish_ready", "fetch_drain", "select", "startup", "script", "after"}
       => php[i].running = slots[i].handler
  /\ pc[i] = "await_complete" => Waiting(i, i, {"TransitionComplete"})
  /\ pc[i] = "await_inactive" => Waiting(i, i, InactiveWakes)

\* The slots whose drain the call has closed and not reopened yet.
Closed(i) ==
  /\ Label \in AskLabels \cup SwapLabels \cup StopLabels
  /\ Label # "complete"
  /\ i \in job.pending
  /\ Label = "finish" => i >= job.slot

\* The slots the call has asked to change and not finished with.
Asked(i) == Closed(i) \/ (Label \in {"close_drain", "complete"} /\ i = job.slot)

\* Which call a slot's state belongs to.
Owner(i) ==
  LET s == state[i]
  IN  /\ s \in {"Reserved", "Inactive", "Ready", "TransitionComplete", "BootRequested", "Booting",
                "TransitionRequested", "TransitionInProgress", "ShuttingDown", "Done"}
      /\ s \in {"TransitionRequested", "TransitionInProgress"} <=> Asked(i) /\ ~Stopping
      /\ s \in {"ShuttingDown", "Done"} <=> Asked(i) /\ Stopping
      /\ s = "BootRequested" => Label = "boot" /\ i = job.slot
      /\ s = "Booting" => Label \in BootLabels \ {"boot"} /\ i = job.slot
      /\ slots[i].open <=> ~Closed(i)

\* What the call knows of a slot at each of its labels.
Knows(i) ==
  LET s == state[i]
  IN  /\ Label \in {"boot_install", "boot_launch"} /\ i = job.slot => s = "Booting" /\ pc[i] = "none"
      /\ Label = "boot_launch" /\ i = job.slot => slots[i].handler = "inactive"
      /\ Label \in {"park_booted", "await_booted"} /\ i = job.slot => s \in {"Booting", "Inactive"} /\ pc[i] # "none"
      /\ Label \in {"reopen", "complete"} /\ i = job.slot =>
           s = "TransitionInProgress" /\ slots[i].handler \in Handlers
      /\ Label \in {"park_done", "await_done"} /\ i \in job.pending /\ i < job.slot => s = "Done"
      /\ Label = "finish" /\ i \in job.pending =>
           IF i < job.slot THEN s = "Reserved" ELSE s = "Done"
      /\ Label \in AskLabels /\ Draining /\ i < job.slot => i \in job.pending \/ s = "Reserved"
      /\ Label \in StopLabels /\ Draining => i \in job.pending \/ s = "Reserved"
      /\ Label \in EndLabels \cup StartLabels \/ ~installed => s = "Reserved"

\* The call, its slots and its waits.
CallInv ==
  /\ \A c \in Controllers : c # scaling => pc[c] = "idle"
  /\ scaling # Free => pc[scaling] # "idle"
  /\ scaling = Free => job = NoJob
  /\ ~installed => scaling = Free
  /\ Label \in StartLabels => job.op = "init" /\ job.pending = {}
  /\ Label \in BootLabels => job.op \in {"init", "convert"} /\ job.pending = {}
  /\ Label \in {"scan", "claim"} => job.op = "convert" /\ job.pending = {}
  /\ Label = "drain_main" => Draining /\ job.pending = {}
  /\ Label \in AskLabels =>
       /\ job.op \in Operations
       /\ IF Draining THEN \A i \in job.pending : i < job.slot ELSE job.pending = {}
  /\ Label \in SwapLabels => ~Stopping /\ job.op # "none" /\ job.pending = {job.slot}
  /\ Label \in StopLabels => Stopping /\ (~Draining => job.pending = {job.slot})
  /\ Label \in EndLabels => Draining

HolderWaits ==
  /\ Label = "await_main_ready" => Waiting(scaling, Main, {"Ready"})
  /\ Label = "await_booted" => Waiting(scaling, job.slot, {"Inactive"})
  /\ Label = "await_tip" => Waiting(scaling, job.slot, {"TransitionInProgress"})
  /\ Label \in {"await_grace", "await_done"} => Waiting(scaling, job.slot, {"Done"})
  /\ Label = "await_reserved" => Waiting(scaling, Main, {"Reserved"})

\* The main pthread by itself ...
MainShape ==
  /\ pc[Main] \in {"none", "startup", "publish_ready"} => state[Main] = "Reserved"
  /\ pc[Main] \in {"park_main", "await_done"} => state[Main] \in {"Ready", "ShuttingDown", "Done"}
  /\ pc[Main] = "publish_reserved" => state[Main] = "Done"
  /\ pc[Main] = "await_done" => Waiting(Main, Main, {"Done", "Rebooting"})
  /\ engine <=> pc[Main] \in {"publish_ready", "park_main", "await_done"}

\* ... and for the call.
MainUp == pc[Main] \in {"park_main", "await_done"}

MainCall ==
  /\ ~installed \/ Label = "launch_main" => pc[Main] = "none"
  /\ Label \in {"park_main_ready", "await_main_ready"} =>
       /\ pc[Main] \in {"startup", "publish_ready", "park_main", "await_done"}
       /\ state[Main] \in {"Reserved", "Ready"}
  /\ Label \in BootLabels \cup SwapLabels \cup {"scan", "claim", "drain_main"}
       \/ (Label = "idle" /\ installed)
       \/ (Label \in AskLabels \cup StopLabels /\ ~Draining) =>
       MainUp /\ state[Main] = "Ready" /\ metrics
  /\ Label \in AskLabels \cup StopLabels /\ Draining =>
       MainUp /\ state[Main] = "ShuttingDown" /\ metrics
  /\ Label = "main_done" => MainUp /\ state[Main] \in {"Ready", "ShuttingDown"}
  /\ Label \in {"park_reserved", "await_reserved"} =>
       /\ state[Main] \in {"Done", "Reserved"}
       /\ pc[Main] \in {"park_main", "await_done", "publish_reserved", "none"}

Typed ==
  /\ state \in [Cells -> State] /\ waits \in [Actors -> Subscriber]
  /\ pc \in [Actors -> PthreadLabels \cup MainLabels \cup ControllerLabels]
  /\ \A i \in Slots : pc[i] \in PthreadLabels
  /\ pc[Main] \in MainLabels
  /\ \A c \in Controllers : pc[c] \in ControllerLabels
  /\ slots \in [Slots -> Slot] /\ php \in [Slots -> Pthread]
  /\ engine \in BOOLEAN /\ metrics \in BOOLEAN /\ installed \in BOOLEAN
  /\ scaling \in Controllers \cup {Free}
  /\ job \in Job

SlotInv(i) == Finds(i) /\ Owns(i) /\ Owner(i) /\ Knows(i)

IInv == Typed /\ (\A i \in Slots : SlotInv(i)) /\ CallInv /\ HolderWaits /\ MainShape /\ MainCall
-------------------------------------------------------------------------------
\* What an actor's operation on cell c leaves alone: the other cells, and the waits of
\* the other actors unless the state they wait for is taken away.
CellStep(a, c) ==
  /\ state' \in [Cells -> State] /\ waits' \in [Actors -> Subscriber]
  /\ \A d \in Cells \ {c} : state'[d] = state[d]
  /\ \A b \in Actors \ {a}, d \in Cells, S \in SUBSET State :
       Waiting(b, d, S) /\ (d = c /\ state[c] \in S => state'[c] \in S) => Waiting(b, d, S)'

\* A set of a state wakes who waits for it, and nobody else.
LEMMA SetStep ==
  ASSUME Typed, NEW a \in Actors, NEW c \in Cells, NEW s \in State, Set(c, s)
  PROVE  CellStep(a, c) /\ state'[c] = s
<1>1. state' = [state EXCEPT ![c] = s] /\ state \in [Cells -> State]
  BY DEF Set, Typed
<1>2. waits' = [b \in Actors |-> IF Interested(b, c, s) THEN NotWaiting ELSE waits[b]]
  BY DEF Set, notify_subscribers
<1>3. waits \in [Actors -> Subscriber] /\ NotWaiting \in Subscriber
  BY DEF Typed, Subscriber, NotWaiting
<1>4. ASSUME NEW b \in Actors, NEW d \in Cells, NEW S \in SUBSET State, Waiting(b, d, S),
             d = c /\ state[c] \in S => state'[c] \in S
      PROVE  Waiting(b, d, S)'
  <2>1. CASE waits[b] = NotWaiting
    <3>1. ~Interested(b, c, s)
      BY <2>1 DEF Interested, NotWaiting
    <3>2. state[d] \in S
      BY <1>4, <2>1 DEF Waiting, NotWaiting, Subscription
    <3> QED BY <1>1, <1>2, <1>4, <2>1, <3>1, <3>2 DEF Waiting
  <2>2. CASE waits[b] # NotWaiting
    <3>1. waits[b] = Subscription(d, S) /\ state[d] \notin S
      BY <1>4, <2>2 DEF Waiting
    <3>2. Interested(b, c, s) <=> c = d /\ s \in S
      BY <3>1 DEF Interested, Subscription
    <3> QED BY <1>1, <1>2, <1>4, <3>1, <3>2 DEF Waiting
  <2> QED BY <2>1, <2>2
<1> QED BY <1>1, <1>2, <1>3, <1>4 DEF CellStep

\* A wait that has just begun is in progress, and concerns nobody else.
LEMMA SubscribeStep ==
  ASSUME Typed, NEW a \in Actors, NEW c \in Cells, NEW S \in SUBSET State, subscribe(a, c, S)
  PROVE  CellStep(a, c) /\ state' = state /\ Waiting(a, c, S)'
<1>1. state' = state /\ state \in [Cells -> State] /\ waits \in [Actors -> Subscriber]
  BY DEF subscribe, Typed
<1>2. NotWaiting \in Subscriber /\ Subscription(c, S) \in Subscriber
  BY DEF Subscriber, NotWaiting, Subscription
<1>3. waits' = [waits EXCEPT ![a] = IF state[c] \in S THEN NotWaiting ELSE Subscription(c, S)]
  BY DEF subscribe
<1> QED BY <1>1, <1>2, <1>3 DEF CellStep, Waiting

LEMMA UnsubscribeStep ==
  ASSUME Typed, NEW a \in Actors, NEW c \in Cells, Unsubscribe(a)
  PROVE  CellStep(a, c) /\ state' = state
<1>1. state' = state /\ state \in [Cells -> State] /\ waits \in [Actors -> Subscriber]
  BY DEF Unsubscribe, Typed
<1>2. NotWaiting \in Subscriber
  BY DEF Subscriber, NotWaiting
<1> QED BY <1>1, <1>2 DEF CellStep, Waiting, Unsubscribe

LEMMA StillStep ==
  ASSUME Typed, NEW a \in Actors, NEW c \in Cells, UNCHANGED <<state, waits>>
  PROVE  CellStep(a, c)
BY DEF CellStep, Waiting, Typed

\* Only a woken call goes on, and then it finds the state it waited for.
LEMMA WokenFinds ==
  ASSUME NEW a, NEW c, NEW S, Waiting(a, c, S), ~Subscribed(a)
  PROVE  state[c] \in S
BY DEF Waiting, Subscribed, Subscription
-------------------------------------------------------------------------------
LEMMA Names ==
  /\ Slots \subseteq Actors /\ Slots \subseteq Cells /\ Main \in Cells /\ Main \in Actors
  /\ Controllers \subseteq Actors
  /\ Slots \subseteq Int
  /\ \A i \in Slots : i # Main /\ i \notin Controllers
  /\ Main \notin Controllers /\ Free \notin Controllers
BY NamesAssumption, ActorsAssumption, SizesAssumption DEF Slots

\* What a step of the pthread of slot i leaves alone: everything of the other slots, the
\* main pthread and the call, and of its own slot the handler and the drain.
PthreadStep(i) ==
  /\ UNCHANGED <<engine, metrics, installed, scaling, job>>
  /\ CellStep(i, i)
  /\ state'[i] # state[i] =>
       state[i] \in {"TransitionRequested", "Booting", "TransitionComplete", "ShuttingDown"}
  /\ pc'[i] \in PthreadLabels /\ pc' = [pc EXCEPT ![i] = pc'[i]]
  /\ slots' \in [Slots -> Slot] /\ php' \in [Slots -> Pthread]
  /\ \A j \in Slots \ {i} : slots'[j] = slots[j] /\ php'[j] = php[j]
  /\ slots'[i].open = slots[i].open /\ slots'[i].handler = slots[i].handler

\* The pool's invariant after such a step is that of the slot.
LEMMA PthreadFrame ==
  ASSUME IInv, NEW i \in Slots, PthreadStep(i), SlotInv(i)'
  PROVE  IInv'
<1> USE Names
<1>1. /\ UNCHANGED <<engine, metrics, installed, scaling, job>>
      /\ \A a \in Actors \ {i} : pc'[a] = pc[a]
      /\ \A d \in Cells \ {i} : state'[d] = state[d]
      /\ \A j \in Slots \ {i} : slots'[j] = slots[j] /\ php'[j] = php[j]
  BY DEF PthreadStep, CellStep, IInv, Typed
<1>2. Label' = Label
  BY <1>1 DEF Label, IInv, Typed
<1>3. Typed'
  BY <1>1 DEF PthreadStep, CellStep, IInv, Typed
<1>4. ASSUME NEW j \in Slots PROVE SlotInv(j)'
  <2>1. CASE j = i
    BY <2>1
  <2>2. CASE j # i
    <3>1. SlotInv(j) /\ j \in Actors \ {i} /\ j \in Cells
      BY <2>2 DEF IInv
    <3>2. /\ pc'[j] = pc[j] /\ state'[j] = state[j] /\ slots'[j] = slots[j] /\ php'[j] = php[j]
      BY <1>1, <2>2
    <3>3. \A S \in SUBSET State : Waiting(j, j, S) => Waiting(j, j, S)'
      BY <3>1, <2>2 DEF PthreadStep, CellStep
    <3>4. {"TransitionComplete"} \in SUBSET State /\ InactiveWakes \in SUBSET State
      BY DEF State, InactiveWakes
    <3>5. Finds(j)' BY <3>1, <3>2 DEF SlotInv, Finds
    <3>6. Owns(j)' BY <3>1, <3>2, <3>3, <3>4 DEF SlotInv, Owns
    <3>7. Owner(j)'
      BY <1>1, <1>2, <3>1, <3>2 DEF SlotInv, Owner, Asked, Closed, Stopping
    <3>8. Knows(j)'
      BY <1>1, <1>2, <3>1, <3>2 DEF SlotInv, Knows, Draining
    <3> QED BY <3>5, <3>6, <3>7, <3>8 DEF SlotInv
  <2> QED BY <2>1, <2>2
<1>5. CallInv'
  <2>1. CallInv /\ (\A c \in Controllers : pc'[c] = pc[c]) /\ (scaling # Free => scaling \in Controllers)
    BY <1>1 DEF IInv, Typed
  <2> QED BY <1>1, <1>2, <2>1 DEF CallInv, Draining, Stopping
<1>6. HolderWaits'
  <2>1. HolderWaits /\ scaling' = scaling /\ job' = job /\ job.slot \in Slots
    BY <1>1 DEF IInv, Typed, Job
  <2>2. ASSUME NEW d \in Cells, NEW s \in {"Ready", "Inactive", "TransitionInProgress", "Done", "Reserved"},
               scaling \in Controllers, Waiting(scaling, d, {s})
        PROVE  Waiting(scaling, d, {s})'
    <3>1. {s} \in SUBSET State /\ scaling \in Actors \ {i}
      BY <2>2 DEF State
    <3>2. d = i /\ state[i] \in {s} => state'[i] \in {s}
      BY DEF PthreadStep
    <3> QED BY <2>2, <3>1, <3>2 DEF PthreadStep, CellStep
  <2>3. Label # "idle" => scaling \in Controllers
    BY DEF Label, IInv, Typed
  <2> QED BY <1>2, <2>1, <2>2, <2>3 DEF HolderWaits
<1>7. MainShape'
  <2>1. /\ pc'[Main] = pc[Main] /\ state'[Main] = state[Main] /\ engine' = engine
        /\ MainShape
    BY <1>1 DEF IInv
  <2>2. {"Done", "Rebooting"} \in SUBSET State /\ Main \in Actors \ {i}
    BY DEF State
  <2>3. Waiting(Main, Main, {"Done", "Rebooting"}) => Waiting(Main, Main, {"Done", "Rebooting"})'
    BY <2>2 DEF PthreadStep, CellStep
  <2> QED BY <2>1, <2>3 DEF MainShape
<1>8. MainCall'
  BY <1>1, <1>2 DEF IInv, MainCall, MainUp, Draining
<1> QED BY <1>3, <1>4, <1>5, <1>6, <1>7, <1>8 DEF IInv

\* The label of the call survives a pthread's step.
LEMMA LabelStays ==
  ASSUME IInv, NEW i \in Slots, PthreadStep(i)
  PROVE  Label' = Label
BY Names DEF PthreadStep, Label, IInv, Typed

\* While its pthread lives and does not publish, a slot stays what it is for the call.
LEMMA LivePthread ==
  ASSUME IInv, NEW i \in Slots, PthreadStep(i), state'[i] = state[i],
         pc[i] # "none", pc'[i] # "none", Finds(i)', Owns(i)'
  PROVE  IInv'
<1>1. Label' = Label /\ SlotInv(i) /\ job' = job /\ installed' = installed
      /\ slots'[i].open = slots[i].open /\ slots'[i].handler = slots[i].handler
  BY LabelStays DEF IInv, PthreadStep
<1>2. Owner(i)'
  BY <1>1 DEF SlotInv, Owner, Asked, Closed, Stopping
<1>3. Knows(i)'
  BY <1>1 DEF SlotInv, Knows, Draining
<1> QED BY <1>2, <1>3, PthreadFrame DEF SlotInv

\* A step that moves the pthread, and touches at most its cell and its wait.
LEMMA MoveOnly ==
  ASSUME IInv, NEW i \in Slots, NEW l \in PthreadLabels, UNCHANGED rest, Goto(i, l), CellStep(i, i),
         state'[i] # state[i] =>
           state[i] \in {"TransitionRequested", "Booting", "TransitionComplete", "ShuttingDown"}
  PROVE  /\ PthreadStep(i) /\ pc'[i] = l
         /\ slots'[i] = slots[i] /\ php'[i] = php[i]
BY Names DEF IInv, Typed, rest, Goto, PthreadStep

\* A step that moves the pthread and updates what belongs to it.
LEMMA PhpOnly ==
  ASSUME IInv, NEW i \in Slots, NEW l \in PthreadLabels, NEW p \in Pthread,
         UNCHANGED <<state, waits, slots>>, PhpUnchanged,
         Goto(i, l), php' = [php EXCEPT ![i] = p]
  PROVE  /\ PthreadStep(i) /\ pc'[i] = l
         /\ slots'[i] = slots[i] /\ php'[i] = p /\ state'[i] = state[i]
<1>1. CellStep(i, i)
  BY StillStep, Names DEF IInv
<1> QED BY <1>1, Names DEF IInv, Typed, PhpUnchanged, Goto, PthreadStep

\* The same for the force-kill slot.
LEMMA KillOnly ==
  ASSUME IInv, NEW i \in Slots, NEW l \in PthreadLabels, NEW k \in BOOLEAN,
         UNCHANGED <<state, waits, php>>, PhpUnchanged,
         Goto(i, l), slots' = [slots EXCEPT ![i].kill = k]
  PROVE  /\ PthreadStep(i) /\ pc'[i] = l /\ state'[i] = state[i]
         /\ slots'[i].kill = k /\ slots'[i].handler = slots[i].handler /\ php'[i] = php[i]
<1> DEFINE new == [slots[i] EXCEPT !.kill = k]
<1>1. slots[i] \in Slot /\ slots \in [Slots -> Slot]
  BY DEF IInv, Typed
<1>2. new \in Slot /\ new.kill = k /\ new.handler = slots[i].handler /\ new.open = slots[i].open
  BY <1>1 DEF Slot
<1>3. slots' = [slots EXCEPT ![i] = new]
  OBVIOUS
<1>4. CellStep(i, i)
  BY StillStep, Names DEF IInv
<1> HIDE DEF new
<1> QED BY <1>1, <1>2, <1>3, <1>4, Names DEF IInv, Typed, PhpUnchanged, Goto, PthreadStep
-------------------------------------------------------------------------------
(* The pthread of a slot *)

LEMMA TsResourceKeeps ==
  ASSUME IInv, NEW i \in Slots, TsResource(i) PROVE IInv'
<1> DEFINE new == [php[i] EXCEPT !.tsrm = TRUE]
<1>1. php[i] \in Pthread /\ SlotInv(i) /\ pc[i] = "created"
  BY DEF IInv, Typed, TsResource, At
<1>2. /\ new \in Pthread /\ new.tsrm = TRUE /\ new.script = php[i].script
      /\ new.healthy = php[i].healthy /\ new.running = php[i].running
  BY <1>1 DEF Pthread
<1>3. php' = [php EXCEPT ![i] = new] /\ Goto(i, "register") /\ "register" \in PthreadLabels
  BY DEF TsResource, PthreadLabels
<1> HIDE DEF new
<1>4. /\ PthreadStep(i) /\ pc'[i] = "register"
      /\ slots'[i] = slots[i] /\ php'[i] = new /\ state'[i] = state[i]
  <2>1. UNCHANGED <<state, waits, slots>> /\ PhpUnchanged
    BY DEF TsResource
  <2> QED BY <1>2, <1>3, <2>1, PhpOnly
<1>5. Finds(i)' BY <1>1, <1>4 DEF SlotInv, Finds
<1>6. Owns(i)' BY <1>1, <1>2, <1>4 DEF SlotInv, Owns
<1> QED BY <1>1, <1>4, <1>5, <1>6, LivePthread

LEMMA StoreForceKillSlotKeeps ==
  ASSUME IInv, NEW i \in Slots, StoreForceKillSlot(i) PROVE IInv'
<1>1. SlotInv(i) /\ pc[i] = "register" /\ Goto(i, "before") /\ "before" \in PthreadLabels
  BY DEF IInv, StoreForceKillSlot, At, PthreadLabels
<1>2. /\ PthreadStep(i) /\ pc'[i] = "before" /\ state'[i] = state[i]
      /\ slots'[i].kill = TRUE /\ slots'[i].handler = slots[i].handler /\ php'[i] = php[i]
  BY <1>1, KillOnly DEF StoreForceKillSlot
<1>3. Finds(i)' BY <1>1, <1>2 DEF SlotInv, Finds
<1>4. Owns(i)' BY <1>1, <1>2 DEF SlotInv, Owns
<1> QED BY <1>1, <1>2, <1>3, <1>4, LivePthread

LEMMA BeforeScriptExecutionKeeps ==
  ASSUME IInv, NEW i \in Slots, BeforeScriptExecution(i) PROVE IInv'
<1> DEFINE new == [php[i] EXCEPT !.running = slots[i].handler]
<1>1. /\ php[i] \in Pthread /\ slots[i] \in Slot /\ SlotInv(i) /\ pc[i] = "before"
  BY DEF IInv, Typed, BeforeScriptExecution, At
<1>2. /\ new \in Pthread /\ new.running = slots[i].handler /\ new.tsrm = php[i].tsrm
      /\ new.script = php[i].script /\ new.healthy = php[i].healthy
  BY <1>1 DEF Pthread, Slot
<1>3. php' = [php EXCEPT ![i] = new] /\ Goto(i, "loop") /\ "loop" \in PthreadLabels
  BY DEF BeforeScriptExecution, PthreadLabels
<1> HIDE DEF new
<1>4. /\ PthreadStep(i) /\ pc'[i] = "loop"
      /\ slots'[i] = slots[i] /\ php'[i] = new /\ state'[i] = state[i]
  <2>1. UNCHANGED <<state, waits, slots>> /\ PhpUnchanged
    BY DEF BeforeScriptExecution
  <2> QED BY <1>2, <1>3, <2>1, PhpOnly
<1>5. Finds(i)' BY <1>1, <1>4 DEF SlotInv, Finds, Work, Handlers
<1>6. Owns(i)' BY <1>1, <1>2, <1>4 DEF SlotInv, Owns
<1> QED BY <1>1, <1>4, <1>5, <1>6, LivePthread

\* The loop has an arm for what it reads, and the arm's place accepts it.
LEMMA HandlerLoopKeeps ==
  ASSUME IInv, NEW i \in Slots, HandlerLoop(i) PROVE IInv'
<1>1. /\ SlotInv(i) /\ pc[i] = "loop" /\ UNCHANGED <<state, waits, rest>>
      /\ Goto(i, Arm(php[i].running, state[i])) /\ php[i].running = slots[i].handler
  BY DEF IInv, SlotInv, Owns, HandlerLoop, At
<1>2. \/ slots[i].handler = "inactive"
         /\ state[i] \in {"Booting", "TransitionComplete", "TransitionRequested", "ShuttingDown"}
      \/ slots[i].handler = "regular" /\ state[i] \in {"TransitionComplete"} \cup Work
  BY <1>1 DEF SlotInv, Finds
<1> DEFINE l == Arm(php[i].running, state[i])
<1>3. /\ state[i] = "TransitionRequested" => l = "publish_tip"
      /\ state[i] = "ShuttingDown" => l = "clear"
      /\ slots[i].handler = "inactive" /\ state[i] \in {"Booting", "TransitionComplete"}
           => l = "publish_inactive"
      /\ slots[i].handler = "regular" /\ state[i] = "TransitionComplete" => l = "publish_ready"
      /\ slots[i].handler = "regular" /\ state[i] = "Ready" => l = "fetch_drain"
  BY <1>1 DEF Arm
<1> HIDE DEF l
<1>4. l \in PthreadLabels /\ Goto(i, l)
  BY <1>1, <1>2, <1>3 DEF PthreadLabels, Work, l
<1>5. CellStep(i, i)
  BY <1>1, StillStep, Names DEF IInv
<1>6. /\ PthreadStep(i) /\ pc'[i] = l /\ slots'[i] = slots[i] /\ php'[i] = php[i]
      /\ state'[i] = state[i]
  BY <1>1, <1>4, <1>5, MoveOnly
<1>7. Finds(i)' BY <1>1, <1>2, <1>3, <1>6 DEF SlotInv, Owns, Finds, Work
<1>8. Owns(i)' BY <1>1, <1>2, <1>3, <1>6 DEF SlotInv, Owns, Work
<1>9. l # "none" BY <1>2, <1>3 DEF Work
<1> QED BY <1>1, <1>6, <1>7, <1>8, <1>9, LivePthread

\* Moves that read nothing but the wait they return from.
LEMMA PlainMoveKeeps ==
  ASSUME IInv, NEW i \in Slots,
         TakeNewHandler(i) \/ LeaveInactive(i) \/ SelectDrained(i) \/ RequestStartup(i)
           \/ ScriptReturns(i)
  PROVE  IInv'
<1>1. SlotInv(i) /\ UNCHANGED <<state, waits, rest>> /\ CellStep(i, i) /\ waits' = waits
  BY StillStep, Names DEF IInv, TakeNewHandler, LeaveInactive, SelectDrained, RequestStartup,
     ScriptReturns, Move
<1>2. PICK l \in PthreadLabels : /\ Goto(i, l) /\ l # "none" /\ pc[i] # "none"
        /\ \/ pc[i] = "await_complete" /\ l = "before" /\ ~Subscribed(i)
           \/ pc[i] = "await_inactive" /\ l = "loop" /\ ~Subscribed(i)
           \/ pc[i] = "select" /\ l = "loop"
           \/ pc[i] = "startup" /\ l = "script"
           \/ pc[i] = "script" /\ l = "after"
  BY DEF TakeNewHandler, LeaveInactive, SelectDrained, RequestStartup, ScriptReturns, Move, Woken, At, PthreadLabels
<1>3. /\ PthreadStep(i) /\ pc'[i] = l /\ slots'[i] = slots[i] /\ php'[i] = php[i]
      /\ state'[i] = state[i]
  BY <1>1, <1>2, MoveOnly
<1>4. /\ pc[i] = "await_complete" => state[i] = "TransitionComplete"
      /\ pc[i] = "await_inactive" => state[i] \in InactiveWakes
  <2>1. pc[i] = "await_complete" => Waiting(i, i, {"TransitionComplete"})
    BY <1>1 DEF SlotInv, Owns
  <2>2. pc[i] = "await_inactive" => Waiting(i, i, InactiveWakes)
    BY <1>1 DEF SlotInv, Owns
  <2>3. pc[i] \in {"await_complete", "await_inactive"} => ~Subscribed(i)
    BY <1>2
  <2> QED BY <2>1, <2>2, <2>3, WokenFinds
<1>5. Finds(i)' BY <1>1, <1>2, <1>3, <1>4 DEF SlotInv, Finds, Work, Handlers, InactiveWakes
<1>6. Owns(i)' BY <1>1, <1>2, <1>3 DEF SlotInv, Owns
<1> QED BY <1>2, <1>3, <1>5, <1>6, LivePthread

\* The two places where a pthread parks.
LEMMA ParkKeeps ==
  ASSUME IInv, NEW i \in Slots, ParkForNewHandler(i) \/ ParkInactive(i)
  PROVE  IInv'
<1>1. SlotInv(i) /\ UNCHANGED rest
  BY DEF IInv, ParkForNewHandler, ParkInactive, SubscribeThen
<1>2. PICK l \in PthreadLabels, S \in SUBSET State :
        /\ Goto(i, l) /\ l # "none" /\ subscribe(i, i, S)
        /\ \/ pc[i] = "park_tip" /\ l = "await_complete" /\ S = {"TransitionComplete"}
           \/ pc[i] = "park_inactive" /\ l = "await_inactive" /\ S = InactiveWakes
  <2>1. {"TransitionComplete"} \in SUBSET State /\ InactiveWakes \in SUBSET State
        /\ {"await_complete", "await_inactive"} \subseteq PthreadLabels
    BY DEF State, InactiveWakes, PthreadLabels
  <2> QED BY <2>1 DEF ParkForNewHandler, ParkInactive, SubscribeThen, At
<1>3. CellStep(i, i) /\ state' = state /\ Waiting(i, i, S)'
  BY <1>2, SubscribeStep, Names DEF IInv
<1>4. PthreadStep(i) /\ pc'[i] = l /\ slots'[i] = slots[i] /\ php'[i] = php[i]
  BY <1>1, <1>2, <1>3, MoveOnly
<1>5. Finds(i)' BY <1>1, <1>2, <1>3, <1>4 DEF SlotInv, Finds
<1>6. Owns(i)' BY <1>1, <1>2, <1>3, <1>4 DEF SlotInv, Owns
<1> QED BY <1>2, <1>3, <1>4, <1>5, <1>6, LivePthread

\* The states a pthread publishes are the ones the call that owns the slot expects.
LEMMA PublishKeeps ==
  ASSUME IInv, NEW i \in Slots,
         PublishTransition(i) \/ PublishInactive(i) \/ PublishReady(i)
  PROVE  IInv'
<1>1. SlotInv(i) /\ UNCHANGED rest
  BY DEF IInv, PublishTransition, PublishInactive, PublishReady, SetThen
<1>2. PICK l \in PthreadLabels, s \in State :
        /\ Goto(i, l) /\ l # "none" /\ Set(i, s)
        /\ \/ pc[i] = "publish_tip" /\ l = "park_tip" /\ s = "TransitionInProgress"
           \/ pc[i] = "publish_inactive" /\ l = "park_inactive" /\ s = "Inactive"
           \/ pc[i] = "publish_ready" /\ l = "loop" /\ s = "Ready"
  <2>1. /\ {"TransitionInProgress", "Inactive", "Ready"} \subseteq State
        /\ {"park_tip", "park_inactive", "loop"} \subseteq PthreadLabels
    BY DEF State, PthreadLabels
  <2> QED BY <2>1 DEF PublishTransition, PublishInactive, PublishReady, SetThen, At
<1>3. /\ s = "TransitionInProgress" => state[i] = "TransitionRequested"
      /\ s = "Inactive" => state[i] \in {"Booting", "TransitionComplete"} /\ slots[i].handler = "inactive"
      /\ s = "Ready" => state[i] = "TransitionComplete" /\ slots[i].handler = "regular"
      /\ s \in {"TransitionInProgress", "Inactive", "Ready"}
  BY <1>1, <1>2 DEF SlotInv, Finds
<1>4. CellStep(i, i) /\ state'[i] = s
  BY <1>2, SetStep, Names DEF IInv
<1>5. PthreadStep(i) /\ pc'[i] = l /\ slots'[i] = slots[i] /\ php'[i] = php[i]
  BY <1>1, <1>2, <1>3, <1>4, MoveOnly
<1>6. Label' = Label /\ job' = job /\ installed' = installed
  BY <1>5, LabelStays DEF PthreadStep
<1>7. Finds(i)' BY <1>2, <1>3, <1>4, <1>5 DEF Finds, Work
<1>8. Owns(i)' BY <1>1, <1>2, <1>5 DEF SlotInv, Owns
<1>9. Owner(i)' BY <1>1, <1>3, <1>4, <1>5, <1>6 DEF SlotInv, Owner, Asked, Closed, Stopping
<1>10. Knows(i)' BY <1>1, <1>2, <1>3, <1>4, <1>5, <1>6 DEF SlotInv, Knows, Draining
<1> QED BY <1>5, <1>7, <1>8, <1>9, <1>10, PthreadFrame DEF SlotInv

LEMMA FetchDrainKeeps ==
  ASSUME IInv, NEW i \in Slots, FetchDrain(i) PROVE IInv'
<1> DEFINE new == [php[i] EXCEPT !.fresh = TRUE]
<1>1. php[i] \in Pthread /\ SlotInv(i) /\ pc[i] = "fetch_drain"
  BY DEF IInv, Typed, FetchDrain, At
<1>2. /\ new \in Pthread /\ new.running = php[i].running /\ new.tsrm = php[i].tsrm
      /\ new.script = php[i].script /\ new.healthy = php[i].healthy
  BY <1>1 DEF Pthread
<1>3. php' = [php EXCEPT ![i] = new] /\ Goto(i, "select") /\ "select" \in PthreadLabels
  BY DEF FetchDrain, PthreadLabels
<1> HIDE DEF new
<1>4. /\ PthreadStep(i) /\ pc'[i] = "select"
      /\ slots'[i] = slots[i] /\ php'[i] = new /\ state'[i] = state[i]
  <2>1. UNCHANGED <<state, waits, slots>> /\ PhpUnchanged
    BY DEF FetchDrain
  <2> QED BY <1>2, <1>3, <2>1, PhpOnly
<1>5. Finds(i)' BY <1>1, <1>4 DEF SlotInv, Finds
<1>6. Owns(i)' BY <1>1, <1>2, <1>4 DEF SlotInv, Owns
<1> QED BY <1>1, <1>4, <1>5, <1>6, LivePthread

LEMMA SelectRequestKeeps ==
  ASSUME IInv, NEW i \in Slots, NEW s \in Scripts, SelectRequest(i, s) PROVE IInv'
<1> DEFINE new == [php[i] EXCEPT !.script = s]
<1>1. php[i] \in Pthread /\ SlotInv(i) /\ pc[i] = "select" /\ s \in {"finite", "runaway"}
  BY ScriptsAssumption DEF IInv, Typed, SelectRequest, At
<1>2. /\ new \in Pthread /\ new.running = php[i].running /\ new.tsrm = php[i].tsrm
      /\ new.script = s /\ new.healthy = php[i].healthy
  BY <1>1 DEF Pthread
<1>3. php' = [php EXCEPT ![i] = new] /\ Goto(i, "startup") /\ "startup" \in PthreadLabels
  BY DEF SelectRequest, PthreadLabels
<1> HIDE DEF new
<1>4. /\ PthreadStep(i) /\ pc'[i] = "startup"
      /\ slots'[i] = slots[i] /\ php'[i] = new /\ state'[i] = state[i]
  <2>1. UNCHANGED <<state, waits, slots>> /\ PhpUnchanged
    BY DEF SelectRequest
  <2> QED BY <1>2, <1>3, <2>1, PhpOnly
<1>5. Finds(i)' BY <1>1, <1>4 DEF SlotInv, Finds
<1>6. Owns(i)' BY <1>1, <1>2, <1>4 DEF SlotInv, Owns
<1> QED BY <1>1, <1>4, <1>5, <1>6, LivePthread

LEMMA ScriptBailsOutKeeps ==
  ASSUME IInv, NEW i \in Slots, ScriptBailsOut(i) PROVE IInv'
<1> DEFINE new == [php[i] EXCEPT !.healthy = FALSE]
<1>1. php[i] \in Pthread /\ SlotInv(i) /\ pc[i] \in {"startup", "script"}
  BY DEF IInv, Typed, ScriptBailsOut, At
<1>2. /\ new \in Pthread /\ new.running = php[i].running /\ new.tsrm = php[i].tsrm
      /\ new.script = php[i].script /\ new.healthy = FALSE
  BY <1>1 DEF Pthread
<1>3. php' = [php EXCEPT ![i] = new] /\ Goto(i, "after") /\ "after" \in PthreadLabels
  BY DEF ScriptBailsOut, PthreadLabels
<1> HIDE DEF new
<1>4. /\ PthreadStep(i) /\ pc'[i] = "after"
      /\ slots'[i] = slots[i] /\ php'[i] = new /\ state'[i] = state[i]
  <2>1. UNCHANGED <<state, waits, slots>> /\ PhpUnchanged
    BY DEF ScriptBailsOut
  <2> QED BY <1>2, <1>3, <2>1, PhpOnly
<1>5. Finds(i)' BY <1>1, <1>4 DEF SlotInv, Finds
<1>6. Owns(i)' BY <1>1, <1>2, <1>4 DEF SlotInv, Owns
<1> QED BY <1>1, <1>4, <1>5, <1>6, LivePthread

LEMMA AfterScriptExecutionKeeps ==
  ASSUME IInv, NEW i \in Slots, AfterScriptExecution(i) PROVE IInv'
<1> DEFINE new == [php[i] EXCEPT !.script = "none", !.interrupted = FALSE]
<1>1. php[i] \in Pthread /\ SlotInv(i) /\ pc[i] = "after" /\ php \in [Slots -> Pthread]
  BY DEF IInv, Typed, AfterScriptExecution, At
<1>2. /\ new \in Pthread /\ new.running = php[i].running /\ new.tsrm = php[i].tsrm
      /\ new.script = "none" /\ new.healthy = php[i].healthy
  BY <1>1 DEF Pthread
<1>3. php' = [php EXCEPT ![i] = new]
  BY <1>1 DEF AfterScriptExecution
<1>4. PICK l \in PthreadLabels : Goto(i, l) /\ l = (IF php[i].healthy THEN "before" ELSE "clear")
  BY DEF AfterScriptExecution, PthreadLabels
<1> HIDE DEF new
<1>5. /\ PthreadStep(i) /\ pc'[i] = l
      /\ slots'[i] = slots[i] /\ php'[i] = new /\ state'[i] = state[i]
  <2>1. UNCHANGED <<state, waits, slots>> /\ PhpUnchanged
    BY DEF AfterScriptExecution
  <2> QED BY <1>2, <1>3, <1>4, <2>1, PhpOnly
<1>6. Finds(i)' BY <1>1, <1>2, <1>4, <1>5 DEF SlotInv, Finds
<1>7. Owns(i)' BY <1>1, <1>2, <1>4, <1>5 DEF SlotInv, Owns
<1> QED BY <1>1, <1>4, <1>5, <1>6, <1>7, LivePthread

LEMMA ClearForceKillSlotKeeps ==
  ASSUME IInv, NEW i \in Slots, ClearForceKillSlot(i) PROVE IInv'
<1>1. SlotInv(i) /\ pc[i] = "clear" /\ Goto(i, "free") /\ "free" \in PthreadLabels
  BY DEF IInv, ClearForceKillSlot, At, PthreadLabels
<1>2. /\ PthreadStep(i) /\ pc'[i] = "free" /\ state'[i] = state[i]
      /\ slots'[i].kill = FALSE /\ slots'[i].handler = slots[i].handler /\ php'[i] = php[i]
  BY <1>1, KillOnly DEF ClearForceKillSlot
<1>3. Finds(i)' BY <1>1, <1>2 DEF SlotInv, Finds
<1>4. Owns(i)' BY <1>1, <1>2 DEF SlotInv, Owns
<1> QED BY <1>1, <1>2, <1>3, <1>4, LivePthread

LEMMA TsFreeThreadKeeps ==
  ASSUME IInv, NEW i \in Slots, TsFreeThread(i) PROVE IInv'
<1> DEFINE new == [php[i] EXCEPT !.tsrm = FALSE]
<1>1. php[i] \in Pthread /\ SlotInv(i) /\ pc[i] = "free"
  BY DEF IInv, Typed, TsFreeThread, At
<1>2. /\ new \in Pthread /\ new.running = php[i].running /\ new.tsrm = FALSE
      /\ new.script = php[i].script /\ new.healthy = php[i].healthy
  BY <1>1 DEF Pthread
<1>3. php' = [php EXCEPT ![i] = new]
  BY DEF TsFreeThread
<1>4. PICK l \in PthreadLabels : Goto(i, l) /\ l = (IF php[i].healthy THEN "on_shutdown" ELSE "respawn")
  BY DEF TsFreeThread, PthreadLabels
<1> HIDE DEF new
<1>5. /\ PthreadStep(i) /\ pc'[i] = l
      /\ slots'[i] = slots[i] /\ php'[i] = new /\ state'[i] = state[i]
  <2>1. UNCHANGED <<state, waits, slots>> /\ PhpUnchanged
    BY DEF TsFreeThread
  <2> QED BY <1>2, <1>3, <1>4, <2>1, PhpOnly
<1>6. Finds(i)' BY <1>1, <1>2, <1>4, <1>5 DEF SlotInv, Finds
<1>7. Owns(i)' BY <1>1, <1>2, <1>4, <1>5 DEF SlotInv, Owns
<1> QED BY <1>1, <1>4, <1>5, <1>6, <1>7, LivePthread

\* The end of a pthread, which publishes Done, is one a call has asked for.
LEMMA OnThreadShutdownKeeps ==
  ASSUME IInv, NEW i \in Slots, OnThreadShutdown(i) PROVE IInv'
<1>1. SlotInv(i) /\ pc[i] = "on_shutdown" /\ state[i] = "ShuttingDown"
  BY DEF IInv, SlotInv, Finds, OnThreadShutdown, At
<1>2. NoPthread \in Pthread /\ "none" \in PthreadLabels /\ "Done" \in State
  BY DEF NoPthread, Pthread, PthreadLabels, State
<1>3. CellStep(i, i) /\ state'[i] = "Done"
  BY <1>2, SetStep, Names DEF IInv, OnThreadShutdown
<1>4. PthreadStep(i) /\ pc'[i] = "none" /\ slots'[i] = slots[i] /\ php'[i] = NoPthread
  BY <1>1, <1>2, <1>3, Names DEF IInv, Typed, OnThreadShutdown, PhpUnchanged, Goto, PthreadStep
<1>5. Label' = Label /\ job' = job /\ installed' = installed
  BY <1>4, LabelStays DEF PthreadStep
<1>6. Finds(i)' BY <1>3, <1>4 DEF Finds
<1>7. Owns(i)' BY <1>1, <1>4 DEF SlotInv, Owns, NoPthread
<1>8. Owner(i)' BY <1>1, <1>3, <1>4, <1>5 DEF SlotInv, Owner, Asked, Closed, Stopping
<1>9. Knows(i)' BY <1>1, <1>3, <1>4, <1>5 DEF SlotInv, Knows, Draining
<1> QED BY <1>4, <1>6, <1>7, <1>8, <1>9, PthreadFrame DEF SlotInv

\* A replacement inherits the slot as it is; a lost pthread leaves it so.
LEMMA RespawnKeeps ==
  ASSUME IInv, NEW i \in Slots, Respawn(i) \/ RespawnFails(i) PROVE IInv'
<1>1. /\ SlotInv(i) /\ pc[i] = "respawn" /\ state[i] \in Work /\ slots[i].handler = "regular"
      /\ php' = [php EXCEPT ![i] = NoPthread] /\ UNCHANGED <<state, waits, slots>> /\ PhpUnchanged
  BY DEF IInv, SlotInv, Finds, Respawn, RespawnFails, At
<1>2. NoPthread \in Pthread
  BY DEF NoPthread, Pthread
<1>3. PICK l \in PthreadLabels : Goto(i, l) /\ l \in {"created", "none"}
  BY DEF Respawn, RespawnFails, PthreadLabels
<1>4. /\ PthreadStep(i) /\ pc'[i] = l
      /\ slots'[i] = slots[i] /\ php'[i] = NoPthread /\ state'[i] = state[i]
  BY <1>1, <1>2, <1>3, PhpOnly
<1>5. Label' = Label /\ job' = job /\ installed' = installed
  BY <1>4, LabelStays DEF PthreadStep
<1>6. Finds(i)' BY <1>1, <1>3, <1>4 DEF Finds, Work
<1>7. Owns(i)' BY <1>1, <1>3, <1>4 DEF SlotInv, Owns, NoPthread
<1>8. Owner(i)' BY <1>1, <1>4, <1>5 DEF SlotInv, Owner, Asked, Closed, Stopping
<1>9. Knows(i)' BY <1>1, <1>3, <1>4, <1>5 DEF SlotInv, Knows, Draining, Work
<1> QED BY <1>4, <1>6, <1>7, <1>8, <1>9, PthreadFrame DEF SlotInv

LEMMA PthreadsKeep ==
  ASSUME IInv, NEW i \in Slots,
         PthreadRuns(i) \/ ScriptBailsOut(i) \/ RespawnFails(i) \/ \E s \in Scripts : SelectRequest(i, s)
  PROVE  IInv'
BY TsResourceKeeps, StoreForceKillSlotKeeps, BeforeScriptExecutionKeeps, HandlerLoopKeeps,
   PlainMoveKeeps, ParkKeeps, PublishKeeps, FetchDrainKeeps, SelectRequestKeeps,
   ScriptBailsOutKeeps, AfterScriptExecutionKeeps, ClearForceKillSlotKeeps, TsFreeThreadKeeps,
   OnThreadShutdownKeeps, RespawnKeeps
   DEF PthreadRuns
-------------------------------------------------------------------------------
(* The main pthread *)

\* What a step of the main pthread leaves alone.
MainStep ==
  /\ UNCHANGED <<slots, php, metrics, installed, scaling, job>>
  /\ engine' \in BOOLEAN
  /\ CellStep(Main, Main)
  /\ pc'[Main] \in MainLabels /\ pc' = [pc EXCEPT ![Main] = pc'[Main]]
  /\ state'[Main] # state[Main] =>
       \/ state[Main] = "Reserved" /\ Label \in {"park_main_ready", "await_main_ready"}
       \/ state[Main] = "Done"

LEMMA MainFrame ==
  ASSUME IInv, MainStep, MainShape', MainCall' PROVE IInv'
<1> USE Names
<1>1. /\ UNCHANGED <<slots, php, metrics, installed, scaling, job>>
      /\ \A a \in Actors \ {Main} : pc'[a] = pc[a]
      /\ \A d \in Cells \ {Main} : state'[d] = state[d]
  BY DEF MainStep, CellStep, IInv, Typed
<1>2. Label' = Label
  BY <1>1 DEF Label, IInv, Typed
<1>3. Typed'
  BY <1>1 DEF MainStep, CellStep, IInv, Typed
<1>4. ASSUME NEW j \in Slots PROVE SlotInv(j)'
  <2>1. SlotInv(j) /\ j \in Actors \ {Main} /\ j \in Cells \ {Main}
    BY DEF IInv
  <2>2. pc'[j] = pc[j] /\ state'[j] = state[j] /\ slots'[j] = slots[j] /\ php'[j] = php[j]
    BY <1>1
  <2>3. \A S \in SUBSET State : Waiting(j, j, S) => Waiting(j, j, S)'
    BY <2>1 DEF MainStep, CellStep
  <2>4. {"TransitionComplete"} \in SUBSET State /\ InactiveWakes \in SUBSET State
    BY DEF State, InactiveWakes
  <2>5. Finds(j)' BY <2>1, <2>2 DEF SlotInv, Finds
  <2>6. Owns(j)' BY <2>1, <2>2, <2>3, <2>4 DEF SlotInv, Owns
  <2>7. Owner(j)' BY <1>1, <1>2, <2>1, <2>2 DEF SlotInv, Owner, Asked, Closed, Stopping
  <2>8. Knows(j)' BY <1>1, <1>2, <2>1, <2>2 DEF SlotInv, Knows, Draining
  <2> QED BY <2>5, <2>6, <2>7, <2>8 DEF SlotInv
<1>5. CallInv'
  <2>1. CallInv /\ (\A c \in Controllers : pc'[c] = pc[c]) /\ (scaling # Free => scaling \in Controllers)
    BY <1>1 DEF IInv, Typed
  <2> QED BY <1>1, <1>2, <2>1 DEF CallInv, Draining, Stopping
<1>6. HolderWaits'
  <2>1. HolderWaits /\ scaling' = scaling /\ job' = job /\ job.slot \in Slots
    BY <1>1 DEF IInv, Typed, Job
  <2>2. ASSUME NEW d \in Cells, NEW s \in {"Ready", "Inactive", "TransitionInProgress", "Done", "Reserved"},
               scaling \in Controllers, Waiting(scaling, d, {s}),
               d = Main => s = "Ready" \/ (s = "Reserved" /\ Label = "await_reserved")
        PROVE  Waiting(scaling, d, {s})'
    <3>1. {s} \in SUBSET State /\ scaling \in Actors \ {Main}
      BY <2>2 DEF State
    <3>2. d = Main /\ state[Main] \in {s} => state'[Main] \in {s}
      BY <2>2 DEF MainStep
    <3> QED BY <2>2, <3>1, <3>2 DEF MainStep, CellStep
  <2>3. Label # "idle" => scaling \in Controllers
    BY DEF Label, IInv, Typed
  <2> QED BY <1>2, <2>1, <2>2, <2>3 DEF HolderWaits
<1> QED BY <1>3, <1>4, <1>5, <1>6 DEF IInv

LEMMA MainsLabel ==
  ASSUME IInv
  PROVE  /\ Label \in ControllerLabels
         /\ pc[Main] \in {"startup", "publish_ready"} => Label \in {"park_main_ready", "await_main_ready"}
         /\ state[Main] = "Done" => Label \in {"park_reserved", "await_reserved"}
         /\ pc[Main] = "publish_reserved" => Label \in {"park_reserved", "await_reserved"}
<1>1. Label \in ControllerLabels
  BY DEF IInv, Typed, Label, ControllerLabels
<1>2. CASE Label = "idle"
  BY <1>1, <1>2 DEF IInv, MainCall, MainShape, MainUp
<1>3. CASE Label # "idle"
  BY <1>1, <1>3 DEF IInv, MainCall, MainShape, MainUp, ControllerLabels, BootLabels, SwapLabels, AskLabels,
       StopLabels
<1> QED BY <1>1, <1>2, <1>3

LEMMA MainKeeps ==
  ASSUME IInv, MainRuns PROVE IInv'
<1> USE Names
<1>1. IInv /\ MainShape /\ MainCall /\ Typed
  BY DEF IInv
<1>2. CASE MainStartup
  <2>1. CellStep(Main, Main) BY <1>1, <1>2, StillStep DEF MainStartup
  <2>2. pc[Main] = "startup" /\ pc'[Main] = "publish_ready" /\ pc' = [pc EXCEPT ![Main] = "publish_ready"]
    BY <1>1, <1>2 DEF MainStartup, At, Goto, Typed
  <2>3. MainStep BY <1>2, <2>1, <2>2 DEF MainStartup, MainStep, MainLabels
  <2>4. MainShape' BY <1>1, <1>2, <2>2 DEF MainShape, MainStartup
  <2>5. Label' = Label BY <1>1, <1>2, <2>2 DEF Label, MainStartup, Typed
  <2>6. MainCall' BY <1>1, <1>2, <2>2, <2>5, MainsLabel DEF MainCall, MainStartup, MainUp, Draining,
          BootLabels, SwapLabels, AskLabels, StopLabels
  <2> QED BY <2>3, <2>4, <2>6, MainFrame
<1>3. CASE MainPublishReady
  <2>1. CellStep(Main, Main) /\ state'[Main] = "Ready"
    BY <1>1, <1>3, SetStep DEF MainPublishReady, SetThen, State
  <2>2. pc[Main] = "publish_ready" /\ pc'[Main] = "park_main" /\ pc' = [pc EXCEPT ![Main] = "park_main"]
    BY <1>1, <1>3 DEF MainPublishReady, SetThen, At, Goto, Typed
  <2>3. UNCHANGED rest BY <1>3 DEF MainPublishReady, SetThen
  <2>4. MainStep BY <1>1, <2>1, <2>2, <2>3, MainsLabel DEF MainStep, MainLabels, rest, MainShape, Typed
  <2>5. MainShape' BY <1>1, <2>1, <2>2, <2>3 DEF MainShape, rest
  <2>6. Label' = Label BY <1>1, <2>2, <2>3 DEF Label, rest, Typed
  <2>7. MainCall' BY <1>1, <2>1, <2>2, <2>3, <2>6, MainsLabel DEF MainCall, rest, MainUp, Draining,
          BootLabels, SwapLabels, AskLabels, StopLabels
  <2> QED BY <2>4, <2>5, <2>7, MainFrame
<1>4. CASE MainPark
  <2>1. CellStep(Main, Main) /\ state' = state /\ Waiting(Main, Main, {"Done", "Rebooting"})'
    BY <1>1, <1>4, SubscribeStep DEF MainPark, SubscribeThen, State
  <2>2. pc[Main] = "park_main" /\ pc'[Main] = "await_done" /\ pc' = [pc EXCEPT ![Main] = "await_done"]
    BY <1>1, <1>4 DEF MainPark, SubscribeThen, At, Goto, Typed
  <2>3. UNCHANGED rest BY <1>4 DEF MainPark, SubscribeThen
  <2>4. MainStep BY <1>1, <2>1, <2>2, <2>3 DEF MainStep, MainLabels, rest, Typed
  <2>5. MainShape' BY <1>1, <2>1, <2>2, <2>3 DEF MainShape, rest
  <2>6. Label' = Label BY <1>1, <2>2, <2>3 DEF Label, rest, Typed
  <2>7. MainCall' BY <1>1, <2>1, <2>2, <2>3, <2>6 DEF MainCall, rest, MainUp, Draining
  <2> QED BY <2>4, <2>5, <2>7, MainFrame
<1>5. CASE MainTeardown
  <2>1. CellStep(Main, Main) /\ UNCHANGED <<state, slots, php, metrics, installed, scaling, job>> /\ engine' = FALSE
    BY <1>1, <1>5, StillStep DEF MainTeardown
  <2>2. pc[Main] = "await_done" /\ pc'[Main] = "publish_reserved" /\ pc' = [pc EXCEPT ![Main] = "publish_reserved"]
    BY <1>1, <1>5 DEF MainTeardown, Woken, At, Goto, Typed
  <2>3. state[Main] = "Done"
    <3>1. Waiting(Main, Main, {"Done", "Rebooting"}) /\ state[Main] \in {"Ready", "ShuttingDown", "Done"}
      BY <1>1, <2>2 DEF MainShape
    <3> QED BY <1>5, <3>1, WokenFinds DEF MainTeardown, Woken
  <2>4. MainStep BY <2>1, <2>2 DEF MainStep, MainLabels
  <2>5. MainShape' BY <1>1, <2>1, <2>2, <2>3 DEF MainShape
  <2>6. Label' = Label BY <1>1, <2>1, <2>2 DEF Label, Typed
  <2>7. MainCall' BY <1>1, <2>1, <2>2, <2>3, <2>6, MainsLabel DEF MainCall, MainUp, Draining,
          BootLabels, SwapLabels, AskLabels, StopLabels
  <2> QED BY <2>4, <2>5, <2>7, MainFrame
<1>6. CASE MainPublishReserved
  <2>1. CellStep(Main, Main) /\ state'[Main] = "Reserved"
    BY <1>1, <1>6, SetStep DEF MainPublishReserved, SetThen, State
  <2>2. pc[Main] = "publish_reserved" /\ pc'[Main] = "none" /\ pc' = [pc EXCEPT ![Main] = "none"]
    BY <1>1, <1>6 DEF MainPublishReserved, SetThen, At, Goto, Typed
  <2>3. UNCHANGED rest BY <1>6 DEF MainPublishReserved, SetThen
  <2>4. MainStep BY <1>1, <2>1, <2>2, <2>3 DEF MainStep, MainLabels, rest, MainShape, Typed
  <2>5. MainShape' BY <1>1, <2>1, <2>2, <2>3 DEF MainShape, rest
  <2>6. Label' = Label BY <1>1, <2>2, <2>3 DEF Label, rest, Typed
  <2>7. MainCall' BY <1>1, <2>1, <2>2, <2>3, <2>6, MainsLabel DEF MainCall, rest, MainUp, Draining,
          BootLabels, SwapLabels, AskLabels, StopLabels
  <2> QED BY <2>4, <2>5, <2>7, MainFrame
<1> QED BY <1>2, <1>3, <1>4, <1>5, <1>6 DEF MainRuns
-------------------------------------------------------------------------------
(* The calls of ThreadController *)

\* The holder of SCALING and its locals.
LEMMA Holder ==
  ASSUME IInv, NEW c \in Controllers, NEW l, Holds(c, l)
  PROVE  /\ scaling = c /\ c # Free /\ Label = l /\ pc[c] = l
         /\ c \in Actors /\ c # Main /\ c \notin Slots /\ c \notin Cells
         /\ job \in Job /\ job.slot \in Slots /\ job.slot \in Cells /\ job.slot # Main
         /\ job.pending \subseteq Slots /\ job.op \in Operations \cup {"none"}
         /\ SlotInv(job.slot)
BY Names, ActorsAssumption, NamesAssumption DEF IInv, Typed, Holds, At, Label, Job

\* A slot with one of these states has no pthread.
LEMMA NobodyThere ==
  ASSUME IInv, NEW i \in Slots, state[i] \in {"Reserved", "BootRequested", "Done"}
  PROVE  pc[i] = "none"
<1>1. pc[i] \in PthreadLabels /\ Finds(i)
  BY DEF IInv, Typed, SlotInv
<1> QED BY <1>1 DEF Finds, PthreadLabels, Work

\* A step of a call, up to what it means for the call itself: c goes on at label l or
\* has returned, and every pthread is still in step.
After(c, l) ==
  /\ Typed' /\ MainShape' /\ Label' = l
  /\ pc'[Main] = pc[Main]
  /\ \A i \in Slots : Finds(i)' /\ Owns(i)' /\ pc'[i] = pc[i]
  /\ \A d \in Controllers : d # scaling' => pc'[d] = "idle"
  /\ scaling' # Free => pc'[scaling'] # "idle"

\* A call touches at most one cell, and one slot.
LEMMA CallFrame ==
  ASSUME IInv, NEW c \in Controllers, NEW l \in ControllerLabels, Goto(c, l),
         scaling \in {c, Free}, IF scaling' = Free THEN l = "idle" ELSE scaling' = c /\ l # "idle",
         NEW d \in Cells, CellStep(c, d),
         slots' \in [Slots -> Slot], php' \in [Slots -> Pthread],
         \A i \in Slots \ {d} : slots'[i] = slots[i] /\ php'[i] = php[i],
         engine' = engine, metrics' \in BOOLEAN, installed' \in BOOLEAN, job' \in Job,
         d \in Slots => Finds(d)' /\ Owns(d)',
         d = Main => MainShape'
  PROVE  After(c, l)
<1> USE Names
<1>1. /\ pc'[c] = l
      /\ \A a \in Actors \ {c} : pc'[a] = pc[a]
      /\ \A e \in Cells \ {d} : state'[e] = state[e]
  BY DEF CellStep, IInv, Typed, Goto
<1>2. Typed'
  <2>1. pc' \in [Actors -> PthreadLabels \cup MainLabels \cup ControllerLabels]
    BY DEF IInv, Typed, Goto
  <2> QED BY <1>1, <2>1 DEF CellStep, IInv, Typed
<1>3. ASSUME NEW i \in Slots PROVE Finds(i)' /\ Owns(i)' /\ pc'[i] = pc[i]
  <2>1. CASE i = d
    BY <1>1, <2>1
  <2>2. CASE i # d
    <3>1. SlotInv(i) /\ i \in Actors \ {c} /\ i \in Cells \ {d}
      BY <2>2 DEF IInv
    <3>2. pc'[i] = pc[i] /\ state'[i] = state[i] /\ slots'[i] = slots[i] /\ php'[i] = php[i]
      BY <1>1, <2>2, <3>1
    <3>3. \A S \in SUBSET State : Waiting(i, i, S) => Waiting(i, i, S)'
      BY <3>1 DEF CellStep
    <3>4. {"TransitionComplete"} \in SUBSET State /\ InactiveWakes \in SUBSET State
      BY DEF State, InactiveWakes
    <3>5. Finds(i)' BY <3>1, <3>2 DEF SlotInv, Finds
    <3>6. Owns(i)' BY <3>1, <3>2, <3>3, <3>4 DEF SlotInv, Owns
    <3> QED BY <3>2, <3>5, <3>6
  <2> QED BY <2>1, <2>2
<1>4. MainShape'
  <2>1. CASE d = Main
    BY <2>1
  <2>2. CASE d # Main
    <3>1. MainShape /\ Main \in Actors \ {c} /\ Main \in Cells \ {d}
      BY <2>2 DEF IInv
    <3>2. pc'[Main] = pc[Main] /\ state'[Main] = state[Main]
      BY <1>1, <3>1
    <3>3. {"Done", "Rebooting"} \in SUBSET State
      BY DEF State
    <3>4. Waiting(Main, Main, {"Done", "Rebooting"}) => Waiting(Main, Main, {"Done", "Rebooting"})'
      BY <3>1, <3>3, <2>2 DEF CellStep
    <3> QED BY <3>1, <3>2, <3>4 DEF MainShape
  <2> QED BY <2>1, <2>2
<1>5. Label' = l /\ (scaling' # Free => pc'[scaling'] # "idle")
  BY <1>1 DEF Label
<1>6. ASSUME NEW e \in Controllers, e # scaling' PROVE pc'[e] = "idle"
  <2>1. \A f \in Controllers : f # scaling => pc[f] = "idle"
    BY DEF IInv, CallInv
  <2> QED BY <1>1, <1>6, <2>1
<1> QED BY <1>1, <1>2, <1>3, <1>4, <1>5, <1>6 DEF After

\* A step that touches no slot.
LEMMA CallMoves ==
  ASSUME IInv, NEW c \in Controllers, NEW l \in ControllerLabels, Goto(c, l),
         scaling \in {c, Free}, IF scaling' = Free THEN l = "idle" ELSE scaling' = c /\ l # "idle",
         NEW d \in Cells, CellStep(c, d), UNCHANGED <<state, slots, php, engine>>,
         metrics' \in BOOLEAN, installed' \in BOOLEAN, job' \in Job
  PROVE  After(c, l)
<1> USE Names
<1>1. slots' \in [Slots -> Slot] /\ php' \in [Slots -> Pthread]
  BY DEF IInv, Typed
<1>2. \A a \in Actors \ {c} : pc'[a] = pc[a]
  BY DEF CellStep, IInv, Typed, Goto
<1>3. \A b \in Actors \ {c}, S \in SUBSET State : Waiting(b, d, S) => Waiting(b, d, S)'
  BY DEF CellStep
<1>4. ASSUME d \in Slots PROVE Finds(d)' /\ Owns(d)'
  <2>1. SlotInv(d) /\ d \in Actors \ {c} /\ pc'[d] = pc[d]
    BY <1>2, <1>4 DEF IInv
  <2>2. {"TransitionComplete"} \in SUBSET State /\ InactiveWakes \in SUBSET State
    BY DEF State, InactiveWakes
  <2>3. Finds(d)' BY <2>1 DEF SlotInv, Finds
  <2>4. Owns(d)' BY <1>3, <2>1, <2>2 DEF SlotInv, Owns
  <2> QED BY <2>3, <2>4
<1>5. ASSUME d = Main PROVE MainShape'
  <2>1. MainShape /\ pc'[Main] = pc[Main] /\ {"Done", "Rebooting"} \in SUBSET State /\ Main \in Actors \ {c}
    BY <1>2 DEF IInv, State
  <2> QED BY <1>3, <1>5, <2>1 DEF MainShape
<1> QED BY <1>1, <1>4, <1>5, CallFrame
-------------------------------------------------------------------------------
(* Waits of the call *)

\* A place of the call and the one where its wait, or its retry, goes on.
WaitPairs == { <<"park_main_ready", "await_main_ready">>, <<"park_booted", "await_booted">>,
               <<"request", "request_park">>, <<"request_park", "request_await">>,
               <<"request_await", "request">>, <<"park_tip", "await_tip">>,
               <<"grace", "await_grace">>, <<"await_grace", "grace_expired">>,
               <<"park_done", "await_done">>, <<"park_reserved", "await_reserved">> }

\* To wait changes nothing that the rest of the invariant is about.
LEMMA WaitFrame ==
  ASSUME IInv, NEW c \in Controllers, NEW l, NEW m, <<l, m>> \in WaitPairs, Holds(c, l), Goto(c, m),
         UNCHANGED <<state, slots, php, engine, metrics, installed, scaling, job>>,
         NEW d \in Cells, CellStep(c, d), HolderWaits'
  PROVE  IInv'
<1>1. scaling = c /\ c # Free /\ Label = l /\ job \in Job
  BY Holder
<1>2. m \in ControllerLabels /\ m # "idle" /\ l # "idle"
  BY DEF WaitPairs, ControllerLabels
<1>3. metrics' \in BOOLEAN /\ installed' \in BOOLEAN
  BY DEF IInv, Typed
<1>4. After(c, m)
  BY <1>1, <1>2, <1>3, CallMoves
<1>5. Label' = m BY <1>4 DEF After
<1>6. ASSUME NEW i \in Slots PROVE Owner(i)' /\ Knows(i)'
  <2>1. SlotInv(i) /\ pc'[i] = pc[i] BY <1>4 DEF IInv, After
  <2>2. Closed(i)' <=> Closed(i)
    BY <1>1, <1>5 DEF Closed, WaitPairs, AskLabels, SwapLabels, StopLabels
  <2>3. Asked(i)' <=> Asked(i)
    BY <1>1, <1>5, <2>2 DEF Asked, WaitPairs
  <2>4. Owner(i)'
    BY <1>1, <1>5, <2>1, <2>2, <2>3 DEF SlotInv, Owner, Stopping, WaitPairs, BootLabels
  <2>5. Knows(i)'
    BY <1>1, <1>5, <2>1 DEF SlotInv, Knows, Draining, WaitPairs, AskLabels, StopLabels, EndLabels, StartLabels
  <2> QED BY <2>4, <2>5
<1>7. CallInv'
  BY <1>1, <1>2, <1>4, <1>5 DEF IInv, CallInv, After, Draining, Stopping, WaitPairs,
     StartLabels, BootLabels, AskLabels, SwapLabels, StopLabels, EndLabels
<1>8. MainCall'
  BY <1>1, <1>4, <1>5 DEF IInv, MainCall, MainUp, After, Draining, WaitPairs,
     BootLabels, AskLabels, SwapLabels, StopLabels
<1> QED BY <1>4, <1>6, <1>7, <1>8 DEF IInv, After, SlotInv

LEMMA ParksKeep ==
  ASSUME IInv, NEW c \in Controllers,
         \/ ParkForMainReady(c) \/ ParkForBooted(c) \/ ParkForStable(c) \/ ParkForTransition(c)
         \/ ParkForGrace(c) \/ ParkForDone(c) \/ ParkForMainReserved(c)
  PROVE  IInv'
<1>1. PICK l, m, d, S :
        /\ Holds(c, l) /\ Goto(c, m) /\ subscribe(c, d, S)
        /\ UNCHANGED <<slots, php, engine, metrics, installed, scaling, job>>
        /\ \/ l = "park_main_ready" /\ m = "await_main_ready" /\ d = Main /\ S = {"Ready"}
           \/ l = "park_booted" /\ m = "await_booted" /\ d = job.slot /\ S = {"Inactive"}
           \/ l = "request_park" /\ m = "request_await" /\ d = job.slot /\ S = SafeChangeWakes
           \/ l = "park_tip" /\ m = "await_tip" /\ d = job.slot /\ S = {"TransitionInProgress"}
           \/ l = "grace" /\ m = "await_grace" /\ d = job.slot /\ S = {"Done"}
           \/ l = "park_done" /\ m = "await_done" /\ d = job.slot /\ S = {"Done"}
           \/ l = "park_reserved" /\ m = "await_reserved" /\ d = Main /\ S = {"Reserved"}
  BY DEF ParkForMainReady, ParkForBooted, ParkForStable, ParkForTransition, ParkForGrace,
         ParkForDone, ParkForMainReserved, ParkFor, JobAt, Continue
<1>2. scaling = c /\ c # Free /\ c \in Actors /\ d \in Cells
  BY <1>1, Holder, Names
<1>3. S \in SUBSET State
  BY <1>1 DEF State, SafeChangeWakes
<1>4. CellStep(c, d) /\ state' = state /\ Waiting(c, d, S)'
  BY <1>1, <1>2, <1>3, SubscribeStep DEF IInv
<1>5. Label' = m
  BY <1>1, <1>2 DEF Label, Goto, IInv, Typed
<1>6. HolderWaits'
  BY <1>1, <1>2, <1>4, <1>5 DEF HolderWaits
<1>7. <<l, m>> \in WaitPairs
  BY <1>1 DEF WaitPairs
<1> QED BY <1>1, <1>2, <1>4, <1>6, <1>7, WaitFrame

LEMMA RetriesKeep ==
  ASSUME IInv, NEW c \in Controllers, RequestParks(c) \/ RequestRetries(c) \/ GraceExpires(c)
  PROVE  IInv'
<1>1. PICK l, m :
        /\ Holds(c, l) /\ Goto(c, m)
        /\ UNCHANGED <<state, waits, slots, php, engine, metrics, installed, scaling, job>>
        /\ \/ l = "request" /\ m = "request_park"
           \/ l = "request_await" /\ m = "request"
           \/ l = "await_grace" /\ m = "grace_expired"
  BY DEF RequestParks, RequestRetries, GraceExpires, JobAt, Continue
<1>2. scaling = c /\ c # Free /\ c \in Actors /\ Main \in Cells
  BY <1>1, Holder, Names
<1>3. CellStep(c, Main)
  BY <1>1, <1>2, StillStep DEF IInv
<1>4. Label' = m
  BY <1>1, <1>2 DEF Label, Goto, IInv, Typed
<1>5. HolderWaits' /\ <<l, m>> \in WaitPairs
  BY <1>1, <1>4 DEF HolderWaits, WaitPairs
<1> QED BY <1>1, <1>2, <1>3, <1>5, WaitFrame
-------------------------------------------------------------------------------
(* The beginnings of the calls *)

\* Between two calls every slot is quiet.
LEMMA CallsKeep ==
  ASSUME IInv, NEW c \in Controllers,
         \/ BeginConvert(c) \/ BeginDrain(c)
         \/ \E i \in Slots : BeginSetHandler(c, i) \/ BeginShutdown(c, i)
  PROVE  IInv'
<1> USE Names
<1>1. PICK op \in {"convert", "drain", "to_inactive", "shutdown"}, k \in Slots, l \in ControllerLabels :
        /\ installed /\ Acquire(c, op, k, l)
        /\ UNCHANGED <<state, waits, slots, php, metrics, installed>>
        /\ \/ op = "convert" /\ l = "scan"
           \/ op = "drain" /\ l = "drain_main"
           \/ op \in {"to_inactive", "shutdown"} /\ l = "request"
  <2>1. 0 \in Slots /\ {"scan", "drain_main", "request"} \subseteq ControllerLabels
    BY SizesAssumption DEF Slots, ControllerLabels
  <2> QED BY <2>1 DEF BeginConvert, BeginDrain, BeginSetHandler, BeginShutdown
<1>2. /\ scaling = Free /\ scaling' = c /\ c # Free /\ Label = "idle" /\ l # "idle" /\ Goto(c, l)
      /\ job' = [NoJob EXCEPT !.op = op, !.slot = k] /\ engine' = engine
  BY <1>1 DEF Acquire, Label
<1>3. job' \in Job /\ job'.op = op /\ job'.slot = k /\ job'.pending = {} /\ job'.failed = FALSE
  BY <1>2 DEF NoJob, Job, Operations
<1>4. CellStep(c, Main) /\ metrics' \in BOOLEAN /\ installed' \in BOOLEAN
  BY <1>1, StillStep DEF IInv, Typed
<1>5. After(c, l)
  BY <1>1, <1>2, <1>3, <1>4, CallMoves
<1>6. Label' = l BY <1>5 DEF After
<1>7. ASSUME NEW i \in Slots PROVE Owner(i)' /\ Knows(i)'
  <2>1. SlotInv(i) /\ pc'[i] = pc[i] BY <1>5 DEF IInv, After
  <2>2. ~Closed(i) /\ ~Asked(i)
    BY <1>2 DEF Closed, Asked, AskLabels, SwapLabels, StopLabels
  <2>3. ~Closed(i)' /\ ~Asked(i)'
    BY <1>1, <1>3, <1>6 DEF Closed, Asked
  <2>4. Owner(i)'
    BY <1>1, <1>2, <2>1, <2>2, <2>3 DEF SlotInv, Owner, Stopping, BootLabels
  <2>5. Knows(i)'
    BY <1>1, <1>2, <1>3, <1>6, <2>1
    DEF SlotInv, Knows, Draining, AskLabels, StopLabels, EndLabels, StartLabels
  <2> QED BY <2>4, <2>5
<1>8. CallInv'
  BY <1>1, <1>2, <1>3, <1>5, <1>6 DEF CallInv, After, Draining, Stopping, Operations,
     StartLabels, BootLabels, AskLabels, SwapLabels, StopLabels, EndLabels
<1>9. HolderWaits'
  BY <1>1, <1>6 DEF HolderWaits
<1>10. MainCall'
  BY <1>1, <1>2, <1>3, <1>5, <1>6 DEF IInv, MainCall, MainUp, After, Draining,
     BootLabels, AskLabels, SwapLabels, StopLabels
<1> QED BY <1>5, <1>7, <1>8, <1>9, <1>10 DEF IInv, After, SlotInv

\* A first init, or one after a drain, finds no pthread of an earlier generation.
LEMMA BeginInitKeeps ==
  ASSUME IInv, NEW c \in Controllers, BeginInit(c) PROVE IInv'
<1> USE Names
<1>1. /\ ~installed /\ installed' = TRUE /\ slots' = [i \in Slots |-> FreshSlot]
      /\ UNCHANGED <<state, waits, php, metrics, engine>>
      /\ scaling = Free /\ scaling' = c /\ c # Free /\ Label = "idle" /\ Goto(c, "launch_main")
      /\ job' = [NoJob EXCEPT !.op = "init", !.slot = 0]
  BY DEF BeginInit, Acquire, Label
<1>2. job' \in Job /\ job'.op = "init" /\ job'.slot = 0 /\ job'.pending = {} /\ job'.failed = FALSE
  <2>1. 0 \in Slots BY SizesAssumption DEF Slots
  <2> QED BY <1>1, <2>1 DEF NoJob, Job, Operations
<1>3. /\ pc'[c] = "launch_main" /\ \A a \in Actors \ {c} : pc'[a] = pc[a]
      /\ pc' = [pc EXCEPT ![c] = "launch_main"]
  BY <1>1 DEF Goto, IInv, Typed
<1>4. Label' = "launch_main"
  BY <1>1, <1>3 DEF Label
<1>5. \A i \in Slots : slots'[i].handler = "none" /\ slots'[i].open = TRUE /\ slots'[i].kill = FALSE
  BY <1>1 DEF FreshSlot
<1>6. Typed'
  <2>1. slots' \in [Slots -> Slot]
    BY <1>1 DEF FreshSlot, Slot
  <2>2. pc' \in [Actors -> PthreadLabels \cup MainLabels \cup ControllerLabels]
    BY <1>3 DEF IInv, Typed, ControllerLabels
  <2>3. \A d \in Controllers : pc'[d] \in ControllerLabels
    BY <1>3 DEF IInv, Typed, ControllerLabels
  <2> QED BY <1>1, <1>2, <1>3, <2>1, <2>2, <2>3 DEF IInv, Typed
<1>7. ASSUME NEW i \in Slots PROVE SlotInv(i)'
  <2>1. SlotInv(i) /\ state'[i] = state[i] /\ state[i] = "Reserved" /\ php'[i] = php[i]
    BY <1>1 DEF IInv, SlotInv, Knows
  <2>2. pc[i] = "none" /\ pc'[i] = "none"
    BY <1>3, <2>1, NobodyThere
  <2>3. Finds(i)' BY <2>1, <2>2 DEF Finds
  <2>4. Owns(i)' BY <2>1, <2>2, <1>5 DEF SlotInv, Owns
  <2>5. Owner(i)'
    BY <1>4, <1>5, <2>1 DEF Owner, Closed, Asked, AskLabels, SwapLabels, StopLabels
  <2>6. Knows(i)'
    BY <1>4, <2>1 DEF Knows, AskLabels, StopLabels
  <2> QED BY <2>3, <2>4, <2>5, <2>6 DEF SlotInv
<1>8. CallInv'
  <2>1. \A d \in Controllers : pc[d] = "idle"
    BY <1>1 DEF IInv, CallInv
  <2> QED BY <1>1, <1>2, <1>3, <1>4, <2>1 DEF CallInv,
          StartLabels, BootLabels, AskLabels, SwapLabels, StopLabels, EndLabels
<1>9. HolderWaits'
  BY <1>4 DEF HolderWaits
<1>10. MainShape'
  BY <1>1, <1>3 DEF IInv, MainShape, Waiting
<1>11. MainCall'
  BY <1>1, <1>3, <1>4 DEF IInv, MainCall, BootLabels, AskLabels, SwapLabels, StopLabels
<1> QED BY <1>6, <1>7, <1>8, <1>9, <1>10, <1>11 DEF IInv
-------------------------------------------------------------------------------
(* init_php_threads *)

\* What is left to show of a step of a call.
LEMMA CallKeeps ==
  ASSUME NEW c, NEW l, After(c, l), \A i \in Slots : Owner(i)' /\ Knows(i)',
         CallInv', HolderWaits', MainCall'
  PROVE  IInv'
BY DEF IInv, After, SlotInv

LEMMA LaunchMainKeeps ==
  ASSUME IInv, NEW c \in Controllers, NEW d \in BOOLEAN, LaunchMain(c, d) PROVE IInv'
<1> USE Names
<1>1. /\ scaling = c /\ c # Free /\ Label = "launch_main" /\ job \in Job
      /\ pc' = [pc EXCEPT ![Main] = "startup", ![c] = "park_main_ready"]
      /\ UNCHANGED <<state, waits, slots, php, engine, metrics, installed, scaling>>
      /\ job' = [job EXCEPT !.failed = ~d] /\ Holds(c, "launch_main")
  BY Holder DEF LaunchMain
<1>2. /\ job' \in Job /\ job'.op = job.op /\ job'.slot = job.slot /\ job'.pending = job.pending
  BY <1>1 DEF Job
<1>3. /\ pc'[c] = "park_main_ready" /\ pc'[Main] = "startup"
      /\ \A a \in Actors \ {c, Main} : pc'[a] = pc[a]
  BY <1>1 DEF IInv, Typed
<1>4. Label' = "park_main_ready" BY <1>1, <1>3 DEF Label
<1>5. pc[Main] = "none" /\ job.op = "init" /\ job.pending = {} /\ installed
  BY <1>1 DEF IInv, MainCall, CallInv, StartLabels
<1>6. Typed'
  <2>1. pc' \in [Actors -> PthreadLabels \cup MainLabels \cup ControllerLabels]
    BY <1>1 DEF IInv, Typed, MainLabels, ControllerLabels
  <2>2. \A e \in Controllers : pc'[e] \in ControllerLabels
    BY <1>3 DEF IInv, Typed, ControllerLabels
  <2>3. pc'[Main] \in MainLabels /\ \A i \in Slots : pc'[i] \in PthreadLabels
    BY <1>3 DEF IInv, Typed, MainLabels
  <2> QED BY <1>1, <1>2, <2>1, <2>2, <2>3 DEF IInv, Typed
<1>7. ASSUME NEW i \in Slots PROVE SlotInv(i)'
  <2>1. SlotInv(i) /\ pc'[i] = pc[i] /\ state[i] = "Reserved"
    BY <1>1, <1>3 DEF IInv, SlotInv, Knows, StartLabels
  <2>2. Finds(i)' BY <1>1, <2>1 DEF SlotInv, Finds
  <2>3. Owns(i)' BY <1>1, <2>1 DEF SlotInv, Owns, Waiting
  <2>4. Owner(i)'
    BY <1>1, <1>2, <1>4, <2>1 DEF SlotInv, Owner, Closed, Asked, Stopping, AskLabels, SwapLabels, StopLabels
  <2>5. Knows(i)'
    BY <1>1, <1>4, <2>1 DEF Knows, AskLabels, StopLabels
  <2> QED BY <2>2, <2>3, <2>4, <2>5 DEF SlotInv
<1>8. CallInv'
  BY <1>1, <1>2, <1>3, <1>4, <1>5 DEF IInv, CallInv, StartLabels, BootLabels, AskLabels, SwapLabels,
     StopLabels, EndLabels
<1>9. HolderWaits' BY <1>4 DEF HolderWaits
<1>10. MainShape' BY <1>1, <1>3, <1>5 DEF IInv, MainShape
<1>11. MainCall'
  BY <1>1, <1>3, <1>4, <1>5, <1>10 DEF MainCall, MainShape, BootLabels, AskLabels, SwapLabels, StopLabels
<1> QED BY <1>6, <1>7, <1>8, <1>9, <1>10, <1>11 DEF IInv

LEMMA NoJobTyped == NoJob \in Job /\ NoJob.pending = {} /\ NoJob.op = "none" /\ NoJob.slot \in Slots
<1>1. 0 \in Slots BY SizesAssumption DEF Slots
<1> QED BY <1>1 DEF NoJob, Job

\* A call that returns: every slot it asked for has been finished with.
LEMMA Returns ==
  ASSUME IInv, NEW c \in Controllers, scaling = c, scaling' = Free, job' = NoJob, After(c, "idle"),
         \A i \in Slots : /\ state'[i] \in {"Reserved", "Inactive", "Ready", "TransitionComplete"}
                          /\ slots'[i].open
                          /\ ~installed' => state'[i] = "Reserved",
         IF installed' THEN MainUp /\ state'[Main] = "Ready" /\ metrics' ELSE pc[Main] = "none"
  PROVE  IInv'
<1>1. Label' = "idle" /\ pc'[Main] = pc[Main]
  BY DEF After
<1>2. ASSUME NEW i \in Slots PROVE Owner(i)' /\ Knows(i)'
  <2>1. Owner(i)'
    BY <1>1 DEF Owner, Closed, Asked, AskLabels, SwapLabels, StopLabels
  <2>2. Knows(i)'
    BY <1>1 DEF Knows, AskLabels, StopLabels, EndLabels, StartLabels
  <2> QED BY <2>1, <2>2
<1>3. CallInv'
  BY <1>1 DEF CallInv, After, StartLabels, BootLabels, AskLabels, SwapLabels, StopLabels, EndLabels
<1>4. HolderWaits' BY <1>1 DEF HolderWaits
<1>5. MainCall'
  BY <1>1 DEF MainCall, MainUp, BootLabels, AskLabels, SwapLabels, StopLabels
<1> QED BY <1>2, <1>3, <1>4, <1>5, CallKeeps

LEMMA LaunchMainFailsKeeps ==
  ASSUME IInv, NEW c \in Controllers, LaunchMainFails(c) PROVE IInv'
<1> USE Names
<1>1. /\ scaling = c /\ Label = "launch_main" /\ scaling' = Free /\ job' = NoJob /\ Goto(c, "idle")
      /\ UNCHANGED <<state, waits, slots, php, engine, metrics>> /\ installed' = FALSE
      /\ Holds(c, "launch_main") /\ c \in Actors
  BY Holder DEF LaunchMainFails, Finish
<1>2. CellStep(c, Main) /\ metrics' \in BOOLEAN /\ "idle" \in ControllerLabels
  BY <1>1, StillStep DEF IInv, Typed, ControllerLabels
<1>3. After(c, "idle")
  BY <1>1, <1>2, NoJobTyped, CallMoves
<1>4. pc[Main] = "none"
  BY <1>1 DEF IInv, MainCall
<1>5. \A i \in Slots : state[i] = "Reserved" /\ slots[i].open
  BY <1>1 DEF IInv, SlotInv, Knows, Owner, Closed, StartLabels, AskLabels, SwapLabels, StopLabels
<1> QED BY <1>1, <1>3, <1>4, <1>5, Returns

\* While a boot runs, the other slots are quiet and no drain is closed.
LEMMA BootQuiet ==
  ASSUME IInv, Label \in BootLabels \cup StartLabels \cup {"scan", "claim", "drain_main"}
  PROVE  /\ \A i \in Slots : /\ ~Closed(i) /\ ~Asked(i) /\ slots[i].open
                             /\ state[i] \in {"Reserved", "Inactive", "Ready", "TransitionComplete",
                                              "BootRequested", "Booting"}
                             /\ state[i] \in {"BootRequested", "Booting"} =>
                                  i = job.slot /\ Label \in BootLabels
         /\ installed /\ job.pending = {}
<1>1. installed /\ job.pending = {}
  BY DEF IInv, CallInv, Label, BootLabels, StartLabels
<1>2. ASSUME NEW i \in Slots PROVE Owner(i) /\ ~Closed(i) /\ ~Asked(i)
  BY <1>2 DEF IInv, SlotInv, Closed, Asked, AskLabels, SwapLabels, StopLabels, BootLabels, StartLabels
<1> QED BY <1>1, <1>2 DEF Owner, BootLabels

LEMMA MainIsReadyKeeps ==
  ASSUME IInv, NEW c \in Controllers, MainIsReady(c) PROVE IInv'
<1> USE Names
<1>1. /\ scaling = c /\ c # Free /\ Label = "await_main_ready" /\ job \in Job /\ c \in Actors
      /\ Holds(c, "await_main_ready") /\ ~Subscribed(c)
      /\ UNCHANGED <<state, waits, slots, php, engine, installed>>
  BY Holder DEF MainIsReady
<1>2. state[Main] = "Ready" /\ MainUp
  <2>1. Waiting(c, Main, {"Ready"})
    BY <1>1 DEF IInv, HolderWaits
  <2>2. state[Main] = "Ready" BY <1>1, <2>1, WokenFinds
  <2> QED BY <1>1, <2>2 DEF IInv, MainCall, MainShape, MainUp
<1>3. job.op = "init" /\ job.pending = {} /\ installed
  BY <1>1, BootQuiet DEF IInv, CallInv, StartLabels
<1>4. /\ \A i \in Slots : state[i] = "Reserved" /\ slots[i].open
      /\ CellStep(c, Main) /\ metrics \in BOOLEAN /\ installed' \in BOOLEAN
      /\ {"idle", "boot", "main_done"} \subseteq ControllerLabels
  BY <1>1, StillStep, BootQuiet DEF IInv, Typed, SlotInv, Knows, StartLabels, ControllerLabels
<1>5. CASE job.failed
  <2>1. Goto(c, "main_done") /\ UNCHANGED <<metrics, scaling, job>>
    BY <1>5 DEF MainIsReady, Continue
  <2>2. After(c, "main_done")
    BY <1>1, <1>4, <2>1, CallMoves
  <2>3. Label' = "main_done" /\ pc'[Main] = pc[Main] BY <2>2 DEF After
  <2>4. ASSUME NEW i \in Slots PROVE Owner(i)' /\ Knows(i)'
    <3>1. Owner(i)'
      BY <1>1, <1>4, <2>3 DEF Owner, Closed, Asked, AskLabels, SwapLabels, StopLabels
    <3>2. Knows(i)'
      BY <1>1, <1>4, <2>3 DEF Knows, AskLabels, StopLabels
    <3> QED BY <3>1, <3>2
  <2>5. CallInv'
    BY <1>1, <1>3, <2>1, <2>2, <2>3 DEF CallInv, After, Draining, StartLabels, BootLabels, AskLabels,
       SwapLabels, StopLabels
  <2>6. HolderWaits' BY <2>3 DEF HolderWaits
  <2>7. MainCall'
    BY <1>1, <1>2, <1>3, <2>3 DEF MainCall, MainUp, BootLabels, AskLabels, SwapLabels, StopLabels
  <2> QED BY <2>2, <2>4, <2>5, <2>6, <2>7, CallKeeps
<1>6. CASE ~job.failed /\ NumThreads = 0
  <2>1. Goto(c, "idle") /\ scaling' = Free /\ job' = NoJob /\ metrics' = TRUE
    BY <1>6 DEF MainIsReady, Finish
  <2>2. After(c, "idle")
    BY <1>1, <1>4, <2>1, NoJobTyped, CallMoves
  <2> QED BY <1>1, <1>2, <1>3, <1>4, <2>1, <2>2, Returns
<1>7. CASE ~job.failed /\ NumThreads # 0
  <2>1. Goto(c, "boot") /\ UNCHANGED <<scaling, job>> /\ metrics' = TRUE
    BY <1>7 DEF MainIsReady, Continue
  <2>2. After(c, "boot")
    BY <1>1, <1>4, <2>1, CallMoves
  <2>3. Label' = "boot" /\ pc'[Main] = pc[Main] BY <2>2 DEF After
  <2>4. ASSUME NEW i \in Slots PROVE Owner(i)' /\ Knows(i)'
    <3>1. Owner(i)'
      BY <1>1, <1>4, <2>3 DEF Owner, Closed, Asked, AskLabels, SwapLabels, StopLabels
    <3>2. Knows(i)'
      BY <1>1, <1>4, <2>3 DEF Knows, AskLabels, StopLabels
    <3> QED BY <3>1, <3>2
  <2>5. CallInv'
    BY <1>1, <1>3, <2>1, <2>2, <2>3 DEF CallInv, After, StartLabels, BootLabels, AskLabels,
       SwapLabels, StopLabels, EndLabels
  <2>6. HolderWaits' BY <2>3 DEF HolderWaits
  <2>7. MainCall'
    BY <1>1, <1>2, <1>3, <2>1, <2>3 DEF MainCall, MainUp, BootLabels, AskLabels, SwapLabels, StopLabels
  <2> QED BY <2>2, <2>4, <2>5, <2>6, <2>7, CallKeeps
<1> QED BY <1>5, <1>6, <1>7
-------------------------------------------------------------------------------
(* PhpThread::boot *)

\* Between two labels of a boot, the call and the main pthread stay as they are.
LEMMA BootCall ==
  ASSUME IInv, NEW c \in Controllers, NEW l \in BootLabels, Label \in BootLabels \cup {"scan", "claim"},
         job'.op = job.op, job'.pending = job.pending, scaling' = scaling, scaling # Free,
         UNCHANGED <<metrics, installed>>, After(c, l), state'[Main] = state[Main]
  PROVE  CallInv' /\ MainCall'
<1>1. /\ Label' = l /\ pc'[Main] = pc[Main] /\ installed
      /\ job.op \in {"init", "convert"} /\ job.pending = {}
      /\ MainUp /\ state[Main] = "Ready" /\ metrics
  BY BootQuiet DEF After, IInv, CallInv, MainCall, BootLabels
<1>2. CallInv'
  BY <1>1 DEF CallInv, After, StartLabels, BootLabels, AskLabels, SwapLabels, StopLabels, EndLabels
<1>3. MainCall'
  BY <1>1 DEF MainCall, MainUp, BootLabels, AskLabels, SwapLabels, StopLabels
<1> QED BY <1>2, <1>3

LEMMA BootSwapKeeps ==
  ASSUME IInv, NEW c \in Controllers, BootSwap(c) PROVE IInv'
<1> USE Names
<1> DEFINE j == job.slot
<1>1. /\ scaling = c /\ c # Free /\ Label = "boot" /\ job \in Job /\ c \in Actors /\ j \in Slots /\ j \in Cells
      /\ state[j] \in {"Reserved", "BootRequested"} /\ Set(j, "Booting")
      /\ UNCHANGED <<slots, php, engine, metrics, installed, scaling, job>> /\ Goto(c, "boot_install")
      /\ SlotInv(j)
  <2>1. Holds(c, "boot") BY DEF BootSwap, JobAt
  <2> QED BY <2>1, Holder DEF BootSwap, JobAt, CompareAndSwap, Continue
<1>2. pc[j] = "none" /\ pc'[j] = "none"
  BY <1>1, NobodyThere DEF IInv, Typed, Goto
<1>3. CellStep(c, j) /\ state'[j] = "Booting" /\ "Booting" \in State
  BY <1>1, SetStep DEF IInv, State
<1>4. Finds(j)' /\ Owns(j)'
  BY <1>1, <1>2, <1>3 DEF Finds, SlotInv, Owns
<1>5. "boot_install" \in ControllerLabels /\ metrics' \in BOOLEAN /\ installed' \in BOOLEAN
      /\ slots' \in [Slots -> Slot] /\ php' \in [Slots -> Pthread]
  BY <1>1 DEF IInv, Typed, ControllerLabels
<1>6. After(c, "boot_install")
  BY <1>1, <1>3, <1>4, <1>5, CallFrame
<1>7. Label' = "boot_install" /\ (\A d \in Cells \ {j} : state'[d] = state[d])
  BY <1>3, <1>6 DEF After, CellStep
<1>8. ASSUME NEW i \in Slots PROVE Owner(i)' /\ Knows(i)'
  <2>1. SlotInv(i) /\ slots[i].open /\ state[i] \in {"Reserved", "Inactive", "Ready", "TransitionComplete",
                                              "BootRequested", "Booting"}
        /\ (state[i] \in {"BootRequested", "Booting"} => i = j)
    BY <1>1, BootQuiet DEF IInv, BootLabels
  <2>2. i # j => state'[i] = state[i] BY <1>7
  <2>3. Owner(i)'
    BY <1>1, <1>3, <1>7, <2>1, <2>2
    DEF Owner, Closed, Asked, AskLabels, SwapLabels, StopLabels, BootLabels
  <2>4. Knows(i)'
    BY <1>1, <1>2, <1>3, <1>7, <2>1, <2>2, BootQuiet
    DEF SlotInv, Knows, AskLabels, StopLabels, EndLabels, StartLabels, BootLabels
  <2> QED BY <2>3, <2>4
<1>9. CallInv' /\ MainCall'
  BY <1>1, <1>6, <1>7, BootCall DEF BootLabels
<1>10. HolderWaits' BY <1>7 DEF HolderWaits
<1> QED BY <1>6, <1>8, <1>9, <1>10, CallKeeps

LEMMA BootInstallKeeps ==
  ASSUME IInv, NEW c \in Controllers, BootInstall(c) PROVE IInv'
<1> USE Names
<1> DEFINE j == job.slot
           new == [slots[j] EXCEPT !.handler = "inactive"]
<1>1. /\ scaling = c /\ c # Free /\ Label = "boot_install" /\ job \in Job /\ c \in Actors /\ j \in Slots /\ j \in Cells
      /\ UNCHANGED <<state, waits, php, engine, metrics, installed, scaling, job>> /\ Goto(c, "boot_launch")
      /\ SlotInv(j) /\ slots' = [slots EXCEPT ![j].handler = "inactive"]
  <2>1. Holds(c, "boot_install") BY DEF BootInstall, JobAt
  <2> QED BY <2>1, Holder DEF BootInstall, JobAt, Continue
<1>2. slots \in [Slots -> Slot] /\ slots[j] \in Slot /\ php' \in [Slots -> Pthread]
  BY <1>1 DEF IInv, Typed
<1>3. new \in Slot /\ new.handler = "inactive" /\ new.open = slots[j].open /\ new.kill = slots[j].kill
  BY <1>2 DEF Slot
<1>4. slots' = [slots EXCEPT ![j] = new] BY <1>1
<1> HIDE DEF new
<1>5. slots' \in [Slots -> Slot] /\ slots'[j] = new /\ \A i \in Slots \ {j} : slots'[i] = slots[i]
  BY <1>1, <1>2, <1>3, <1>4
<1>6. state[j] = "Booting" /\ pc[j] = "none" /\ pc'[j] = "none"
  BY <1>1 DEF SlotInv, Knows, IInv, Typed, Goto
<1>7. Finds(j)' /\ Owns(j)'
  BY <1>1, <1>3, <1>5, <1>6 DEF Finds, SlotInv, Owns
<1>8. "boot_launch" \in ControllerLabels /\ metrics' \in BOOLEAN /\ installed' \in BOOLEAN /\ CellStep(c, j)
  BY <1>1, StillStep DEF IInv, Typed, ControllerLabels
<1>9. After(c, "boot_launch")
  BY <1>1, <1>2, <1>5, <1>7, <1>8, CallFrame
<1>10. Label' = "boot_launch" BY <1>9 DEF After
<1>11. ASSUME NEW i \in Slots PROVE Owner(i)' /\ Knows(i)'
  <2>1. SlotInv(i) /\ slots[i].open /\ ~Asked(i) /\ ~Closed(i)
    BY <1>1, BootQuiet DEF IInv, BootLabels
  <2>2. slots'[i].open = slots[i].open /\ state'[i] = state[i]
    BY <1>1, <1>3, <1>5
  <2>3. Owner(i)'
    BY <1>1, <1>10, <2>1, <2>2
    DEF SlotInv, Owner, Closed, Asked, AskLabels, SwapLabels, StopLabels, BootLabels
  <2>4. Knows(i)'
    BY <1>1, <1>3, <1>5, <1>6, <1>10, <2>1, <2>2, BootQuiet
    DEF SlotInv, Knows, AskLabels, StopLabels, EndLabels, StartLabels, BootLabels
  <2> QED BY <2>3, <2>4
<1>12. CallInv' /\ MainCall'
  BY <1>1, <1>9, BootCall DEF BootLabels
<1>13. HolderWaits' BY <1>10 DEF HolderWaits
<1> QED BY <1>9, <1>11, <1>12, <1>13, CallKeeps

\* A pthread is launched into a slot that has none, with the inactive handler.
LEMMA BootLaunchKeeps ==
  ASSUME IInv, NEW c \in Controllers, BootLaunch(c) PROVE IInv'
<1> USE Names
<1> DEFINE j == job.slot
<1>1. /\ scaling = c /\ c # Free /\ Label = "boot_launch" /\ job \in Job /\ c \in Actors /\ c \notin Slots
      /\ c # Main /\ j \in Slots /\ j \in Cells /\ j # Main
      /\ UNCHANGED <<state, waits, slots, php, engine, metrics, installed, scaling, job>>
      /\ pc' = [pc EXCEPT ![j] = "created", ![c] = "park_booted"] /\ SlotInv(j)
  <2>1. Holds(c, "boot_launch") BY DEF BootLaunch
  <2> QED BY <2>1, Holder DEF BootLaunch
<1>2. /\ pc'[c] = "park_booted" /\ pc'[j] = "created" /\ pc'[Main] = pc[Main]
      /\ \A a \in Actors \ {c, j} : pc'[a] = pc[a]
  BY <1>1 DEF IInv, Typed
<1>3. Label' = "park_booted" BY <1>1, <1>2 DEF Label
<1>4. state[j] = "Booting" /\ pc[j] = "none" /\ slots[j].handler = "inactive"
  BY <1>1 DEF SlotInv, Knows
<1>5. Typed'
  <2>1. pc' \in [Actors -> PthreadLabels \cup MainLabels \cup ControllerLabels]
    BY <1>1 DEF IInv, Typed, PthreadLabels, ControllerLabels
  <2>2. \A e \in Controllers : pc'[e] \in ControllerLabels
    BY <1>1, <1>2 DEF IInv, Typed, ControllerLabels
  <2>3. pc'[Main] \in MainLabels /\ \A i \in Slots : pc'[i] \in PthreadLabels
    BY <1>1, <1>2 DEF IInv, Typed, PthreadLabels
  <2> QED BY <1>1, <1>2, <2>1, <2>2, <2>3 DEF IInv, Typed
<1>6. ASSUME NEW i \in Slots PROVE SlotInv(i)'
  <2>1. SlotInv(i) /\ slots[i].open /\ ~Asked(i) /\ ~Closed(i) /\ (i # j => pc'[i] = pc[i]) /\ installed
    BY <1>1, <1>2, BootQuiet DEF IInv, BootLabels
  <2>2. Finds(i)'
    BY <1>1, <1>2, <1>4, <2>1 DEF SlotInv, Finds
  <2>3. Owns(i)'
    BY <1>1, <1>2, <1>4, <2>1 DEF SlotInv, Owns, Waiting
  <2>4. Owner(i)'
    BY <1>1, <1>3, <2>1 DEF SlotInv, Owner, Closed, Asked, AskLabels, SwapLabels, StopLabels, BootLabels
  <2>5. Knows(i)'
    BY <1>1, <1>2, <1>3, <1>4, <2>1 DEF SlotInv, Knows, AskLabels, StopLabels, EndLabels, StartLabels
  <2> QED BY <2>2, <2>3, <2>4, <2>5 DEF SlotInv
<1>7. CallInv'
  BY <1>1, <1>2, <1>3 DEF IInv, CallInv, StartLabels, BootLabels, AskLabels, SwapLabels, StopLabels, EndLabels
<1>8. HolderWaits' BY <1>3 DEF HolderWaits
<1>9. MainShape' BY <1>1, <1>2 DEF IInv, MainShape, Waiting
<1>10. MainCall'
  BY <1>1, <1>2, <1>3 DEF IInv, MainCall, MainUp, Draining, BootLabels, AskLabels, SwapLabels, StopLabels
<1> QED BY <1>5, <1>6, <1>7, <1>8, <1>9, <1>10 DEF IInv

\* A launch that fails gives the slot back; init goes on to drain what it booted.
LEMMA BootLaunchFailsKeeps ==
  ASSUME IInv, NEW c \in Controllers, BootLaunchFails(c) PROVE IInv'
<1> USE Names
<1>0. PICK j \in Slots : j = job.slot
  BY DEF IInv, Typed, Job
<1>1. /\ scaling = c /\ c # Free /\ Label = "boot_launch" /\ job \in Job /\ c \in Actors /\ j \in Slots /\ j \in Cells
      /\ j # Main /\ Set(j, "Reserved") /\ UNCHANGED <<slots, php, engine, metrics, installed>>
      /\ SlotInv(j)
  <2>1. Holds(c, "boot_launch") BY DEF BootLaunchFails, JobAt
  <2> QED BY <1>0, <2>1, Holder DEF BootLaunchFails, JobAt
<1>2. /\ state[j] = "Booting" /\ pc[j] = "none" /\ installed /\ job.pending = {}
      /\ MainUp /\ state[Main] = "Ready" /\ metrics
  BY <1>0, <1>1, BootQuiet DEF SlotInv, Knows, IInv, MainCall, BootLabels
<1>3. /\ CellStep(c, j) /\ state'[j] = "Reserved" /\ metrics' \in BOOLEAN /\ installed' \in BOOLEAN
      /\ slots' \in [Slots -> Slot] /\ php' \in [Slots -> Pthread]
      /\ {"idle", "drain_main"} \subseteq ControllerLabels
  BY <1>1, SetStep DEF IInv, Typed, State, ControllerLabels
<1>4. \A d \in Cells \ {j} : state'[d] = state[d]
  BY <1>3 DEF CellStep
<1>5. ASSUME NEW l, Goto(c, l) PROVE Finds(j)' /\ Owns(j)'
  <2>1. pc'[j] = "none" BY <1>1, <1>2, <1>5 DEF Goto, IInv, Typed
  <2> QED BY <1>1, <1>2, <1>3, <2>1 DEF Finds, SlotInv, Owns
<1>6. \A i \in Slots : /\ slots[i].open
                       /\ state'[i] \in {"Reserved", "Inactive", "Ready", "TransitionComplete"}
  BY <1>0, <1>1, <1>3, <1>4, BootQuiet DEF BootLabels
<1>7. CASE job.op = "init"
  <2>1. job' = [job EXCEPT !.failed = TRUE] /\ Goto(c, "drain_main") /\ UNCHANGED scaling
    BY <1>7 DEF BootLaunchFails
  <2>2. job' \in Job /\ job'.op = job.op /\ job'.slot = job.slot /\ job'.pending = job.pending
    BY <1>1, <2>1 DEF Job
  <2>3. After(c, "drain_main")
    BY <1>1, <1>3, <1>5, <2>1, <2>2, CallFrame
  <2>4. Label' = "drain_main" /\ pc'[Main] = pc[Main] BY <2>3 DEF After
  <2>5. ASSUME NEW i \in Slots PROVE Owner(i)' /\ Knows(i)'
    <3>1. Owner(i)'
      BY <1>1, <1>6, <2>4 DEF Owner, Closed, Asked, AskLabels, SwapLabels, StopLabels
    <3>2. Knows(i)'
      BY <1>1, <1>2, <2>4 DEF Knows, AskLabels, StopLabels, EndLabels, StartLabels
    <3> QED BY <3>1, <3>2
  <2>6. CallInv'
    BY <1>1, <1>2, <1>7, <2>1, <2>2, <2>3, <2>4 DEF CallInv, After, Draining, StartLabels, BootLabels,
       AskLabels, SwapLabels, StopLabels, EndLabels
  <2>7. HolderWaits' BY <2>4 DEF HolderWaits
  <2>8. MainCall'
    BY <1>1, <1>2, <1>4, <2>4 DEF MainCall, MainUp, BootLabels, AskLabels, SwapLabels, StopLabels
  <2> QED BY <2>3, <2>5, <2>6, <2>7, <2>8, CallKeeps
<1>8. CASE job.op # "init"
  <2>1. Goto(c, "idle") /\ scaling' = Free /\ job' = NoJob
    BY <1>8 DEF BootLaunchFails, Finish
  <2>2. After(c, "idle")
    BY <1>1, <1>3, <1>5, <2>1, NoJobTyped, CallFrame
  <2> QED BY <1>1, <1>2, <1>4, <1>6, <2>1, <2>2, Returns
<1> QED BY <1>7, <1>8

LEMMA BootedKeeps ==
  ASSUME IInv, NEW c \in Controllers, Booted(c) PROVE IInv'
<1> USE Names
<1> DEFINE j == job.slot
<1>1. /\ scaling = c /\ c # Free /\ Label = "await_booted" /\ job \in Job /\ c \in Actors /\ j \in Slots /\ j \in Cells
      /\ ~Subscribed(c) /\ UNCHANGED <<state, waits, slots, php, engine, metrics, installed>>
  <2>1. Holds(c, "await_booted") BY DEF Booted, JobAt
  <2> QED BY <2>1, Holder DEF Booted, JobAt
<1>2. state[j] = "Inactive"
  <2>1. Waiting(c, j, {"Inactive"}) BY <1>1 DEF IInv, HolderWaits
  <2> QED BY <1>1, <2>1, WokenFinds
<1>3. /\ installed /\ job.pending = {} /\ job.op \in {"init", "convert"}
      /\ MainUp /\ state[Main] = "Ready" /\ metrics
  BY <1>1, BootQuiet DEF IInv, CallInv, MainCall, BootLabels
<1>4. /\ CellStep(c, Main) /\ metrics' \in BOOLEAN /\ installed' \in BOOLEAN
      /\ {"idle", "boot", "request"} \subseteq ControllerLabels
  BY <1>1, StillStep DEF IInv, Typed, ControllerLabels
<1>5. \A i \in Slots : /\ slots[i].open /\ state[i] \in {"Reserved", "Inactive", "Ready", "TransitionComplete"}
  BY <1>1, <1>2, BootQuiet DEF BootLabels
<1>6. CASE job.op = "convert"
  <2>1. Goto(c, "request") /\ UNCHANGED <<scaling, job>>
    BY <1>6 DEF Booted, Continue
  <2>2. After(c, "request") BY <1>1, <1>4, <2>1, CallMoves
  <2>3. Label' = "request" /\ pc'[Main] = pc[Main] BY <2>2 DEF After
  <2>4. ASSUME NEW i \in Slots PROVE Owner(i)' /\ Knows(i)'
    <3>1. Owner(i)' BY <1>1, <1>3, <1>5, <2>1, <2>3 DEF Owner, Closed, Asked
    <3>2. Knows(i)'
      BY <1>1, <1>3, <1>6, <2>1, <2>3 DEF Knows, Draining, StopLabels, EndLabels, StartLabels
    <3> QED BY <3>1, <3>2
  <2>5. CallInv'
    BY <1>1, <1>3, <1>6, <2>1, <2>2, <2>3 DEF CallInv, After, Draining, Operations, StartLabels, BootLabels,
       AskLabels, SwapLabels, StopLabels, EndLabels
  <2>6. HolderWaits' BY <2>3 DEF HolderWaits
  <2>7. MainCall'
    BY <1>1, <1>3, <1>6, <2>1, <2>3 DEF MainCall, MainUp, Draining, BootLabels, AskLabels, SwapLabels, StopLabels
  <2> QED BY <2>2, <2>4, <2>5, <2>6, <2>7, CallKeeps
<1>7. CASE job.op # "convert" /\ job.slot + 1 < NumThreads
  <2>1. job' = [job EXCEPT !.slot = job.slot + 1] /\ Goto(c, "boot") /\ UNCHANGED scaling
    BY <1>7 DEF Booted, GoToSlot
  <2>2. job.slot + 1 \in Slots BY <1>1, <1>7, SizesAssumption DEF Slots
  <2>3. job' \in Job /\ job'.op = job.op /\ job'.pending = job.pending
    BY <1>1, <2>1, <2>2 DEF Job
  <2>4. After(c, "boot") BY <1>1, <1>4, <2>1, <2>3, CallMoves
  <2>5. Label' = "boot" BY <2>4 DEF After
  <2>6. ASSUME NEW i \in Slots PROVE Owner(i)' /\ Knows(i)'
    <3>1. Owner(i)' BY <1>1, <1>5, <2>5 DEF Owner, Closed, Asked, AskLabels, SwapLabels, StopLabels
    <3>2. Knows(i)' BY <1>1, <1>3, <2>5 DEF Knows, AskLabels, StopLabels, EndLabels, StartLabels
    <3> QED BY <3>1, <3>2
  <2>7. CallInv' /\ MainCall'
    BY <1>1, <2>1, <2>3, <2>4, BootCall DEF BootLabels
  <2>8. HolderWaits' BY <2>5 DEF HolderWaits
  <2> QED BY <2>4, <2>6, <2>7, <2>8, CallKeeps
<1>8. CASE job.op # "convert" /\ ~(job.slot + 1 < NumThreads)
  <2>1. Goto(c, "idle") /\ scaling' = Free /\ job' = NoJob
    BY <1>8 DEF Booted, Finish
  <2>2. After(c, "idle") BY <1>1, <1>4, <2>1, NoJobTyped, CallMoves
  <2> QED BY <1>1, <1>3, <1>5, <2>1, <2>2, Returns
<1> QED BY <1>6, <1>7, <1>8
-------------------------------------------------------------------------------
(* get_inactive_php_thread *)

\* A turn of a loop over the slots.
LEMMA NextSlotMoves ==
  ASSUME IInv, NEW c \in Controllers, NEW l, Holds(c, l), NEW label, NEW end, NextSlot(c, label, end)
  PROVE  /\ scaling' = scaling /\ job' \in Job /\ job'.slot \in Slots
         /\ job'.op = job.op /\ job'.pending = job.pending
         /\ \/ /\ Goto(c, label)
               /\ \A i \in Slots : i < job'.slot <=> i < job.slot \/ i = job.slot
               /\ \A i \in Slots : i >= job'.slot <=> ~(i < job.slot) /\ i # job.slot
            \/ /\ Goto(c, end)
               /\ \A i \in Slots : i < job.slot \/ i = job.slot
               /\ \A i \in Slots : i >= job'.slot /\ ~(i < job'.slot)
<1>1. job \in Job /\ job.slot \in Slots
  BY Holder
<1>2. CASE job.slot + 1 < NumSlots
  <2>1. job' = [job EXCEPT !.slot = job.slot + 1] /\ scaling' = scaling /\ Goto(c, label)
    BY <1>2 DEF NextSlot, GoToSlot
  <2>2. job.slot + 1 \in Slots BY <1>1, <1>2, SizesAssumption DEF Slots
  <2>3. job' \in Job /\ job'.op = job.op /\ job'.pending = job.pending /\ job'.slot = job.slot + 1
    BY <1>1, <2>1, <2>2 DEF Job
  <2>4. \A i \in Slots : /\ i < job.slot + 1 <=> i < job.slot \/ i = job.slot
                         /\ i >= job.slot + 1 <=> ~(i < job.slot) /\ i # job.slot
    BY <1>1, SizesAssumption DEF Slots
  <2> QED BY <2>1, <2>2, <2>3, <2>4
<1>3. CASE ~(job.slot + 1 < NumSlots)
  <2>1. job' = [job EXCEPT !.slot = 0] /\ scaling' = scaling /\ Goto(c, end)
    BY <1>3 DEF NextSlot, GoToSlot
  <2>2. 0 \in Slots BY SizesAssumption DEF Slots
  <2>3. job' \in Job /\ job'.op = job.op /\ job'.pending = job.pending /\ job'.slot = 0
    BY <1>1, <2>1, <2>2 DEF Job
  <2>4. \A i \in Slots : (i < job.slot \/ i = job.slot) /\ i >= 0 /\ ~(i < 0)
    BY <1>1, <1>3, SizesAssumption DEF Slots
  <2> QED BY <2>1, <2>2, <2>3, <2>4
<1> QED BY <1>2, <1>3

\* The search for a slot, and the step that leaves it with an inactive one.
LEMMA SearchKeeps ==
  ASSUME IInv, NEW c \in Controllers, NEW m, m \in {"scan", "claim"}, Holds(c, m),
         NEW l, l \in {"scan", "claim", "request"}, Goto(c, l), scaling' = scaling,
         job' \in Job, job'.op = job.op, job'.pending = job.pending,
         UNCHANGED <<state, waits, slots, php, engine, metrics, installed>>
  PROVE  IInv'
<1>1. scaling = c /\ c # Free /\ Label = m /\ c \in Actors
  BY Holder
<1>2. /\ installed /\ job.pending = {} /\ job.op = "convert"
      /\ MainUp /\ state[Main] = "Ready" /\ metrics
  BY <1>1, BootQuiet DEF IInv, CallInv, MainCall
<1>3. /\ CellStep(c, Main) /\ metrics' \in BOOLEAN /\ installed' \in BOOLEAN
      /\ l \in ControllerLabels /\ Main \in Cells
  BY <1>1, StillStep, Names DEF IInv, Typed, ControllerLabels
<1>4. \A i \in Slots : /\ slots[i].open /\ state[i] \in {"Reserved", "Inactive", "Ready", "TransitionComplete"}
  BY <1>1, BootQuiet DEF BootLabels
<1>5. After(c, l)
  BY <1>1, <1>3, CallMoves
<1>6. Label' = l /\ pc'[Main] = pc[Main] BY <1>5 DEF After
<1>7. ASSUME NEW i \in Slots PROVE Owner(i)' /\ Knows(i)'
  <2>1. Owner(i)' BY <1>2, <1>4, <1>6 DEF Owner, Closed, Asked
  <2>2. Knows(i)' BY <1>2, <1>6 DEF Knows, Draining, StopLabels, EndLabels, StartLabels
  <2> QED BY <2>1, <2>2
<1>8. CallInv'
  BY <1>1, <1>2, <1>5, <1>6 DEF CallInv, After, Draining, Operations, StartLabels, BootLabels,
     AskLabels, SwapLabels, StopLabels, EndLabels
<1>9. HolderWaits' BY <1>6 DEF HolderWaits
<1>10. MainCall'
  BY <1>2, <1>6 DEF MainCall, MainUp, Draining, BootLabels, AskLabels, SwapLabels, StopLabels
<1> QED BY <1>5, <1>7, <1>8, <1>9, <1>10, CallKeeps

LEMMA ScanInactiveKeeps ==
  ASSUME IInv, NEW c \in Controllers, ScanInactive(c) PROVE IInv'
<1>1. /\ Holds(c, "scan") /\ UNCHANGED <<state, waits, slots, php, engine, metrics, installed>>
  BY DEF ScanInactive, JobAt
<1>2. job \in Job BY <1>1, Holder
<1>3. CASE state[job.slot] = "Inactive"
  <2>1. Goto(c, "request") /\ UNCHANGED <<scaling, job>>
    BY <1>3 DEF ScanInactive, Continue
  <2> QED BY <1>1, <1>2, <2>1, SearchKeeps
<1>4. CASE state[job.slot] # "Inactive"
  <2>1. NextSlot(c, "scan", "claim") BY <1>4 DEF ScanInactive
  <2>2. PICK l \in {"scan", "claim"} : Goto(c, l)
    BY <1>1, <2>1, NextSlotMoves
  <2>3. scaling' = scaling /\ job' \in Job /\ job'.op = job.op /\ job'.pending = job.pending
    BY <1>1, <2>1, NextSlotMoves
  <2> QED BY <1>1, <2>2, <2>3, SearchKeeps
<1> QED BY <1>3, <1>4

LEMMA ClaimReservedKeeps ==
  ASSUME IInv, NEW c \in Controllers, ClaimReserved(c) PROVE IInv'
<1> USE Names
<1>0. PICK j \in Slots : j = job.slot
  BY DEF IInv, Typed, Job
<1>1. /\ Holds(c, "claim") /\ UNCHANGED <<slots, php, engine, metrics, installed>>
      /\ scaling = c /\ c # Free /\ Label = "claim" /\ job \in Job /\ c \in Actors
      /\ SlotInv(j) /\ j \in Cells /\ j # Main
  <2>1. Holds(c, "claim") BY DEF ClaimReserved, JobAt
  <2> QED BY <1>0, <2>1, Holder DEF ClaimReserved, JobAt
<1>2. /\ installed /\ job.pending = {} /\ job.op = "convert"
      /\ MainUp /\ state[Main] = "Ready" /\ metrics
  BY <1>1, BootQuiet DEF IInv, CallInv, MainCall
<1>3. \A i \in Slots : /\ slots[i].open /\ state[i] \in {"Reserved", "Inactive", "Ready", "TransitionComplete"}
  BY <1>1, BootQuiet DEF BootLabels
<1>4. /\ metrics' \in BOOLEAN /\ installed' \in BOOLEAN /\ {"idle", "boot", "claim"} \subseteq ControllerLabels
      /\ slots' \in [Slots -> Slot] /\ php' \in [Slots -> Pthread]
  BY <1>1 DEF IInv, Typed, ControllerLabels
<1>5. CASE state[j] = "Reserved"
  <2>1. Set(j, "BootRequested") /\ Goto(c, "boot") /\ UNCHANGED <<scaling, job>>
    BY <1>0, <1>5 DEF ClaimReserved, Continue
  <2>2. CellStep(c, j) /\ state'[j] = "BootRequested"
    BY <1>1, <2>1, SetStep DEF IInv, State
  <2>3. pc[j] = "none" /\ pc'[j] = "none"
    BY <1>1, <1>5, <2>1, NobodyThere DEF IInv, Typed, Goto
  <2>4. Finds(j)' /\ Owns(j)'
    BY <1>1, <2>2, <2>3 DEF Finds, SlotInv, Owns
  <2>5. After(c, "boot")
    BY <1>1, <1>4, <2>1, <2>2, <2>4, CallFrame
  <2>6. Label' = "boot" /\ \A d \in Cells \ {j} : state'[d] = state[d]
    BY <2>2, <2>5 DEF After, CellStep
  <2>7. ASSUME NEW i \in Slots PROVE Owner(i)' /\ Knows(i)'
    <3>1. i # j => state'[i] = state[i] BY <2>6
    <3>2. Owner(i)'
      BY <1>0, <1>1, <1>3, <2>1, <2>2, <2>6, <3>1
      DEF Owner, Closed, Asked, AskLabels, SwapLabels, StopLabels
    <3>3. Knows(i)'
      BY <1>1, <1>2, <2>6 DEF Knows, AskLabels, StopLabels, EndLabels, StartLabels
    <3> QED BY <3>2, <3>3
  <2>8. CallInv' /\ MainCall'
    BY <1>1, <2>1, <2>5, <2>6, BootCall DEF BootLabels
  <2>9. HolderWaits' BY <2>6 DEF HolderWaits
  <2> QED BY <2>5, <2>7, <2>8, <2>9, CallKeeps
<1>6. CASE state[j] # "Reserved" /\ job.slot + 1 < NumSlots
  <2>1. NextSlot(c, "claim", "claim") /\ UNCHANGED <<state, waits>>
    BY <1>0, <1>6 DEF ClaimReserved, NextSlot
  <2>2. /\ Goto(c, "claim")
        /\ scaling' = scaling /\ job' \in Job /\ job'.op = job.op /\ job'.pending = job.pending
    BY <1>1, <2>1, NextSlotMoves
  <2> QED BY <1>1, <2>1, <2>2, SearchKeeps
<1>7. CASE state[j] # "Reserved" /\ ~(job.slot + 1 < NumSlots)
  <2>1. Goto(c, "idle") /\ scaling' = Free /\ job' = NoJob /\ UNCHANGED <<state, waits>>
    BY <1>0, <1>7 DEF ClaimReserved, Finish
  <2>2. CellStep(c, Main) BY <1>1, <2>1, StillStep DEF IInv
  <2>3. After(c, "idle") BY <1>1, <1>4, <2>1, <2>2, NoJobTyped, CallMoves
  <2> QED BY <1>1, <1>2, <1>3, <2>1, <2>3, Returns
<1> QED BY <1>5, <1>6, <1>7
-------------------------------------------------------------------------------
(* The request that opens set_handler, shutdown and drain_php_threads *)

LEMMA DrainMainKeeps ==
  ASSUME IInv, NEW c \in Controllers, DrainMain(c) PROVE IInv'
<1> USE Names
<1>1. /\ Holds(c, "drain_main") /\ UNCHANGED <<slots, php, engine, metrics, installed, scaling>>
      /\ scaling = c /\ c # Free /\ Label = "drain_main" /\ job \in Job /\ c \in Actors
      /\ Set(Main, "ShuttingDown") /\ job' = [job EXCEPT !.slot = 0] /\ Goto(c, "request")
  <2>1. Holds(c, "drain_main") BY DEF DrainMain, JobAt
  <2> QED BY <2>1, Holder DEF DrainMain, JobAt, GoToSlot
<1>2. job' \in Job /\ job'.op = job.op /\ job'.pending = job.pending /\ job'.slot = 0
  <2>1. 0 \in Slots BY SizesAssumption DEF Slots
  <2> QED BY <1>1, <2>1 DEF Job
<1>3. /\ installed /\ job.pending = {} /\ Draining
      /\ MainUp /\ state[Main] = "Ready" /\ metrics
  BY <1>1, BootQuiet DEF IInv, CallInv, MainCall
<1>4. \A i \in Slots : /\ slots[i].open /\ state[i] \in {"Reserved", "Inactive", "Ready", "TransitionComplete"}
                       /\ ~(i < 0)
  BY <1>1, BootQuiet, SizesAssumption DEF BootLabels, Slots
<1>5. CellStep(c, Main) /\ state'[Main] = "ShuttingDown" /\ pc'[Main] = pc[Main]
  BY <1>1, SetStep DEF IInv, State, Goto, Typed
<1>6. \A i \in Slots : state'[i] = state[i]
  BY <1>5 DEF CellStep
<1>7. MainShape'
  <2>1. {"Done", "Rebooting"} \in SUBSET State /\ Main \in Actors \ {c}
    BY DEF State
  <2>2. Waiting(Main, Main, {"Done", "Rebooting"}) => Waiting(Main, Main, {"Done", "Rebooting"})'
    BY <1>3, <1>5, <2>1 DEF CellStep
  <2> QED BY <1>1, <1>3, <1>5, <2>2 DEF IInv, MainShape, MainUp
<1>8. /\ metrics' \in BOOLEAN /\ installed' \in BOOLEAN /\ "request" \in ControllerLabels
      /\ slots' \in [Slots -> Slot] /\ php' \in [Slots -> Pthread]
  BY <1>1 DEF IInv, Typed, ControllerLabels
<1>9. After(c, "request")
  BY <1>1, <1>2, <1>5, <1>7, <1>8, CallFrame
<1>10. Label' = "request" BY <1>9 DEF After
<1>11. ASSUME NEW i \in Slots PROVE Owner(i)' /\ Knows(i)'
  <2>1. Owner(i)' BY <1>1, <1>2, <1>3, <1>4, <1>6, <1>10 DEF Owner, Closed, Asked
  <2>2. Knows(i)'
    BY <1>1, <1>2, <1>3, <1>4, <1>10 DEF Knows, StopLabels, EndLabels, StartLabels
  <2> QED BY <2>1, <2>2
<1>12. CallInv'
  BY <1>1, <1>2, <1>3, <1>9, <1>10 DEF CallInv, After, Draining, Operations, StartLabels, BootLabels,
     AskLabels, SwapLabels, StopLabels, EndLabels
<1>13. HolderWaits' BY <1>10 DEF HolderWaits
<1>14. MainCall'
  BY <1>1, <1>2, <1>3, <1>5, <1>10 DEF MainCall, MainUp, Draining, BootLabels, AskLabels, SwapLabels, StopLabels
<1> QED BY <1>9, <1>11, <1>12, <1>13, <1>14, CallKeeps

\* The slot a call is about to ask belongs to nobody.
LEMMA NotAskedYet ==
  ASSUME IInv, Label \in {"request", "request_park", "request_await"}
  PROVE  /\ job.slot \notin job.pending /\ ~Closed(job.slot) /\ ~Asked(job.slot)
         /\ state[job.slot] \in {"Reserved", "Inactive", "Ready", "TransitionComplete"}
         /\ slots[job.slot].open /\ installed
<1>1. job.slot \in Slots /\ Owner(job.slot) /\ installed
  BY DEF IInv, SlotInv, Typed, Job, CallInv, Label
<1>2. ~(job.slot < job.slot)
  <2>1. \A k \in Int : ~(k < k) OBVIOUS
  <2>2. job.slot \in Int BY <1>1, SizesAssumption DEF Slots
  <2> QED BY <2>1, <2>2
<1>3. job.slot \notin job.pending
  BY <1>2 DEF IInv, CallInv, AskLabels
<1>4. ~Closed(job.slot) /\ ~Asked(job.slot)
  BY <1>3 DEF Closed, Asked
<1> QED BY <1>1, <1>3, <1>4 DEF Owner, BootLabels

\* A granted request takes a slot out of a stable state, wherever its pthread is.
LEMMA RequestGrantedKeeps ==
  ASSUME IInv, NEW c \in Controllers, RequestGranted(c) PROVE IInv'
<1> USE Names
<1>0. PICK j \in Slots : j = job.slot
  BY DEF IInv, Typed, Job
<1>1. /\ Holds(c, "request") /\ UNCHANGED <<slots, php, engine, metrics, installed, scaling, job>>
      /\ scaling = c /\ c # Free /\ Label = "request" /\ job \in Job /\ c \in Actors
      /\ SlotInv(j) /\ j \in Cells /\ j # Main
      /\ state[j] \in {"Ready", "Inactive"} /\ Set(j, Requested) /\ Goto(c, "close_drain")
  <2>1. Holds(c, "request") BY DEF RequestGranted, JobAt
  <2> QED BY <1>0, <2>1, Holder DEF RequestGranted, JobAt, Continue, SafeStates
<1>2. PICK s \in State : /\ s = Requested /\ s \in {"ShuttingDown", "TransitionRequested"}
                         /\ s = "ShuttingDown" <=> Stopping
  BY DEF Requested, State
<1>3. CellStep(c, j) /\ state'[j] = s
  BY <1>1, <1>2, SetStep DEF IInv
<1>4. pc[j] \in PthreadLabels /\ pc'[j] = pc[j]
  BY <1>1 DEF IInv, Typed, Goto
<1>5. Finds(j)'
  BY <1>1, <1>2, <1>3, <1>4 DEF SlotInv, Finds, Work, PthreadLabels
<1>6. Owns(j)'
  <2>1. {"TransitionComplete"} \in SUBSET State /\ InactiveWakes \in SUBSET State /\ j \in Actors \ {c}
    BY <1>1 DEF State, InactiveWakes
  <2>2. Waiting(j, j, InactiveWakes) => Waiting(j, j, InactiveWakes)'
    BY <1>1, <1>3, <2>1 DEF CellStep, InactiveWakes
  <2>3. pc[j] # "await_complete"
    BY <1>1 DEF SlotInv, Finds
  <2> QED BY <1>1, <1>4, <2>2, <2>3 DEF SlotInv, Owns
<1>7. /\ metrics' \in BOOLEAN /\ installed' \in BOOLEAN /\ "close_drain" \in ControllerLabels
      /\ slots' \in [Slots -> Slot] /\ php' \in [Slots -> Pthread]
  BY <1>1 DEF IInv, Typed, ControllerLabels
<1>8. After(c, "close_drain")
  BY <1>1, <1>3, <1>5, <1>6, <1>7, CallFrame
<1>9. Label' = "close_drain" /\ pc'[Main] = pc[Main] /\ \A d \in Cells \ {j} : state'[d] = state[d]
  BY <1>3, <1>8 DEF After, CellStep
<1>10. j \notin job.pending /\ slots[j].open /\ installed
  BY <1>0, <1>1, NotAskedYet
<1>11. ASSUME NEW i \in Slots PROVE Owner(i)' /\ Knows(i)'
  <2>1. SlotInv(i) /\ pc'[i] = pc[i] /\ (i # j => state'[i] = state[i])
    BY <1>8, <1>9 DEF IInv, After
  <2>2. /\ Closed(i)' <=> i \in job.pending
        /\ Closed(i) <=> i \in job.pending
        /\ Asked(i)' <=> i \in job.pending \/ i = j
        /\ Asked(i) <=> i \in job.pending
    BY <1>0, <1>1, <1>9 DEF Closed, Asked, AskLabels
  <2>3. Owner(i)'
    BY <1>1, <1>2, <1>3, <1>9, <1>10, <2>1, <2>2 DEF SlotInv, Owner, Stopping, BootLabels
  <2>4. Knows(i)'
    BY <1>0, <1>1, <1>9, <1>10, <2>1, Names DEF SlotInv, Knows, Draining, AskLabels, StopLabels, EndLabels, StartLabels
  <2> QED BY <2>3, <2>4
<1>12. CallInv'
  BY <1>1, <1>8, <1>9 DEF IInv, CallInv, After, Draining, StartLabels, BootLabels,
     AskLabels, SwapLabels, StopLabels, EndLabels
<1>13. HolderWaits' BY <1>9 DEF HolderWaits
<1>14. MainCall'
  BY <1>1, <1>9, <1>10 DEF IInv, MainCall, MainUp, Draining, BootLabels, AskLabels, SwapLabels, StopLabels
<1> QED BY <1>8, <1>11, <1>12, <1>13, <1>14, CallKeeps

\* A refused slot is Reserved, and a call that leaves it there has asked nobody else.
LEMMA RequestRefusedKeeps ==
  ASSUME IInv, NEW c \in Controllers, RequestRefused(c) PROVE IInv'
<1> USE Names
<1>1. /\ Holds(c, "request") /\ UNCHANGED <<state, waits, slots, php, engine, metrics, installed>>
      /\ scaling = c /\ c # Free /\ Label = "request" /\ job \in Job /\ c \in Actors
      /\ state[job.slot] \in RefusingStates
  <2>1. Holds(c, "request") BY DEF RequestRefused, JobAt
  <2> QED BY <2>1, Holder DEF RequestRefused, JobAt
<1>2. state[job.slot] = "Reserved" /\ installed
  BY <1>1, NotAskedYet DEF RefusingStates
<1>3. /\ CellStep(c, Main) /\ metrics' \in BOOLEAN /\ installed' \in BOOLEAN
      /\ {"idle", "request", "grace"} \subseteq ControllerLabels
  BY <1>1, StillStep DEF IInv, Typed, ControllerLabels
<1>4. CASE Draining
  <2>1. NextSlot(c, "request", "grace") BY <1>4 DEF RequestRefused
  <2>2. /\ scaling' = scaling /\ job' \in Job /\ job'.slot \in Slots
        /\ job'.op = job.op /\ job'.pending = job.pending
    BY <1>1, <2>1, NextSlotMoves
  <2>3. PICK l \in {"request", "grace"} :
          /\ Goto(c, l)
          /\ l = "request" => \A i \in Slots : i < job'.slot <=> i < job.slot \/ i = job.slot
          /\ l = "grace" => \A i \in Slots : i < job.slot \/ i = job.slot
    BY <1>1, <2>1, NextSlotMoves
  <2>4. After(c, l) BY <1>1, <1>3, <2>2, <2>3, CallMoves
  <2>5. Label' = l /\ pc'[Main] = pc[Main] BY <2>4 DEF After
  <2>6. ASSUME NEW i \in Slots PROVE Owner(i)' /\ Knows(i)'
    <3>1. SlotInv(i) /\ pc'[i] = pc[i] BY <2>4 DEF IInv, After
    <3>2. /\ Closed(i)' <=> Closed(i)
          /\ Asked(i)' <=> Asked(i)
      BY <1>1, <2>2, <2>3, <2>5 DEF Closed, Asked, AskLabels, StopLabels
    <3>3. Owner(i)'
      BY <1>1, <2>2, <2>3, <2>5, <3>1, <3>2 DEF SlotInv, Owner, Stopping, BootLabels
    <3>4. i < job.slot => i \in job.pending \/ state[i] = "Reserved"
      BY <1>1, <1>4, <3>1 DEF SlotInv, Knows, AskLabels
    <3>5. Knows(i)'
      BY <1>1, <1>2, <1>4, <2>2, <2>3, <2>5, <3>1, <3>4
      DEF Knows, Draining, AskLabels, StopLabels, EndLabels, StartLabels
    <3> QED BY <3>3, <3>5
  <2>7. CallInv'
    <3>1. \A i \in job.pending : i < job.slot /\ i \in Slots
      BY <1>1, <1>4, Holder DEF IInv, CallInv, AskLabels
    <3> QED BY <1>1, <1>2, <1>4, <2>2, <2>3, <2>4, <2>5, <3>1 DEF CallInv, After, Draining, Stopping, Operations,
            StartLabels, BootLabels, AskLabels, SwapLabels, StopLabels, EndLabels
  <2>8. HolderWaits' BY <2>3, <2>5 DEF HolderWaits
  <2>9. MainCall'
    BY <1>1, <1>2, <1>4, <2>2, <2>3, <2>5 DEF IInv, MainCall, MainUp, Draining, BootLabels, AskLabels, SwapLabels, StopLabels
  <2> QED BY <2>4, <2>6, <2>7, <2>8, <2>9, CallKeeps
<1>5. CASE ~Draining
  <2>1. Goto(c, "idle") /\ scaling' = Free /\ job' = NoJob
    BY <1>5 DEF RequestRefused, Finish
  <2>2. After(c, "idle") BY <1>1, <1>3, <2>1, NoJobTyped, CallMoves
  <2>3. job.pending = {} BY <1>1, <1>5 DEF IInv, CallInv, AskLabels
  <2>4. \A i \in Slots : state[i] \in {"Reserved", "Inactive", "Ready", "TransitionComplete"} /\ slots[i].open
    BY <1>1, <2>3 DEF IInv, SlotInv, Owner, Closed, Asked, BootLabels
  <2>5. MainUp /\ state[Main] = "Ready" /\ metrics
    BY <1>1, <1>5 DEF IInv, MainCall, AskLabels
  <2> QED BY <1>1, <1>2, <2>1, <2>2, <2>4, <2>5, Returns
<1> QED BY <1>4, <1>5

\* The drain it closes is open, and the slot joins those the call has asked.
LEMMA CloseDrainKeeps ==
  ASSUME IInv, NEW c \in Controllers, CloseDrain(c) PROVE IInv'
<1> USE Names
<1>0. PICK j \in Slots : j = job.slot
  BY DEF IInv, Typed, Job
<1> DEFINE last == job.slot + 1 = NumSlots
           k == IF ~Draining THEN j ELSE IF last THEN 0 ELSE j + 1
           new == [slots[j] EXCEPT !.open = FALSE]
<1>1. /\ Holds(c, "close_drain") /\ UNCHANGED <<state, waits, php, engine, metrics, installed, scaling>>
      /\ scaling = c /\ c # Free /\ Label = "close_drain" /\ job \in Job /\ c \in Actors
      /\ SlotInv(j) /\ j \in Cells /\ j # Main /\ slots' = [slots EXCEPT ![j].open = FALSE]
  <2>1. Holds(c, "close_drain") BY DEF CloseDrain, JobAt
  <2> QED BY <1>0, <2>1, Holder DEF CloseDrain, JobAt
<1>2. /\ slots \in [Slots -> Slot] /\ slots[j] \in Slot /\ php' \in [Slots -> Pthread]
      /\ metrics' \in BOOLEAN /\ installed' \in BOOLEAN
  BY <1>1 DEF IInv, Typed
<1>3. new \in Slot /\ new.open = FALSE /\ new.handler = slots[j].handler /\ new.kill = slots[j].kill
  BY <1>2 DEF Slot
<1>4. slots' = [slots EXCEPT ![j] = new] BY <1>1
<1> HIDE DEF new
<1>5. slots' \in [Slots -> Slot] /\ slots'[j] = new /\ \A i \in Slots \ {j} : slots'[i] = slots[i]
  BY <1>2, <1>3, <1>4
<1>6. /\ k \in Slots
      /\ Draining /\ ~last => \A i \in Slots : i < k <=> i < j \/ i = j
      /\ Draining /\ last => \A i \in Slots : i < j \/ i = j
      /\ ~Draining => k = j
  BY <1>0, SizesAssumption DEF Slots
<1>7. job' = [job EXCEPT !.pending = job.pending \cup {j}, !.slot = k]
  BY <1>0, <1>1 DEF CloseDrain, Job
<1> HIDE DEF k
<1>8. job' \in Job /\ job'.op = job.op /\ job'.pending = job.pending \cup {j} /\ job'.slot = k
  BY <1>1, <1>6, <1>7 DEF Job
<1>9. PICK l \in ControllerLabels :
        /\ Goto(c, l)
        /\ ~Stopping => l = "park_tip"
        /\ Stopping => l = (IF Draining /\ ~last THEN "request" ELSE "grace")
  BY DEF CloseDrain, ControllerLabels
<1> HIDE DEF last
<1>10. l \in {"park_tip", "request", "grace"} /\ CellStep(c, j) /\ pc'[j] = pc[j]
  BY <1>1, <1>9, StillStep DEF IInv, Goto, Typed
<1>11. Finds(j)' /\ Owns(j)'
  <2>1. Finds(j)' BY <1>1, <1>3, <1>5, <1>10 DEF SlotInv, Finds
  <2>2. Owns(j)' BY <1>1, <1>3, <1>5, <1>10 DEF SlotInv, Owns, Waiting
  <2> QED BY <2>1, <2>2
<1>12. After(c, l)
  BY <1>1, <1>2, <1>5, <1>8, <1>9, <1>10, <1>11, CallFrame
<1>13. Label' = l /\ pc'[Main] = pc[Main] BY <1>12 DEF After
<1>14. /\ job.op \in Operations /\ (Draining => Stopping) /\ installed
       /\ IF Draining THEN \A i \in job.pending : i < j ELSE job.pending = {}
  BY <1>0, <1>1 DEF IInv, CallInv, AskLabels, Draining, Stopping
<1>15. ASSUME NEW i \in Slots PROVE Owner(i)' /\ Knows(i)'
  <2>1. SlotInv(i) /\ pc'[i] = pc[i] BY <1>12 DEF IInv, After
  <2>2. /\ Closed(i)' <=> i \in job.pending \/ i = j
        /\ Closed(i) <=> i \in job.pending
        /\ Asked(i)' <=> i \in job.pending \/ i = j
        /\ Asked(i) <=> i \in job.pending \/ i = j
    BY <1>0, <1>1, <1>8, <1>10, <1>13 DEF Closed, Asked, AskLabels, SwapLabels, StopLabels
  <2>3. slots'[i].open = (IF i = j THEN FALSE ELSE slots[i].open)
    BY <1>3, <1>5
  <2>4. Owner(i)'
    BY <1>1, <1>8, <1>10, <1>13, <2>1, <2>2, <2>3 DEF SlotInv, Owner, Stopping, BootLabels
  <2>5. Draining /\ i < j => i \in job.pending \/ state[i] = "Reserved"
    BY <1>0, <1>1, <2>1 DEF SlotInv, Knows, AskLabels
  <2>6. Knows(i)'
    BY <1>1, <1>6, <1>8, <1>9, <1>10, <1>13, <1>14, <2>1, <2>5
    DEF Knows, Draining, AskLabels, StopLabels, EndLabels, StartLabels
  <2> QED BY <2>4, <2>6
<1>16. CallInv'
  <2>1. \A i \in job.pending : i \in Slots BY <1>1 DEF Job
  <2>2. l = "request" => Draining /\ (\A i \in job.pending \cup {j} : i < k) /\ Stopping
    BY <1>6, <1>9, <1>14, <2>1
  <2>3. l = "grace" => Stopping /\ (~Draining => k = j /\ job.pending = {})
    BY <1>6, <1>9, <1>14
  <2>4. l = "park_tip" => ~Stopping /\ k = j /\ job.pending = {} /\ job.op # "none"
    BY <1>6, <1>9, <1>14 DEF Operations
  <2>5. /\ \A d \in Controllers : d # scaling' => pc'[d] = "idle"
        /\ scaling' # Free => pc'[scaling'] # "idle"
    BY <1>12 DEF After
  <2> QED BY <1>1, <1>8, <1>10, <1>13, <1>14, <2>2, <2>3, <2>4, <2>5 DEF CallInv, Draining, Stopping,
          StartLabels, BootLabels, AskLabels, SwapLabels, StopLabels, EndLabels
<1>17. HolderWaits' BY <1>10, <1>13 DEF HolderWaits
<1>18. MainCall'
  BY <1>1, <1>8, <1>9, <1>10, <1>13, <1>14
  DEF IInv, MainCall, MainUp, Draining, BootLabels, AskLabels, SwapLabels, StopLabels
<1> QED BY <1>12, <1>15, <1>16, <1>17, <1>18, CallKeeps
-------------------------------------------------------------------------------
(* set_handler_locked *)

\* The replacement finds the pthread parked in the transition.
LEMMA InstallHandlerKeeps ==
  ASSUME IInv, NEW c \in Controllers, InstallHandler(c) PROVE IInv'
<1> USE Names
<1>0. PICK j \in Slots : j = job.slot
  BY DEF IInv, Typed, Job
<1>1. PICK h \in Handlers : slots' = [slots EXCEPT ![j].handler = h]
  BY <1>0 DEF InstallHandler, Handlers
<1> DEFINE new == [slots[j] EXCEPT !.handler = h]
<1>2. /\ Holds(c, "await_tip") /\ UNCHANGED <<state, waits, php, engine, metrics, installed, scaling, job>>
      /\ scaling = c /\ c # Free /\ Label = "await_tip" /\ job \in Job /\ c \in Actors
      /\ SlotInv(j) /\ j \in Cells /\ j # Main /\ ~Subscribed(c) /\ Goto(c, "reopen")
  <2>1. Holds(c, "await_tip") BY DEF InstallHandler, JobAt
  <2> QED BY <1>0, <2>1, Holder DEF InstallHandler, JobAt, Continue
<1>3. state[j] = "TransitionInProgress"
  <2>1. Waiting(c, j, {"TransitionInProgress"}) BY <1>0, <1>2 DEF IInv, HolderWaits
  <2> QED BY <1>2, <2>1, WokenFinds
<1>4. /\ slots \in [Slots -> Slot] /\ slots[j] \in Slot /\ php' \in [Slots -> Pthread]
      /\ metrics' \in BOOLEAN /\ installed' \in BOOLEAN /\ "reopen" \in ControllerLabels
  BY <1>2 DEF IInv, Typed, ControllerLabels
<1>5. new \in Slot /\ new.handler = h /\ new.open = slots[j].open /\ new.kill = slots[j].kill
  BY <1>4 DEF Slot, Handlers
<1>6. slots' = [slots EXCEPT ![j] = new] BY <1>1
<1> HIDE DEF new
<1>7. slots' \in [Slots -> Slot] /\ slots'[j] = new /\ \A i \in Slots \ {j} : slots'[i] = slots[i]
  BY <1>4, <1>5, <1>6
<1>8. CellStep(c, j) /\ pc'[j] = pc[j] /\ pc[j] \in {"park_tip", "await_complete"}
  <2>1. CellStep(c, j) /\ pc'[j] = pc[j] /\ pc[j] \in PthreadLabels
    BY <1>2, StillStep DEF IInv, Goto, Typed
  <2> QED BY <1>2, <1>3, <2>1 DEF SlotInv, Finds, Work, PthreadLabels
<1>9. Finds(j)' /\ Owns(j)'
  <2>1. Finds(j)' BY <1>2, <1>3, <1>8 DEF Finds
  <2>2. Owns(j)' BY <1>2, <1>5, <1>7, <1>8 DEF SlotInv, Owns, Waiting
  <2> QED BY <2>1, <2>2
<1>10. After(c, "reopen")
  BY <1>2, <1>4, <1>7, <1>8, <1>9, CallFrame
<1>11. Label' = "reopen" /\ pc'[Main] = pc[Main] BY <1>10 DEF After
<1>12. job.pending = {j} /\ installed
  BY <1>0, <1>2 DEF IInv, CallInv, SwapLabels
<1>13. ASSUME NEW i \in Slots PROVE Owner(i)' /\ Knows(i)'
  <2>1. SlotInv(i) /\ pc'[i] = pc[i] BY <1>10 DEF IInv, After
  <2>2. (Closed(i)' <=> Closed(i)) /\ (Asked(i)' <=> Asked(i))
    BY <1>2, <1>11 DEF Closed, Asked, SwapLabels
  <2>3. slots'[i].open = slots[i].open
    BY <1>5, <1>7
  <2>4. Owner(i)'
    BY <1>2, <1>11, <2>1, <2>2, <2>3 DEF SlotInv, Owner, Stopping, BootLabels
  <2>5. Knows(i)'
    BY <1>0, <1>1, <1>2, <1>3, <1>5, <1>7, <1>11, <1>12
    DEF Knows, AskLabels, StopLabels, EndLabels, StartLabels
  <2> QED BY <2>4, <2>5
<1>14. CallInv'
  BY <1>2, <1>10, <1>11 DEF IInv, CallInv, After, Stopping, StartLabels, BootLabels,
     AskLabels, SwapLabels, StopLabels, EndLabels
<1>15. HolderWaits' BY <1>11 DEF HolderWaits
<1>16. MainCall'
  BY <1>2, <1>11, <1>12 DEF IInv, MainCall, MainUp, BootLabels, AskLabels, SwapLabels, StopLabels
<1> QED BY <1>10, <1>13, <1>14, <1>15, <1>16, CallKeeps

LEMMA ReopenDrainKeeps ==
  ASSUME IInv, NEW c \in Controllers, ReopenDrain(c) PROVE IInv'
<1> USE Names
<1>0. PICK j \in Slots : j = job.slot
  BY DEF IInv, Typed, Job
<1> DEFINE new == [slots[j] EXCEPT !.open = TRUE]
           old == [php[j] EXCEPT !.fresh = FALSE]
<1>1. /\ Holds(c, "reopen") /\ UNCHANGED <<state, waits, engine, metrics, installed, scaling, job>>
      /\ scaling = c /\ c # Free /\ Label = "reopen" /\ job \in Job /\ c \in Actors
      /\ SlotInv(j) /\ j \in Cells /\ j # Main /\ Goto(c, "complete")
      /\ slots' = [slots EXCEPT ![j].open = TRUE] /\ php' = [php EXCEPT ![j].fresh = FALSE]
  <2>1. Holds(c, "reopen") BY DEF ReopenDrain
  <2> QED BY <1>0, <2>1, Holder DEF ReopenDrain, Continue
<1>2. /\ slots \in [Slots -> Slot] /\ slots[j] \in Slot /\ php \in [Slots -> Pthread] /\ php[j] \in Pthread
      /\ metrics' \in BOOLEAN /\ installed' \in BOOLEAN /\ "complete" \in ControllerLabels
  BY <1>1 DEF IInv, Typed, ControllerLabels
<1>3. new \in Slot /\ new.open = TRUE /\ new.handler = slots[j].handler /\ new.kill = slots[j].kill
  BY <1>2 DEF Slot
<1>4. /\ old \in Pthread /\ old.running = php[j].running /\ old.tsrm = php[j].tsrm
      /\ old.script = php[j].script /\ old.healthy = php[j].healthy
  BY <1>2 DEF Pthread
<1>5. slots' = [slots EXCEPT ![j] = new] /\ php' = [php EXCEPT ![j] = old] BY <1>1
<1> HIDE DEF new, old
<1>6. slots' \in [Slots -> Slot] /\ slots'[j] = new /\ \A i \in Slots \ {j} : slots'[i] = slots[i]
  BY <1>2, <1>3, <1>5
<1>7. php' \in [Slots -> Pthread] /\ php'[j] = old /\ \A i \in Slots \ {j} : php'[i] = php[i]
  BY <1>2, <1>4, <1>5
<1>8. CellStep(c, j) /\ pc'[j] = pc[j]
  BY <1>1, StillStep DEF IInv, Goto, Typed
<1>9. Finds(j)' /\ Owns(j)'
  <2>1. Finds(j)' BY <1>1, <1>3, <1>4, <1>6, <1>7, <1>8 DEF SlotInv, Finds
  <2>2. Owns(j)' BY <1>1, <1>3, <1>4, <1>6, <1>7, <1>8 DEF SlotInv, Owns, Waiting
  <2> QED BY <2>1, <2>2
<1>10. After(c, "complete")
  BY <1>1, <1>2, <1>6, <1>7, <1>8, <1>9, CallFrame
<1>11. Label' = "complete" /\ pc'[Main] = pc[Main] BY <1>10 DEF After
<1>12. job.pending = {j} /\ installed
  BY <1>0, <1>1 DEF IInv, CallInv, SwapLabels
<1>13. ASSUME NEW i \in Slots PROVE Owner(i)' /\ Knows(i)'
  <2>1. SlotInv(i) /\ pc'[i] = pc[i] BY <1>10 DEF IInv, After
  <2>2. ~Closed(i)' /\ (Asked(i)' <=> i = j) /\ (Closed(i) <=> i = j) /\ (Asked(i) <=> i = j)
    BY <1>0, <1>1, <1>11, <1>12 DEF Closed, Asked, SwapLabels
  <2>3. slots'[i].open = (IF i = j THEN TRUE ELSE slots[i].open)
        /\ slots'[i].handler = slots[i].handler
    BY <1>3, <1>6
  <2>4. Owner(i)'
    BY <1>1, <1>11, <2>1, <2>2, <2>3 DEF SlotInv, Owner, Stopping, BootLabels
  <2>5. Knows(i)'
    BY <1>1, <1>11, <1>12, <2>1, <2>3
    DEF SlotInv, Knows, AskLabels, StopLabels, EndLabels, StartLabels
  <2> QED BY <2>4, <2>5
<1>14. CallInv'
  BY <1>1, <1>10, <1>11 DEF IInv, CallInv, After, Stopping, StartLabels, BootLabels,
     AskLabels, SwapLabels, StopLabels, EndLabels
<1>15. HolderWaits' BY <1>11 DEF HolderWaits
<1>16. MainCall'
  BY <1>1, <1>11, <1>12 DEF IInv, MainCall, MainUp, BootLabels, AskLabels, SwapLabels, StopLabels
<1> QED BY <1>10, <1>13, <1>14, <1>15, <1>16, CallKeeps

\* The pthread is released with the new handler, and nothing is left asked for.
LEMMA PublishCompleteKeeps ==
  ASSUME IInv, NEW c \in Controllers, PublishComplete(c) PROVE IInv'
<1> USE Names
<1>0. PICK j \in Slots : j = job.slot
  BY DEF IInv, Typed, Job
<1>1. /\ UNCHANGED <<slots, php, engine, metrics, installed>>
      /\ scaling = c /\ c # Free /\ Label = "complete" /\ job \in Job /\ c \in Actors
      /\ SlotInv(j) /\ j \in Cells /\ j # Main /\ Goto(c, "idle")
      /\ scaling' = Free /\ job' = NoJob /\ Set(j, "TransitionComplete")
  <2>1. Holds(c, "complete") BY DEF PublishComplete, JobAt
  <2> QED BY <1>0, <2>1, Holder DEF PublishComplete, JobAt, Finish
<1>2. state[j] = "TransitionInProgress" /\ slots[j].handler \in Handlers /\ job.pending = {j} /\ installed
  BY <1>0, <1>1 DEF IInv, CallInv, SlotInv, Knows, SwapLabels
<1>3. CellStep(c, j) /\ state'[j] = "TransitionComplete" /\ pc'[j] = pc[j] /\ pc[j] \in PthreadLabels
  BY <1>1, SetStep DEF IInv, State, Goto, Typed
<1>4. pc[j] \in {"park_tip", "await_complete"}
  BY <1>1, <1>2, <1>3 DEF SlotInv, Finds, Work, PthreadLabels
<1>5. Finds(j)' BY <1>1, <1>2, <1>3, <1>4 DEF Finds
<1>6. Owns(j)'
  <2>1. {"TransitionComplete"} \in SUBSET State /\ j \in Actors \ {c}
    BY <1>1 DEF State
  <2>2. Waiting(j, j, {"TransitionComplete"}) => Waiting(j, j, {"TransitionComplete"})'
    BY <1>3, <2>1 DEF CellStep
  <2> QED BY <1>1, <1>3, <1>4, <2>2 DEF SlotInv, Owns
<1>7. /\ metrics' \in BOOLEAN /\ installed' \in BOOLEAN /\ "idle" \in ControllerLabels
      /\ slots' \in [Slots -> Slot] /\ php' \in [Slots -> Pthread]
  BY <1>1 DEF IInv, Typed, ControllerLabels
<1>8. After(c, "idle")
  BY <1>1, <1>3, <1>5, <1>6, <1>7, NoJobTyped, CallFrame
<1>9. \A d \in Cells \ {j} : state'[d] = state[d] BY <1>3 DEF CellStep
<1>10. ASSUME NEW i \in Slots
       PROVE  state'[i] \in {"Reserved", "Inactive", "Ready", "TransitionComplete"} /\ slots[i].open
  <2>1. SlotInv(i) /\ (i # j => state'[i] = state[i]) BY <1>9 DEF IInv
  <2>2. ~Closed(i) /\ (Asked(i) <=> i = j)
    BY <1>0, <1>1 DEF Closed, Asked
  <2> QED BY <1>1, <1>3, <2>1, <2>2 DEF SlotInv, Owner, BootLabels
<1>11. MainUp /\ state'[Main] = "Ready" /\ metrics
  BY <1>1, <1>9 DEF IInv, MainCall, SwapLabels
<1> QED BY <1>1, <1>2, <1>8, <1>10, <1>11, Returns
-------------------------------------------------------------------------------
(* shutdown_locked and drain_generation *)

\* A step of the stopping call that leaves the slots' states to it: a place it may go
\* on from, when what it knows of the slots it has asked allows it.
LEMMA StopKeeps ==
  ASSUME IInv, NEW c \in Controllers, NEW m \in StopLabels \ {"finish"}, Holds(c, m),
         NEW l \in {"grace", "kill", "park_done", "finish"}, After(c, l),
         UNCHANGED <<state, slots, engine, metrics, installed, scaling>>,
         job' \in Job, job'.op = job.op, job'.pending = job.pending,
         ~Draining => job'.slot = job.slot,
         l = "park_done" => \A i \in job.pending : i < job'.slot => state[i] = "Done",
         l = "finish" => \A i \in job.pending : i >= job'.slot /\ ~(i < job'.slot) /\ state[i] = "Done"
  PROVE  IInv'
<1>1. scaling = c /\ c # Free /\ Label = m /\ job \in Job
  BY Holder
<1>2. Label' = l /\ pc'[Main] = pc[Main] BY DEF After
<1>3. Stopping /\ (~Draining => job.pending = {job.slot}) /\ installed
  BY <1>1 DEF IInv, CallInv, StopLabels
<1>4. ASSUME NEW i \in Slots PROVE Owner(i)' /\ Knows(i)'
  <2>1. SlotInv(i) /\ pc'[i] = pc[i] BY DEF IInv, After
  <2>2. /\ Closed(i)' <=> i \in job.pending
        /\ Closed(i) <=> i \in job.pending
        /\ Asked(i)' <=> i \in job.pending
        /\ Asked(i) <=> i \in job.pending
    BY <1>1, <1>2 DEF Closed, Asked, StopLabels
  <2>3. Owner(i)'
    BY <1>1, <1>2, <2>1, <2>2 DEF SlotInv, Owner, Stopping, BootLabels, StopLabels
  <2>4. Draining => i \in job.pending \/ state[i] = "Reserved"
    BY <1>1, <2>1 DEF SlotInv, Knows, StopLabels
  <2>5. Knows(i)'
    BY <1>2, <1>3, <2>4 DEF Knows, Draining, AskLabels, EndLabels, StartLabels
  <2> QED BY <2>3, <2>5
<1>5. CallInv'
  BY <1>1, <1>2, <1>3 DEF CallInv, After, Draining, Stopping,
     StartLabels, BootLabels, AskLabels, SwapLabels, StopLabels, EndLabels
<1>6. HolderWaits' BY <1>2 DEF HolderWaits
<1>7. MainCall'
  BY <1>1, <1>2, <1>3 DEF IInv, MainCall, MainUp, Draining, BootLabels, AskLabels, SwapLabels, StopLabels
<1> QED BY <1>4, <1>5, <1>6, <1>7, CallKeeps

\* Where a loop of drain_generation, or the one slot of shutdown, goes on.
LEMMA VisitMoves ==
  ASSUME IInv, NEW c \in Controllers, NEW l, Holds(c, l), NEW label, NEW end, Visit(c, label, end)
  PROVE  /\ scaling' = scaling /\ job' \in Job /\ job'.slot \in Slots
         /\ job'.op = job.op /\ job'.pending = job.pending
         /\ ~Draining => job' = job /\ Goto(c, end)
         /\ Draining =>
            \/ /\ Goto(c, label)
               /\ \A i \in Slots : i < job'.slot <=> i < job.slot \/ i = job.slot
            \/ /\ Goto(c, end)
               /\ \A i \in Slots : i < job.slot \/ i = job.slot
               /\ \A i \in Slots : i >= job'.slot /\ ~(i < job'.slot)
<1>1. job \in Job /\ job.slot \in Slots BY Holder
<1>2. CASE Draining
  <2>1. NextSlot(c, label, end) BY <1>2 DEF Visit
  <2> QED BY <1>2, <2>1, NextSlotMoves
<1>3. CASE ~Draining
  BY <1>1, <1>3 DEF Visit, Continue
<1> QED BY <1>2, <1>3

\* Slots without a ticket are passed over, and the loops of a drain reach all the others.
LEMMA SkipSlotKeeps ==
  ASSUME IInv, NEW c \in Controllers,
         NEW m \in {"grace", "kill", "park_done"}, NEW n \in {"kill", "park_done", "finish"},
         <<m, n>> \in LoopLabels, SkipSlot(c, m, n)
  PROVE  IInv'
<1> USE Names
<1>1. /\ Holds(c, m) /\ UNCHANGED <<state, waits, slots, php, engine, metrics, installed>>
      /\ scaling = c /\ c # Free /\ Label = m /\ c \in Actors
      /\ job.slot \notin job.pending /\ NextSlot(c, m, n) /\ job.pending \subseteq Slots
  <2>1. Holds(c, m) BY DEF SkipSlot, JobAt
  <2> QED BY <2>1, Holder DEF SkipSlot, JobAt
<1>2. Draining
  BY <1>1 DEF IInv, CallInv, StopLabels
<1>3. PICK l \in {m, n} :
        /\ Goto(c, l)
        /\ l = m => \A i \in Slots : i < job'.slot <=> i < job.slot \/ i = job.slot
        /\ l = n => /\ \A i \in Slots : i < job.slot \/ i = job.slot
                    /\ \A i \in Slots : i >= job'.slot /\ ~(i < job'.slot)
  <2>1. m # n BY DEF LoopLabels
  <2> QED BY <1>1, <2>1, NextSlotMoves
<1>4. scaling' = scaling /\ job' \in Job /\ job'.op = job.op /\ job'.pending = job.pending
  BY <1>1, NextSlotMoves
<1>5. CellStep(c, Main) /\ metrics' \in BOOLEAN /\ installed' \in BOOLEAN /\ l \in ControllerLabels /\ l # "idle"
  BY <1>1, StillStep DEF IInv, Typed, ControllerLabels
<1>6. After(c, l)
  BY <1>1, <1>3, <1>4, <1>5, CallMoves
<1>7. m = "park_done" => \A i \in job.pending : i < job.slot => state[i] = "Done"
  BY <1>1 DEF IInv, SlotInv, Knows
<1>8. l = "park_done" => \A i \in job.pending : i < job'.slot => state[i] = "Done"
  BY <1>1, <1>3, <1>7 DEF LoopLabels
<1>9. l = "finish" => \A i \in job.pending : i >= job'.slot /\ ~(i < job'.slot) /\ state[i] = "Done"
  <2>1. ASSUME l = "finish" PROVE m = "park_done" /\ l = n BY <2>1 DEF LoopLabels
  <2> QED BY <1>1, <1>3, <1>7, <2>1
<1>10. m \in StopLabels \ {"finish"} /\ l \in {"grace", "kill", "park_done", "finish"}
  BY DEF StopLabels
<1> QED BY <1>1, <1>2, <1>4, <1>6, <1>8, <1>9, <1>10, StopKeeps

LEMMA GraceDoneKeeps ==
  ASSUME IInv, NEW c \in Controllers, GraceDone(c) PROVE IInv'
<1> USE Names
<1>1. /\ Holds(c, "await_grace") /\ UNCHANGED <<state, waits, slots, php, engine, metrics, installed>>
      /\ scaling = c /\ c # Free /\ Label = "await_grace" /\ c \in Actors /\ job \in Job /\ job.slot \in Slots
      /\ ~Subscribed(c)
  <2>1. Holds(c, "await_grace") BY DEF GraceDone, JobAt
  <2> QED BY <2>1, Holder DEF GraceDone, JobAt
<1>2. state[job.slot] = "Done"
  <2>1. Waiting(c, job.slot, {"Done"}) BY <1>1 DEF IInv, HolderWaits
  <2> QED BY <1>1, <2>1, WokenFinds
<1>3. /\ CellStep(c, Main) /\ metrics' \in BOOLEAN /\ installed' \in BOOLEAN
      /\ {"grace", "kill", "finish"} \subseteq ControllerLabels /\ "await_grace" \in StopLabels \ {"finish"}
  BY <1>1, StillStep DEF IInv, Typed, ControllerLabels, StopLabels
<1>4. CASE Draining
  <2>1. NextSlot(c, "grace", "kill") BY <1>4 DEF GraceDone
  <2>2. PICK l \in {"grace", "kill"} : Goto(c, l)
    BY <1>1, <2>1, NextSlotMoves
  <2>3. scaling' = scaling /\ job' \in Job /\ job'.op = job.op /\ job'.pending = job.pending
    BY <1>1, <2>1, NextSlotMoves
  <2>4. After(c, l) BY <1>1, <1>3, <2>2, <2>3, CallMoves
  <2> QED BY <1>1, <1>3, <1>4, <2>2, <2>3, <2>4, StopKeeps
<1>5. CASE ~Draining
  <2>1. Goto(c, "finish") /\ UNCHANGED <<scaling, job>>
    BY <1>5 DEF GraceDone, Continue
  <2>2. After(c, "finish") BY <1>1, <1>3, <2>1, CallMoves
  <2>3. job.pending = {job.slot} BY <1>1, <1>5 DEF IInv, CallInv, StopLabels
  <2>4. job.slot >= job.slot /\ ~(job.slot < job.slot)
    <3>1. \A k \in Int : k >= k /\ ~(k < k) OBVIOUS
    <3>2. job.slot \in Int BY <1>1, SizesAssumption DEF Slots
    <3> QED BY <3>1, <3>2
  <2>5. \A i \in job.pending : i >= job'.slot /\ ~(i < job'.slot) /\ state[i] = "Done"
    BY <1>2, <2>1, <2>3, <2>4
  <2> QED BY <1>1, <1>3, <2>1, <2>2, <2>5, StopKeeps
<1> QED BY <1>4, <1>5

LEMMA GraceCleanUpKeeps ==
  ASSUME IInv, NEW c \in Controllers, GraceCleanUp(c) PROVE IInv'
<1> USE Names
<1>1. /\ Holds(c, "grace_expired") /\ UNCHANGED <<slots, php, engine, metrics, installed>>
      /\ scaling = c /\ c # Free /\ Label = "grace_expired" /\ c \in Actors /\ job \in Job
      /\ Unsubscribe(c) /\ Visit(c, "grace", "kill")
  <2>1. Holds(c, "grace_expired") BY DEF GraceCleanUp, JobAt
  <2> QED BY <2>1, Holder DEF GraceCleanUp, JobAt
<1>2. /\ CellStep(c, Main) /\ state' = state /\ metrics' \in BOOLEAN /\ installed' \in BOOLEAN
      /\ {"grace", "kill"} \subseteq ControllerLabels /\ "grace_expired" \in StopLabels \ {"finish"}
  BY <1>1, UnsubscribeStep DEF IInv, Typed, ControllerLabels, StopLabels
<1>3. PICK l \in {"grace", "kill"} : Goto(c, l)
  BY <1>1, VisitMoves
<1>4. /\ scaling' = scaling /\ job' \in Job /\ job'.op = job.op /\ job'.pending = job.pending
      /\ ~Draining => job' = job
  BY <1>1, VisitMoves
<1>5. After(c, l) BY <1>1, <1>2, <1>3, <1>4, CallMoves
<1> QED BY <1>1, <1>2, <1>3, <1>4, <1>5, StopKeeps

\* A kill changes nothing of a pthread but the flags it leaves its script by.
LEMMA SendKillSignalKeeps ==
  ASSUME IInv, NEW c \in Controllers, SendKillSignal(c) PROVE IInv'
<1> USE Names
<1>0. PICK j \in Slots : j = job.slot
  BY DEF IInv, Typed, Job
<1>1. /\ Holds(c, "kill") /\ UNCHANGED <<state, waits, slots, engine, metrics, installed>>
      /\ scaling = c /\ c # Free /\ Label = "kill" /\ c \in Actors /\ job \in Job
      /\ SlotInv(j) /\ j \in Cells /\ Visit(c, "kill", "park_done")
  <2>1. Holds(c, "kill") BY DEF SendKillSignal
  <2> QED BY <1>0, <2>1, Holder DEF SendKillSignal
<1>2. php \in [Slots -> Pthread] /\ php[j] \in Pthread /\ slots[j] \in Slot
  BY DEF IInv, Typed
<1> DEFINE a == slots[j].kill /\ At(j, "script")
           b == ~At(j, "script")
           new == [php[j] EXCEPT !.interrupted = a, !.missed = b]
<1>3. a \in BOOLEAN /\ b \in BOOLEAN BY <1>2 DEF Slot
<1>4. php' = [php EXCEPT ![j] = new]
  BY <1>0, <1>2 DEF SendKillSignal
<1> HIDE DEF a, b
<1>5. /\ new \in Pthread /\ new.running = php[j].running /\ new.tsrm = php[j].tsrm
      /\ new.script = php[j].script /\ new.healthy = php[j].healthy
  BY <1>2, <1>3 DEF Pthread
<1> HIDE DEF new
<1>6. php' \in [Slots -> Pthread] /\ php'[j] = new /\ \A i \in Slots \ {j} : php'[i] = php[i]
  BY <1>2, <1>4, <1>5
<1>7. /\ CellStep(c, j) /\ metrics' \in BOOLEAN /\ installed' \in BOOLEAN /\ slots' \in [Slots -> Slot]
      /\ {"kill", "park_done"} \subseteq ControllerLabels /\ "kill" \in StopLabels \ {"finish"}
  BY <1>1, StillStep DEF IInv, Typed, ControllerLabels, StopLabels
<1>8. PICK l \in {"kill", "park_done"} :
        /\ Goto(c, l)
        /\ l = "park_done" /\ Draining => \A i \in Slots : ~(i < job'.slot)
  BY <1>1, VisitMoves
<1>9. /\ scaling' = scaling /\ job' \in Job /\ job'.op = job.op /\ job'.pending = job.pending
      /\ ~Draining => job' = job
  BY <1>1, VisitMoves
<1>10. Finds(j)' /\ Owns(j)'
  <2>1. pc'[j] = pc[j] BY <1>1, <1>8 DEF Goto, IInv, Typed
  <2>2. Finds(j)' BY <1>1, <1>5, <1>6, <2>1 DEF SlotInv, Finds
  <2>3. Owns(j)' BY <1>1, <1>5, <1>6, <2>1 DEF SlotInv, Owns, Waiting
  <2> QED BY <2>2, <2>3
<1>11. After(c, l)
  BY <1>1, <1>6, <1>7, <1>8, <1>9, <1>10, CallFrame
<1>12. l = "park_done" => \A i \in job.pending : i < job'.slot => state[i] = "Done"
  <2>1. job.pending \subseteq Slots BY <1>1 DEF Job
  <2>2. ASSUME ~Draining PROVE \A i \in job.pending : ~(i < job'.slot)
    <3>1. job.pending = {j} /\ job'.slot = j BY <1>0, <1>1, <1>9, <2>2 DEF IInv, CallInv, StopLabels
    <3>2. \A k \in Int : ~(k < k) OBVIOUS
    <3>3. j \in Int BY SizesAssumption DEF Slots
    <3> QED BY <3>1, <3>2, <3>3
  <2> QED BY <1>8, <2>1, <2>2
<1> QED BY <1>1, <1>7, <1>8, <1>9, <1>11, <1>12, StopKeeps

LEMMA ThreadIsDoneKeeps ==
  ASSUME IInv, NEW c \in Controllers, ThreadIsDone(c) PROVE IInv'
<1> USE Names
<1>1. /\ Holds(c, "await_done") /\ UNCHANGED <<state, waits, slots, php, engine, metrics, installed>>
      /\ scaling = c /\ c # Free /\ Label = "await_done" /\ c \in Actors /\ job \in Job /\ job.slot \in Slots
      /\ ~Subscribed(c) /\ Visit(c, "park_done", "finish") /\ job.pending \subseteq Slots
  <2>1. Holds(c, "await_done") BY DEF ThreadIsDone, JobAt
  <2> QED BY <2>1, Holder DEF ThreadIsDone, JobAt
<1>2. state[job.slot] = "Done"
  <2>1. Waiting(c, job.slot, {"Done"}) BY <1>1 DEF IInv, HolderWaits
  <2> QED BY <1>1, <2>1, WokenFinds
<1>3. /\ CellStep(c, Main) /\ metrics' \in BOOLEAN /\ installed' \in BOOLEAN
      /\ {"park_done", "finish"} \subseteq ControllerLabels /\ "await_done" \in StopLabels \ {"finish"}
  BY <1>1, StillStep DEF IInv, Typed, ControllerLabels, StopLabels
<1>4. \A i \in job.pending : i < job.slot => state[i] = "Done"
  BY <1>1 DEF IInv, SlotInv, Knows
<1>5. /\ scaling' = scaling /\ job' \in Job /\ job'.op = job.op /\ job'.pending = job.pending
      /\ ~Draining => job' = job
  BY <1>1, VisitMoves
<1>6. PICK l \in {"park_done", "finish"} :
        /\ Goto(c, l)
        /\ l = "park_done" => Draining /\ \A i \in Slots : i < job'.slot <=> i < job.slot \/ i = job.slot
        /\ l = "finish" /\ Draining => /\ \A i \in Slots : i < job.slot \/ i = job.slot
                                       /\ \A i \in Slots : i >= job'.slot /\ ~(i < job'.slot)
  BY <1>1, VisitMoves
<1>7. After(c, l) BY <1>1, <1>3, <1>5, <1>6, CallMoves
<1>8. l = "park_done" => \A i \in job.pending : i < job'.slot => state[i] = "Done"
  BY <1>1, <1>2, <1>4, <1>6
<1>9. l = "finish" => \A i \in job.pending : i >= job'.slot /\ ~(i < job'.slot) /\ state[i] = "Done"
  <2>1. CASE Draining BY <1>1, <1>2, <1>4, <1>6, <2>1
  <2>2. CASE ~Draining
    <3>1. job.pending = {job.slot} BY <1>1, <2>2 DEF IInv, CallInv, StopLabels
    <3>2. \A k \in Int : k >= k /\ ~(k < k) OBVIOUS
    <3>3. job.slot \in Int BY <1>1, SizesAssumption DEF Slots
    <3> QED BY <1>2, <1>5, <2>2, <3>1, <3>2, <3>3
  <2> QED BY <2>1, <2>2
<1> QED BY <1>1, <1>3, <1>5, <1>6, <1>7, <1>8, <1>9, StopKeeps

\* The last loop of a drain: the slots before the current one are Reserved again.
LEMMA FinishLoop ==
  ASSUME IInv, NEW c \in Controllers, Holds(c, "finish"), Draining, NEW j \in Slots, j = job.slot,
         NEW l \in {"finish", "main_done"}, After(c, l),
         state'[j] = "Reserved", slots'[j].open = TRUE, state'[Main] = state[Main],
         \A i \in Slots \ {j} : state'[i] = state[i] /\ slots'[i].open = slots[i].open,
         UNCHANGED <<metrics, installed, scaling>>,
         job'.op = job.op, job'.pending = job.pending,
         l = "finish" => \A i \in Slots : /\ i < job'.slot <=> i < j \/ i = j
                                          /\ i >= job'.slot <=> ~(i < j) /\ i # j,
         l = "main_done" => \A i \in Slots : i < j \/ i = j
  PROVE  IInv'
<1>1. scaling = c /\ c # Free /\ Label = "finish" /\ job \in Job
  BY Holder
<1>2. Label' = l /\ pc'[Main] = pc[Main] BY DEF After
<1>3. Stopping /\ installed
  BY <1>1 DEF IInv, CallInv, StopLabels
<1>4. ASSUME NEW i \in Slots PROVE Owner(i)' /\ Knows(i)'
  <2>1. SlotInv(i) /\ pc'[i] = pc[i] BY DEF IInv, After
  <2>2. i >= j <=> ~(i < j)
    BY SizesAssumption DEF Slots
  <2>3. /\ Closed(i)' <=> i \in job.pending /\ ~(i < j) /\ i # j
        /\ Closed(i) <=> i \in job.pending /\ ~(i < j)
        /\ Asked(i)' <=> Closed(i)'
        /\ Asked(i) <=> Closed(i)
    BY <1>1, <1>2, <2>2 DEF Closed, Asked, StopLabels, AskLabels, SwapLabels
  <2>4. Owner(i)'
    BY <1>1, <1>2, <2>1, <2>3 DEF SlotInv, Owner, Stopping, BootLabels
  <2>5. /\ i \in job.pending \/ state[i] = "Reserved"
        /\ i \in job.pending => IF i < j THEN state[i] = "Reserved" ELSE state[i] = "Done"
    BY <1>1, <2>1 DEF SlotInv, Knows, StopLabels
  <2>6. Knows(i)'
    BY <1>2, <1>3, <2>5 DEF Knows, Draining, AskLabels, StopLabels, EndLabels, StartLabels
  <2> QED BY <2>4, <2>6
<1>5. CallInv'
  BY <1>1, <1>2, <1>3 DEF CallInv, After, Draining, Stopping,
     StartLabels, BootLabels, AskLabels, SwapLabels, StopLabels, EndLabels
<1>6. HolderWaits' BY <1>2 DEF HolderWaits
<1>7. MainCall'
  BY <1>1, <1>2, <1>3 DEF IInv, MainCall, MainUp, Draining, BootLabels, AskLabels, SwapLabels, StopLabels
<1> QED BY <1>4, <1>5, <1>6, <1>7, CallKeeps

LEMMA SkipFinishKeeps ==
  ASSUME IInv, NEW c \in Controllers, SkipSlot(c, "finish", "main_done") PROVE IInv'
<1> USE Names
<1>0. PICK j \in Slots : j = job.slot
  BY DEF IInv, Typed, Job
<1>1. /\ Holds(c, "finish") /\ UNCHANGED <<state, waits, slots, php, engine, metrics, installed>>
      /\ scaling = c /\ c # Free /\ Label = "finish" /\ c \in Actors
      /\ j \notin job.pending /\ NextSlot(c, "finish", "main_done") /\ SlotInv(j)
  <2>1. Holds(c, "finish") BY DEF SkipSlot, JobAt
  <2> QED BY <1>0, <2>1, Holder DEF SkipSlot, JobAt
<1>2. Draining
  BY <1>0, <1>1 DEF IInv, CallInv, StopLabels
<1>3. state[j] = "Reserved" /\ slots[j].open = TRUE
  <2>1. state[j] = "Reserved" BY <1>1, <1>2 DEF SlotInv, Knows, StopLabels
  <2>2. slots[j].open BY <1>1 DEF SlotInv, Owner, Closed
  <2>3. slots[j].open \in BOOLEAN BY DEF IInv, Typed, Slot
  <2> QED BY <2>1, <2>2, <2>3
<1>4. PICK l \in {"finish", "main_done"} :
        /\ Goto(c, l)
        /\ l = "finish" => \A i \in Slots : /\ i < job'.slot <=> i < j \/ i = j
                                            /\ i >= job'.slot <=> ~(i < j) /\ i # j
        /\ l = "main_done" => \A i \in Slots : i < j \/ i = j
  BY <1>0, <1>1, NextSlotMoves
<1>5. scaling' = scaling /\ job' \in Job /\ job'.op = job.op /\ job'.pending = job.pending
  BY <1>1, NextSlotMoves
<1>6. CellStep(c, Main) /\ metrics' \in BOOLEAN /\ installed' \in BOOLEAN /\ l \in ControllerLabels
  BY <1>1, StillStep DEF IInv, Typed, ControllerLabels
<1>7. After(c, l) BY <1>1, <1>4, <1>5, <1>6, CallMoves
<1> QED BY <1>0, <1>1, <1>2, <1>3, <1>4, <1>5, <1>7, FinishLoop

\* finish_shutdown finds its slot Done, and leaves it empty, Reserved and open.
LEMMA FinishShutdownKeeps ==
  ASSUME IInv, NEW c \in Controllers, FinishShutdown(c) PROVE IInv'
<1> USE Names
<1>0. PICK j \in Slots : j = job.slot
  BY DEF IInv, Typed, Job
<1> DEFINE new == [slots[j] EXCEPT !.open = TRUE]
           old == [php[j] EXCEPT !.fresh = FALSE]
<1>1. /\ Holds(c, "finish") /\ UNCHANGED <<engine, metrics, installed>>
      /\ scaling = c /\ c # Free /\ Label = "finish" /\ c \in Actors /\ job \in Job
      /\ j \in job.pending /\ SlotInv(j) /\ j \in Cells /\ j # Main /\ Set(j, "Reserved")
      /\ slots' = [slots EXCEPT ![j].open = TRUE] /\ php' = [php EXCEPT ![j].fresh = FALSE]
  <2>1. Holds(c, "finish") BY DEF FinishShutdown
  <2> QED BY <1>0, <2>1, Holder DEF FinishShutdown
<1>2. /\ slots \in [Slots -> Slot] /\ slots[j] \in Slot /\ php \in [Slots -> Pthread] /\ php[j] \in Pthread
      /\ metrics' \in BOOLEAN /\ installed' \in BOOLEAN /\ {"idle", "finish", "main_done"} \subseteq ControllerLabels
  BY <1>1 DEF IInv, Typed, ControllerLabels
<1>3. new \in Slot /\ new.open = TRUE /\ new.handler = slots[j].handler /\ new.kill = slots[j].kill
  BY <1>2 DEF Slot
<1>4. /\ old \in Pthread /\ old.running = php[j].running /\ old.tsrm = php[j].tsrm
      /\ old.script = php[j].script /\ old.healthy = php[j].healthy
  BY <1>2 DEF Pthread
<1>5. slots' = [slots EXCEPT ![j] = new] /\ php' = [php EXCEPT ![j] = old] BY <1>1
<1> HIDE DEF new, old
<1>6. slots' \in [Slots -> Slot] /\ slots'[j] = new /\ \A i \in Slots \ {j} : slots'[i] = slots[i]
  BY <1>2, <1>3, <1>5
<1>7. php' \in [Slots -> Pthread] /\ php'[j] = old /\ \A i \in Slots \ {j} : php'[i] = php[i]
  BY <1>2, <1>4, <1>5
<1>8. CellStep(c, j) /\ state'[j] = "Reserved" /\ \A d \in Cells \ {j} : state'[d] = state[d]
  <2>1. CellStep(c, j) /\ state'[j] = "Reserved" BY <1>1, SetStep DEF IInv, State
  <2> QED BY <2>1 DEF CellStep
<1>9. pc[j] = "none"
  <2>1. \A k \in Int : ~(k < k) OBVIOUS
  <2>2. j \in Int BY SizesAssumption DEF Slots
  <2>3. state[j] = "Done" BY <1>0, <1>1, <2>1, <2>2 DEF SlotInv, Knows
  <2> QED BY <2>3, NobodyThere
<1>10. ASSUME NEW l, Goto(c, l) PROVE Finds(j)' /\ Owns(j)'
  <2>1. pc'[j] = "none" BY <1>1, <1>9, <1>10 DEF Goto, IInv, Typed
  <2>2. Finds(j)' BY <1>8, <2>1 DEF Finds
  <2>3. Owns(j)' BY <1>1, <1>3, <1>4, <1>6, <1>7, <1>9, <2>1 DEF SlotInv, Owns
  <2> QED BY <2>2, <2>3
<1>11. CASE Draining
  <2>1. NextSlot(c, "finish", "main_done") BY <1>11 DEF FinishShutdown
  <2>2. PICK l \in {"finish", "main_done"} :
          /\ Goto(c, l)
          /\ l = "finish" => \A i \in Slots : /\ i < job'.slot <=> i < j \/ i = j
                                              /\ i >= job'.slot <=> ~(i < j) /\ i # j
          /\ l = "main_done" => \A i \in Slots : i < j \/ i = j
    BY <1>0, <1>1, <2>1, NextSlotMoves
  <2>3. scaling' = scaling /\ job' \in Job /\ job'.op = job.op /\ job'.pending = job.pending
    BY <1>1, <2>1, NextSlotMoves
  <2>4. Finds(j)' /\ Owns(j)' BY <1>10, <2>2
  <2>5. After(c, l)
    BY <1>1, <1>2, <1>6, <1>7, <1>8, <2>2, <2>3, <2>4, CallFrame
  <2>6. /\ slots'[j].open = TRUE /\ state'[Main] = state[Main]
        /\ \A i \in Slots \ {j} : state'[i] = state[i] /\ slots'[i].open = slots[i].open
    BY <1>1, <1>3, <1>6, <1>8
  <2> QED BY <1>0, <1>1, <1>8, <1>11, <2>2, <2>3, <2>5, <2>6, FinishLoop, ZenonT(40)
<1>12. CASE ~Draining
  <2>1. Goto(c, "idle") /\ scaling' = Free /\ job' = NoJob
    BY <1>12 DEF FinishShutdown, Finish
  <2>2. Finds(j)' /\ Owns(j)' BY <1>10, <2>1
  <2>3. After(c, "idle")
    BY <1>1, <1>2, <1>6, <1>7, <1>8, <2>1, <2>2, NoJobTyped, CallFrame
  <2>4. job.pending = {j} /\ installed /\ MainUp /\ state[Main] = "Ready" /\ metrics
    BY <1>0, <1>1, <1>12 DEF IInv, CallInv, MainCall, StopLabels
  <2>5. ASSUME NEW i \in Slots
        PROVE  state'[i] \in {"Reserved", "Inactive", "Ready", "TransitionComplete"} /\ slots'[i].open
    <3>1. CASE i = j BY <1>3, <1>6, <1>8, <3>1
    <3>2. CASE i # j
      <4>1. SlotInv(i) /\ state'[i] = state[i] /\ slots'[i] = slots[i]
        BY <1>6, <1>8, <3>2 DEF IInv
      <4>2. ~Closed(i) /\ ~Asked(i) BY <1>1, <2>4, <3>2 DEF Closed, Asked
      <4> QED BY <1>1, <4>1, <4>2 DEF SlotInv, Owner, BootLabels
    <3> QED BY <3>1, <3>2
  <2>6. state'[Main] = "Ready" BY <1>1, <1>8, <2>4
  <2> QED BY <1>1, <2>1, <2>3, <2>4, <2>5, <2>6, Returns
<1> QED BY <1>11, <1>12

\* Main is released when every slot is Reserved.
LEMMA ReleaseMainKeeps ==
  ASSUME IInv, NEW c \in Controllers, ReleaseMain(c) PROVE IInv'
<1> USE Names
<1>1. /\ Holds(c, "main_done") /\ UNCHANGED <<slots, php, engine, metrics, installed, scaling, job>>
      /\ scaling = c /\ c # Free /\ Label = "main_done" /\ job \in Job /\ c \in Actors
      /\ Set(Main, "Done") /\ Goto(c, "park_reserved")
  <2>1. Holds(c, "main_done") BY DEF ReleaseMain, JobAt
  <2> QED BY <2>1, Holder DEF ReleaseMain, JobAt, Continue
<1>2. Draining /\ installed /\ MainUp /\ state[Main] \in {"Ready", "ShuttingDown"}
  BY <1>1 DEF IInv, CallInv, MainCall, EndLabels
<1>3. \A i \in Slots : state[i] = "Reserved" /\ slots[i].open
  BY <1>1 DEF IInv, SlotInv, Knows, Owner, Closed, EndLabels, AskLabels, SwapLabels, StopLabels
<1>4. CellStep(c, Main) /\ state'[Main] = "Done" /\ pc'[Main] = pc[Main]
  BY <1>1, SetStep DEF IInv, State, Goto, Typed
<1>5. \A i \in Slots : state'[i] = state[i]
  BY <1>4 DEF CellStep
<1>6. MainShape'
  <2>1. {"Done", "Rebooting"} \in SUBSET State /\ Main \in Actors \ {c}
    BY DEF State
  <2>2. Waiting(Main, Main, {"Done", "Rebooting"}) => Waiting(Main, Main, {"Done", "Rebooting"})'
    BY <1>4, <2>1 DEF CellStep
  <2> QED BY <1>1, <1>2, <1>4, <2>2 DEF IInv, MainShape, MainUp
<1>7. /\ metrics' \in BOOLEAN /\ installed' \in BOOLEAN /\ "park_reserved" \in ControllerLabels
      /\ slots' \in [Slots -> Slot] /\ php' \in [Slots -> Pthread]
  BY <1>1 DEF IInv, Typed, ControllerLabels
<1>8. After(c, "park_reserved")
  BY <1>1, <1>4, <1>6, <1>7, CallFrame
<1>9. Label' = "park_reserved" BY <1>8 DEF After
<1>10. ASSUME NEW i \in Slots PROVE Owner(i)' /\ Knows(i)'
  <2>1. Owner(i)'
    BY <1>1, <1>3, <1>5, <1>9 DEF Owner, Closed, Asked, AskLabels, SwapLabels, StopLabels
  <2>2. Knows(i)'
    BY <1>3, <1>5, <1>9 DEF Knows, AskLabels, StopLabels
  <2> QED BY <2>1, <2>2
<1>11. CallInv'
  BY <1>1, <1>2, <1>8, <1>9 DEF CallInv, After, Draining, StartLabels, BootLabels,
     AskLabels, SwapLabels, StopLabels, EndLabels
<1>12. HolderWaits' BY <1>9 DEF HolderWaits
<1>13. MainCall'
  BY <1>1, <1>2, <1>4, <1>9 DEF MainCall, MainUp, BootLabels, AskLabels, SwapLabels, StopLabels
<1> QED BY <1>8, <1>10, <1>11, <1>12, <1>13, CallKeeps

\* The metrics go, and the generation with them, when main has come back.
LEMMA DestroyGenerationKeeps ==
  ASSUME IInv, NEW c \in Controllers, DestroyGeneration(c) PROVE IInv'
<1> USE Names
<1>1. /\ Holds(c, "await_reserved") /\ UNCHANGED <<state, waits, slots, php, engine>>
      /\ scaling = c /\ c # Free /\ Label = "await_reserved" /\ c \in Actors
      /\ ~Subscribed(c) /\ metrics' = FALSE /\ installed' = FALSE
      /\ Goto(c, "idle") /\ scaling' = Free /\ job' = NoJob
  BY Holder DEF DestroyGeneration, Finish
<1>2. state[Main] = "Reserved"
  <2>1. Waiting(c, Main, {"Reserved"}) BY <1>1 DEF IInv, HolderWaits
  <2> QED BY <1>1, <2>1, WokenFinds
<1>3. pc[Main] = "none"
  BY <1>1, <1>2 DEF IInv, MainCall, MainShape
<1>4. CellStep(c, Main) /\ "idle" \in ControllerLabels
  BY <1>1, StillStep DEF IInv, ControllerLabels
<1>5. After(c, "idle") BY <1>1, <1>4, NoJobTyped, CallMoves
<1>6. \A i \in Slots : state[i] = "Reserved" /\ slots[i].open
  BY <1>1 DEF IInv, SlotInv, Knows, Owner, Closed, EndLabels, AskLabels, SwapLabels, StopLabels
<1> QED BY <1>1, <1>3, <1>5, <1>6, Returns
-------------------------------------------------------------------------------
LEMMA ControllersKeep ==
  ASSUME IInv, NEW c \in Controllers, Begin(c) \/ ControllerRuns(c) \/ GraceExpires(c)
  PROVE  IInv'
<1>1. CASE Begin(c)
  BY <1>1, BeginInitKeeps, CallsKeep DEF Begin
<1>2. CASE GraceExpires(c)
  BY <1>2, RetriesKeep
<1>3. CASE \E l \in LoopLabels : SkipSlot(c, l[1], l[2])
  <2>1. PICK l \in LoopLabels : SkipSlot(c, l[1], l[2]) BY <1>3
  <2>2. CASE l = <<"grace", "kill">>
    <3>1. SkipSlot(c, "grace", "kill") /\ <<"grace", "kill">> \in LoopLabels BY <2>1, <2>2
    <3> QED BY <3>1, SkipSlotKeeps
  <2>3. CASE l = <<"kill", "park_done">>
    <3>1. SkipSlot(c, "kill", "park_done") /\ <<"kill", "park_done">> \in LoopLabels BY <2>1, <2>3
    <3> QED BY <3>1, SkipSlotKeeps
  <2>4. CASE l = <<"park_done", "finish">>
    <3>1. SkipSlot(c, "park_done", "finish") /\ <<"park_done", "finish">> \in LoopLabels BY <2>1, <2>4
    <3> QED BY <3>1, SkipSlotKeeps
  <2>5. CASE l = <<"finish", "main_done">>
    <3>1. SkipSlot(c, "finish", "main_done") BY <2>1, <2>5
    <3> QED BY <3>1, SkipFinishKeeps
  <2> QED BY <2>2, <2>3, <2>4, <2>5 DEF LoopLabels
<1>4. CASE ControllerRuns(c) /\ ~\E l \in LoopLabels : SkipSlot(c, l[1], l[2])
  BY <1>4, LaunchMainKeeps, LaunchMainFailsKeeps, ParksKeep, MainIsReadyKeeps, BootSwapKeeps,
     BootInstallKeeps, BootLaunchKeeps, BootLaunchFailsKeeps, BootedKeeps, ScanInactiveKeeps,
     ClaimReservedKeeps, DrainMainKeeps, RequestGrantedKeeps, RequestRefusedKeeps, RetriesKeep,
     CloseDrainKeeps, InstallHandlerKeeps, ReopenDrainKeeps, PublishCompleteKeeps,
     GraceDoneKeeps, GraceCleanUpKeeps, SendKillSignalKeeps, ThreadIsDoneKeeps,
     FinishShutdownKeeps, ReleaseMainKeeps, DestroyGenerationKeeps
     DEF ControllerRuns
<1> QED BY <1>1, <1>2, <1>3, <1>4

LEMMA InitHolds == Init => IInv
<1> SUFFICES ASSUME Init PROVE IInv OBVIOUS
<1> USE Names
<1>1. /\ \A d \in Cells : state[d] = "Reserved"
      /\ \A a \in Actors : waits[a] = NotWaiting
      /\ \A i \in Slots : pc[i] = "none" /\ slots[i] = FreshSlot /\ php[i] = NoPthread
      /\ pc[Main] = "none" /\ \A c \in Controllers : pc[c] = "idle"
      /\ engine = FALSE /\ metrics = FALSE /\ installed = FALSE /\ scaling = Free /\ job = NoJob
      /\ Label = "idle"
  BY DEF Init, Label
<1>2. Typed
  <2>1. state \in [Cells -> State] BY DEF Init, State
  <2>2. waits \in [Actors -> Subscriber] BY DEF Init, Subscriber, NotWaiting
  <2>3. pc \in [Actors -> PthreadLabels \cup MainLabels \cup ControllerLabels]
    BY DEF Init, PthreadLabels, ControllerLabels
  <2>4. slots \in [Slots -> Slot] BY DEF Init, Slot, FreshSlot
  <2>5. php \in [Slots -> Pthread] BY DEF Init, Pthread, NoPthread
  <2>6. (\A i \in Slots : pc[i] \in PthreadLabels) /\ pc[Main] \in MainLabels
        /\ (\A c \in Controllers : pc[c] \in ControllerLabels)
    BY <1>1 DEF PthreadLabels, MainLabels, ControllerLabels
  <2> QED BY <1>1, <2>1, <2>2, <2>3, <2>4, <2>5, <2>6, NoJobTyped DEF Typed
<1>3. ASSUME NEW i \in Slots PROVE SlotInv(i)
  <2>1. state[i] = "Reserved" BY <1>1
  <2>2. slots[i].open /\ ~slots[i].kill BY <1>1 DEF FreshSlot
  <2>3. Finds(i) BY <1>1, <2>1 DEF Finds
  <2>4. Owns(i) BY <1>1, <2>2 DEF Owns, NoPthread
  <2>5. Owner(i) BY <1>1, <2>1, <2>2 DEF Owner, Closed, Asked, AskLabels, SwapLabels, StopLabels
  <2>6. Knows(i) BY <1>1, <2>1 DEF Knows, AskLabels, StopLabels, EndLabels, StartLabels
  <2> QED BY <2>3, <2>4, <2>5, <2>6 DEF SlotInv
<1>4. CallInv
  BY <1>1 DEF CallInv, StartLabels, BootLabels, AskLabels, SwapLabels, StopLabels, EndLabels
<1>5. HolderWaits BY <1>1 DEF HolderWaits
<1>6. MainShape BY <1>1 DEF MainShape
<1>7. MainCall BY <1>1 DEF MainCall, BootLabels, AskLabels, SwapLabels, StopLabels
<1> QED BY <1>2, <1>3, <1>4, <1>5, <1>6, <1>7 DEF IInv

LEMMA NextKeeps == IInv /\ [Next]_vars => IInv'
<1> SUFFICES ASSUME IInv, [Next]_vars PROVE IInv' OBVIOUS
<1>1. CASE \E i \in Slots : \/ PthreadRuns(i) \/ ScriptBailsOut(i) \/ RespawnFails(i)
                            \/ \E s \in Scripts : SelectRequest(i, s)
  BY <1>1, PthreadsKeep
<1>2. CASE MainRuns
  BY <1>2, MainKeeps
<1>3. CASE \E c \in Controllers : Begin(c) \/ ControllerRuns(c) \/ GraceExpires(c)
  BY <1>3, ControllersKeep
<1>4. CASE UNCHANGED vars
  <2>1. UNCHANGED <<state, waits, pc, slots, php, engine, metrics, installed, scaling, job>>
    BY <1>4 DEF vars
  <2>2. Label' = Label BY <2>1 DEF Label
  <2>3. Typed' BY <2>1 DEF IInv, Typed
  <2>4. ASSUME NEW i \in Slots PROVE SlotInv(i)'
    <3>1. SlotInv(i) BY DEF IInv
    <3>2. Finds(i)' BY <2>1, <3>1 DEF SlotInv, Finds
    <3>3. Owns(i)' BY <2>1, <3>1 DEF SlotInv, Owns, Waiting
    <3>4. Owner(i)' BY <2>1, <2>2, <3>1 DEF SlotInv, Owner, Asked, Closed, Stopping
    <3>5. Knows(i)' BY <2>1, <2>2, <3>1 DEF SlotInv, Knows, Draining
    <3> QED BY <3>2, <3>3, <3>4, <3>5 DEF SlotInv
  <2>5. CallInv' BY <2>1, <2>2 DEF IInv, CallInv, Draining, Stopping
  <2>6. HolderWaits' BY <2>1, <2>2 DEF IInv, HolderWaits, Waiting
  <2>7. MainShape' BY <2>1 DEF IInv, MainShape, Waiting
  <2>8. MainCall' BY <2>1, <2>2 DEF IInv, MainCall, MainUp, Draining
  <2> QED BY <2>3, <2>4, <2>5, <2>6, <2>7, <2>8 DEF IInv
<1> QED BY <1>1, <1>2, <1>3, <1>4 DEF Next

\* The inductive invariant of the pool: pthreads, controllers and the main pthread stay
\* in step whatever order they run in, for every number of slots and of callers.
THEOREM PoolInvariant == Spec => []IInv
<1> QED BY InitHolds, NextKeeps, PTL DEF Spec

\* The pool's state and the locals of the running call keep their types.
THEOREM PoolIsTyped == Spec => []TypeOK
<1>1. IInv => TypeOK BY DEF IInv, Typed, TypeOK
<1> QED BY <1>1, PoolInvariant, PTL

\* A kill never writes through freed TSRM storage, and C never stores into a metrics
\* array that is gone: send_kill_signal against ts_free_thread, and the store after each
\* script against frankenphp_destroy_thread_metrics.
THEOREM MemoryOutlivesItsUsers == Spec => []SharedMemoryIsLive
<1>1. ASSUME IInv PROVE SharedMemoryIsLive
  <2>1. ASSUME NEW i \in Slots, slots[i].kill PROVE php[i].tsrm
    BY <1>1, <2>1 DEF IInv, SlotInv, Owns
  <2>2. ASSUME NEW i \in Slots, At(i, "script") PROVE metrics
    <3>1. SlotInv(i) /\ pc[i] = "script" BY <1>1, <2>2 DEF IInv, At
    <3>2. state[i] # "Reserved" BY <3>1 DEF SlotInv, Finds, Work
    <3>3. installed /\ Label \notin EndLabels \cup StartLabels BY <3>1, <3>2 DEF SlotInv, Knows
    <3>4. Label \in ControllerLabels BY <1>1, MainsLabel
    <3> QED BY <1>1, <3>3, <3>4 DEF IInv, MainCall, ControllerLabels, EndLabels, StartLabels,
            BootLabels, AskLabels, SwapLabels, StopLabels
  <2> QED BY <2>1, <2>2 DEF SharedMemoryIsLive, KillSlotIsLive, MetricsOutliveScripts
<1> QED BY <1>1, PoolInvariant, PTL

\* A pthread runs the handler installed on its slot, and its loop has an arm for every
\* state it can read (thread_inactive.rs and thread_regular.rs).
THEOREM HandlersStayInStep == Spec => []HandlersAreInStep
<1>1. ASSUME IInv PROVE HandlersAreInStep
  <2>1. RunsInstalledHandler BY <1>1 DEF IInv, SlotInv, Owns, RunsInstalledHandler
  <2>2. ASSUME NEW i \in Slots, At(i, "loop") PROVE state[i] \in Recognised[php[i].running]
    <3>1. Finds(i) /\ pc[i] = "loop" /\ php[i].running = slots[i].handler
      BY <1>1, <2>2 DEF IInv, SlotInv, Owns, At
    <3> QED BY <3>1 DEF Finds, Recognised, Work
  <2> QED BY <2>1, <2>2 DEF HandlersAreInStep, NoUnexpectedState
<1> QED BY <1>1, PoolInvariant, PTL

\* A dequeued request stays with a pthread that closes it: after_script_execution runs
\* before the pthread takes another one, is replaced or ends.
THEOREM RequestsAreNotStranded == Spec => []NoStrandedRequest
<1>1. IInv => NoStrandedRequest BY DEF IInv, SlotInv, Owns, NoStrandedRequest
<1> QED BY <1>1, PoolInvariant, PTL

\* A slot is booted again only when its pthread has ended and the call that asked for
\* the end has waited for it (PhpThread::boot, shutdown_locked and drain_generation).
THEOREM SlotsAreReusedSafely == Spec => []ReuseIsSafe
<1>1. ASSUME IInv PROVE ReuseIsSafe
  <2>1. OnePthreadPerSlot
    <3>1. ASSUME NEW c \in Controllers, Holds(c, "boot_launch") PROVE pc[job.slot] = "none"
      BY <1>1, <3>1, Holder DEF SlotInv, Knows
    <3> QED BY <1>1, <3>1, NobodyThere DEF OnePthreadPerSlot, At
  <2>2. ASSUME NEW i \in Slots, state[i] = "Done"
        PROVE  Stopping /\ (i \in job.pending \/ \E c \in Controllers : Holds(c, "close_drain") /\ i = job.slot)
    <3>1. Asked(i) /\ Stopping BY <1>1, <2>2 DEF IInv, SlotInv, Owner
    <3>2. Label # "complete" BY <1>1, <3>1 DEF IInv, CallInv, SwapLabels
    <3>3. Label = "close_drain" => scaling \in Controllers /\ Holds(scaling, "close_drain")
      BY <1>1 DEF IInv, Typed, Label, Holds, At
    <3> QED BY <3>1, <3>2, <3>3 DEF Asked, Closed
  <2> QED BY <2>1, <2>2 DEF ReuseIsSafe, DoneIsAwaited
<1> QED BY <1>1, PoolInvariant, PTL

\* Between two calls every slot is in a state the next one can work with, and a drain is
\* open whenever it is closed, so the error returns of set_handler_locked and
\* begin_shutdown are never taken.
THEOREM CallsAlwaysFindTheirSlots == Spec => []CallsFindTheirSlots
<1>1. ASSUME IInv PROVE CallsFindTheirSlots
  <2>1. ASSUME scaling = Free, NEW i \in Slots
        PROVE  state[i] \in {"Reserved", "Inactive", "Ready", "TransitionComplete"} /\ slots[i].open
    <3>1. Owner(i) /\ Label = "idle" BY <1>1, <2>1 DEF IInv, SlotInv, Label
    <3>2. ~Closed(i) /\ ~Asked(i) BY <3>1 DEF Closed, Asked, AskLabels, SwapLabels, StopLabels
    <3> QED BY <3>1, <3>2 DEF Owner, BootLabels
  <2>2. ASSUME NEW c \in Controllers, Holds(c, "close_drain") PROVE slots[job.slot].open
    <3>1. Label = "close_drain" /\ job.slot \in Slots /\ Owner(job.slot)
      BY <1>1, <2>2, Holder DEF SlotInv
    <3>2. ~(job.slot < job.slot)
      <4>1. \A k \in Int : ~(k < k) OBVIOUS
      <4>2. job.slot \in Int BY <3>1, SizesAssumption DEF Slots
      <4> QED BY <4>1, <4>2
    <3>3. job.slot \notin job.pending
      BY <1>1, <3>1, <3>2 DEF IInv, CallInv, AskLabels
    <3> QED BY <3>1, <3>3 DEF Owner, Closed
  <2> QED BY <2>1, <2>2 DEF CallsFindTheirSlots, QuietSlots, DrainIsOpen
<1> QED BY <1>1, PoolInvariant, PTL
-------------------------------------------------------------------------------
(* The engine's contract *)

\* Without the engine, or when the call is about to start it or has released main, there
\* is no pthread.
LEMMA NobodyWithoutMain ==
  ASSUME IInv, Label \in StartLabels \cup EndLabels \/ ~installed
  PROVE  Occupied = {}
<1>1. \A i \in Slots : state[i] = "Reserved"
  BY DEF IInv, SlotInv, Knows
<1> QED BY <1>1, NobodyThere DEF Occupied

\* A step after which the same slots have a pthread and the engine is as before.
LEMMA Unnoticed ==
  ASSUME engine' = engine, \A i \in Slots : pc'[i] = "none" <=> pc[i] = "none"
  PROVE  UNCHANGED Contract!vars
<1>1. Occupied' = Occupied BY DEF Occupied
<1> QED BY <1>1 DEF Contract!vars

LEMMA PthreadRefines ==
  ASSUME IInv, IInv', NEW i \in Slots,
         PthreadRuns(i) \/ ScriptBailsOut(i) \/ RespawnFails(i) \/ \E s \in Scripts : SelectRequest(i, s)
  PROVE  [Contract!Next]_(Contract!vars)
<1> USE Names
<1>1. CASE OnThreadShutdown(i) \/ RespawnFails(i)
  <2>1. /\ pc[i] # "none" /\ pc' = [pc EXCEPT ![i] = "none"] /\ engine' = engine
    BY <1>1 DEF OnThreadShutdown, RespawnFails, At, Goto, PhpUnchanged
  <2>2. pc'[i] = "none" /\ \A k \in Slots \ {i} : pc'[k] = pc[k]
    BY <2>1 DEF IInv, Typed
  <2>3. i \in Occupied /\ Occupied' = Occupied \ {i}
    BY <2>1, <2>2 DEF Occupied
  <2> QED BY <2>1, <2>3 DEF Contract!Next, Contract!Retire
<1>2. CASE HandlerLoop(i)
  <2>1. /\ pc[i] = "loop" /\ php' = php /\ engine' = engine
        /\ \A k \in Slots \ {i} : pc'[k] = pc[k]
    BY <1>2 DEF HandlerLoop, At, rest, Goto, IInv, Typed
  <2>2. pc'[i] # "none"
    <3>1. php[i].tsrm <=> pc[i] \notin {"none", "created", "on_shutdown", "respawn"}
      BY DEF IInv, SlotInv, Owns
    <3>2. php'[i].tsrm <=> pc'[i] \notin {"none", "created", "on_shutdown", "respawn"}
      BY DEF IInv, SlotInv, Owns
    <3> QED BY <2>1, <3>1, <3>2
  <2> QED BY <2>1, <2>2, Unnoticed
<1>3. CASE ~(OnThreadShutdown(i) \/ RespawnFails(i) \/ HandlerLoop(i))
  <2>1. PICK l : Goto(i, l) /\ l # "none" /\ pc[i] # "none" /\ engine' = engine
    <3>1. CASE \/ TsResource(i) \/ StoreForceKillSlot(i) \/ BeforeScriptExecution(i)
               \/ FetchDrain(i) \/ (\E s \in Scripts : SelectRequest(i, s)) \/ ScriptBailsOut(i)
               \/ AfterScriptExecution(i) \/ ClearForceKillSlot(i) \/ TsFreeThread(i) \/ Respawn(i)
      BY <3>1 DEF TsResource, StoreForceKillSlot, BeforeScriptExecution, FetchDrain, SelectRequest,
         ScriptBailsOut, AfterScriptExecution, ClearForceKillSlot, TsFreeThread, Respawn, At, PhpUnchanged
    <3>2. CASE \/ PublishTransition(i) \/ ParkForNewHandler(i) \/ TakeNewHandler(i)
               \/ PublishInactive(i) \/ ParkInactive(i) \/ LeaveInactive(i)
               \/ PublishReady(i) \/ SelectDrained(i) \/ RequestStartup(i) \/ ScriptReturns(i)
      BY <3>2 DEF PublishTransition, ParkForNewHandler, TakeNewHandler, PublishInactive, ParkInactive,
         LeaveInactive, PublishReady, SelectDrained, RequestStartup, ScriptReturns, SetThen,
         SubscribeThen, Move, At, rest
    <3> QED BY <1>3, <3>1, <3>2 DEF PthreadRuns
  <2>2. pc'[i] = l /\ \A k \in Slots \ {i} : pc'[k] = pc[k]
    BY <2>1 DEF Goto, IInv, Typed
  <2> QED BY <2>1, <2>2, Unnoticed
<1> QED BY <1>1, <1>2, <1>3

LEMMA MainRefines ==
  ASSUME IInv, MainRuns PROVE [Contract!Next]_(Contract!vars)
<1> USE Names
<1>1. PICK l : pc' = [pc EXCEPT ![Main] = l]
  BY DEF MainRuns, MainStartup, MainPublishReady, MainPark, MainTeardown, MainPublishReserved, SetThen,
     SubscribeThen, Goto
<1>2. (\A i \in Slots : pc'[i] = pc[i]) /\ Occupied' = Occupied
  <2>1. \A i \in Slots : pc'[i] = pc[i] BY <1>1 DEF IInv, Typed
  <2> QED BY <2>1 DEF Occupied
<1>3. CASE MainStartup
  <2>1. pc[Main] = "startup" /\ engine' = TRUE BY <1>3 DEF MainStartup, At
  <2>2. ~engine BY <2>1 DEF IInv, MainShape
  <2>3. Occupied = {} BY <2>1, MainsLabel, NobodyWithoutMain DEF StartLabels
  <2> QED BY <1>2, <2>1, <2>2, <2>3 DEF Contract!Next, Contract!BringUp
<1>4. CASE MainTeardown
  <2>1. pc[Main] = "await_done" /\ engine' = FALSE /\ ~Subscribed(Main)
    BY <1>4 DEF MainTeardown, Woken, At
  <2>2. engine /\ Waiting(Main, Main, {"Done", "Rebooting"}) /\ state[Main] \in {"Ready", "ShuttingDown", "Done"}
    BY <2>1 DEF IInv, MainShape
  <2>3. state[Main] = "Done" BY <2>1, <2>2, WokenFinds
  <2>4. Occupied = {} BY <2>3, MainsLabel, NobodyWithoutMain DEF EndLabels
  <2> QED BY <1>2, <2>1, <2>2, <2>4 DEF Contract!Next, Contract!TearDown
<1>5. CASE MainPublishReady \/ MainPark \/ MainPublishReserved
  <2>1. engine' = engine
    BY <1>5 DEF MainPublishReady, MainPark, MainPublishReserved, SetThen, SubscribeThen, rest
  <2> QED BY <1>2, <2>1 DEF Contract!vars
<1> QED BY <1>3, <1>4, <1>5 DEF MainRuns

LEMMA ControllerRefines ==
  ASSUME IInv, NEW c \in Controllers, Begin(c) \/ ControllerRuns(c) \/ GraceExpires(c)
  PROVE  [Contract!Next]_(Contract!vars)
<1> USE Names
<1>1. CASE BootLaunch(c)
  <2>0. PICK j \in Slots : j = job.slot
    BY DEF IInv, Typed, Job
  <2>1. /\ pc' = [pc EXCEPT ![j] = "created", ![c] = "park_booted"] /\ engine' = engine
        /\ Holds(c, "boot_launch")
    BY <1>1, <2>0 DEF BootLaunch
  <2>2. pc[j] = "none" /\ Label = "boot_launch"
    BY <2>0, <2>1, Holder DEF SlotInv, Knows
  <2>3. engine BY <2>2 DEF IInv, MainCall, MainShape, MainUp, BootLabels
  <2>4. pc'[j] = "created" /\ \A k \in Slots \ {j} : pc'[k] = pc[k]
    BY <2>1 DEF IInv, Typed
  <2>5. j \notin Occupied /\ Occupied' = Occupied \cup {j}
    BY <2>2, <2>4 DEF Occupied
  <2> QED BY <2>1, <2>3, <2>5 DEF Contract!Next, Contract!Spawn
<1>2. CASE ~BootLaunch(c)
  <2>1. engine' = engine /\ \A i \in Slots : pc'[i] = pc[i]
    <3>1. CASE \E d \in BOOLEAN : LaunchMain(c, d)
      BY <3>1 DEF LaunchMain, IInv, Typed
    <3>2. CASE ~\E d \in BOOLEAN : LaunchMain(c, d)
      <4>1. engine' = engine /\ \E l : Goto(c, l)
        <5>1. CASE Begin(c)
          BY <5>1 DEF Begin, BeginInit, BeginConvert, BeginDrain, BeginSetHandler, BeginShutdown, Acquire
        <5>2. CASE \/ LaunchMainFails(c) \/ MainIsReady(c) \/ DestroyGeneration(c) \/ ReopenDrain(c)
          BY <5>2 DEF LaunchMainFails, MainIsReady, DestroyGeneration, ReopenDrain, Finish, Continue
        <5>3. CASE \/ ParkForMainReady(c) \/ ParkForBooted(c) \/ ParkForStable(c) \/ ParkForTransition(c)
                   \/ ParkForGrace(c) \/ ParkForDone(c) \/ ParkForMainReserved(c)
          BY <5>3 DEF ParkForMainReady, ParkForBooted, ParkForStable, ParkForTransition, ParkForGrace,
             ParkForDone, ParkForMainReserved, ParkFor, JobAt, Continue
        <5>4. CASE \/ BootSwap(c) \/ BootInstall(c) \/ BootLaunchFails(c) \/ Booted(c)
                   \/ ScanInactive(c) \/ ClaimReserved(c) \/ DrainMain(c)
          BY <5>4 DEF BootSwap, BootInstall, BootLaunchFails, Booted, ScanInactive, ClaimReserved, DrainMain,
             JobAt, Continue, Finish, GoToSlot, NextSlot
        <5>5. CASE \/ RequestGranted(c) \/ RequestRefused(c) \/ RequestParks(c) \/ RequestRetries(c)
                   \/ CloseDrain(c) \/ InstallHandler(c) \/ PublishComplete(c)
          BY <5>5 DEF RequestGranted, RequestRefused, RequestParks, RequestRetries, CloseDrain,
             InstallHandler, PublishComplete, JobAt, Continue, Finish, GoToSlot, NextSlot
        <5>6. CASE \/ (\E l \in LoopLabels : SkipSlot(c, l[1], l[2])) \/ GraceDone(c) \/ GraceCleanUp(c)
                   \/ GraceExpires(c) \/ SendKillSignal(c) \/ ThreadIsDone(c) \/ FinishShutdown(c)
                   \/ ReleaseMain(c)
          BY <5>6 DEF SkipSlot, GraceDone, GraceCleanUp, GraceExpires, SendKillSignal, ThreadIsDone,
             FinishShutdown, ReleaseMain, JobAt, Continue, Finish, GoToSlot, NextSlot, Visit
        <5> QED BY <1>2, <3>2, <5>1, <5>2, <5>3, <5>4, <5>5, <5>6, ZenonT(40) DEF ControllerRuns
      <4> QED BY <4>1 DEF Goto, IInv, Typed
    <3> QED BY <3>1, <3>2
  <2> QED BY <2>1, Unnoticed
<1> QED BY <1>1, <1>2

\* The pool implements EngineContract: no pthread is launched without the engine or on a
\* slot that has one, and tsrm_shutdown runs only when every pthread has ended.
THEOREM PoolKeepsEngineContract == Spec => KeepsEngineContract
<1>1. Init => Contract!Init
  <2> SUFFICES ASSUME Init PROVE Contract!Init OBVIOUS
  <2>1. ~engine /\ \A i \in Slots : pc[i] = "none"
    BY Names DEF Init
  <2> QED BY <2>1 DEF Contract!Init, Occupied
<1>2. IInv /\ IInv' /\ [Next]_vars => [Contract!Next]_(Contract!vars)
  <2> SUFFICES ASSUME IInv, IInv', [Next]_vars PROVE [Contract!Next]_(Contract!vars) OBVIOUS
  <2>1. CASE \E i \in Slots : \/ PthreadRuns(i) \/ ScriptBailsOut(i) \/ RespawnFails(i)
                              \/ \E s \in Scripts : SelectRequest(i, s)
    BY <2>1, PthreadRefines
  <2>2. CASE MainRuns
    BY <2>2, MainRefines
  <2>3. CASE \E c \in Controllers : Begin(c) \/ ControllerRuns(c) \/ GraceExpires(c)
    BY <2>3, ControllerRefines
  <2>4. CASE UNCHANGED vars
    BY <2>4, Unnoticed DEF vars
  <2> QED BY <2>1, <2>2, <2>3, <2>4 DEF Next
<1> QED BY <1>1, <1>2, PoolInvariant, PTL DEF Spec, KeepsEngineContract, Contract!Spec
===============================================================================
