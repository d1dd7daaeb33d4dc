------------------------------- MODULE Dispatch -------------------------------
(***************************************************************************)
(* Request dispatch to regular PHP threads:                                *)
(* crates/frankenrust-core/src/thread_regular.rs.  Dispatchers (blocking   *)
(* tasks of the server, one per request) race with the regular threads     *)
(* that select on the channels, with controllers that attach a handler's   *)
(* directed channel to REGULAR_THREADS after the handler swap, and with    *)
(* transitions and shutdowns that retire handlers.                         *)
(*                                                                         *)
(* The lifecycle protocol itself is PhpThreads; here a whole               *)
(* get_inactive_php_thread + assign_handler is one step, and so is the     *)
(* state change that asks a thread to stop being regular.  The handler     *)
(* instances of a slot are numbered: a directed channel belongs to an      *)
(* instance, not to a slot.  Channels are crossbeam's bounded(0): a send meets a parked     *)
(* receiver or waits in FIFO order, and a receiver looks for a waiting     *)
(* sender before it parks.                                                 *)
(***************************************************************************)
EXTENDS Integers, Sequences, FiniteSets

CONSTANTS Slots,         \* thread slots
          Requests,      \* one RequestContext, and its dispatcher, each
          None,          \* no request
          Retirable,     \* slots a controller may take out of regular service
          MaxTenures     \* bound on the handler instances created for one slot

ASSUME DispatchAssumption ==
  /\ None \notin Requests
  /\ Retirable \subseteq Slots
  /\ MaxTenures \in Nat

VARIABLES pc,         \* [Requests -> where the dispatcher is]
          pos,        \* [Requests -> the entry its scan is at]
          threads,    \* [Slots -> a slot's handler, drain and pthread]
          registry,   \* REGULAR_THREADS
          pending,    \* entries whose attach_regular_thread call is still to come
          queue,      \* senders blocked on the shared channel, oldest first
          queued,     \* QUEUED_REGULAR_THREADS
          runs        \* history: [Requests -> how often a thread received it]

vars == <<pc, pos, threads, registry, pending, queue, queued, runs>>

dispatching == <<pc, pos, queue, queued>>

Entry == [slot : Slots, inst : 1 .. MaxTenures]

\* A slot: the number of its latest handler instance, whether it is regular, asked
\* to stop, or neither; its drain; where its pthread is; and its request.
Thread == [inst : 0 .. MaxTenures, mode : {"inactive", "regular", "stopping"},
           open : BOOLEAN,
           at : {"away", "loop", "select", "parked", "script", "detached"},
           req : Requests \cup {None}]

Init ==
  /\ pc = [r \in Requests |-> "new"]
  /\ pos = [r \in Requests |-> 0]
  /\ threads = [i \in Slots |-> [inst |-> 0, mode |-> "inactive", open |-> TRUE,
                             at |-> "away", req |-> None]]
  /\ registry = <<>>
  /\ pending = {}
  /\ queue = <<>>
  /\ queued = 0
  /\ runs = [r \in Requests |-> 0]

\* The registry's RwLock: a scan holds it for reading from entry to entry.
ReadLocked == \E r \in Requests : pc[r] = "scan"

\* A parked or selecting pthread receives r: CONTEXT_SLOTS.set and the return of
\* the script path.
Receive(i, r) ==
  /\ threads' = [threads EXCEPT ![i].at = "script", ![i].req = r]
  /\ runs' = [runs EXCEPT ![r] = @ + 1]
-------------------------------------------------------------------------------
(* Controllers *)

\* convert_to_regular_thread up to the return of assign_handler, which has
\* released SCALING: the handler is in place, its channel is not yet known.
ConvertToRegular(i) ==
  /\ threads[i].mode = "inactive"
  /\ threads[i].inst < MaxTenures
  /\ threads' = [threads EXCEPT ![i].inst = @ + 1, ![i].mode = "regular", ![i].at = "loop"]
  /\ pending' = pending \cup {[slot |-> i, inst |-> threads[i].inst + 1]}
  /\ UNCHANGED <<dispatching, registry, runs>>

\* Seeded fault: a slot that has an entry already is not attached again.
AttachUnlessPresent(e) ==
  /\ e \in pending
  /\ ~ReadLocked
  /\ registry' = IF \E k \in 1 .. Len(registry) : registry[k].slot = e.slot
                 THEN registry ELSE Append(registry, e)
  /\ pending' = pending \ {e}
  /\ UNCHANGED <<dispatching, threads, runs>>

\* attach_regular_thread, whatever has become of the slot meanwhile.
Attach(e) ==
  /\ e \in pending
  /\ ~ReadLocked
  /\ registry' = Append(registry, e)
  /\ pending' = pending \ {e}
  /\ UNCHANGED <<dispatching, threads, runs>>

\* A transition or a shutdown is granted: the thread is to stop being regular.
Retire(i) ==
  /\ threads[i].mode = "regular"
  /\ threads' = [threads EXCEPT ![i].mode = "stopping"]
  /\ UNCHANGED <<dispatching, registry, pending, runs>>

\* drain.close: a parked pthread is woken by the disconnected receiver.
CloseDrain(i) ==
  /\ threads[i].mode = "stopping" /\ threads[i].open
  /\ threads' = [threads EXCEPT ![i].open = FALSE,
                                ![i].at = IF @ = "parked" THEN "loop" ELSE @]
  /\ UNCHANGED <<dispatching, registry, pending, runs>>
-------------------------------------------------------------------------------
(* The regular thread: before_script_execution and wait_for_request *)

\* State Ready: enter wait_for_request.
WaitForRequest(i) ==
  /\ threads[i].at = "loop" /\ threads[i].mode = "regular"
  /\ threads' = [threads EXCEPT ![i].at = "select"]
  /\ UNCHANGED <<dispatching, registry, pending, runs>>

\* Vec::retain: the m-th entry kept is the one with m kept entries up to it.
Retained(entries, i) ==
  LET kept == {k \in 1 .. Len(entries) : entries[k].slot # i}
      rank == [k \in kept |-> Cardinality({j \in kept : j <= k})]
  IN  [m \in 1 .. Cardinality(kept) |-> entries[CHOOSE k \in kept : rank[k] = m]]

\* State TransitionRequested or ShuttingDown: detach_regular_thread drops every
\* entry of the slot.
Detach(i) ==
  /\ threads[i].at = "loop" /\ threads[i].mode = "stopping"
  /\ ~ReadLocked
  /\ registry' = Retained(registry, i)
  /\ threads' = [threads EXCEPT ![i].at = "detached"]
  /\ UNCHANGED <<dispatching, pending, runs>>

\* The handler's tenure ends: the controller, past drain.close, meets the pthread
\* and reopens the drain.
HandOver(i) ==
  /\ threads[i].at = "detached" /\ ~threads[i].open
  /\ threads' = [threads EXCEPT ![i].at = "away", ![i].mode = "inactive", ![i].open = TRUE]
  /\ UNCHANGED <<dispatching, registry, pending, runs>>

\* select!, the drain arm.
SelectDrained(i) ==
  /\ threads[i].at = "select" /\ ~threads[i].open
  /\ threads' = [threads EXCEPT ![i].at = "loop"]
  /\ UNCHANGED <<dispatching, registry, pending, runs>>

\* select!, the shared arm: the oldest blocked sender, even if the drain is closed.
SelectShared(i) ==
  /\ threads[i].at = "select" /\ queue # <<>>
  /\ Receive(i, Head(queue))
  /\ queue' = Tail(queue)
  /\ pc' = [pc EXCEPT ![Head(queue)] = "uncount"]
  /\ UNCHANGED <<pos, queued, registry, pending>>

\* Seeded fault: the shared channel is not looked at before parking.
ParkUnchecked(i) ==
  /\ threads[i].at = "select" /\ threads[i].open
  /\ threads' = [threads EXCEPT ![i].at = "parked"]
  /\ UNCHANGED <<dispatching, registry, pending, runs>>

\* select! finds no arm ready (nobody blocks on a directed channel) and parks.
Park(i) ==
  /\ threads[i].at = "select" /\ threads[i].open /\ queue = <<>>
  /\ threads' = [threads EXCEPT ![i].at = "parked"]
  /\ UNCHANGED <<dispatching, registry, pending, runs>>

\* The script ends and after_script_execution closes and clears the context.
FinishScript(i) ==
  /\ threads[i].at = "script"
  /\ threads' = [threads EXCEPT ![i].at = "loop", ![i].req = None]
  /\ UNCHANGED <<dispatching, registry, pending, runs>>
-------------------------------------------------------------------------------
(* handle_request_with_regular_php_threads *)

Goto(r, label) == pc' = [pc EXCEPT ![r] = label]

\* The load that chooses between the directed scan and the shared channel.
LoadQueued(r) ==
  /\ pc[r] = "new"
  /\ Goto(r, IF queued = 0 THEN "lock" ELSE "count")
  /\ UNCHANGED <<pos, threads, registry, pending, queue, queued, runs>>

\* Seeded fault: the scan starts before the first entry.
ScanFromZero(r) ==
  /\ pc[r] = "lock"
  /\ Goto(r, "scan")
  /\ pos' = [pos EXCEPT ![r] = 0]
  /\ UNCHANGED <<threads, registry, pending, queue, queued, runs>>

LockRegistry(r) ==
  /\ pc[r] = "lock"
  /\ Goto(r, "scan")
  /\ pos' = [pos EXCEPT ![r] = 1]
  /\ UNCHANGED <<threads, registry, pending, queue, queued, runs>>

\* A directed channel has a receiver parked on it right now.
Rendezvous(e) == threads[e.slot].at = "parked" /\ threads[e.slot].inst = e.inst

\* Seeded fault: the call does not return after a directed delivery.
TrySendGoesOn(r) ==
  /\ pc[r] = "scan" /\ pos[r] <= Len(registry)
  /\ Rendezvous(registry[pos[r]])
  /\ Receive(registry[pos[r]].slot, r)
  /\ Goto(r, "count")
  /\ pos' = [pos EXCEPT ![r] = 0]
  /\ UNCHANGED <<registry, pending, queue, queued>>

\* One entry of the scan: try_send succeeds and the call returns ...
TrySendDelivers(r) ==
  /\ pc[r] = "scan" /\ pos[r] <= Len(registry)
  /\ Rendezvous(registry[pos[r]])
  /\ Receive(registry[pos[r]].slot, r)
  /\ Goto(r, "returned")
  /\ pos' = [pos EXCEPT ![r] = 0]
  /\ UNCHANGED <<registry, pending, queue, queued>>

\* ... or hands the request back, and the scan goes on.
TrySendFails(r) ==
  /\ pc[r] = "scan" /\ pos[r] <= Len(registry)
  /\ ~Rendezvous(registry[pos[r]])
  /\ pos' = [pos EXCEPT ![r] = @ + 1]
  /\ UNCHANGED <<pc, threads, registry, pending, queue, queued, runs>>

ScanEnds(r) ==
  /\ pc[r] = "scan" /\ pos[r] > Len(registry)
  /\ Goto(r, "count")
  /\ pos' = [pos EXCEPT ![r] = 0]
  /\ UNCHANGED <<threads, registry, pending, queue, queued, runs>>

CountUp(r) ==
  /\ pc[r] = "count"
  /\ queued' = queued + 1
  /\ Goto(r, "send")
  /\ UNCHANGED <<pos, threads, registry, pending, queue, runs>>

\* The blocking send on the shared channel: a parked pthread takes the request ...
SendMeets(r, i) ==
  /\ pc[r] = "send"
  /\ threads[i].at = "parked"
  /\ Receive(i, r)
  /\ Goto(r, "uncount")
  /\ UNCHANGED <<pos, registry, pending, queue, queued>>

\* ... or the sender joins those that wait.  The channel's receiver is 'static, so
\* the send never fails.
SendBlocks(r) ==
  /\ pc[r] = "send"
  /\ \A i \in Slots : threads[i].at # "parked"
  /\ queue' = Append(queue, r)
  /\ Goto(r, "blocked")
  /\ UNCHANGED <<pos, threads, registry, pending, queued, runs>>

CountDown(r) ==
  /\ pc[r] = "uncount"
  /\ queued' = queued - 1
  /\ Goto(r, "returned")
  /\ UNCHANGED <<pos, threads, registry, pending, queue, runs>>

ThreadRuns(i) ==
  \/ WaitForRequest(i) \/ Detach(i) \/ HandOver(i) \/ SelectDrained(i) \/ SelectShared(i) \/ Park(i)
  \/ FinishScript(i) \/ CloseDrain(i)

DispatcherRuns(r) ==
  \/ LockRegistry(r) \/ TrySendDelivers(r) \/ TrySendFails(r) \/ ScanEnds(r)
  \/ CountUp(r) \/ (\E i \in Slots : SendMeets(r, i)) \/ SendBlocks(r) \/ CountDown(r)

Next ==
  \/ \E i \in Slots : ConvertToRegular(i) \/ ThreadRuns(i)
  \/ \E i \in Retirable : Retire(i)
  \/ \E e \in Entry : Attach(e)
  \/ \E r \in Requests : LoadQueued(r) \/ DispatcherRuns(r)

Spec == Init /\ [][Next]_vars

\* Threads run, the server converts its slots at start-up, and scripts end.
\* Requests need not arrive, and nothing has to be retired.
Fairness ==
  /\ \A i \in Slots : WF_vars(ThreadRuns(i)) /\ WF_vars(ConvertToRegular(i))
  /\ \A e \in Entry : WF_vars(Attach(e))
  /\ \A r \in Requests : WF_vars(DispatcherRuns(r))

FairSpec == Spec /\ Fairness
-------------------------------------------------------------------------------
\* The types of the channels, the registry and the dispatchers; a dispatcher has a
\* position in the registry exactly while it scans.
TypeOK ==
  /\ pc \in [Requests -> {"new", "lock", "scan", "count", "send", "blocked", "uncount",
                          "returned"}]
  /\ pos \in [Requests -> Nat]
  /\ \A r \in Requests : pc[r] = "scan" <=> pos[r] # 0
  /\ threads \in [Slots -> Thread]
  /\ registry \in Seq(Entry)
  /\ pending \subseteq Entry
  /\ queue \in Seq(Requests)
  /\ queued \in Int
  /\ runs \in [Requests -> Nat]

\* No request waits in the shared channel while a regular thread is parked.  The
\* directed sends therefore never overtake a queued request, although the scan
\* runs on a value of the counter that may be stale.
NobodyIsOvertaken ==
  queue # <<>> => \A i \in Slots : threads[i].at # "parked"

\* A request is executed at most once, whichever of the directed scan, a parked
\* receiver and a later select the send meets; and it is in exactly one place:
\* with its dispatcher, or received.
ExecutedOnce ==
  \A r \in Requests :
    runs[r] = IF pc[r] \in {"uncount", "returned"} THEN 1 ELSE 0

\* The counter that switches the fast path off counts the calls between its two
\* updates, so it is never negative and returns to zero when they do.
CounterIsExact ==
  queued = Cardinality({r \in Requests : pc[r] \in {"send", "blocked", "uncount"}})

Entries == {registry[k] : k \in 1 .. Len(registry)}

\* The registry is complete: a slot in regular service is a dispatch target as
\* soon as its attach call has been made.  A detach, which drops entries by slot
\* and not by instance, never takes the entry of a later tenure with it.
ServiceIsRegistered ==
  \A i \in Slots :
    threads[i].mode = "regular" =>
      [slot |-> i, inst |-> threads[i].inst] \in Entries \cup pending

\* What a dispatcher decides by is exact: the counter of queued calls and the registry of
\* directed channels.
BookkeepingIsExact == CounterIsExact /\ ServiceIsRegistered

\* While some thread stays in regular service every dispatched request is received
\* and its dispatcher returns, however the other slots come and go.
EveryRequestIsServed ==
  \A r \in Requests : (pc[r] # "new") ~> (pc[r] = "returned")

\* What the comment on handle_request_with_regular_php_threads says of a request
\* no thread ever receives: the dispatcher drops it and returns.
UndeliverableIsDropped ==
  \A r \in Requests : (pc[r] = "blocked") ~> (pc[r] = "returned")
===============================================================================
