----------------------------- MODULE ThreadState ------------------------------
(***************************************************************************)
(* One `ThreadState` object (crates/frankenrust-core/src/state.rs) used by *)
(* arbitrary clients.  A client is an OS thread; between two calls it is   *)
(* idle, and it may make any call with any argument at any time, so what   *)
(* holds here holds for every protocol built on the primitive.             *)
(*                                                                         *)
(* A blocking call is several steps: the critical section that subscribes, *)
(* the time it is parked in `recv`, and the step in which it returns.  The *)
(* timed wait adds the step in which its timeout elapses and the critical  *)
(* section, taken later, that removes its subscriber: a notification can   *)
(* fall between the two.                                                   *)
(***************************************************************************)
EXTENDS StateCells, FiniteSets

CONSTANTS Cell,      \* the one object
          WaitSets,  \* the state lists clients wait for
          Targets    \* the states clients publish

ASSUME CellAssumption == Cells = {Cell}
ASSUME ArgumentsAssumption == WaitSets \subseteq SUBSET State /\ Targets \subseteq State

VARIABLES pc,        \* [Actors -> where the client's call is]
          want,      \* [Actors -> the `states` argument of the blocking call]
          next,      \* [Actors -> the argument of request_safe_state_change]
          reached    \* history: an awaited state has been current during the call

vars == <<state, waits, pc, want, next, reached>>

Parked == {"wait_for", "timed_wait", "safe_wait"}

\* History: every parked call takes note of a published state it waits for.
Witness(s) == reached' = [a \in Actors |-> reached[a] \/ s \in want[a]]

\* The arguments of a call that has returned.
Forget(a) ==
  /\ want' = [want EXCEPT ![a] = {}]
  /\ reached' = [reached EXCEPT ![a] = FALSE]

Goto(a, label) == pc' = [pc EXCEPT ![a] = label]

Init ==
  /\ state = [c \in Cells |-> "Reserved"]
  /\ waits = [a \in Actors |-> NotWaiting]
  /\ pc = [a \in Actors |-> "idle"]
  /\ want = [a \in Actors |-> {}]
  /\ next = [a \in Actors |-> "Reserved"]
  /\ reached = [a \in Actors |-> FALSE]
-------------------------------------------------------------------------------
\* set
CallSet(a, s) ==
  /\ pc[a] = "idle"
  /\ Set(Cell, s)
  /\ Witness(s)
  /\ UNCHANGED <<pc, want, next>>

\* compare_and_swap; a failed one changes nothing and is a stuttering step.
CallCompareAndSwap(a, from, to) ==
  /\ pc[a] = "idle"
  /\ CompareAndSwap(Cell, from, to)
  /\ Witness(to)
  /\ UNCHANGED <<pc, want, next>>

\* The subscribe call that opens wait_for and wait_for_state_with_timeout.
Enter(a, S, label) ==
  /\ subscribe(a, Cell, S)
  /\ want' = [want EXCEPT ![a] = S]
  /\ reached' = [reached EXCEPT ![a] = state[Cell] \in S]
  /\ Goto(a, label)
  /\ UNCHANGED next

\* wait_for
CallWaitFor(a, S) == pc[a] = "idle" /\ Enter(a, S, "wait_for")

\* wait_for_state_with_timeout
CallTimedWait(a, S) == pc[a] = "idle" /\ Enter(a, S, "timed_wait")

\* request_safe_state_change
CallSafeChange(a, s) ==
  /\ pc[a] = "idle"
  /\ next' = [next EXCEPT ![a] = s]
  /\ Goto(a, "safe_check")
  /\ UNCHANGED <<state, waits, want, reached>>

\* One iteration of its loop, inside the lock: refuse, change, or fall through.
SafeRefuse(a) ==
  /\ pc[a] = "safe_check"
  /\ state[Cell] \in RefusingStates
  /\ Goto(a, "idle")
  /\ next' = [next EXCEPT ![a] = "Reserved"]
  /\ UNCHANGED <<state, waits, want, reached>>

SafeChange(a) ==
  /\ pc[a] = "safe_check"
  /\ state[Cell] \in SafeStates
  /\ Set(Cell, next[a])
  /\ Goto(a, "idle")
  /\ next' = [next EXCEPT ![a] = "Reserved"]
  /\ Witness(next[a])
  /\ UNCHANGED want

SafeRetry(a) ==
  /\ pc[a] = "safe_check"
  /\ state[Cell] \notin RefusingStates \cup SafeStates
  /\ Goto(a, "safe_park")
  /\ UNCHANGED <<state, waits, want, next, reached>>

\* The lock was dropped in between: the wait starts from whatever is current now.
SafePark(a) == pc[a] = "safe_park" /\ Enter(a, SafeChangeWakes, "safe_wait")

\* Seeded fault: a woken call looks at the state again and goes on waiting if it
\* has moved on.
ReturnIfStillThere(a) ==
  /\ pc[a] \in Parked
  /\ ~Subscribed(a)
  /\ state[Cell] \in want[a]
  /\ Goto(a, IF pc[a] = "safe_wait" THEN "safe_check" ELSE "idle")
  /\ Forget(a)
  /\ UNCHANGED <<state, waits, next>>

\* The channel is disconnected: wait_for returns, the timed wait returns true,
\* request_safe_state_change goes round its loop.
Return(a) ==
  /\ pc[a] \in Parked
  /\ ~Subscribed(a)
  /\ Goto(a, IF pc[a] = "safe_wait" THEN "safe_check" ELSE "idle")
  /\ Forget(a)
  /\ UNCHANGED <<state, waits, next>>

\* recv_timeout gives up; the lock is not held yet.
TimeOut(a) ==
  /\ pc[a] = "timed_wait"
  /\ Goto(a, "timed_out")
  /\ UNCHANGED <<state, waits, want, next, reached>>

\* The retain that drops this call's token, and the return of false.
CleanUp(a) ==
  /\ pc[a] = "timed_out"
  /\ Unsubscribe(a)
  /\ Goto(a, "idle")
  /\ Forget(a)
  /\ UNCHANGED next

Next ==
  \E a \in Actors :
    \/ \E s \in Targets : CallSet(a, s) \/ CallSafeChange(a, s)
    \/ \E s, t \in Targets : CallCompareAndSwap(a, s, t)
    \/ \E S \in WaitSets : CallWaitFor(a, S) \/ CallTimedWait(a, S)
    \/ SafeRefuse(a) \/ SafeChange(a) \/ SafeRetry(a) \/ SafePark(a)
    \/ Return(a) \/ TimeOut(a) \/ CleanUp(a)

\* A call that can go on is not parked by the scheduler for ever.
Fairness ==
  \A a \in Actors : /\ WF_vars(Return(a)) /\ WF_vars(CleanUp(a)) /\ WF_vars(SafePark(a))
                    /\ WF_vars(SafeRefuse(a) \/ SafeChange(a) \/ SafeRetry(a))

Spec == Init /\ [][Next]_vars

FairSpec == Spec /\ Fairness
-------------------------------------------------------------------------------
PcLabels == Parked \cup {"idle", "safe_check", "safe_park", "timed_out"}

\* The types of the state, the subscriber list and the clients' calls.
TypeOK ==
  /\ state \in [Cells -> State]
  /\ waits \in [Actors -> Subscriber]
  /\ pc \in [Actors -> PcLabels]
  /\ want \in [Actors -> SUBSET State]
  /\ next \in [Actors -> State]
  /\ reached \in [Actors -> BOOLEAN]

\* No wake-up is lost: once one of the states a blocked call waits for has been
\* current at any moment of the call, its subscriber has been removed and its
\* channel closed, even if the state has moved on since.
NoLostWakeup ==
  \A a \in Actors :
    pc[a] \in Parked /\ reached[a] => ~Subscribed(a)

\* No wake-up is spurious: wait_for returns, and the timed wait returns true,
\* only if one of the awaited states was current at some moment of the call.
\* Neither re-reads the state after recv, so this is all that justifies them.
NoSpuriousWakeup ==
  \A a \in Actors :
    pc[a] \in Parked /\ ~Subscribed(a) => reached[a]

\* A subscriber belongs to a call in progress: neither a return nor a timeout
\* leaves one behind for a later notification to trip over.
NoLeakedSubscriber ==
  \A a \in Actors : Subscribed(a) => pc[a] \in Parked \cup {"timed_out"}

\* Whenever the cell is in a state some parked call waits for, that call gets
\* out of recv, however many other clients move the state on meanwhile.
ReachedStateReleases ==
  \A a \in Actors, s \in Targets :
    (pc[a] \in Parked /\ s \in want[a] /\ state[Cell] = s) ~> pc[a] \notin Parked

\* request_safe_state_change is always answered where the cell ends in states that answer
\* it: in Ready and Inactive by the change, in Reserved by a refusal.  What a call waits
\* for and what it decides on are two lists; ShuttingDown and Done, which refuse a new
\* call, do not wake one that waits, and it is the Reserved after them that does.
SafeChangeIsAnswered ==
  \A a \in Actors :
    <>[](state[Cell] \in SafeStates \cup {"Reserved"})
      => []<>(pc[a] \notin {"safe_check", "safe_park", "safe_wait"})
===============================================================================
