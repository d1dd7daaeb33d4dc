------------------------------ MODULE StateCells ------------------------------
(***************************************************************************)
(* The lifecycle-state primitive of crates/frankenrust-core/src/state.rs,  *)
(* as operators on two variables.  Every PHP thread slot, and the main PHP *)
(* thread, owns one `ThreadState`: a mutex around the current state and a  *)
(* list of subscribers.  A subscriber is one blocked call of `wait_for`;   *)
(* it holds the states it waits for and the only sender of a channel, and  *)
(* it is woken by dropping that sender.                                    *)
(*                                                                         *)
(* Every operator below is one critical section of the mutex.  An actor (an *)
(* OS thread) has at most one call in progress, so `waits[a]` is the       *)
(* subscriber record of actor a, and NotWaiting says that a has none.  The *)
(* wake-up is latched as in the code: once notified a stays released       *)
(* whatever the state becomes before a runs again.                         *)
(***************************************************************************)
CONSTANTS Cells,   \* the `ThreadState` objects
          Actors   \* the OS threads that call their methods

State == { "Reserved", "Booting", "BootRequested", "ShuttingDown", "Done",
           "Inactive", "Ready", "TransitionRequested",
           "TransitionInProgress", "TransitionComplete", "Rebooting",
           "ForceRebooting", "RebootReady", "YieldingForReboot" }

VARIABLES state,   \* [Cells -> State], StateInner::current_state
          waits    \* [Actors -> subscriber or NotWaiting], StateInner::subscribers

\* StateSubscriber { states, sender, token }, with the cell it is pushed on.
Subscriber == [cells : SUBSET Cells, states : SUBSET State]

NotWaiting == [cells |-> {}, states |-> {}]

Subscription(c, S) == [cells |-> {c}, states |-> S]

\* The receiver half of a's channel has not been disconnected yet.
Subscribed(a) == waits[a].cells # {}

\* subscriber.states.contains(&next_state), for a subscriber of cell c.
Interested(a, c, s) == c \in waits[a].cells /\ s \in waits[a].states

\* Seeded fault: every subscriber of the cell is woken, whatever it waits for.
NotifyAll(c, s) ==
  waits' = [a \in Actors |-> IF c \in waits[a].cells THEN NotWaiting ELSE waits[a]]

\* notify_subscribers: every subscriber of c that wants s is removed and woken.
notify_subscribers(c, s) ==
  waits' = [a \in Actors |-> IF Interested(a, c, s) THEN NotWaiting ELSE waits[a]]

\* set: no validation, and subscribers are notified even when nothing changes.
Set(c, s) ==
  /\ state' = [state EXCEPT ![c] = s]
  /\ notify_subscribers(c, s)

\* compare_and_swap, when it succeeds; when it fails nothing changes.
CompareAndSwap(c, from, to) ==
  /\ state[c] = from
  /\ Set(c, to)

\* Seeded fault: the state that is current already is not looked at.
SubscribeUnchecked(a, c, S) ==
  /\ UNCHANGED state
  /\ waits' = [waits EXCEPT ![a] = Subscription(c, S)]

\* subscribe: the check and the push share one lock guard.
subscribe(a, c, S) ==
  /\ UNCHANGED state
  /\ waits' = [waits EXCEPT ![a] = IF state[c] \in S THEN NotWaiting
                                                     ELSE Subscription(c, S)]

\* Seeded fault: the subscriber of a timed-out wait stays in the list.
UnsubscribeNothing(a) == UNCHANGED <<state, waits>>

\* The clean-up a timed wait does after its timeout: it takes its own token out.
Unsubscribe(a) ==
  /\ UNCHANGED state
  /\ waits' = [waits EXCEPT ![a] = NotWaiting]

\* The three outcomes of one iteration of request_safe_state_change.
SafeStates == {"Ready", "Inactive"}

RefusingStates == {"Reserved", "ShuttingDown", "Done"}

\* Seeded fault: a call waits only for the states in which it succeeds.
WakesInSafeStates == SafeStates

\* What it waits for before the next iteration.
SafeChangeWakes == {"Ready", "Inactive", "Reserved"}
===============================================================================
