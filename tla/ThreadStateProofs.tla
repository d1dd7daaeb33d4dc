-------------------------- MODULE ThreadStateProofs ---------------------------
(***************************************************************************)
(* Safety of the subscription protocol of ThreadState for every set of     *)
(* clients and every choice of published states and wait lists.            *)
(***************************************************************************)
EXTENDS ThreadState, TLAPS

\* A subscriber is on the one cell, and holds the list its call was made with.
SubscriptionsMatch ==
  \A a \in Actors : Subscribed(a) => waits[a] = Subscription(Cell, want[a])

\* Inductive: a wake-up can only be shown to be neither lost nor spurious when
\* the subscriber is known to hold the states of the call that is parked on it.
IInv ==
  /\ TypeOK
  /\ SubscriptionsMatch
  /\ NoLeakedSubscriber
  /\ NoLostWakeup
  /\ NoSpuriousWakeup

\* NotWaiting is what an actor without a subscriber has (state.rs: not in the Vec).
LEMMA SubscriberFacts ==
  /\ NotWaiting \in Subscriber
  /\ NotWaiting.cells = {}
  /\ \A S \in SUBSET State : /\ Subscription(Cell, S) \in Subscriber
                             /\ Subscription(Cell, S).cells = {Cell}
                             /\ Subscription(Cell, S).states = S
BY CellAssumption DEF NotWaiting, Subscriber, Subscription

\* The initial object is Reserved, with no subscribers and no calls (state.rs, new).
LEMMA InitIInv == Init => IInv
<1> SUFFICES ASSUME Init PROVE IInv
  OBVIOUS
<1>1. TypeOK
  BY SubscriberFacts DEF Init, TypeOK, State, PcLabels, Parked
<1>2. \A a \in Actors : ~Subscribed(a) /\ pc[a] = "idle"
  BY SubscriberFacts DEF Init, Subscribed
<1> QED
  BY <1>1, <1>2 DEF IInv, SubscriptionsMatch, NoLeakedSubscriber, NoLostWakeup,
                    NoSpuriousWakeup, Parked

\* What notify_subscribers does to one subscriber.
LEMMA NotifyFacts ==
  ASSUME IInv, NEW s \in State, notify_subscribers(Cell, s), NEW a \in Actors
  PROVE  /\ waits' \in [Actors -> Subscriber]
         /\ Subscribed(a)' => waits'[a] = waits[a] /\ Subscribed(a) /\ s \notin want[a]
         /\ ~Subscribed(a)' => ~Subscribed(a) \/ s \in want[a]
<1>1. \A b \in Actors : waits'[b] = IF Interested(b, Cell, s) THEN NotWaiting ELSE waits[b]
  BY DEF notify_subscribers
<1>2. waits' \in [Actors -> Subscriber]
  BY SubscriberFacts DEF notify_subscribers, IInv, TypeOK
<1>3. CASE Interested(a, Cell, s)
  <2>1. Subscribed(a)
    BY <1>3 DEF Interested, Subscribed
  <2>2. waits[a] = Subscription(Cell, want[a]) /\ want[a] \in SUBSET State
    BY <2>1 DEF IInv, SubscriptionsMatch, TypeOK
  <2>3. s \in want[a]
    BY <1>3, <2>2, SubscriberFacts DEF Interested
  <2>4. ~Subscribed(a)'
    BY <1>1, <1>3, SubscriberFacts DEF Subscribed
  <2> QED
    BY <1>2, <2>3, <2>4
<1>4. CASE ~Interested(a, Cell, s)
  <2>1. waits'[a] = waits[a]
    BY <1>1, <1>4
  <2>2. Subscribed(a)' <=> Subscribed(a)
    BY <2>1 DEF Subscribed
  <2>3. ASSUME Subscribed(a) PROVE s \notin want[a]
    <3>1. waits[a] = Subscription(Cell, want[a]) /\ want[a] \in SUBSET State
      BY <2>3 DEF IInv, SubscriptionsMatch, TypeOK
    <3> QED
      BY <1>4, <3>1, SubscriberFacts DEF Interested
  <2> QED
    BY <1>2, <2>1, <2>2, <2>3
<1> QED
  BY <1>3, <1>4

\* Publishing a state keeps the invariant, whichever idle-bound step publishes it.
LEMMA PublishIInv ==
  ASSUME IInv, NEW s \in State, Set(Cell, s), Witness(s), UNCHANGED want,
         NEW pc1 \in [Actors -> PcLabels], pc' = pc1,
         next' \in [Actors -> State],
         \A a \in Actors : pc1[a] = pc[a] \/ (pc1[a] = "idle" /\ pc[a] = "safe_check")
  PROVE  IInv'
<1>1. /\ notify_subscribers(Cell, s)
      /\ state' = [state EXCEPT ![Cell] = s]
      /\ reached' = [a \in Actors |-> reached[a] \/ s \in want[a]]
      /\ want' = want
  BY DEF Set, Witness
<1>2. TypeOK'
  <2>1. state' \in [Cells -> State]
    BY <1>1 DEF IInv, TypeOK
  <2>2. CASE Actors = {}
    <3>1. waits' \in [Actors -> Subscriber]
      BY <1>1, <2>2, SubscriberFacts DEF notify_subscribers
    <3> QED
      BY <1>1, <2>1, <3>1 DEF IInv, TypeOK
  <2>3. CASE Actors # {}
    BY <1>1, <2>1, <2>3, NotifyFacts DEF IInv, TypeOK
  <2> QED
    BY <2>2, <2>3
<1>3. ASSUME NEW a \in Actors
      PROVE  /\ Subscribed(a)' => /\ waits'[a] = Subscription(Cell, want'[a])
                                  /\ pc'[a] \in Parked \cup {"timed_out"}
             /\ pc'[a] \in Parked /\ reached'[a] => ~Subscribed(a)'
             /\ pc'[a] \in Parked /\ ~Subscribed(a)' => reached'[a]
  <2>1. /\ Subscribed(a)' => waits'[a] = waits[a] /\ Subscribed(a) /\ s \notin want[a]
        /\ ~Subscribed(a)' => ~Subscribed(a) \/ s \in want[a]
    BY <1>1, NotifyFacts
  <2>2. pc'[a] \in Parked => pc'[a] = pc[a]
    BY DEF Parked
  <2>3. Subscribed(a) => waits[a] = Subscription(Cell, want[a]) /\ pc[a] \in Parked \cup {"timed_out"}
    BY DEF IInv, SubscriptionsMatch, NoLeakedSubscriber
  <2>4. pc[a] \in Parked \cup {"timed_out"} => pc'[a] = pc[a]
    BY DEF Parked
  <2>5. reached'[a] = (reached[a] \/ s \in want[a])
    BY <1>1
  <2>6. /\ pc[a] \in Parked /\ reached[a] => ~Subscribed(a)
        /\ pc[a] \in Parked /\ ~Subscribed(a) => reached[a]
    BY DEF IInv, NoLostWakeup, NoSpuriousWakeup
  <2> QED
    BY <1>1, <2>1, <2>2, <2>3, <2>4, <2>5, <2>6
<1> QED
  BY <1>2, <1>3 DEF IInv, SubscriptionsMatch, NoLeakedSubscriber, NoLostWakeup, NoSpuriousWakeup

\* Subscribing (the opening of every blocking call) keeps the invariant.
LEMMA EnterIInv ==
  ASSUME IInv, NEW a \in Actors, NEW S \in SUBSET State, NEW label \in Parked,
         Enter(a, S, label)
  PROVE  IInv'
<1>1. /\ state' = state
      /\ waits' = [waits EXCEPT ![a] = IF state[Cell] \in S THEN NotWaiting
                                                            ELSE Subscription(Cell, S)]
      /\ want' = [want EXCEPT ![a] = S]
      /\ reached' = [reached EXCEPT ![a] = state[Cell] \in S]
      /\ pc' = [pc EXCEPT ![a] = label]
      /\ next' = next
  BY DEF Enter, subscribe, Goto
<1>2. TypeOK'
  BY <1>1, SubscriberFacts DEF IInv, TypeOK, PcLabels
<1>3. ASSUME NEW b \in Actors
      PROVE  /\ Subscribed(b)' => /\ waits'[b] = Subscription(Cell, want'[b])
                                  /\ pc'[b] \in Parked \cup {"timed_out"}
             /\ pc'[b] \in Parked /\ reached'[b] => ~Subscribed(b)'
             /\ pc'[b] \in Parked /\ ~Subscribed(b)' => reached'[b]
  <2>1. CASE b = a
    BY <1>1, <2>1, SubscriberFacts DEF IInv, TypeOK, Subscribed
  <2>2. CASE b # a
    <3>1. /\ waits'[b] = waits[b] /\ want'[b] = want[b]
          /\ pc'[b] = pc[b] /\ reached'[b] = reached[b]
      BY <1>1, <2>2 DEF IInv, TypeOK
    <3> QED
      BY <3>1 DEF IInv, SubscriptionsMatch, NoLeakedSubscriber, NoLostWakeup,
                  NoSpuriousWakeup, Subscribed
  <2> QED
    BY <2>1, <2>2
<1> QED
  BY <1>2, <1>3 DEF IInv, SubscriptionsMatch, NoLeakedSubscriber, NoLostWakeup, NoSpuriousWakeup

\* A step that only moves a call between two points without a subscriber.
LEMMA MoveIInv ==
  ASSUME IInv, NEW a \in Actors, NEW label \in PcLabels \ Parked,
         pc[a] \notin Parked \cup {"timed_out"},
         pc' = [pc EXCEPT ![a] = label],
         next' \in [Actors -> State],
         UNCHANGED <<state, waits, want, reached>>
  PROVE  IInv'
<1>1. TypeOK'
  BY DEF IInv, TypeOK
<1>2. \A b \in Actors : Subscribed(b)' <=> Subscribed(b)
  BY DEF Subscribed
<1>3. \A b \in Actors : pc'[b] = IF b = a THEN label ELSE pc[b]
  BY DEF IInv, TypeOK
<1> QED
  BY <1>1, <1>2, <1>3 DEF IInv, SubscriptionsMatch, NoLeakedSubscriber, NoLostWakeup,
                          NoSpuriousWakeup

\* The return of a call, after which it has neither a subscriber nor arguments.
LEMMA ReturnIInv ==
  ASSUME IInv, NEW a \in Actors, NEW label \in PcLabels \ Parked,
         pc' = [pc EXCEPT ![a] = label], Forget(a),
         waits' = [waits EXCEPT ![a] = NotWaiting] \/ (waits' = waits /\ ~Subscribed(a)),
         UNCHANGED <<state, next>>
  PROVE  IInv'
<1>1. /\ want' = [want EXCEPT ![a] = {}]
      /\ reached' = [reached EXCEPT ![a] = FALSE]
  BY DEF Forget
<1>2. TypeOK'
  BY <1>1, SubscriberFacts DEF IInv, TypeOK
<1>3. ~Subscribed(a)' /\ pc'[a] \notin Parked
  BY SubscriberFacts DEF IInv, TypeOK, Subscribed
<1>4. \A b \in Actors \ {a} : /\ waits'[b] = waits[b] /\ want'[b] = want[b]
                              /\ pc'[b] = pc[b] /\ reached'[b] = reached[b]
  BY <1>1 DEF IInv, TypeOK
<1> QED
  BY <1>2, <1>3, <1>4 DEF IInv, SubscriptionsMatch, NoLeakedSubscriber, NoLostWakeup,
                          NoSpuriousWakeup, Subscribed

\* Every step of every client preserves the invariant.
LEMMA NextIInv == IInv /\ [Next]_vars => IInv'
<1> SUFFICES ASSUME IInv, [Next]_vars PROVE IInv'
  OBVIOUS
<1> USE ArgumentsAssumption
<1>1. CASE UNCHANGED vars
  BY <1>1 DEF vars, IInv, TypeOK, SubscriptionsMatch, NoLeakedSubscriber, NoLostWakeup,
              NoSpuriousWakeup, Subscribed
<1>2. ASSUME NEW a \in Actors, NEW s \in Targets, CallSet(a, s) PROVE IInv'
  <2>1. /\ Set(Cell, s) /\ Witness(s) /\ pc' = pc /\ want' = want /\ next' = next
    BY <1>2 DEF CallSet
  <2>2. pc \in [Actors -> PcLabels] /\ next' \in [Actors -> State] /\ s \in State
    BY <2>1 DEF IInv, TypeOK
  <2> QED
    BY <2>1, <2>2, PublishIInv
<1>3. ASSUME NEW a \in Actors, NEW s \in Targets, NEW t \in Targets,
             CallCompareAndSwap(a, s, t)
      PROVE  IInv'
  <2>1. /\ Set(Cell, t) /\ Witness(t) /\ pc' = pc /\ want' = want /\ next' = next
    BY <1>3 DEF CallCompareAndSwap, CompareAndSwap
  <2>2. pc \in [Actors -> PcLabels] /\ next' \in [Actors -> State] /\ t \in State
    BY <2>1 DEF IInv, TypeOK
  <2> QED
    BY <2>1, <2>2, PublishIInv
<1>4. ASSUME NEW a \in Actors, SafeChange(a) PROVE IInv'
  <2>1. /\ pc[a] = "safe_check" /\ Set(Cell, next[a]) /\ Witness(next[a])
        /\ pc' = [pc EXCEPT ![a] = "idle"] /\ want' = want
        /\ next' = [next EXCEPT ![a] = "Reserved"]
    BY <1>4 DEF SafeChange, Goto
  <2>2. /\ pc' \in [Actors -> PcLabels] /\ next' \in [Actors -> State]
        /\ next[a] \in State
    BY <2>1 DEF IInv, TypeOK, PcLabels, State
  <2>3. \A b \in Actors : pc'[b] = pc[b] \/ (pc'[b] = "idle" /\ pc[b] = "safe_check")
    BY <2>1 DEF IInv, TypeOK
  <2> QED
    BY <2>1, <2>2, <2>3, PublishIInv
<1>5. ASSUME NEW a \in Actors, NEW S \in WaitSets, CallWaitFor(a, S) \/ CallTimedWait(a, S)
      PROVE  IInv'
  <2>1. S \in SUBSET State
    OBVIOUS
  <2>2. "wait_for" \in Parked /\ "timed_wait" \in Parked
    BY DEF Parked
  <2> QED
    BY <1>5, <2>1, <2>2, EnterIInv DEF CallWaitFor, CallTimedWait
<1>6. ASSUME NEW a \in Actors, SafePark(a) PROVE IInv'
  <2>1. SafeChangeWakes \in SUBSET State /\ "safe_wait" \in Parked
    BY DEF SafeChangeWakes, State, Parked
  <2> QED
    BY <1>6, <2>1, EnterIInv DEF SafePark
<1>7. ASSUME NEW a \in Actors, NEW s \in Targets, CallSafeChange(a, s) PROVE IInv'
  <2>1. /\ pc[a] \notin Parked \cup {"timed_out"}
        /\ "safe_check" \in PcLabels \ Parked
        /\ next' \in [Actors -> State]
    BY <1>7 DEF CallSafeChange, IInv, TypeOK, Parked, PcLabels
  <2> QED
    BY <1>7, <2>1, MoveIInv DEF CallSafeChange, Goto
<1>8. ASSUME NEW a \in Actors, SafeRefuse(a) \/ SafeRetry(a) PROVE IInv'
  <2>1. /\ pc[a] \notin Parked \cup {"timed_out"}
        /\ "idle" \in PcLabels \ Parked /\ "safe_park" \in PcLabels \ Parked
        /\ next' \in [Actors -> State]
    BY <1>8 DEF SafeRefuse, SafeRetry, IInv, TypeOK, Parked, PcLabels, State
  <2> QED
    BY <1>8, <2>1, MoveIInv DEF SafeRefuse, SafeRetry, Goto
<1>9. ASSUME NEW a \in Actors, Return(a) PROVE IInv'
  <2> DEFINE label == IF pc[a] = "safe_wait" THEN "safe_check" ELSE "idle"
  <2>1. label \in PcLabels \ Parked
    BY DEF PcLabels, Parked
  <2> QED
    BY <1>9, <2>1, ReturnIInv DEF Return, Goto
<1>10. ASSUME NEW a \in Actors, TimeOut(a) PROVE IInv'
  <2>1. /\ pc[a] = "timed_wait" /\ pc' = [pc EXCEPT ![a] = "timed_out"]
        /\ state' = state /\ waits' = waits /\ want' = want /\ next' = next
        /\ reached' = reached
    BY <1>10 DEF TimeOut, Goto
  <2>2. TypeOK'
    BY <2>1 DEF IInv, TypeOK, PcLabels
  <2>3. \A b \in Actors : pc'[b] = IF b = a THEN "timed_out" ELSE pc[b]
    BY <2>1 DEF IInv, TypeOK
  <2>4. \A b \in Actors : Subscribed(b)' <=> Subscribed(b)
    BY <2>1 DEF Subscribed
  <2> QED
    BY <2>1, <2>2, <2>3, <2>4 DEF IInv, SubscriptionsMatch, NoLeakedSubscriber,
                                  NoLostWakeup, NoSpuriousWakeup, Parked
<1>11. ASSUME NEW a \in Actors, CleanUp(a) PROVE IInv'
  <2>1. "idle" \in PcLabels \ Parked
    BY DEF PcLabels, Parked
  <2> QED
    BY <1>11, <2>1, ReturnIInv DEF CleanUp, Unsubscribe, Goto
<1> QED
  BY <1>1, <1>2, <1>3, <1>4, <1>5, <1>6, <1>7, <1>8, <1>9, <1>10, <1>11 DEF Next

\* The inductive invariant holds in every reachable state.
THEOREM ThreadStateInvariant == Spec => []IInv
  BY InitIInv, NextIInv, PTL DEF Spec

\* Type correctness of the state, the subscriber list and the clients' calls.
THEOREM ThreadStateTypes == Spec => []TypeOK
<1>1. IInv => TypeOK
  BY DEF IInv
<1> QED
  BY <1>1, ThreadStateInvariant, PTL

\* subscribe and notify_subscribers (state.rs) never lose a wake-up: a call whose
\* awaited state has been current since it was made is no longer subscribed.
THEOREM WakeupsAreNotLost == Spec => []NoLostWakeup
<1>1. IInv => NoLostWakeup
  BY DEF IInv
<1> QED
  BY <1>1, ThreadStateInvariant, PTL

\* wait_for may trust its channel without re-reading the state: a released call
\* has had one of its states current while it was in progress.
THEOREM WakeupsAreEarned == Spec => []NoSpuriousWakeup
<1>1. IInv => NoSpuriousWakeup
  BY DEF IInv
<1> QED
  BY <1>1, ThreadStateInvariant, PTL

\* No return and no timeout leaves a subscriber in the list.
THEOREM SubscribersAreNotLeaked == Spec => []NoLeakedSubscriber
<1>1. IInv => NoLeakedSubscriber
  BY DEF IInv
<1> QED
  BY <1>1, ThreadStateInvariant, PTL
===============================================================================
