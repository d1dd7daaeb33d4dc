---------------------------- MODULE DispatchProofs ----------------------------
(***************************************************************************)
(* Dispatch to regular threads, for any number of slots, requests and      *)
(* tenures: what a run checks for two of each.                             *)
(*                                                                         *)
(* A request is received by three different actions.  That none of them    *)
(* delivers it twice rests on where a blocked sender is: the shared        *)
(* channel holds each one once, and only while its call is blocked.        *)
(***************************************************************************)
EXTENDS Dispatch, FiniteSetTheorems, SequenceTheorems, TLAPS

\* The senders waiting on the shared channel are the blocked calls, once each.
QueueIsBlocked ==
  /\ \A k \in 1 .. Len(queue) : pc[queue[k]] = "blocked"
  /\ \A k, l \in 1 .. Len(queue) : queue[k] = queue[l] => k = l

\* The calls between the two updates of the counter.
Counted == {r \in Requests : pc[r] \in {"send", "blocked", "uncount"}}

\* There are finitely many of them, however many requests there may be.
CounterIsFinite == IsFiniteSet(Counted) /\ queued = Cardinality(Counted)

IInv ==
  /\ TypeOK /\ QueueIsBlocked /\ NobodyIsOvertaken /\ ExecutedOnce
  /\ CounterIsFinite /\ ServiceIsRegistered
-------------------------------------------------------------------------------
(* Vec::retain *)

\* What is kept are the entries of the other slots, all of them and nothing else:
\* the ranks of the kept positions are 1 up to their number.
LEMMA RetainedEntries ==
  ASSUME NEW s \in Seq(Entry), NEW i
  PROVE  /\ Retained(s, i) \in Seq(Entry)
         /\ \A k \in 1 .. Len(s) :
              s[k].slot # i =>
                \E m \in 1 .. Len(Retained(s, i)) : Retained(s, i)[m] = s[k]
<1> DEFINE kept == {k \in 1 .. Len(s) : s[k].slot # i}
           upto(k) == {j \in kept : j <= k}
           n == Cardinality(kept)
           rank == [k \in kept |-> Cardinality(upto(k))]
           new == [m \in 1 .. n |-> s[CHOOSE k \in kept : rank[k] = m]]
<1>1. Len(s) \in Nat
  OBVIOUS
<1>2. IsFiniteSet(kept) /\ n \in Nat
  <2>1. IsFiniteSet(1 .. Len(s))
    BY <1>1, FS_Interval
  <2>2. kept \in SUBSET (1 .. Len(s))
    OBVIOUS
  <2> HIDE DEF kept
  <2> QED BY <2>1, <2>2, FS_Subset, FS_CardinalityType
<1>3. ASSUME NEW k \in kept
      PROVE  /\ IsFiniteSet(upto(k)) /\ upto(k) \in SUBSET kept
             /\ Cardinality(upto(k)) \in 1 .. n
  <2>1. upto(k) \in SUBSET kept /\ k \in upto(k)
    BY <1>1
  <2> HIDE DEF kept, upto
  <2>2. IsFiniteSet(upto(k)) /\ Cardinality(upto(k)) <= n
    BY <1>2, <2>1, FS_Subset
  <2>3. Cardinality(upto(k)) \in Nat /\ Cardinality(upto(k)) # 0
    BY <2>1, <2>2, FS_CardinalityType, FS_EmptySet
  <2> QED BY <1>2, <2>1, <2>2, <2>3
<1>4. ASSUME NEW k \in kept, NEW l \in kept, k < l
      PROVE  Cardinality(upto(k)) # Cardinality(upto(l))
  <2>1. upto(k) \in SUBSET upto(l) /\ l \in upto(l) /\ l \notin upto(k)
    BY <1>1, <1>4
  <2>2. IsFiniteSet(upto(l))
    BY <1>3
  <2> HIDE DEF kept, upto
  <2> QED BY <2>1, <2>2, FS_Subset
<1>5. rank \in [kept -> 1 .. n]
  BY <1>3
<1>6. \A k, l \in kept : rank[k] = rank[l] => k = l
  <2> SUFFICES ASSUME NEW k \in kept, NEW l \in kept, k # l PROVE rank[k] # rank[l]
    OBVIOUS
  <2>1. k < l \/ l < k
    BY <1>1
  <2>2. Cardinality(upto(k)) # Cardinality(upto(l))
    BY <1>4, <2>1
  <2> HIDE DEF kept, upto
  <2> QED BY <2>2
<1>7. \A m \in 1 .. n : \E k \in kept : rank[k] = m
  <2> HIDE DEF kept, rank, upto
  <2>1. rank \in Injection(kept, 1 .. n)
    BY <1>5, <1>6 DEF Injection, IsInjective
  <2>2. IsFiniteSet(1 .. n) /\ Cardinality(1 .. n) = n
    BY <1>2, FS_Interval
  <2>3. rank \in Surjection(kept, 1 .. n)
    BY <2>1, <2>2, FS_Injection
  <2> QED BY <2>3 DEF Surjection
<1>8. ASSUME NEW m \in 1 .. n PROVE new[m] \in Entry
  <2> HIDE DEF rank
  <2>1. (CHOOSE k \in kept : rank[k] = m) \in kept
    BY <1>7
  <2> QED BY <2>1
<1>9. new \in Seq(Entry) /\ Len(new) = n
  <2>1. new \in [1 .. n -> Entry]
    BY <1>8
  <2> HIDE DEF new, n
  <2>2. new \in Seq(Entry)
    BY <1>2, <2>1, SeqDef
  <2> QED BY <1>2, <2>1, <2>2, LenProperties
<1>10. ASSUME NEW k \in kept PROVE rank[k] \in 1 .. Len(new) /\ new[rank[k]] = s[k]
  <2>1. rank[k] \in 1 .. n
    BY <1>5
  <2> HIDE DEF kept, rank
  <2>2. (CHOOSE l \in kept : rank[l] = rank[k]) = k
    BY <1>6
  <2> QED BY <1>9, <2>1, <2>2
<1>11. Retained(s, i) = new
  BY DEF Retained
<1> HIDE DEF new, rank
<1> QED BY <1>9, <1>10, <1>11
-------------------------------------------------------------------------------
(* Types *)

\* A received request is with its thread.
LEMMA ReceiveTypes ==
  ASSUME TypeOK, NEW i \in Slots, NEW r \in Requests, Receive(i, r)
  PROVE  /\ threads' \in [Slots -> Thread] /\ runs' \in [Requests -> Nat]
         /\ threads'[i].at = "script"
         /\ \A j \in Slots : threads'[j].mode = threads[j].mode /\ threads'[j].inst = threads[j].inst
         /\ \A j \in Slots \ {i} : threads'[j] = threads[j]
         /\ runs'[r] = runs[r] + 1
         /\ \A q \in Requests \ {r} : runs'[q] = runs[q]
<1>0. ASSUME NEW t \in Thread PROVE [t EXCEPT !.at = "script", !.req = r] \in Thread
  BY DEF Thread
<1>1. [threads[i] EXCEPT !.at = "script", !.req = r] \in Thread
  BY <1>0 DEF TypeOK
<1>2. threads' \in [Slots -> Thread] /\ runs' \in [Requests -> Nat]
  BY <1>1 DEF Receive, TypeOK
<1>3. /\ threads'[i].at = "script"
      /\ \A j \in Slots : threads'[j].mode = threads[j].mode /\ threads'[j].inst = threads[j].inst
      /\ \A j \in Slots \ {i} : threads'[j] = threads[j]
  BY DEF Receive, TypeOK, Thread
<1>4. runs'[r] = runs[r] + 1 /\ \A q \in Requests \ {r} : runs'[q] = runs[q]
  BY DEF Receive, TypeOK
<1> QED BY <1>2, <1>3, <1>4

LEMMA InitTypes == Init => TypeOK
BY DispatchAssumption DEF Init, TypeOK, Thread

\* The controllers and the regular threads keep the types.
LEMMA SlotStepTypes ==
  ASSUME TypeOK, QueueIsBlocked, NEW i \in Slots,
         ConvertToRegular(i) \/ Retire(i) \/ ThreadRuns(i)
  PROVE  TypeOK'
<1> USE DEF dispatching
<1>0. threads[i] \in Thread
  BY DEF TypeOK
<1>1. CASE ConvertToRegular(i)
  <2>1. [slot |-> i, inst |-> threads[i].inst + 1] \in Entry
    BY <1>1, DispatchAssumption DEF ConvertToRegular, TypeOK, Thread, Entry
  <2>2. threads[i] \in Thread /\ threads[i].inst + 1 \in 0 .. MaxTenures
    BY <1>1, DispatchAssumption DEF ConvertToRegular, TypeOK, Thread
  <2>3. ASSUME NEW t \in Thread, NEW n \in 0 .. MaxTenures
        PROVE  [t EXCEPT !.inst = n, !.mode = "regular", !.at = "loop"] \in Thread
    BY DEF Thread
  <2>4. [threads[i] EXCEPT !.inst = @ + 1, !.mode = "regular", !.at = "loop"] \in Thread
    BY <2>2, <2>3
  <2> QED BY <1>1, <2>1, <2>4 DEF ConvertToRegular, TypeOK
<1>2. CASE Retire(i)
  <2>0. ASSUME NEW t \in Thread PROVE [t EXCEPT !.mode = "stopping"] \in Thread
    BY DEF Thread
  <2>1. [threads[i] EXCEPT !.mode = "stopping"] \in Thread
    BY <1>0, <2>0
  <2> QED BY <1>2, <2>1 DEF Retire, TypeOK
<1>3. CASE WaitForRequest(i)
  <2>0. ASSUME NEW t \in Thread PROVE [t EXCEPT !.at = "select"] \in Thread
    BY DEF Thread
  <2>1. [threads[i] EXCEPT !.at = "select"] \in Thread
    BY <1>0, <2>0
  <2> QED BY <1>3, <2>1 DEF WaitForRequest, TypeOK
<1>4. CASE Detach(i)
  <2>0. ASSUME NEW t \in Thread PROVE [t EXCEPT !.at = "detached"] \in Thread
    BY DEF Thread
  <2>1. [threads[i] EXCEPT !.at = "detached"] \in Thread
    BY <1>0, <2>0
  <2>2. Retained(registry, i) \in Seq(Entry)
    BY RetainedEntries DEF TypeOK
  <2> QED BY <1>4, <2>1, <2>2 DEF Detach, TypeOK
<1>5. CASE HandOver(i)
  <2>0. ASSUME NEW t \in Thread PROVE [t EXCEPT !.at = "away", !.mode = "inactive", !.open = TRUE] \in Thread
    BY DEF Thread
  <2>1. [threads[i] EXCEPT !.at = "away", !.mode = "inactive", !.open = TRUE] \in Thread
    BY <1>0, <2>0
  <2> QED BY <1>5, <2>1 DEF HandOver, TypeOK
<1>6. CASE SelectDrained(i)
  <2>0. ASSUME NEW t \in Thread PROVE [t EXCEPT !.at = "loop"] \in Thread
    BY DEF Thread
  <2>1. [threads[i] EXCEPT !.at = "loop"] \in Thread
    BY <1>0, <2>0
  <2> QED BY <1>6, <2>1 DEF SelectDrained, TypeOK
<1>7. CASE SelectShared(i)
  <2>1. Head(queue) \in Requests /\ Tail(queue) \in Seq(Requests)
    BY <1>7 DEF SelectShared, TypeOK
  <2>2. threads' \in [Slots -> Thread] /\ runs' \in [Requests -> Nat]
    BY <1>7, <2>1, ReceiveTypes DEF SelectShared
  <2>3. pc[Head(queue)] = "blocked"
    BY <1>7 DEF SelectShared, TypeOK, QueueIsBlocked
  <2> QED BY <1>7, <2>1, <2>2, <2>3 DEF SelectShared, TypeOK
<1>8. CASE Park(i)
  <2>0. ASSUME NEW t \in Thread PROVE [t EXCEPT !.at = "parked"] \in Thread
    BY DEF Thread
  <2>1. [threads[i] EXCEPT !.at = "parked"] \in Thread
    BY <1>0, <2>0
  <2> QED BY <1>8, <2>1 DEF Park, TypeOK
<1>9. CASE FinishScript(i)
  <2>0. ASSUME NEW t \in Thread PROVE [t EXCEPT !.at = "loop", !.req = None] \in Thread
    BY DEF Thread
  <2>1. [threads[i] EXCEPT !.at = "loop", !.req = None] \in Thread
    BY <1>0, <2>0
  <2> QED BY <1>9, <2>1 DEF FinishScript, TypeOK
<1>10. CASE CloseDrain(i)
  <2>0. ASSUME NEW t \in Thread PROVE [t EXCEPT !.open = FALSE, !.at = IF @ = "parked" THEN "loop" ELSE @] \in Thread
    BY DEF Thread
  <2>1. [threads[i] EXCEPT !.open = FALSE, !.at = IF @ = "parked" THEN "loop" ELSE @] \in Thread
    BY <1>0, <2>0
  <2> QED BY <1>10, <2>1 DEF CloseDrain, TypeOK
<1> QED BY <1>1, <1>2, <1>3, <1>4, <1>5, <1>6, <1>7, <1>8, <1>9, <1>10 DEF ThreadRuns

\* So do the dispatchers: a scan has a position, and only a scan.
LEMMA DispatcherTypes ==
  ASSUME TypeOK, NEW r \in Requests, LoadQueued(r) \/ DispatcherRuns(r)
  PROVE  TypeOK'
<1> USE DEF Goto
<1>1. CASE LoadQueued(r)
  BY <1>1 DEF LoadQueued, TypeOK
<1>2. CASE LockRegistry(r)
  BY <1>2 DEF LockRegistry, TypeOK
<1>3. CASE TrySendDelivers(r)
  <2>1. registry[pos[r]] \in Entry
    BY <1>3 DEF TrySendDelivers, TypeOK
  <2>2. registry[pos[r]].slot \in Slots
    BY <2>1 DEF Entry
  <2>3. threads' \in [Slots -> Thread] /\ runs' \in [Requests -> Nat]
    BY <1>3, <2>2, ReceiveTypes DEF TrySendDelivers
  <2> QED BY <1>3, <2>3 DEF TrySendDelivers, TypeOK
<1>4. CASE TrySendFails(r)
  BY <1>4 DEF TrySendFails, TypeOK
<1>5. CASE ScanEnds(r)
  BY <1>5 DEF ScanEnds, TypeOK
<1>6. CASE CountUp(r)
  BY <1>6 DEF CountUp, TypeOK
<1>7. ASSUME NEW i \in Slots, SendMeets(r, i) PROVE TypeOK'
  <2>1. threads' \in [Slots -> Thread] /\ runs' \in [Requests -> Nat]
    BY <1>7, ReceiveTypes DEF SendMeets
  <2> QED BY <1>7, <2>1 DEF SendMeets, TypeOK
<1>8. CASE SendBlocks(r)
  BY <1>8 DEF SendBlocks, TypeOK
<1>9. CASE CountDown(r)
  BY <1>9 DEF CountDown, TypeOK
<1> QED BY <1>1, <1>2, <1>3, <1>4, <1>5, <1>6, <1>7, <1>8, <1>9 DEF DispatcherRuns
-------------------------------------------------------------------------------
(* The inductive step *)

\* The parts that only a dispatcher can disturb stay when it stands still.
LEMMA DispatchersIdle ==
  ASSUME IInv, UNCHANGED <<dispatching, runs>>
  PROVE  QueueIsBlocked' /\ ExecutedOnce' /\ CounterIsFinite'
BY DEF IInv, dispatching, QueueIsBlocked, ExecutedOnce, CounterIsFinite, Counted

\* The registry is complete as long as it and the slots' service are left alone.
LEMMA ServiceIdle ==
  ASSUME IInv, UNCHANGED <<registry, pending>>,
         \A j \in Slots : threads'[j].mode = "regular" =>
           threads[j].mode = "regular" /\ threads'[j].inst = threads[j].inst
  PROVE  ServiceIsRegistered'
BY DEF IInv, ServiceIsRegistered, Entries

\* A controller converts a slot and attaches its channel, or asks it to stop.
LEMMA ControllersPreserve ==
  ASSUME IInv, NEW i \in Slots, ConvertToRegular(i) \/ Retire(i) \/ CloseDrain(i)
  PROVE  IInv'
<1>1. TypeOK'
  BY SlotStepTypes DEF IInv, ThreadRuns
<1>2. QueueIsBlocked' /\ ExecutedOnce' /\ CounterIsFinite'
  BY DispatchersIdle DEF ConvertToRegular, Retire, CloseDrain
<1> threads \in [Slots -> Thread]
  BY DEF IInv, TypeOK
<1>3. \A j \in Slots : threads'[j].at = "parked" => threads[j].at = "parked"
  <2>1. \A j \in Slots \ {i} : threads'[j] = threads[j]
    BY DEF ConvertToRegular, Retire, CloseDrain
  <2>2. threads'[i].at = "parked" => threads[i].at = "parked"
    BY DEF ConvertToRegular, Retire, CloseDrain, Thread
  <2> QED BY <2>1, <2>2
<1>4. NobodyIsOvertaken'
  BY <1>3 DEF ConvertToRegular, Retire, CloseDrain, dispatching, IInv, NobodyIsOvertaken
<1>5. CASE ConvertToRegular(i)
  <2>1. /\ threads'[i].inst = threads[i].inst + 1
        /\ \A j \in Slots \ {i} : threads'[j] = threads[j]
    BY <1>5 DEF ConvertToRegular, IInv, TypeOK, Thread
  <2>2. ServiceIsRegistered'
    <3> SUFFICES ASSUME NEW j \in Slots, threads'[j].mode = "regular"
                 PROVE  [slot |-> j, inst |-> threads'[j].inst] \in Entries' \cup pending'
      BY DEF ServiceIsRegistered
    <3>1. Entries' = Entries /\ pending' = pending \cup {[slot |-> i, inst |-> threads[i].inst + 1]}
      BY <1>5 DEF ConvertToRegular, Entries
    <3>2. CASE j = i
      BY <2>1, <3>1, <3>2
    <3>3. CASE j # i
      BY <2>1, <3>1, <3>3 DEF IInv, ServiceIsRegistered
    <3> QED BY <3>2, <3>3
  <2> QED BY <1>1, <1>2, <1>4, <2>2 DEF IInv
<1>6. CASE Retire(i) \/ CloseDrain(i)
  <2>1. \A j \in Slots : threads'[j].mode = "regular" =>
          threads[j].mode = "regular" /\ threads'[j].inst = threads[j].inst
    <3>1. \A j \in Slots \ {i} : threads'[j] = threads[j]
      BY <1>6 DEF Retire, CloseDrain
    <3>2. threads'[i].mode # "regular"
      BY <1>6 DEF Retire, CloseDrain, Thread
    <3> QED BY <3>1, <3>2
  <2>2. ServiceIsRegistered'
    BY <1>6, <2>1, ServiceIdle DEF Retire, CloseDrain
  <2> QED BY <1>1, <1>2, <1>4, <2>2 DEF IInv
<1> QED BY <1>5, <1>6

\* attach_regular_thread moves an entry from its call into the registry.
LEMMA AttachPreserves ==
  ASSUME IInv, NEW e \in Entry, Attach(e)
  PROVE  IInv'
<1>1. TypeOK'
  BY DEF IInv, TypeOK, Attach, dispatching
<1>2. QueueIsBlocked' /\ ExecutedOnce' /\ CounterIsFinite'
  BY DispatchersIdle DEF Attach
<1>3. NobodyIsOvertaken'
  BY DEF Attach, dispatching, IInv, NobodyIsOvertaken
<1>4. ASSUME NEW k \in 1 .. Len(registry) PROVE registry[k] \in Entries'
  <2>1. registry' = Append(registry, e) /\ registry \in Seq(Entry)
    BY DEF Attach, IInv, TypeOK
  <2>2. k \in 1 .. Len(registry') /\ registry'[k] = registry[k]
    BY <1>4, <2>1
  <2> QED BY <2>2 DEF Entries
<1>5. e \in Entries'
  <2>1. registry' = Append(registry, e) /\ registry \in Seq(Entry)
    BY DEF Attach, IInv, TypeOK
  <2>2. Len(registry') = Len(registry) + 1 /\ registry'[Len(registry) + 1] = e
    BY <2>1
  <2> QED BY <2>1, <2>2 DEF Entries
<1>6. ServiceIsRegistered'
  BY <1>4, <1>5 DEF Attach, IInv, ServiceIsRegistered, Entries
<1> QED BY <1>1, <1>2, <1>3, <1>6 DEF IInv

\* A regular thread goes about its loop without a request in play.
LEMMA ThreadsPreserve ==
  ASSUME IInv, NEW i \in Slots,
         WaitForRequest(i) \/ HandOver(i) \/ SelectDrained(i) \/ Park(i) \/ FinishScript(i)
  PROVE  IInv'
<1>1. TypeOK'
  BY SlotStepTypes DEF IInv, ThreadRuns
<1>2. QueueIsBlocked' /\ ExecutedOnce' /\ CounterIsFinite'
  BY DispatchersIdle DEF WaitForRequest, HandOver, SelectDrained, Park, FinishScript
<1>3. queue' = queue /\ UNCHANGED <<registry, pending>>
  BY DEF WaitForRequest, HandOver, SelectDrained, Park, FinishScript, dispatching
<1>4. \A j \in Slots : threads'[j].at = "parked" => threads[j].at = "parked" \/ queue = <<>>
  <2>1. threads[i] \in Thread /\ threads \in [Slots -> Thread]
    BY DEF IInv, TypeOK
  <2>2. threads'[i].at # "parked" \/ queue = <<>>
    BY <2>1 DEF WaitForRequest, HandOver, SelectDrained, Park, FinishScript, Thread
  <2>3. \A j \in Slots \ {i} : threads'[j] = threads[j]
    BY <2>1 DEF WaitForRequest, HandOver, SelectDrained, Park, FinishScript
  <2> QED BY <2>2, <2>3
<1>5. NobodyIsOvertaken'
  BY <1>3, <1>4 DEF IInv, NobodyIsOvertaken
<1>6. \A j \in Slots : threads'[j].mode = "regular" =>
        threads[j].mode = "regular" /\ threads'[j].inst = threads[j].inst
  <2> threads \in [Slots -> Thread]
    BY DEF IInv, TypeOK
  <2>1. \A j \in Slots \ {i} : threads'[j] = threads[j]
    BY DEF WaitForRequest, HandOver, SelectDrained, Park, FinishScript
  <2>2. threads'[i].mode = "regular" =>
          threads[i].mode = "regular" /\ threads'[i].inst = threads[i].inst
    BY DEF WaitForRequest, HandOver, SelectDrained, Park, FinishScript, Thread
  <2> QED BY <2>1, <2>2
<1>7. ServiceIsRegistered'
  BY <1>3, <1>6, ServiceIdle
<1> QED BY <1>1, <1>2, <1>5, <1>7 DEF IInv

\* detach_regular_thread drops entries of the slot that is stopping, and of no other.
LEMMA DetachPreserves ==
  ASSUME IInv, NEW i \in Slots, Detach(i)
  PROVE  IInv'
<1>1. TypeOK'
  BY SlotStepTypes DEF IInv, ThreadRuns
<1>2. QueueIsBlocked' /\ ExecutedOnce' /\ CounterIsFinite'
  BY DispatchersIdle DEF Detach
<1>3. /\ threads[i].mode = "stopping" /\ threads'[i].mode = "stopping" /\ threads'[i].at = "detached"
      /\ \A j \in Slots \ {i} : threads'[j] = threads[j]
  BY DEF Detach, IInv, TypeOK, Thread
<1>4. NobodyIsOvertaken'
  BY <1>3 DEF Detach, dispatching, IInv, NobodyIsOvertaken
<1>5. ASSUME NEW e \in Entries, e.slot # i PROVE e \in Entries'
  <2>1. PICK k \in 1 .. Len(registry) : registry[k] = e
    BY DEF Entries
  <2>2. \E m \in 1 .. Len(Retained(registry, i)) : Retained(registry, i)[m] = e
    <3>1. registry \in Seq(Entry)
      BY DEF IInv, TypeOK
    <3> QED BY <1>5, <2>1, <3>1, RetainedEntries
  <2> QED BY <2>2 DEF Entries, Detach
<1>6. ServiceIsRegistered'
  <2> SUFFICES ASSUME NEW j \in Slots, threads'[j].mode = "regular"
               PROVE  [slot |-> j, inst |-> threads'[j].inst] \in Entries' \cup pending'
    BY DEF ServiceIsRegistered
  <2>1. j # i /\ threads'[j] = threads[j]
    BY <1>3
  <2>2. [slot |-> j, inst |-> threads[j].inst] \in Entries \cup pending
    BY <2>1 DEF IInv, ServiceIsRegistered
  <2> QED BY <1>5, <2>1, <2>2 DEF Detach
<1> QED BY <1>1, <1>2, <1>4, <1>6 DEF IInv

\* The counted calls change by at most the one that moves.
LEMMA CountedMoves ==
  ASSUME IInv, NEW r \in Requests, NEW label, pc' = [pc EXCEPT ![r] = label]
  PROVE  Counted' = IF label \in {"send", "blocked", "uncount"} THEN Counted \cup {r}
                                                                ELSE Counted \ {r}
BY DEF IInv, TypeOK, Counted

\* A call that moves without crossing an update of the counter leaves it exact.
LEMMA CounterStays ==
  ASSUME IInv, NEW r \in Requests, NEW label, pc' = [pc EXCEPT ![r] = label],
         r \in Counted <=> label \in {"send", "blocked", "uncount"}, queued' = queued
  PROVE  CounterIsFinite'
<1>1. Counted' = IF label \in {"send", "blocked", "uncount"} THEN Counted \cup {r}
                                                              ELSE Counted \ {r}
  BY CountedMoves
<1>2. Counted' = Counted
  BY <1>1
<1> QED BY <1>2 DEF IInv, CounterIsFinite

\* select! takes the oldest blocked sender: it leaves the channel as its call does.
LEMMA SelectSharedPreserves ==
  ASSUME IInv, NEW i \in Slots, SelectShared(i)
  PROVE  IInv'
<1> DEFINE r == Head(queue)
<1>1. TypeOK'
  BY SlotStepTypes DEF IInv, ThreadRuns
<1>2. /\ r \in Requests /\ queue \in Seq(Requests) /\ queue # <<>>
      /\ pc \in [Requests -> {"new", "lock", "scan", "count", "send", "blocked", "uncount",
                              "returned"}]
      /\ pc[r] = "blocked"
      /\ pc' = [pc EXCEPT ![r] = "uncount"] /\ queue' = Tail(queue) /\ queued' = queued
      /\ UNCHANGED <<registry, pending>>
  BY DEF IInv, TypeOK, QueueIsBlocked, SelectShared
<1>3. /\ threads'[i].at = "script"
      /\ \A j \in Slots : threads'[j].mode = threads[j].mode /\ threads'[j].inst = threads[j].inst
      /\ \A j \in Slots \ {i} : threads'[j] = threads[j]
      /\ runs'[r] = runs[r] + 1
      /\ \A q \in Requests \ {r} : runs'[q] = runs[q]
  BY <1>2, ReceiveTypes DEF IInv, SelectShared
<1>4. QueueIsBlocked'
  <2>1. /\ Len(queue') = Len(queue) - 1
        /\ \A k \in 1 .. Len(queue') : queue'[k] = queue[k + 1] /\ k + 1 \in 1 .. Len(queue)
    BY <1>2
  <2>2. \A k \in 1 .. Len(queue') : queue'[k] # r /\ queue'[k] \in Requests
    BY <1>2, <2>1 DEF IInv, QueueIsBlocked
  <2>3. \A k \in 1 .. Len(queue') : pc'[queue'[k]] = "blocked"
    BY <1>2, <2>1, <2>2 DEF IInv, QueueIsBlocked
  <2>4. ASSUME NEW k \in 1 .. Len(queue'), NEW l \in 1 .. Len(queue'), queue'[k] = queue'[l]
        PROVE  k = l
    BY <1>2, <2>1, <2>4 DEF IInv, QueueIsBlocked
  <2> QED BY <2>3, <2>4 DEF QueueIsBlocked
<1>5. NobodyIsOvertaken'
  BY <1>2, <1>3 DEF IInv, NobodyIsOvertaken
<1>6. ExecutedOnce'
  BY <1>2, <1>3 DEF IInv, ExecutedOnce
<1>7. CounterIsFinite'
  BY <1>2, CounterStays DEF Counted
<1>8. ServiceIsRegistered'
  BY <1>2, <1>3, ServiceIdle
<1> QED BY <1>1, <1>4, <1>5, <1>6, <1>7, <1>8 DEF IInv

\* A call that is not blocked, and does not block now, may move about the queue.
LEMMA QueueStays ==
  ASSUME IInv, NEW r \in Requests, NEW label, pc' = [pc EXCEPT ![r] = label],
         pc[r] # "blocked", queue' = queue
  PROVE  QueueIsBlocked'
<1>1. \A k \in 1 .. Len(queue) : queue[k] \in Requests
  BY DEF IInv, TypeOK
<1> QED BY <1>1 DEF IInv, TypeOK, QueueIsBlocked

\* A dispatcher makes its way to the channel and back without delivering anything.
LEMMA MovesPreserve ==
  ASSUME IInv, NEW r \in Requests,
         LoadQueued(r) \/ LockRegistry(r) \/ TrySendFails(r) \/ ScanEnds(r)
  PROVE  IInv'
<1>1. TypeOK'
  BY DispatcherTypes DEF IInv, DispatcherRuns
<1>2. UNCHANGED <<threads, registry, pending, queue, queued, runs>>
  BY DEF LoadQueued, LockRegistry, TrySendFails, ScanEnds
<1>3. PICK label \in {"lock", "scan", "count"} :
        pc' = [pc EXCEPT ![r] = label] /\ pc[r] \in {"new", "lock", "scan"}
  BY DEF LoadQueued, LockRegistry, TrySendFails, ScanEnds, Goto, IInv, TypeOK
<1>4. QueueIsBlocked'
  BY <1>2, <1>3, QueueStays
<1>5. NobodyIsOvertaken' /\ ExecutedOnce'
  BY <1>2, <1>3 DEF IInv, TypeOK, NobodyIsOvertaken, ExecutedOnce
<1>6. CounterIsFinite'
  BY <1>2, <1>3, CounterStays DEF Counted
<1>7. ServiceIsRegistered'
  BY <1>2, ServiceIdle
<1> QED BY <1>1, <1>4, <1>5, <1>6, <1>7 DEF IInv

\* The counter is updated before the blocking send and after it.
LEMMA CountingPreserves ==
  ASSUME IInv, NEW r \in Requests, CountUp(r) \/ CountDown(r)
  PROVE  IInv'
<1>1. TypeOK'
  BY DispatcherTypes DEF IInv, DispatcherRuns
<1>2. UNCHANGED <<threads, registry, pending, queue, runs>>
  BY DEF CountUp, CountDown
<1>3. ServiceIsRegistered'
  BY <1>2, ServiceIdle
<1>4. IsFiniteSet(Counted) /\ queued = Cardinality(Counted)
  BY DEF IInv, CounterIsFinite
<1>5. CASE CountUp(r)
  <2>1. pc[r] = "count" /\ pc' = [pc EXCEPT ![r] = "send"] /\ queued' = queued + 1
    BY <1>5 DEF CountUp, Goto
  <2>2. QueueIsBlocked' /\ NobodyIsOvertaken' /\ ExecutedOnce'
    BY <1>2, <2>1, QueueStays DEF IInv, TypeOK, NobodyIsOvertaken, ExecutedOnce
  <2>3. Counted' = Counted \cup {r} /\ r \notin Counted
    BY <2>1, CountedMoves DEF Counted
  <2>4. CounterIsFinite'
    BY <1>4, <2>1, <2>3, FS_AddElement DEF CounterIsFinite
  <2> QED BY <1>1, <1>3, <2>2, <2>4 DEF IInv
<1>6. CASE CountDown(r)
  <2>1. pc[r] = "uncount" /\ pc' = [pc EXCEPT ![r] = "returned"] /\ queued' = queued - 1
    BY <1>6 DEF CountDown, Goto
  <2>2. QueueIsBlocked' /\ NobodyIsOvertaken' /\ ExecutedOnce'
    BY <1>2, <2>1, QueueStays DEF IInv, TypeOK, NobodyIsOvertaken, ExecutedOnce
  <2>3. Counted' = Counted \ {r} /\ r \in Counted
    BY <2>1, CountedMoves DEF Counted
  <2>4. CounterIsFinite'
    BY <1>4, <2>1, <2>3, FS_RemoveElement DEF CounterIsFinite
  <2> QED BY <1>1, <1>3, <2>2, <2>4 DEF IInv
<1> QED BY <1>5, <1>6

\* A directed or a shared send meets a parked thread.
LEMMA SendsPreserve ==
  ASSUME IInv, NEW r \in Requests,
         TrySendDelivers(r) \/ \E i \in Slots : SendMeets(r, i)
  PROVE  IInv'
<1>1. TypeOK'
  BY DispatcherTypes DEF IInv, DispatcherRuns
<1>2. PICK i \in Slots, label \in {"returned", "uncount"} :
        /\ Receive(i, r)
        /\ pc' = [pc EXCEPT ![r] = label]
        /\ \/ pc[r] = "scan" /\ label = "returned"
           \/ pc[r] = "send" /\ label = "uncount"
  <2>1. CASE TrySendDelivers(r)
    <3>0. registry[pos[r]] \in Entry
      BY <2>1 DEF TrySendDelivers, IInv, TypeOK
    <3>1. registry[pos[r]].slot \in Slots
      BY <3>0 DEF Entry
    <3> QED BY <2>1, <3>1 DEF TrySendDelivers, Goto
  <2>2. ASSUME NEW i \in Slots, SendMeets(r, i)
        PROVE  /\ Receive(i, r) /\ pc[r] = "send"
               /\ pc' = [pc EXCEPT ![r] = "uncount"]
    BY <2>2 DEF SendMeets, Goto
  <2> QED BY <2>1, <2>2
<1>3. UNCHANGED <<registry, pending, queue, queued>>
  BY DEF TrySendDelivers, SendMeets
<1>4. /\ threads'[i].at = "script"
      /\ \A j \in Slots : threads'[j].mode = threads[j].mode /\ threads'[j].inst = threads[j].inst
      /\ \A j \in Slots \ {i} : threads'[j] = threads[j]
      /\ runs'[r] = runs[r] + 1
      /\ \A q \in Requests \ {r} : runs'[q] = runs[q]
  BY <1>2, ReceiveTypes DEF IInv
<1>5. QueueIsBlocked'
  BY <1>2, <1>3, QueueStays
<1>6. NobodyIsOvertaken'
  BY <1>3, <1>4 DEF IInv, NobodyIsOvertaken
<1>7. ExecutedOnce'
  BY <1>2, <1>4 DEF IInv, TypeOK, ExecutedOnce
<1>8. CounterIsFinite'
  BY <1>2, <1>3, CounterStays DEF Counted
<1>9. ServiceIsRegistered'
  BY <1>3, <1>4, ServiceIdle
<1> QED BY <1>1, <1>5, <1>6, <1>7, <1>8, <1>9 DEF IInv

\* The sender joins those that wait, when no thread is parked.
LEMMA SendBlocksPreserves ==
  ASSUME IInv, NEW r \in Requests, SendBlocks(r)
  PROVE  IInv'
<1>1. TypeOK'
  BY DispatcherTypes DEF IInv, DispatcherRuns
<1>2. /\ pc[r] = "send" /\ pc' = [pc EXCEPT ![r] = "blocked"]
      /\ queue' = Append(queue, r) /\ queue \in Seq(Requests)
      /\ UNCHANGED <<threads, registry, pending, queued, runs>>
      /\ \A i \in Slots : threads[i].at # "parked"
  BY DEF SendBlocks, Goto, IInv, TypeOK
<1>3. QueueIsBlocked'
  <2>1. /\ Len(queue') = Len(queue) + 1 /\ queue'[Len(queue) + 1] = r
        /\ \A k \in 1 .. Len(queue) : queue'[k] = queue[k] /\ queue[k] \in Requests
        /\ Len(queue) \in Nat
    BY <1>2
  <2>2. \A k \in 1 .. Len(queue) : queue[k] # r
    BY <1>2 DEF IInv, QueueIsBlocked
  <2>3. \A k \in 1 .. Len(queue') : pc'[queue'[k]] = "blocked"
    BY <1>2, <2>1, <2>2 DEF IInv, TypeOK, QueueIsBlocked
  <2>4. ASSUME NEW k \in 1 .. Len(queue'), NEW l \in 1 .. Len(queue'), queue'[k] = queue'[l]
        PROVE  k = l
    BY <2>1, <2>2, <2>4 DEF IInv, QueueIsBlocked
  <2> QED BY <2>3, <2>4 DEF QueueIsBlocked
<1>4. NobodyIsOvertaken' /\ ExecutedOnce'
  BY <1>2 DEF IInv, TypeOK, NobodyIsOvertaken, ExecutedOnce
<1>5. CounterIsFinite'
  BY <1>2, CounterStays DEF Counted
<1>6. ServiceIsRegistered'
  BY <1>2, ServiceIdle
<1> QED BY <1>1, <1>3, <1>4, <1>5, <1>6 DEF IInv
-------------------------------------------------------------------------------
LEMMA InitHolds == Init => IInv
<1> SUFFICES ASSUME Init PROVE IInv
  OBVIOUS
<1>1. TypeOK
  BY InitTypes
<1>2. QueueIsBlocked /\ NobodyIsOvertaken /\ ExecutedOnce /\ ServiceIsRegistered
  BY DEF Init, QueueIsBlocked, NobodyIsOvertaken, ExecutedOnce, ServiceIsRegistered
<1>3. Counted = {} /\ queued = 0
  BY DEF Init, Counted
<1>4. CounterIsFinite
  BY <1>3, FS_EmptySet DEF CounterIsFinite
<1> QED BY <1>1, <1>2, <1>4 DEF IInv

LEMMA StepHolds == IInv /\ [Next]_vars => IInv'
<1> SUFFICES ASSUME IInv, [Next]_vars PROVE IInv'
  OBVIOUS
<1>1. ASSUME NEW i \in Slots, ConvertToRegular(i) \/ ThreadRuns(i) PROVE IInv'
  BY <1>1, ControllersPreserve, ThreadsPreserve, DetachPreserves, SelectSharedPreserves
     DEF ThreadRuns
<1>2. ASSUME NEW i \in Retirable, Retire(i) PROVE IInv'
  BY <1>2, DispatchAssumption, ControllersPreserve
<1>3. ASSUME NEW e \in Entry, Attach(e) PROVE IInv'
  BY <1>3, AttachPreserves
<1>4. ASSUME NEW r \in Requests, LoadQueued(r) \/ DispatcherRuns(r) PROVE IInv'
  BY <1>4, MovesPreserve, CountingPreserves, SendsPreserve, SendBlocksPreserves
     DEF DispatcherRuns
<1>5. CASE UNCHANGED vars
  <2>1. UNCHANGED <<pc, pos, threads, registry, pending, queue, queued, runs>>
    BY <1>5 DEF vars
  <2>2. TypeOK' /\ QueueIsBlocked' /\ NobodyIsOvertaken' /\ ExecutedOnce'
    BY <2>1 DEF IInv, TypeOK, QueueIsBlocked, NobodyIsOvertaken, ExecutedOnce
  <2>3. CounterIsFinite' /\ ServiceIsRegistered'
    BY <2>1 DEF IInv, CounterIsFinite, Counted, ServiceIsRegistered, Entries
  <2> QED BY <2>2, <2>3 DEF IInv
<1> QED BY <1>1, <1>2, <1>3, <1>4, <1>5 DEF Next

\* The invariant of thread_regular.rs that the theorems below are read off: where every
\* request, every entry of REGULAR_THREADS and every sender of the shared channel is.
THEOREM DispatchInvariant == Spec => []IInv
BY InitHolds, StepHolds, PTL DEF Spec

\* The state of the dispatch keeps its types, and a dispatcher holds a position in
\* REGULAR_THREADS exactly while it scans.
THEOREM DispatchIsTyped == Spec => []TypeOK
<1>1. IInv => TypeOK
  BY DEF IInv
<1> QED BY <1>1, DispatchInvariant, PTL

\* handle_request_with_regular_php_threads never overtakes: nobody waits on the shared
\* channel while a thread is parked, although the counter it goes by may be stale.
THEOREM NoOvertaking == Spec => []NobodyIsOvertaken
<1>1. IInv => NobodyIsOvertaken
  BY DEF IInv
<1> QED BY <1>1, DispatchInvariant, PTL

\* A request reaches one thread and once, by whichever of the three ways it goes: the
\* directed try_send, the rendezvous on the shared channel, the select! of a later thread.
THEOREM SingleDelivery == Spec => []ExecutedOnce
<1>1. IInv => ExecutedOnce
  BY DEF IInv
<1> QED BY <1>1, DispatchInvariant, PTL

\* QUEUED_REGULAR_THREADS is the number of calls between its two updates, and a slot in
\* regular service has its entry in REGULAR_THREADS or on the way there.
THEOREM DispatchBookkeeping == Spec => []BookkeepingIsExact
<1>1. IInv => BookkeepingIsExact
  BY DEF IInv, CounterIsFinite, Counted, BookkeepingIsExact, CounterIsExact
<1> QED BY <1>1, DispatchInvariant, PTL
===============================================================================
