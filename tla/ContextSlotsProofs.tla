-------------------------- MODULE ContextSlotsProofs --------------------------
(***************************************************************************)
(* The table of request contexts and what C borrows from it, for any       *)
(* number of PHP threads and requests and whatever the closures do.  The   *)
(* first half is the lock discipline: no lock is waited for under another  *)
(* one, none is held where PHP can bail out, and growing the table never   *)
(* loses a slot.  The second half is what each place of php_thread knows:  *)
(* on every path, bailouts included, a pointer in SG(request_info) is into *)
(* the context its thread has installed, and nothing of a request outlives *)
(* it.                                                                     *)
(***************************************************************************)
EXTENDS ContextSlots, SequenceTheorems, TLAPS

Context == [request : Nat, plain : BOOLEAN, done : BOOLEAN, batch : BOOLEAN]
SlotType == [holder : Actors \cup {Nobody}, ctx : Seq(Context)]
CallPlaces == {"out", "lookup", "reading", "grow", "growing", "lock", "closure"}
Operations == {"none", "set", "info", "cookies", "collect", "callback", "close", "clear"}
CallType == [op : Operations, at : CallPlaces, slot : Nat]

Typed ==
  /\ slots \in Seq(SlotType) /\ table \in Seq(Nat)
  /\ readers \in SUBSET Actors /\ writer \in Actors \cup {Nobody}
  /\ held \in [Actors -> BOOLEAN]
  /\ call \in [Actors -> CallType]

\* The table has grown by as many slots as were made, in their order.
TableIsDense ==
  /\ Len(table) = Len(slots)
  /\ \A i \in 1..Len(table) : table[i] = i

\* The thread-local flag is set exactly during a table call.
GuardIsExact == \A a \in Actors : held[a] <=> call[a].at # "out"

\* A lock is held only at the place of a call that took it.
TableLockMatches ==
  /\ \A a \in Actors : a \in readers => call[a].at = "reading"
  /\ \A a \in Actors : writer = a => call[a].at = "growing"

SlotLocksMatch ==
  \A s \in 1..Len(slots), a \in Actors :
    slots[s].holder = a => call[a].at = "closure" /\ call[a].slot = s

\* A call has its slot once it has looked it up, and it is the slot of its index.
CloneIsOwn ==
  \A a \in Actors :
    IF call[a].at \in {"lock", "closure"}
    THEN call[a].slot = Index(a) + 1 /\ Index(a) + 1 <= Len(slots)
    ELSE call[a].slot = 0

TableInv == Typed /\ TableIsDense /\ GuardIsExact /\ TableLockMatches /\ SlotLocksMatch /\ CloneIsOwn

Numbered == taken \in Nat /\ current \in [Threads -> Nat]

IInv == TableInv /\ Numbered
-------------------------------------------------------------------------------
\* Every actor has an index, and none is the absence of one.
LEMMA IndexIsNatural ==
  ASSUME NEW a \in Actors
  PROVE  Index(a) \in Nat /\ a # Nobody
BY SlotsAssumption DEF Actors, Index, Main, Nobody

\* A step within a call changes that call's place and slot and no other call.
LEMMA AtSets ==
  ASSUME call \in [Actors -> CallType], NEW a \in Actors, NEW from,
         NEW to \in CallPlaces, NEW slot \in Nat, At(a, from, to, slot)
  PROVE  /\ call' \in [Actors -> CallType]
         /\ call[a].at = from /\ call'[a].at = to /\ call'[a].slot = slot
         /\ \A b \in Actors \ {a} : call'[b] = call[b]
BY DEF At, CallType

\* A function on 1..n is a sequence of length n: the slots and entries Grow appends.
LEMMA FunctionIsSeq ==
  ASSUME NEW S, NEW n \in Nat, NEW f \in [1..n -> S]
  PROVE  f \in Seq(S) /\ Len(f) = n
<1>1. f \in Seq(S)
  BY SeqDef
<1>2. DOMAIN f = 1..Len(f) /\ DOMAIN f = 1..n /\ Len(f) \in Nat
  BY <1>1, LenProperties
<1> QED BY <1>1, <1>2

\* set, clear, with_context and with_context_mut begin: a call inside a closure aborts.
LEMMA AcquireKeeps ==
  ASSUME TableInv, NEW a \in Actors, NEW op \in Operations, Acquire(a, op),
         UNCHANGED <<table, slots, readers, writer>>
  PROVE  TableInv'
<1>1. CASE held[a]
  BY <1>1 DEF Acquire, TableInv, Typed, TableIsDense, GuardIsExact, TableLockMatches, SlotLocksMatch, CloneIsOwn, Index
<1>2. CASE ~held[a]
  <2> DEFINE new == [op |-> op, at |-> "lookup", slot |-> 0]
  <2>1. call[a].at = "out" /\ held' = [held EXCEPT ![a] = TRUE] /\ call' = [call EXCEPT ![a] = new]
    BY <1>2 DEF Acquire, TableInv, GuardIsExact
  <2>2. new \in CallType
    BY DEF CallType, CallPlaces
  <2>3. call' \in [Actors -> CallType] /\ held' \in [Actors -> BOOLEAN]
    BY <2>1, <2>2 DEF TableInv, Typed
  <2>4. /\ call'[a].at = "lookup" /\ call'[a].slot = 0
        /\ \A b \in Actors \ {a} : call'[b] = call[b]
    BY <2>1 DEF TableInv, Typed
  <2>5. Typed' /\ TableIsDense' /\ GuardIsExact'
    BY <2>1, <2>3, <2>4 DEF TableInv, Typed, TableIsDense, GuardIsExact
  <2>6. TableLockMatches' /\ SlotLocksMatch' /\ CloneIsOwn'
    <3>1. TableLockMatches'
      BY <2>1, <2>4 DEF TableInv, Typed, TableLockMatches
    <3>2. SlotLocksMatch'
      BY <2>1, <2>4 DEF TableInv, SlotLocksMatch
    <3>3. CloneIsOwn'
      BY <2>1, <2>4 DEF TableInv, Typed, CloneIsOwn, Index
    <3> QED BY <3>1, <3>2, <3>3
  <2> QED BY <2>5, <2>6 DEF TableInv
<1> QED BY <1>1, <1>2

\* The closure is given what the slot holds.
LEMMA FoundIsContext ==
  ASSUME TableInv, NEW a \in Actors, call[a].at = "closure"
  PROVE  /\ Found(a) \in Seq(Context)
         /\ Found(a) # None => Found(a)[1] \in Context
<1>1. call[a].slot \in 1..Len(slots)
  BY IndexIsNatural DEF TableInv, CloneIsOwn, Typed
<1>2. slots[call[a].slot] \in SlotType
  BY <1>1 DEF TableInv, Typed
<1>3. Found(a) \in Seq(Context)
  BY <1>2 DEF Found, SlotType
<1>4. Found(a) # None => Len(Found(a)) >= 1
  BY <1>3 DEF None
<1> QED BY <1>3, <1>4

\* The closure returns: both guards drop.
LEMMA ReturnKeeps ==
  ASSUME TableInv, NEW a \in Actors, NEW op, NEW ctx \in Seq(Context), Return(a, op, ctx)
  PROVE  TableInv'
<1> DEFINE s == call[a].slot
<1>1. s \in 1..Len(slots) /\ call[a].at = "closure"
  BY IndexIsNatural DEF TableInv, CloneIsOwn, Typed, Return
<1>2. slots' \in Seq(SlotType) /\ Len(slots') = Len(slots)
  BY <1>1 DEF Return, TableInv, Typed, SlotType, Nobody
<1>3. /\ call' \in [Actors -> CallType] /\ held' \in [Actors -> BOOLEAN]
      /\ call'[a].at = "out" /\ call'[a].slot = 0
      /\ \A b \in Actors \ {a} : call'[b] = call[b]
  <2>1. NoCall \in CallType
    BY DEF NoCall, CallType, CallPlaces, Operations
  <2> QED BY <2>1 DEF Return, TableInv, Typed, NoCall
<1>4. Typed' /\ TableIsDense' /\ GuardIsExact'
  BY <1>2, <1>3 DEF Return, TableInv, Typed, TableIsDense, GuardIsExact
<1>5. TableLockMatches' /\ SlotLocksMatch'
  <2>1. TableLockMatches'
    BY <1>1, <1>2, <1>3, IndexIsNatural DEF Return, TableInv, Typed, TableLockMatches
  <2>2. slots'[s].holder = Nobody /\ \A k \in 1..Len(slots) : k # s => slots'[k] = slots[k]
    BY <1>1 DEF Return, TableInv, Typed
  <2>3. SlotLocksMatch'
    <3> SUFFICES ASSUME NEW k \in 1..Len(slots), NEW b \in Actors, slots'[k].holder = b
                 PROVE  call'[b].at = "closure" /\ call'[b].slot = k
      BY <1>2 DEF SlotLocksMatch
    <3>1. k # s
      BY <2>2, IndexIsNatural
    <3>2. slots[k].holder = b
      BY <2>2, <3>1
    <3>3. call[b].at = "closure" /\ call[b].slot = k
      BY <3>2 DEF TableInv, SlotLocksMatch
    <3>4. b # a
      BY <3>1, <3>3
    <3> QED BY <1>3, <3>3, <3>4
  <2> QED BY <2>1, <2>3
<1>6. CloneIsOwn'
  BY <1>2, <1>3 DEF Return, TableInv, Typed, CloneIsOwn, Index
<1> QED BY <1>4, <1>5, <1>6 DEF TableInv

\* The steps of slot() and the slot's own lock.
LEMMA TableStepKeeps ==
  ASSUME TableInv, NEW a \in Actors, TableStep(a)
  PROVE  TableInv'
<1>1. CASE ReadLock(a)
  <2>0. /\ call' \in [Actors -> CallType]
        /\ call[a].at = "lookup" /\ call'[a].at = "reading" /\ call'[a].slot = 0
        /\ \A b \in Actors \ {a} : call'[b] = call[b]
    <3>1. "reading" \in CallPlaces /\ 0 \in Nat /\ call \in [Actors -> CallType]
      BY DEF CallPlaces, TableInv, Typed, CallType
    <3> QED BY <1>1, <3>1, AtSets DEF ReadLock
  <2>1. Typed' /\ TableIsDense' /\ GuardIsExact'
    BY <1>1, <2>0 DEF ReadLock, TableInv, Typed, TableIsDense, GuardIsExact
  <2>2. TableLockMatches' /\ SlotLocksMatch' /\ CloneIsOwn'
    <3>1. TableLockMatches'
      BY <1>1, <2>0 DEF ReadLock, TableInv, Typed, TableLockMatches
    <3>2. SlotLocksMatch'
      BY <1>1, <2>0 DEF ReadLock, TableInv, SlotLocksMatch
    <3>3. CloneIsOwn'
      BY <1>1, <2>0 DEF ReadLock, TableInv, Typed, CloneIsOwn, Index
    <3> QED BY <3>1, <3>2, <3>3
  <2> QED BY <2>1, <2>2 DEF TableInv
<1>2. CASE LookUp(a)
  <2>1. PICK to \in {"lock", "grow"}, slot \in Nat :
           /\ At(a, "reading", to, slot)
           /\ IF to = "lock" THEN slot = Index(a) + 1 /\ Index(a) + 1 <= Len(slots) ELSE slot = 0
    BY <1>2, IndexIsNatural DEF LookUp, TableInv, TableIsDense, Typed
  <2>2. /\ call' \in [Actors -> CallType]
        /\ call[a].at = "reading" /\ call'[a].at = to /\ call'[a].slot = slot
        /\ \A b \in Actors \ {a} : call'[b] = call[b]
    <3>1. to \in CallPlaces /\ call \in [Actors -> CallType]
      BY DEF CallPlaces, TableInv, Typed
    <3> QED BY <2>1, <3>1, AtSets
  <2>3. Typed' /\ TableIsDense' /\ GuardIsExact'
    BY <1>2, <2>2 DEF LookUp, TableInv, Typed, TableIsDense, GuardIsExact
  <2>4. TableLockMatches' /\ SlotLocksMatch'
    <3>1. TableLockMatches'
      BY <1>2, <2>2 DEF LookUp, TableInv, Typed, TableLockMatches
    <3>2. SlotLocksMatch'
      BY <1>2, <2>2 DEF LookUp, TableInv, SlotLocksMatch
    <3> QED BY <3>1, <3>2
  <2>5. CloneIsOwn'
    BY <1>2, <2>1, <2>2 DEF LookUp, TableInv, Typed, CloneIsOwn, Index
  <2> QED BY <2>3, <2>4, <2>5 DEF TableInv
<1>3. CASE WriteLock(a)
  <2>0. /\ call' \in [Actors -> CallType]
        /\ call[a].at = "grow" /\ call'[a].at = "growing" /\ call'[a].slot = 0
        /\ \A b \in Actors \ {a} : call'[b] = call[b]
    <3>1. "growing" \in CallPlaces /\ 0 \in Nat /\ call \in [Actors -> CallType]
      BY DEF CallPlaces, TableInv, Typed, CallType
    <3> QED BY <1>3, <3>1, AtSets DEF WriteLock
  <2>1. Typed' /\ TableIsDense' /\ GuardIsExact'
    BY <1>3, <2>0 DEF WriteLock, TableInv, Typed, TableIsDense, GuardIsExact
  <2>2. TableLockMatches' /\ SlotLocksMatch' /\ CloneIsOwn'
    <3>1. TableLockMatches'
      BY <1>3, <2>0 DEF WriteLock, TableInv, Typed, TableLockMatches
    <3>2. SlotLocksMatch'
      BY <1>3, <2>0 DEF WriteLock, TableInv, SlotLocksMatch
    <3>3. CloneIsOwn'
      BY <1>3, <2>0 DEF WriteLock, TableInv, Typed, CloneIsOwn, Index
    <3> QED BY <3>1, <3>2, <3>3
  <2> QED BY <2>1, <2>2 DEF TableInv
<1>4. CASE Grow(a)
  <2> DEFINE n == IF Index(a) < Len(table) THEN 0 ELSE Index(a) + 1 - Len(table)
             newEntries == [k \in 1..n |-> Len(slots) + k]
             newSlots == [k \in 1..n |-> NewSlot]
  <2>1. n \in Nat /\ Missing(Index(a)) = 1..n /\ Index(a) + 1 <= Len(table) + n
    BY IndexIsNatural DEF TableInv, Typed, Missing
  <2>2. newEntries \in Seq(Nat) /\ Len(newEntries) = n
    <3>1. newEntries \in [1..n -> Nat]
      BY <2>1 DEF TableInv, Typed
    <3> QED BY <2>1, <3>1, FunctionIsSeq
  <2>3. newSlots \in Seq(SlotType) /\ Len(newSlots) = n
    <3>1. newSlots \in [1..n -> SlotType]
      BY <2>1 DEF SlotType, NewSlot, None
    <3> QED BY <2>1, <3>1, FunctionIsSeq
  <2>4. table' = table \o newEntries /\ slots' = slots \o newSlots
    BY <1>4, <2>1 DEF Grow
  <2>5. /\ table' \in Seq(Nat) /\ Len(table') = Len(table) + n
        /\ \A i \in 1..(Len(table) + n) :
             table'[i] = IF i <= Len(table) THEN table[i] ELSE Len(slots) + (i - Len(table))
    <3> HIDE DEF n
    <3>1. \A i \in 1..(Len(table) + n) : i > Len(table) => i - Len(table) \in 1..n
      BY <2>1 DEF TableInv, Typed
    <3> QED BY <2>1, <2>2, <2>4, <3>1, ConcatProperties DEF TableInv, Typed
  <2>6. /\ slots' \in Seq(SlotType) /\ Len(slots') = Len(slots) + n
        /\ \A i \in 1..(Len(slots) + n) :
             slots'[i] = IF i <= Len(slots) THEN slots[i] ELSE NewSlot
    <3> HIDE DEF n
    <3>1. \A i \in 1..(Len(slots) + n) : i > Len(slots) => i - Len(slots) \in 1..n
      BY <2>1 DEF TableInv, Typed
    <3> QED BY <2>1, <2>3, <2>4, <3>1, ConcatProperties DEF TableInv, Typed
  <2> HIDE DEF n, newEntries, newSlots
  <2>7. TableIsDense'
    BY <2>1, <2>5, <2>6, LenProperties DEF TableInv, TableIsDense, Typed
  <2>8. At(a, "growing", "lock", Index(a) + 1)
    <3>1. Index(a) + 1 \in 1..Len(table') /\ table'[Index(a) + 1] = Index(a) + 1
      BY <2>1, <2>5, <2>7, IndexIsNatural, LenProperties DEF TableIsDense, TableInv, Typed
    <3> QED BY <1>4, <3>1 DEF Grow
  <2>9. /\ call' \in [Actors -> CallType]
        /\ call[a].at = "growing" /\ call'[a].at = "lock" /\ call'[a].slot = Index(a) + 1
        /\ \A b \in Actors \ {a} : call'[b] = call[b]
    <3>1. "lock" \in CallPlaces /\ Index(a) + 1 \in Nat /\ call \in [Actors -> CallType]
      BY IndexIsNatural DEF CallPlaces, TableInv, Typed
    <3> QED BY <2>8, <3>1, AtSets
  <2>10. Typed' /\ GuardIsExact'
    BY <1>4, <2>5, <2>6, <2>9 DEF Grow, TableInv, Typed, GuardIsExact
  <2>11. TableLockMatches' /\ SlotLocksMatch'
    <3>1. \A s \in 1..(Len(slots) + n), b \in Actors :
            slots'[s].holder = b => s \in 1..Len(slots) /\ slots[s].holder = b
      BY <2>1, <2>6, IndexIsNatural, LenProperties DEF NewSlot, TableInv, Typed
    <3>2. TableLockMatches'
      BY <1>4, <2>9, IndexIsNatural DEF Grow, TableInv, Typed, TableLockMatches
    <3>3. SlotLocksMatch'
      BY <2>6, <2>9, <3>1 DEF TableInv, SlotLocksMatch
    <3> QED BY <3>2, <3>3
  <2>12. CloneIsOwn'
    BY <1>4, <2>1, <2>6, <2>9, IndexIsNatural, LenProperties
    DEF TableInv, Typed, TableIsDense, CloneIsOwn, Index
  <2> QED BY <2>7, <2>10, <2>11, <2>12 DEF TableInv
<1>5. CASE LockSlot(a)
  <2> DEFINE s == call[a].slot
  <2>1. s \in 1..Len(slots) /\ call[a].at = "lock"
    BY <1>5, IndexIsNatural DEF LockSlot, At, TableInv, CloneIsOwn, Typed
  <2>2. slots' \in Seq(SlotType) /\ Len(slots') = Len(slots)
    <3>1. slots[s] \in SlotType
      BY <2>1 DEF TableInv, Typed
    <3>2. [slots[s] EXCEPT !.holder = a] \in SlotType
      BY <3>1 DEF SlotType
    <3>3. slots' = [slots EXCEPT ![s] = [slots[s] EXCEPT !.holder = a]]
      BY <1>5, <2>1 DEF LockSlot, TableInv, Typed
    <3> QED BY <2>1, <3>2, <3>3, ExceptSeq DEF TableInv, Typed
  <2>3. /\ call' \in [Actors -> CallType]
        /\ call[a].at = "lock" /\ call'[a].at = "closure" /\ call'[a].slot = s
        /\ \A b \in Actors \ {a} : call'[b] = call[b]
    <3>1. "closure" \in CallPlaces /\ s \in Nat /\ call \in [Actors -> CallType]
      BY DEF CallPlaces, TableInv, Typed, CallType
    <3> QED BY <1>5, <2>1, <3>1, AtSets DEF LockSlot
  <2>4. Typed' /\ TableIsDense' /\ GuardIsExact'
    BY <1>5, <2>2, <2>3 DEF LockSlot, TableInv, Typed, TableIsDense, GuardIsExact
  <2>5. TableLockMatches' /\ SlotLocksMatch'
    <3>1. \A k \in 1..Len(slots) : k # s => slots'[k] = slots[k]
      BY <1>5, <2>1 DEF LockSlot, TableInv, Typed
    <3>2. slots[s].holder = Nobody /\ slots'[s].holder = a
      BY <1>5, <2>1 DEF LockSlot, TableInv, Typed, SlotType
    <3>3. TableLockMatches'
      BY <1>5, <2>3 DEF LockSlot, TableInv, TableLockMatches
    <3>4. SlotLocksMatch'
      BY <2>1, <2>2, <2>3, <3>1, <3>2 DEF TableInv, SlotLocksMatch
    <3> QED BY <3>3, <3>4
  <2>6. CloneIsOwn'
    BY <1>5, <2>2, <2>3 DEF LockSlot, TableInv, Typed, CloneIsOwn, Index
  <2> QED BY <2>4, <2>5, <2>6 DEF TableInv
<1> QED BY <1>1, <1>2, <1>3, <1>4, <1>5 DEF TableStep

\* Steps of C that do not enter the table.
LEMMA UntouchedKeeps ==
  ASSUME TableInv, UNCHANGED <<tableVars, call>>
  PROVE  TableInv'
BY DEF tableVars, TableInv, Typed, TableIsDense, GuardIsExact, TableLockMatches, SlotLocksMatch, CloneIsOwn, Index

\* The PHP threads and the main one are what enters the table.
LEMMA ThreadsAreActors == Threads \subseteq Actors /\ Main \in Actors
BY SlotsAssumption DEF Threads, Actors, Main

\* An empty table, before the first callback.
LEMMA InitHolds == Init => IInv
<1> SUFFICES ASSUME Init PROVE IInv
  OBVIOUS
<1>1. NoCall \in CallType /\ NoCall.at = "out" /\ NoCall.slot = 0
  BY DEF NoCall, CallType, CallPlaces, Operations
<1>2. slots = <<>> /\ Len(slots) = 0 /\ slots \in Seq(SlotType)
  BY DEF Init
<1>3. table = <<>> /\ Len(table) = 0 /\ table \in Seq(Nat)
  BY DEF Init
<1>4. Typed
  BY <1>1, <1>2, <1>3 DEF Init, Typed
<1>5. TableIsDense /\ GuardIsExact /\ CloneIsOwn
  BY <1>1, <1>2, <1>3 DEF Init, TableIsDense, GuardIsExact, CloneIsOwn
<1>6. TableLockMatches /\ SlotLocksMatch
  BY <1>2, IndexIsNatural DEF Init, TableLockMatches, SlotLocksMatch
<1>7. Numbered
  BY DEF Init, Numbered, Null
<1> QED BY <1>4, <1>5, <1>6, <1>7 DEF IInv, TableInv

\* Where a closure puts a context in the slot, or leaves the one it found.
LEMMA ClosureKeeps ==
  ASSUME IInv, NEW t \in Threads, ThreadStep(t)
  PROVE  TableInv'
<1> USE ThreadsAreActors DEF IInv
<1>1. ASSUME NEW plain \in BOOLEAN, SetContext(t, plain) PROVE TableInv'
  <2>1. <<NewContext(current[t], plain)>> \in Seq(Context)
    BY DEF NewContext, Context, Numbered
  <2> QED BY <1>1, <2>1, ReturnKeeps DEF SetContext
<1>2. CASE UpdateRequestInfo(t)
  BY <1>2, FoundIsContext, ReturnKeeps DEF UpdateRequestInfo, Return
<1>3. ASSUME NEW some \in BOOLEAN, ReadCookies(t, some) PROVE TableInv'
  BY <1>3, FoundIsContext, ReturnKeeps DEF ReadCookies, Return
<1>4. CASE CollectServerVars(t)
  <2> DEFINE ctx == IF Found(t) = None THEN None ELSE <<[Found(t)[1] EXCEPT !.batch = TRUE]>>
  <2>1. Return(t, "collect", ctx) /\ call[t].at = "closure"
    BY <1>4 DEF CollectServerVars, Return
  <2>2. ctx \in Seq(Context)
    <3>1. Found(t) # None => [Found(t)[1] EXCEPT !.batch = TRUE] \in Context
      BY <2>1, FoundIsContext DEF Context
    <3> QED BY <3>1 DEF None
  <2> QED BY <2>1, <2>2, ReturnKeeps
<1>5. CASE CloseContext(t)
  <2>1. call[t].at = "closure"
    BY <1>5 DEF CloseContext
  <2>2. CASE Return(t, "close", Found(t))
    BY <2>1, <2>2, FoundIsContext, ReturnKeeps
  <2>3. CASE Found(t) # None /\ Return(t, "close", <<[Found(t)[1] EXCEPT !.done = TRUE]>>)
    <3>1. [Found(t)[1] EXCEPT !.done = TRUE] \in Context
      BY <2>1, <2>3, FoundIsContext DEF Context
    <3>2. <<[Found(t)[1] EXCEPT !.done = TRUE]>> \in Seq(Context)
      BY <3>1
    <3> QED BY <2>3, <3>2, ReturnKeeps
  <2> QED BY <1>5, <2>2, <2>3 DEF CloseContext
<1>6. CASE ClearContext(t)
  <2>1. None \in Seq(Context)
    BY DEF None
  <2> QED BY <1>6, <2>1, ReturnKeeps DEF ClearContext
<1>7. CASE \/ PublishScriptPath(t) \/ RegisterServerVars(t) \/ EndShutdown(t)
           \/ FreeRequestContext(t) \/ ReleaseScriptPath(t)
  BY <1>7, UntouchedKeeps
  DEF PublishScriptPath, RegisterServerVars, EndShutdown, FreeRequestContext, ReleaseScriptPath
<1> QED BY <1>1, <1>2, <1>3, <1>4, <1>5, <1>6, <1>7 DEF ThreadStep

\* Every place of a thread enters the table with one of the operations.
LEMMA CallsKeep ==
  ASSUME TableInv, NEW t \in Threads, Calls(t)
  PROVE  TableInv'
<1>1. PICK op \in Operations :
        /\ Acquire(t, op)
        /\ UNCHANGED <<table, slots, readers, writer>>
  BY DEF Calls, Take, Enter, Operations
<1> QED BY <1>1, AcquireKeeps, ThreadsAreActors

\* Requests are numbered at the dequeue and forgotten at the release.
LEMMA NumbersHold ==
  ASSUME Numbered, [Next]_vars
  PROVE  Numbered'
<1>1. CASE UNCHANGED <<taken, current>>
  BY <1>1 DEF Numbered
<1>2. ASSUME NEW t \in Threads, Take(t) PROVE Numbered'
  BY <1>2 DEF Take, Numbered
<1>3. ASSUME NEW t \in Threads, ReleaseScriptPath(t) PROVE Numbered'
  BY <1>3 DEF ReleaseScriptPath, Numbered, Null
<1>4. UNCHANGED <<taken, current>> \/ \E t \in Threads : Take(t) \/ ReleaseScriptPath(t)
  <2>1. CASE UNCHANGED vars
    BY <2>1 DEF vars, phpVars
  <2>2. ASSUME NEW a \in Actors, TableStep(a) \/ Callback(a) \/ Reenter(a)
        PROVE  UNCHANGED <<taken, current>>
    BY <2>2 DEF TableStep, ReadLock, LookUp, WriteLock, Grow, LockSlot, Callback, Reenter, phpVars
  <2>3. ASSUME NEW t \in Threads, Calls(t)
        PROVE  Take(t) \/ UNCHANGED <<taken, current>>
    BY <2>3 DEF Calls, Enter, phpVars
  <2>4. ASSUME NEW t \in Threads, ThreadStep(t)
        PROVE  ReleaseScriptPath(t) \/ UNCHANGED <<taken, current>>
    BY <2>4 DEF ThreadStep, SetContext, PublishScriptPath, UpdateRequestInfo, ReadCookies,
                CollectServerVars, RegisterServerVars, CloseContext, EndShutdown,
                FreeRequestContext, ClearContext, phpVars
  <2>5. ASSUME NEW t \in Threads, EndScript(t) \/ Bailout(t) \/ Stop(t)
        PROVE  UNCHANGED <<taken, current>>
    BY <2>5 DEF EndScript, Bailout, Stop, phpVars
  <2>6. CASE MainCallback \/ StartThreads
    BY <2>6 DEF MainCallback, Enter, StartThreads, phpVars
  <2> QED BY <2>1, <2>2, <2>3, <2>4, <2>5, <2>6 DEF Next
<1> QED BY <1>1, <1>2, <1>3, <1>4

\* The invariant is inductive.
LEMMA StepHolds == IInv /\ [Next]_vars => IInv'
<1> SUFFICES ASSUME IInv, [Next]_vars PROVE IInv'
  OBVIOUS
<1>1. Numbered'
  BY NumbersHold DEF IInv
<1>2. TableInv'
  <2>0. TableInv
    BY DEF IInv
  <2>1. CASE UNCHANGED vars
    BY <2>0, <2>1, UntouchedKeeps DEF vars
  <2>2. ASSUME NEW a \in Actors, TableStep(a) PROVE TableInv'
    BY <2>0, <2>2, TableStepKeeps
  <2>3. ASSUME NEW a \in Actors, Callback(a) PROVE TableInv'
    BY <2>0, <2>3, FoundIsContext, ReturnKeeps DEF Callback, Return
  <2>4. ASSUME NEW a \in Actors, Reenter(a) PROVE TableInv'
    BY <2>0, <2>4, AcquireKeeps DEF Reenter, Operations
  <2>5. ASSUME NEW t \in Threads, Calls(t) PROVE TableInv'
    BY <2>0, <2>5, CallsKeep
  <2>6. ASSUME NEW t \in Threads, ThreadStep(t) PROVE TableInv'
    BY <2>6, ClosureKeeps
  <2>7. ASSUME NEW t \in Threads, EndScript(t) \/ Bailout(t) \/ Stop(t) PROVE TableInv'
    BY <2>0, <2>7, UntouchedKeeps DEF EndScript, Bailout, Stop
  <2>8. CASE MainCallback
    BY <2>0, <2>8, AcquireKeeps, ThreadsAreActors DEF MainCallback, Enter, Operations
  <2>9. CASE StartThreads
    BY <2>0, <2>9, UntouchedKeeps DEF StartThreads
  <2> QED BY <2>1, <2>2, <2>3, <2>4, <2>5, <2>6, <2>7, <2>8, <2>9 DEF Next
<1> QED BY <1>1, <1>2 DEF IInv
-------------------------------------------------------------------------------
\* Of the table as context.rs builds and locks it: the guard, the locks, the slots and the
\* calls in progress always match.
THEOREM ContextSlotsInvariant == Spec => []IInv
BY InitHolds, StepHolds, PTL DEF Spec

\* Rule 2 of context.rs keeps itself: whatever a closure does, nobody waits for a lock of
\* the table with one in hand, so threads cannot wait for each other in a circle.
THEOREM LocksAreNotNested == Spec => []NoHoldAndWait
<1>1. IInv => NoHoldAndWait
  <2> SUFFICES ASSUME IInv, NEW a \in Actors, call[a].at \in {"lookup", "grow", "lock"}
               PROVE  /\ \A s \in DOMAIN slots : slots[s].holder # a
                      /\ a \notin readers /\ writer # a
    BY DEF NoHoldAndWait
  <2>1. DOMAIN slots = 1..Len(slots)
    BY LenProperties DEF IInv, TableInv, Typed
  <2>2. \A s \in DOMAIN slots : slots[s].holder # a
    BY <2>1 DEF IInv, TableInv, SlotLocksMatch
  <2>3. a \notin readers /\ writer # a
    BY DEF IInv, TableInv, TableLockMatches
  <2> QED BY <2>2, <2>3
<1> QED BY <1>1, ContextSlotsInvariant, PTL

\* Rule 1: where PHP runs and may bail out (a longjmp over Rust frames), the thread has no
\* slot locked and the guard of context.rs is not set.
THEOREM BailoutsLeakNoLock == Spec => []NoLockAcrossPhp
<1>1. IInv => NoLockAcrossPhp
  <2> SUFFICES ASSUME IInv, NEW t \in Threads, call[t].at = "out"
               PROVE  ~held[t] /\ \A s \in DOMAIN slots : slots[s].holder # t
    BY DEF NoLockAcrossPhp
  <2>1. DOMAIN slots = 1..Len(slots)
    BY LenProperties DEF IInv, TableInv, Typed
  <2>2. ~held[t]
    BY ThreadsAreActors DEF IInv, TableInv, GuardIsExact
  <2>3. \A s \in DOMAIN slots : slots[s].holder # t
    BY <2>1, ThreadsAreActors DEF IInv, TableInv, SlotLocksMatch
  <2> QED BY <2>2, <2>3
<1> QED BY <1>1, ContextSlotsInvariant, PTL

\* ContextSlots::slot never loses or doubles a slot, however many threads find the table
\* too short at once: the slot a call has cloned stays the table's slot of its index.
THEOREM GrowthLosesNoSlot == Spec => []SlotIsShared
<1>1. IInv => SlotIsShared
  <2> SUFFICES ASSUME IInv PROVE SlotIsShared
    OBVIOUS
  <2>1. DOMAIN table = 1..Len(table) /\ Len(table) \in Nat
    BY LenProperties DEF IInv, TableInv, Typed
  <2>2. ASSUME NEW a \in Actors, call[a].slot # 0
        PROVE  table[Index(a) + 1] = call[a].slot
    BY <2>1, <2>2, IndexIsNatural DEF IInv, TableInv, TableIsDense, CloneIsOwn
  <2>3. ASSUME NEW i \in DOMAIN table, NEW j \in DOMAIN table, table[i] = table[j]
        PROVE  i = j
    BY <2>1, <2>3 DEF IInv, TableInv, TableIsDense
  <2> QED BY <2>2, <2>3 DEF SlotIsShared
<1> QED BY <1>1, ContextSlotsInvariant, PTL

\* The rules context.rs states for its table hold together, for any number of threads.
THEOREM TableRulesHold == Spec => []LockDiscipline
<1>1. NoHoldAndWait /\ NoLockAcrossPhp /\ SlotIsShared => LockDiscipline
  BY DEF LockDiscipline
<1> QED BY <1>1, LocksAreNotNested, BailoutsLeakNoLock, GrowthLosesNoSlot, PTL
-------------------------------------------------------------------------------
(* What C borrows *)

\* The context in the slot of an index.
Ctx(i) == IF i < Len(slots) THEN slots[i + 1].ctx ELSE None

Away == {"unborn", "idle", "stopped"}
Borrowing == {"info", "cookies", "collect", "register", "script", "shutdown", "free"}
ThreadPlaces == Places \ {"boot"}
Borrow == [script : Int, request_method : Int, query_string : Int, content_type : Int,
           cookie_data : Int, batch : Int]

\* A call in progress is the one of the thread's place.
CallFits(t) ==
  call[t].at # "out" =>
    \/ pc[t] = "install" /\ call[t].op = "set"
    \/ pc[t] \in {"info", "cookies", "collect", "close", "clear"} /\ call[t].op = pc[t]
    \/ pc[t] \in {"script", "shutdown"} /\ call[t].op = "callback"
    \/ pc[t] = "script" /\ call[t].op = "close"

\* The request, its context and the script path, by place.
Holding(t) ==
  /\ IF pc[t] \in Away THEN current[t] = Null ELSE current[t] \in 1..taken
  /\ IF pc[t] \in Away \cup {"install", "release"} THEN Ctx(t) = None
     ELSE Ctx(t) # None /\ Ctx(t)[1].request = current[t]
          /\ (Ctx(t)[1].done => current[t] \in signalled)
  /\ pc[t] \in {"clear", "release"} => current[t] \in signalled
  /\ pinned[t] = IF pc[t] \in Away \cup {"install", "publish"} THEN Null ELSE current[t]

\* What C has in hand, by place.
Borrowed(t) ==
  /\ pc[t] \notin Borrowing => sapi[t] = NoBorrow
  /\ sapi[t].request_method \in {Null, Static, current[t]}
  /\ {sapi[t].query_string, sapi[t].content_type, sapi[t].script, sapi[t].cookie_data,
       sapi[t].batch} \subseteq {Null, current[t]}
  /\ sapi[t].batch # Null => pc[t] = "register" /\ Ctx(t)[1].batch
  /\ current[t] # Null => (current[t] \in cookies <=> sapi[t].cookie_data = current[t])

ThreadInv(t) == CallFits(t) /\ Holding(t) /\ Borrowed(t)

\* The main thread calls before the threads are born, or after they have all stopped.
MainInv ==
  /\ pc[Main] \in {"boot", "script"}
  /\ pc[Main] = "boot" => \A t \in Threads : pc[t] = "unborn"
  /\ call[Main].at # "out" =>
       /\ call[Main].op = "callback"
       /\ pc[Main] = "boot" \/ \A t \in Threads : pc[t] = "stopped"

\* A request is taken by one thread, and what it leaves behind is its signal.
Requested ==
  /\ taken \in 0..MaxRequests
  /\ cookies \subseteq 1..taken /\ signalled \subseteq 1..taken
  /\ \A t, u \in Threads : current[t] = current[u] /\ current[t] # Null => t = u
  /\ \A r \in 1..taken :
       (\A t \in Threads : current[t] # r) => r \in signalled /\ r \notin cookies

StateTyped ==
  /\ pc \in [Actors -> Places] /\ \A t \in Threads : pc[t] \in ThreadPlaces
  /\ pinned \in [Threads -> Int] /\ sapi \in [Threads -> Borrow]
  /\ Len(slots) <= NumThreads

BInv == StateTyped /\ MainInv /\ Requested /\ \A t \in Threads : ThreadInv(t)
-------------------------------------------------------------------------------
(* What the table's steps do to the contexts *)

\* A PHP thread's index is its own, and the main thread shares that of thread 0.
LEMMA IndexOf ==
  /\ \A t \in Threads : t \in Nat /\ t < NumThreads /\ Index(t) = t /\ t # Main /\ t \in Actors
  /\ Index(Main) = 0 /\ Main \in Actors /\ 0 \in Threads
  /\ \A a \in Actors : a = Main \/ a \in Threads
  /\ \A a \in Actors : Index(a) \in Nat /\ Index(a) < NumThreads
BY SlotsAssumption DEF Threads, Main, Actors, Index

\* A closure leaves its context in the slot of its index, and touches no other slot.
LEMMA ReturnEffect ==
  ASSUME TableInv, NEW a \in Actors, NEW op, NEW ctx \in Seq(Context), Return(a, op, ctx)
  PROVE  /\ Len(slots') = Len(slots) /\ Found(a) = Ctx(Index(a)) /\ Ctx(Index(a))' = ctx
         /\ \A i \in Nat : i # Index(a) => Ctx(i)' = Ctx(i)
         /\ call'[a].at = "out" /\ call[a].at = "closure" /\ call[a].op = op
         /\ \A b \in Actors \ {a} : call'[b] = call[b]
<1> DEFINE s == call[a].slot
           new == [holder |-> Nobody, ctx |-> ctx]
<1>1. /\ s \in 1..Len(slots) /\ s = Index(a) + 1 /\ Index(a) \in Nat /\ Len(slots) \in Nat
      /\ call[a].at = "closure" /\ call[a].op = op
  BY IndexIsNatural, LenProperties DEF TableInv, CloneIsOwn, Typed, Return
<1>2. slots \in Seq(SlotType) /\ new \in SlotType /\ slots' = [slots EXCEPT ![s] = new]
  BY <1>1 DEF Return, TableInv, Typed, SlotType, Nobody
<1>3. Len(slots') = Len(slots) /\ slots'[s] = new /\ \A k \in 1..Len(slots) : k # s => slots'[k] = slots[k]
  <2> HIDE DEF new, s
  <2> QED BY <1>1, <1>2
<1>4. new.ctx = ctx
  OBVIOUS
<1>5. Ctx(Index(a))' = ctx /\ Found(a) = Ctx(Index(a))
  BY <1>1, <1>3, <1>4 DEF Ctx, Found, Index
<1>6. ASSUME NEW i \in Nat, i # Index(a)
      PROVE  Ctx(i)' = Ctx(i)
  <2>1. i < Len(slots) => i + 1 \in 1..Len(slots) /\ i + 1 # s
    BY <1>1, <1>6
  <2> QED BY <1>1, <1>3, <2>1 DEF Ctx
<1>7. call'[a].at = "out" /\ \A b \in Actors \ {a} : call'[b] = call[b]
  BY DEF Return, TableInv, Typed, NoCall
<1> QED BY <1>1, <1>3, <1>5, <1>6, <1>7

\* Looking up, locking and growing leave every context where it is.
LEMMA TableStepEffect ==
  ASSUME TableInv, Len(slots) <= NumThreads, NEW a \in Actors, TableStep(a)
  PROVE  /\ Len(slots') <= NumThreads
         /\ \A i \in Nat : Ctx(i)' = Ctx(i)
         /\ \A b \in Actors : call'[b].op = call[b].op /\ (call'[b].at = "out" <=> call[b].at = "out")
<1>0. Len(slots) \in Nat /\ Len(table) = Len(slots) /\ slots \in Seq(SlotType)
  BY LenProperties DEF TableInv, TableIsDense, Typed
<1>1. \A b \in Actors : call'[b].op = call[b].op /\ (call'[b].at = "out" <=> call[b].at = "out")
  <2>1. PICK slot : \E from, to \in CallPlaces \ {"out"} : At(a, from, to, slot)
    BY DEF TableStep, ReadLock, LookUp, WriteLock, Grow, LockSlot, CallPlaces
  <2>2. call[a] \in CallType /\ call \in [Actors -> CallType]
    BY DEF TableInv, Typed
  <2> QED BY <2>1, <2>2 DEF At, CallType
<1>2. CASE ReadLock(a) \/ LookUp(a) \/ WriteLock(a)
  BY <1>1, <1>2 DEF ReadLock, LookUp, WriteLock, Ctx
<1>3. CASE LockSlot(a)
  <2> DEFINE s == call[a].slot
             new == [slots[s] EXCEPT !.holder = a]
  <2>1. s \in 1..Len(slots)
    BY <1>3, IndexIsNatural DEF LockSlot, At, TableInv, CloneIsOwn, Typed
  <2>2. slots[s] \in SlotType
    BY <1>0, <2>1
  <2>3. new.ctx = slots[s].ctx
    BY <2>2 DEF SlotType
  <2>4. slots' = [slots EXCEPT ![s] = new]
    BY <1>0, <1>3, <2>1 DEF LockSlot
  <2> HIDE DEF new, s
  <2>5. Len(slots') = Len(slots) /\ \A k \in 1..Len(slots) : slots'[k].ctx = slots[k].ctx
    BY <1>0, <2>1, <2>3, <2>4
  <2>6. \A i \in Nat : i < Len(slots) => i + 1 \in 1..Len(slots)
    BY <1>0
  <2> QED BY <1>0, <1>1, <2>5, <2>6 DEF Ctx
<1>4. CASE Grow(a)
  <2> DEFINE n == IF Index(a) < Len(table) THEN 0 ELSE Index(a) + 1 - Len(table)
             newSlots == [k \in 1..n |-> NewSlot]
  <2>1. n \in Nat /\ Missing(Index(a)) = 1..n /\ Len(slots) + n <= NumThreads
    BY <1>0, IndexOf, SlotsAssumption DEF Missing
  <2>2. newSlots \in Seq(SlotType) /\ Len(newSlots) = n
    <3>1. newSlots \in [1..n -> SlotType]
      BY <2>1 DEF SlotType, NewSlot, None
    <3> QED BY <2>1, <3>1, FunctionIsSeq
  <2>3. slots' = slots \o newSlots
    BY <1>4, <2>1 DEF Grow
  <2> HIDE DEF n
  <2>4. /\ Len(slots') = Len(slots) + n
        /\ \A i \in 1..(Len(slots) + n) : slots'[i] = IF i <= Len(slots) THEN slots[i] ELSE NewSlot
    <3>1. \A i \in 1..(Len(slots) + n) : i > Len(slots) => i - Len(slots) \in 1..n
      BY <1>0, <2>1
    <3> QED BY <1>0, <2>1, <2>2, <2>3, <3>1, ConcatProperties
  <2>5. NewSlot.ctx = None
    BY DEF NewSlot
  <2>6. ASSUME NEW i \in Nat PROVE Ctx(i)' = Ctx(i)
    <3>1. i < Len(slots) + n <=> i + 1 \in 1..(Len(slots) + n)
      BY <1>0, <2>1
    <3> QED BY <1>0, <2>1, <2>4, <2>5, <3>1 DEF Ctx
  <2> QED BY <1>1, <2>1, <2>4, <2>6
<1> QED BY <1>2, <1>3, <1>4 DEF TableStep

\* A call begins, or a closure that makes one aborts the process.
LEMMA AcquireEffect ==
  ASSUME TableInv, NEW a \in Actors, NEW op \in Operations, Acquire(a, op)
  PROVE  /\ \A b \in Actors \ {a} : call'[b] = call[b]
         /\ call'[a] = call[a] \/ (call[a].at = "out" /\ call'[a].op = op)
BY DEF Acquire, TableInv, Typed, GuardIsExact
-------------------------------------------------------------------------------
(* What the others see of a step *)

\* A thread whose own state a step leaves alone.
LEMMA Frame ==
  ASSUME NEW u \in Threads, ThreadInv(u), pc'[u] = pc[u],
         call'[u].at # "out" => call[u].at # "out" /\ call'[u].op = call[u].op,
         current'[u] = current[u], pinned'[u] = pinned[u], sapi'[u] = sapi[u], Ctx(u)' = Ctx(u),
         1..taken \subseteq 1..taken', signalled \subseteq signalled',
         current[u] # Null => (current[u] \in cookies' <=> current[u] \in cookies)
  PROVE  ThreadInv(u)'
<1>1. CallFits(u)'
  BY DEF ThreadInv, CallFits
<1>2. Holding(u)'
  BY DEF ThreadInv, Holding
<1>3. Borrowed(u)'
  BY DEF ThreadInv, Borrowed
<1> QED BY <1>1, <1>2, <1>3 DEF ThreadInv

\* A step that serves a request moves one thread, between the start and the stop of all.
LEMMA OneThreadMoves ==
  ASSUME BInv, NEW t \in Threads, pc[t] \notin {"unborn", "stopped"},
         NEW place \in ThreadPlaces, pc' = [pc EXCEPT ![t] = place],
         \A b \in Actors \ {t} : call'[b] = call[b],
         Len(slots') <= NumThreads,
         \A u \in Threads \ {t} :
           /\ Ctx(u)' = Ctx(u) /\ current'[u] = current[u]
           /\ pinned'[u] = pinned[u] /\ sapi'[u] = sapi[u]
           /\ current[u] # Null => (current[u] \in cookies' <=> current[u] \in cookies),
         1..taken \subseteq 1..taken', signalled \subseteq signalled',
         pinned' \in [Threads -> Int], sapi' \in [Threads -> Borrow],
         Requested', ThreadInv(t)'
  PROVE  BInv'
<1>1. /\ pc' \in [Actors -> Places] /\ pc'[t] = place /\ \A b \in Actors \ {t} : pc'[b] = pc[b]
  BY IndexOf DEF BInv, StateTyped, ThreadPlaces
<1>2. StateTyped'
  BY <1>1, IndexOf DEF BInv, StateTyped
<1>3. MainInv'
  <2>1. Main \in Actors \ {t} /\ pc'[Main] = pc[Main] /\ call'[Main] = call[Main]
    BY <1>1, IndexOf
  <2> QED BY <2>1 DEF BInv, MainInv
<1>4. \A u \in Threads \ {t} : ThreadInv(u)'
  BY <1>1, IndexOf, Frame DEF BInv
<1> QED BY <1>2, <1>3, <1>4 DEF BInv

\* Steps within calls touch nothing that belongs to a request.
LEMMA NothingMoves ==
  ASSUME BInv, UNCHANGED <<pc, phpVars>>, Len(slots') <= NumThreads,
         \A t \in Threads :
           /\ Ctx(t)' = Ctx(t)
           /\ call'[t].at # "out" => call[t].at # "out" /\ call'[t].op = call[t].op,
         call'[Main].at # "out" => call[Main].at # "out" /\ call'[Main].op = call[Main].op
  PROVE  BInv'
<1>1. StateTyped' /\ Requested' /\ MainInv'
  BY DEF BInv, StateTyped, Requested, MainInv, phpVars
<1>2. \A t \in Threads : ThreadInv(t)'
  BY Frame DEF BInv, phpVars
<1> QED BY <1>1, <1>2 DEF BInv

\* The same requests as before: their cookies and signals may change.
LEMMA RequestsStay ==
  ASSUME BInv, UNCHANGED <<taken, current>>, signalled \subseteq signalled',
         signalled' \subseteq 1..taken, cookies' \subseteq 1..taken,
         \A r \in cookies' : r \in cookies \/ \E t \in Threads : current[t] = r
  PROVE  Requested'
BY DEF BInv, Requested

\* Fields of SG(request_info) are set one thread at a time.
LEMMA SapiSet ==
  ASSUME sapi \in [Threads -> Borrow], NEW t \in Threads, NEW new \in Borrow,
         sapi' = [sapi EXCEPT ![t] = new]
  PROVE  /\ sapi' \in [Threads -> Borrow] /\ sapi'[t] = new
         /\ \A u \in Threads \ {t} : sapi'[u] = sapi[u]
OBVIOUS

\* A thread that serves a request, and what its place says of it.
LEMMA ServingFacts ==
  ASSUME BInv, NEW t \in Threads
  PROVE  /\ CallFits(t) /\ Holding(t) /\ Borrowed(t) /\ taken \in Nat
         /\ pc[t] \in ThreadPlaces /\ sapi[t] \in Borrow /\ pinned[t] \in Int
         /\ sapi \in [Threads -> Borrow] /\ pinned \in [Threads -> Int]
         /\ cookies \subseteq 1..taken /\ signalled \subseteq 1..taken
         /\ \A u \in Threads \ {t} : current[u] # Null => current[u] # current[t]
         /\ Len(slots) <= NumThreads
<1>1. taken \in Nat
  BY SlotsAssumption DEF BInv, Requested
<1> QED BY <1>1 DEF BInv, ThreadInv, StateTyped, Requested
-------------------------------------------------------------------------------
(* The table's steps, and the calls *)

LEMMA TableStepKeepsBorrows ==
  ASSUME TableInv, BInv, NEW a \in Actors, TableStep(a)
  PROVE  BInv'
<1>1. UNCHANGED <<pc, phpVars>>
  BY DEF TableStep, ReadLock, LookUp, WriteLock, Grow, LockSlot
<1>2. Len(slots) <= NumThreads
  BY DEF BInv, StateTyped
<1>3. /\ Len(slots') <= NumThreads /\ \A i \in Nat : Ctx(i)' = Ctx(i)
      /\ \A b \in Actors : call'[b].op = call[b].op /\ (call'[b].at = "out" <=> call[b].at = "out")
  BY <1>2, TableStepEffect
<1> QED BY <1>1, <1>3, IndexOf, NothingMoves

\* A callback finds the context of its thread and leaves it.
LEMMA CallbackKeepsBorrows ==
  ASSUME TableInv, BInv, NEW a \in Actors, Callback(a)
  PROVE  BInv'
<1>1. Return(a, "callback", Found(a)) /\ UNCHANGED <<pc, phpVars>>
  BY DEF Callback
<1>2. Found(a) \in Seq(Context)
  BY <1>1, FoundIsContext DEF Return
<1>3. /\ Len(slots') = Len(slots) /\ Found(a) = Ctx(Index(a)) /\ Ctx(Index(a))' = Found(a)
      /\ \A i \in Nat : i # Index(a) => Ctx(i)' = Ctx(i)
      /\ call'[a].at = "out" /\ \A b \in Actors \ {a} : call'[b] = call[b]
  BY <1>1, <1>2, ReturnEffect
<1>4. \A t \in Threads : Ctx(t)' = Ctx(t)
  BY <1>3, IndexOf
<1>5. Len(slots') <= NumThreads
  BY <1>3 DEF BInv, StateTyped
<1>6. \A b \in Actors : call'[b].at # "out" => call[b].at # "out" /\ call'[b].op = call[b].op
  BY <1>3
<1> QED BY <1>1, <1>4, <1>5, <1>6, IndexOf, NothingMoves

\* A closure that enters the table again only aborts.
LEMMA ReenterKeepsBorrows ==
  ASSUME TableInv, BInv, NEW a \in Actors, Reenter(a)
  PROVE  BInv'
<1>1. UNCHANGED <<slots, call, pc, phpVars>>
  BY DEF Reenter, Acquire, TableInv, GuardIsExact
<1>2. Len(slots') <= NumThreads /\ \A t \in Threads : Ctx(t)' = Ctx(t)
  BY <1>1 DEF Ctx, BInv, StateTyped
<1> QED BY <1>1, <1>2, NothingMoves

\* A thread enters the table with the call of its place.
LEMMA EnterKeepsBorrows ==
  ASSUME TableInv, BInv, NEW t \in Threads, NEW op \in Operations, Enter(t, op),
         \/ pc[t] \in {"info", "cookies", "collect", "close", "clear"} /\ op = pc[t]
         \/ pc[t] \in {"script", "shutdown"} /\ op = "callback"
         \/ pc[t] = "script" /\ op = "close"
  PROVE  BInv'
<1>1. UNCHANGED <<slots, pc, phpVars>> /\ Acquire(t, op)
  BY DEF Enter
<1>2. /\ \A b \in Actors \ {t} : call'[b] = call[b]
      /\ call'[t] = call[t] \/ (call[t].at = "out" /\ call'[t].op = op)
  BY <1>1, IndexOf, AcquireEffect
<1>3. \A i \in Nat : Ctx(i)' = Ctx(i)
  BY <1>1 DEF Ctx
<1>4. StateTyped' /\ Requested'
  BY <1>1 DEF BInv, StateTyped, Requested, phpVars
<1>5. MainInv'
  BY <1>1, <1>2, IndexOf DEF BInv, MainInv
<1>6. \A u \in Threads \ {t} : ThreadInv(u)'
  BY <1>1, <1>2, <1>3, IndexOf, Frame DEF BInv, phpVars
<1>7. ThreadInv(t)'
  <2>1. CallFits(t)'
    BY <1>1, <1>2 DEF BInv, ThreadInv, CallFits
  <2>2. Holding(t)' /\ Borrowed(t)'
    BY <1>1, <1>3, IndexOf DEF BInv, ThreadInv, Holding, Borrowed, phpVars
  <2> QED BY <2>1, <2>2 DEF ThreadInv
<1> QED BY <1>4, <1>5, <1>6, <1>7 DEF BInv

\* The handler dequeues a request that no thread has had before.
LEMMA TakeKeepsBorrows ==
  ASSUME TableInv, BInv, Numbered, NEW t \in Threads, Take(t)
  PROVE  BInv'
<1>1. /\ taken < MaxRequests /\ pc[t] = "idle" /\ pc' = [pc EXCEPT ![t] = "install"]
      /\ call[t].at = "out" /\ Acquire(t, "set") /\ taken' = taken + 1
      /\ current' = [current EXCEPT ![t] = taken + 1]
      /\ UNCHANGED <<slots, pinned, sapi, cookies, signalled>>
  BY DEF Take, Goto
<1>2. /\ CallFits(t) /\ Holding(t) /\ Borrowed(t) /\ taken \in Nat
      /\ cookies \subseteq 1..taken /\ signalled \subseteq 1..taken
      /\ sapi \in [Threads -> Borrow] /\ pinned \in [Threads -> Int] /\ Len(slots) <= NumThreads
  BY ServingFacts
<1>3. /\ current'[t] = taken + 1 /\ \A u \in Threads \ {t} : current'[u] = current[u]
      /\ \A u \in Threads : current[u] \in 0..taken
  <2>1. \A u \in Threads : current[u] \in 0..taken
    BY <1>2 DEF BInv, ThreadInv, Holding, Null
  <2> QED BY <1>1, <2>1 DEF Numbered
<1>4. /\ \A b \in Actors \ {t} : call'[b] = call[b]
      /\ call'[t] = call[t] \/ call'[t].op = "set"
  BY <1>1, IndexOf, AcquireEffect DEF Operations
<1>5. \A i \in Nat : Ctx(i)' = Ctx(i)
  BY <1>1 DEF Ctx
<1>6. Requested'
  <2>1. taken' \in 0..MaxRequests
    BY <1>1, <1>2, SlotsAssumption
  <2>2. cookies' \subseteq 1..taken' /\ signalled' \subseteq 1..taken'
    BY <1>1, <1>2
  <2>3. \A u, v \in Threads : current'[u] = current'[v] /\ current'[u] # Null => u = v
    BY <1>2, <1>3 DEF BInv, Requested
  <2>4. ASSUME NEW r \in 1..taken', \A u \in Threads : current'[u] # r
        PROVE  r \in signalled' /\ r \notin cookies'
    <3>1. r \in 1..taken
      BY <1>1, <1>2, <1>3, <2>4
    <3>2. \A u \in Threads : current[u] # r
      BY <1>1, <1>2, <1>3, <2>4, <3>1 DEF Holding, Away, Null
    <3> QED BY <1>1, <3>1, <3>2 DEF BInv, Requested
  <2> QED BY <2>1, <2>2, <2>3, <2>4 DEF Requested
<1>7. ThreadInv(t)'
  <2>1. pc'[t] = "install"
    BY <1>1, IndexOf DEF BInv, StateTyped
  <2>2. CallFits(t)'
    BY <1>1, <1>4, <2>1 DEF CallFits
  <2>3. Ctx(t)' = None /\ pinned'[t] = Null /\ sapi'[t] = NoBorrow
    BY <1>1, <1>2, <1>5, IndexOf DEF Holding, Borrowed, Away, Borrowing
  <2>4. Holding(t)'
    BY <1>1, <1>2, <1>3, <2>1, <2>3 DEF Holding, Away
  <2>5. taken + 1 \notin cookies
    BY <1>2
  <2>6. Borrowed(t)'
    BY <1>1, <1>2, <1>3, <2>1, <2>3, <2>5 DEF Borrowed, Borrowing, NoBorrow, Null
  <2> QED BY <2>2, <2>4, <2>6 DEF ThreadInv
<1>8. "install" \in ThreadPlaces
  BY DEF ThreadPlaces, Places
<1>9. 1..taken \subseteq 1..taken'
  BY <1>1, <1>2
<1> QED BY <1>1, <1>2, <1>3, <1>4, <1>5, <1>6, <1>7, <1>8, <1>9, IndexOf, OneThreadMoves

LEMMA CallsKeepBorrows ==
  ASSUME TableInv, BInv, Numbered, NEW t \in Threads, Calls(t)
  PROVE  BInv'
<1> USE DEF Operations
<1>1. CASE Take(t)
  BY <1>1, TakeKeepsBorrows
<1>2. CASE ~Take(t)
  BY <1>2, EnterKeepsBorrows DEF Calls
<1> QED BY <1>1, <1>2

\* Module startup and shutdown of the main thread.
LEMMA MainKeepsBorrows ==
  ASSUME TableInv, BInv, MainCallback \/ StartThreads
  PROVE  BInv'
<1>1. CASE MainCallback
  <2>1. /\ UNCHANGED <<slots, pc, phpVars>> /\ Acquire(Main, "callback")
        /\ pc[Main] = "boot" \/ \A t \in Threads : pc[t] = "stopped"
    BY <1>1 DEF MainCallback, Enter
  <2>2. /\ \A b \in Actors \ {Main} : call'[b] = call[b]
        /\ call'[Main] = call[Main] \/ call'[Main].op = "callback"
    BY <2>1, IndexOf, AcquireEffect DEF Operations
  <2>3. \A i \in Nat : Ctx(i)' = Ctx(i)
    BY <2>1 DEF Ctx
  <2>4. StateTyped' /\ Requested'
    BY <2>1 DEF BInv, StateTyped, Requested, phpVars
  <2>5. MainInv'
    BY <2>1, <2>2 DEF BInv, MainInv
  <2>6. \A u \in Threads : ThreadInv(u)'
    BY <2>1, <2>2, <2>3, IndexOf, Frame DEF BInv, phpVars
  <2> QED BY <2>4, <2>5, <2>6 DEF BInv
<1>2. CASE StartThreads
  <2>1. /\ pc[Main] = "boot" /\ call[Main].at = "out" /\ UNCHANGED <<slots, call, phpVars>>
        /\ pc' = [a \in Actors |-> IF a = Main THEN "script" ELSE "idle"]
    BY <1>2 DEF StartThreads, tableVars
  <2>2. pc'[Main] = "script" /\ \A t \in Threads : pc[t] = "unborn" /\ pc'[t] = "idle"
    BY <2>1, IndexOf DEF BInv, MainInv
  <2>3. StateTyped' /\ Requested'
    BY <2>1, <2>2 DEF BInv, StateTyped, Requested, phpVars, ThreadPlaces, Places
  <2>4. MainInv'
    BY <2>1, <2>2 DEF MainInv
  <2>5. ASSUME NEW t \in Threads PROVE ThreadInv(t)'
    <3>1. Ctx(t)' = Ctx(t) /\ pc[t] = "unborn" /\ pc'[t] = "idle" /\ ThreadInv(t)
      BY <2>1, <2>2 DEF Ctx, BInv
    <3>2. CallFits(t)'
      BY <2>1, <3>1 DEF ThreadInv, CallFits
    <3>3. Holding(t)' /\ Borrowed(t)'
      BY <2>1, <3>1 DEF ThreadInv, Holding, Borrowed, Away, Borrowing, phpVars
    <3> QED BY <3>2, <3>3 DEF ThreadInv
  <2> QED BY <2>3, <2>4, <2>5 DEF BInv
<1> QED BY <1>1, <1>2
-------------------------------------------------------------------------------
(* The steps of a PHP thread outside the table *)

\* A thread moves on without entering the table and without changing what it holds.
LEMMA EndsKeepBorrows ==
  ASSUME BInv, NEW t \in Threads, EndScript(t) \/ EndShutdown(t) \/ Stop(t)
  PROVE  BInv'
<1>1. PICK place \in ThreadPlaces :
        /\ pc' = [pc EXCEPT ![t] = place] /\ call[t].at = "out"
        /\ UNCHANGED <<slots, call, taken, current, pinned, sapi, cookies, signalled>>
        /\ \/ pc[t] \in {"script", "shutdown"} /\ place \in {"shutdown", "free"}
           \/ pc[t] = "idle" /\ place = "stopped"
  BY DEF EndScript, EndShutdown, Stop, Goto, tableVars, phpVars, ThreadPlaces, Places
<1>2. /\ CallFits(t) /\ Holding(t) /\ Borrowed(t) /\ Len(slots) <= NumThreads
      /\ sapi \in [Threads -> Borrow] /\ pinned \in [Threads -> Int]
  BY ServingFacts
<1>3. \A u \in Threads : Ctx(u)' = Ctx(u)
  BY <1>1 DEF Ctx
<1>4. Requested'
  BY <1>1 DEF BInv, Requested
<1>5. ThreadInv(t)'
  <2>1. pc'[t] = place
    BY <1>1, IndexOf DEF BInv, StateTyped
  <2>2. CallFits(t)'
    BY <1>1 DEF CallFits
  <2>3. Holding(t)'
    BY <1>1, <1>2, <1>3, <2>1 DEF Holding, Away
  <2>4. Borrowed(t)'
    BY <1>1, <1>2, <1>3, <2>1 DEF Borrowed, Borrowing
  <2> QED BY <2>2, <2>3, <2>4 DEF ThreadInv
<1> QED BY <1>1, <1>2, <1>3, <1>4, <1>5, OneThreadMoves

LEMMA PublishKeepsBorrows ==
  ASSUME BInv, NEW t \in Threads, PublishScriptPath(t)
  PROVE  BInv'
<1> DEFINE new == [sapi[t] EXCEPT !.script = current[t]]
<1>1. /\ pc[t] = "publish" /\ pc' = [pc EXCEPT ![t] = "info"] /\ call[t].at = "out"
      /\ pinned' = [pinned EXCEPT ![t] = current[t]] /\ sapi' = [sapi EXCEPT ![t].script = current[t]]
      /\ UNCHANGED <<slots, call, taken, current, cookies, signalled>>
  BY DEF PublishScriptPath, Goto, tableVars
<1>2. /\ Holding(t) /\ Borrowed(t) /\ Len(slots) <= NumThreads /\ sapi[t] \in Borrow
      /\ sapi \in [Threads -> Borrow] /\ pinned \in [Threads -> Int] /\ taken \in Nat
  BY ServingFacts
<1>3. current[t] \in 1..taken /\ current[t] \in Int
  BY <1>1, <1>2 DEF Holding, Away
<1>4. /\ new \in Borrow /\ new.script = current[t]
      /\ new.request_method = sapi[t].request_method /\ new.query_string = sapi[t].query_string
      /\ new.content_type = sapi[t].content_type /\ new.cookie_data = sapi[t].cookie_data
      /\ new.batch = sapi[t].batch
  BY <1>2, <1>3 DEF Borrow
<1>5. sapi' = [sapi EXCEPT ![t] = new]
  BY <1>1, <1>2
<1> HIDE DEF new
<1>6. /\ sapi' \in [Threads -> Borrow] /\ sapi'[t] = new
      /\ \A u \in Threads \ {t} : sapi'[u] = sapi[u]
  BY <1>2, <1>4, <1>5, SapiSet
<1>7. /\ pinned' \in [Threads -> Int] /\ pinned'[t] = current[t]
      /\ \A u \in Threads \ {t} : pinned'[u] = pinned[u]
  BY <1>1, <1>2, <1>3
<1>8. \A u \in Threads : Ctx(u)' = Ctx(u)
  BY <1>1 DEF Ctx
<1>9. Requested'
  BY <1>1 DEF BInv, Requested
<1>10. ThreadInv(t)'
  <2>1. pc'[t] = "info"
    BY <1>1, IndexOf DEF BInv, StateTyped
  <2>2. CallFits(t)'
    BY <1>1 DEF CallFits
  <2>3. Holding(t)'
    BY <1>1, <1>2, <1>7, <1>8, <2>1 DEF Holding, Away
  <2>4. Borrowed(t)'
    BY <1>1, <1>2, <1>4, <1>6, <1>8, <2>1 DEF Borrowed, Borrowing
  <2> QED BY <2>2, <2>3, <2>4 DEF ThreadInv
<1>11. "info" \in ThreadPlaces
  BY DEF ThreadPlaces, Places
<1> QED BY <1>1, <1>2, <1>6, <1>7, <1>8, <1>9, <1>10, <1>11, OneThreadMoves

\* The batch is let go of when C has walked it, and by a bailout, which loses C's locals.
LEMMA LetGoKeepsBorrows ==
  ASSUME BInv, NEW t \in Threads, RegisterServerVars(t) \/ Bailout(t)
  PROVE  BInv'
<1>1. PICK place \in {"script", "shutdown"}, s \in {Null, sapi[t].script} :
        /\ pc[t] \in {"cookies", "collect", "register", "script"}
        /\ pc' = [pc EXCEPT ![t] = place] /\ call[t].at = "out"
        /\ sapi' = [sapi EXCEPT ![t] = [sapi[t] EXCEPT !.batch = Null, !.script = s]]
        /\ UNCHANGED <<slots, call, taken, current, pinned, cookies, signalled>>
  <2>1. sapi \in [Threads -> Borrow] /\ sapi[t] \in Borrow
    BY ServingFacts
  <2>2. CASE Bailout(t)
    BY <2>1, <2>2 DEF Bailout, tableVars
  <2>3. CASE RegisterServerVars(t)
    <3>1. [sapi[t] EXCEPT !.batch = Null] = [sapi[t] EXCEPT !.batch = Null, !.script = sapi[t].script]
      BY <2>1 DEF Borrow
    <3>2. sapi' = [sapi EXCEPT ![t] = [sapi[t] EXCEPT !.batch = Null]]
      BY <2>1, <2>3 DEF RegisterServerVars
    <3> QED BY <2>3, <3>1, <3>2 DEF RegisterServerVars, Goto, tableVars
  <2> QED BY <2>2, <2>3
<1> DEFINE new == [sapi[t] EXCEPT !.batch = Null, !.script = s]
<1>2. /\ Holding(t) /\ Borrowed(t) /\ Len(slots) <= NumThreads /\ sapi[t] \in Borrow
      /\ sapi \in [Threads -> Borrow] /\ pinned \in [Threads -> Int]
  BY ServingFacts
<1>3. /\ new \in Borrow /\ new.script = s /\ new.batch = Null
      /\ new.request_method = sapi[t].request_method /\ new.query_string = sapi[t].query_string
      /\ new.content_type = sapi[t].content_type /\ new.cookie_data = sapi[t].cookie_data
  <2>1. s \in Int /\ Null \in Int
    BY <1>2 DEF Borrow, Null
  <2> QED BY <1>2, <2>1 DEF Borrow
<1> HIDE DEF new
<1>4. /\ sapi' \in [Threads -> Borrow] /\ sapi'[t] = new
      /\ \A u \in Threads \ {t} : sapi'[u] = sapi[u]
  <2>1. sapi' = [sapi EXCEPT ![t] = new]
    BY <1>1 DEF new
  <2> QED BY <1>2, <1>3, <2>1, SapiSet
<1>5. \A u \in Threads : Ctx(u)' = Ctx(u)
  BY <1>1 DEF Ctx
<1>6. Requested'
  BY <1>1 DEF BInv, Requested
<1>7. ThreadInv(t)'
  <2>1. pc'[t] = place
    BY <1>1, IndexOf DEF BInv, StateTyped
  <2>2. CallFits(t)'
    BY <1>1 DEF CallFits
  <2>3. Holding(t)'
    BY <1>1, <1>2, <1>5, <2>1 DEF Holding, Away
  <2>4. Borrowed(t)'
    BY <1>1, <1>2, <1>3, <1>4, <2>1 DEF Borrowed, Borrowing
  <2> QED BY <2>2, <2>3, <2>4 DEF ThreadInv
<1>8. place \in ThreadPlaces
  BY DEF ThreadPlaces, Places
<1> QED BY <1>1, <1>2, <1>4, <1>5, <1>6, <1>7, <1>8, OneThreadMoves

\* frankenphp_free_request_context frees the cookie of this request and of no other.
LEMMA FreeKeepsBorrows ==
  ASSUME BInv, NEW t \in Threads, FreeRequestContext(t)
  PROVE  BInv'
<1>1. /\ pc[t] = "free" /\ pc' = [pc EXCEPT ![t] = "close"] /\ call[t].at = "out"
      /\ cookies' = cookies \ {sapi[t].cookie_data} /\ sapi' = [sapi EXCEPT ![t] = NoBorrow]
      /\ UNCHANGED <<slots, call, taken, current, pinned, signalled>>
  BY DEF FreeRequestContext, Goto, tableVars
<1>2. /\ Holding(t) /\ Borrowed(t) /\ Len(slots) <= NumThreads /\ taken \in Nat
      /\ sapi \in [Threads -> Borrow] /\ pinned \in [Threads -> Int]
      /\ cookies \subseteq 1..taken /\ signalled \subseteq 1..taken
      /\ \A u \in Threads \ {t} : current[u] # Null => current[u] # current[t]
  BY ServingFacts
<1>3. NoBorrow \in Borrow
  BY DEF NoBorrow, Borrow, Null
<1>4. /\ sapi' \in [Threads -> Borrow] /\ sapi'[t] = NoBorrow
      /\ \A u \in Threads \ {t} : sapi'[u] = sapi[u]
  BY <1>1, <1>2, <1>3, SapiSet
<1>5. \A u \in Threads : Ctx(u)' = Ctx(u)
  BY <1>1 DEF Ctx
<1>6. Requested'
  BY <1>1, <1>2, RequestsStay
<1>7. sapi[t].cookie_data \in {Null, current[t]} /\ current[t] # Null
  BY <1>1, <1>2 DEF Borrowed, Holding, Away, Null
<1>8. ThreadInv(t)'
  <2>1. pc'[t] = "close"
    BY <1>1, IndexOf DEF BInv, StateTyped
  <2>2. CallFits(t)'
    BY <1>1 DEF CallFits
  <2>3. Holding(t)'
    BY <1>1, <1>2, <1>5, <2>1 DEF Holding, Away
  <2>4. current[t] \notin cookies'
    BY <1>1, <1>2, <1>7 DEF Borrowed
  <2>5. Borrowed(t)'
    BY <1>1, <1>4, <1>7, <2>1, <2>4 DEF Borrowed, Borrowing, NoBorrow
  <2> QED BY <2>2, <2>3, <2>5 DEF ThreadInv
<1>9. \A u \in Threads \ {t} : current[u] # Null => (current[u] \in cookies' <=> current[u] \in cookies)
  BY <1>1, <1>2, <1>7
<1>10. "close" \in ThreadPlaces
  BY DEF ThreadPlaces, Places
<1> QED BY <1>1, <1>2, <1>4, <1>5, <1>6, <1>8, <1>9, <1>10, OneThreadMoves

\* release_script_path: the request is over, its waiter released and its cookie freed.
LEMMA ReleaseKeepsBorrows ==
  ASSUME BInv, Numbered, NEW t \in Threads, ReleaseScriptPath(t)
  PROVE  BInv'
<1>1. /\ pc[t] = "release" /\ pc' = [pc EXCEPT ![t] = "idle"] /\ call[t].at = "out"
      /\ pinned' = [pinned EXCEPT ![t] = Null] /\ current' = [current EXCEPT ![t] = Null]
      /\ UNCHANGED <<slots, call, taken, sapi, cookies, signalled>>
  BY DEF ReleaseScriptPath, Goto, tableVars
<1>2. /\ Holding(t) /\ Borrowed(t) /\ Len(slots) <= NumThreads /\ taken \in Nat
      /\ sapi \in [Threads -> Borrow] /\ pinned \in [Threads -> Int]
  BY ServingFacts
<1>3. /\ current'[t] = Null /\ \A u \in Threads \ {t} : current'[u] = current[u]
      /\ pinned'[t] = Null /\ \A u \in Threads \ {t} : pinned'[u] = pinned[u]
      /\ pinned' \in [Threads -> Int]
  BY <1>1, <1>2 DEF Numbered, Null
<1>4. \A u \in Threads : Ctx(u)' = Ctx(u)
  BY <1>1 DEF Ctx
<1>5. sapi[t] = NoBorrow
  BY <1>1, <1>2 DEF Borrowed, Borrowing
<1>6. current[t] \in signalled /\ current[t] \notin cookies /\ current[t] # Null
  BY <1>1, <1>2, <1>5 DEF Holding, Borrowed, NoBorrow, Null, Away
<1>7. Requested'
  <2>1. \A r \in 1..taken :
          (\A u \in Threads : current'[u] # r) => r \in signalled /\ r \notin cookies
    BY <1>3, <1>6 DEF BInv, Requested
  <2> QED BY <1>1, <1>3, <2>1 DEF BInv, Requested
<1>8. ThreadInv(t)'
  <2>1. pc'[t] = "idle"
    BY <1>1, IndexOf DEF BInv, StateTyped
  <2>2. CallFits(t)'
    BY <1>1 DEF CallFits
  <2>3. Holding(t)'
    BY <1>1, <1>2, <1>3, <1>4, <2>1 DEF Holding, Away
  <2>4. Borrowed(t)'
    BY <1>1, <1>3, <1>5, <2>1 DEF Borrowed, Borrowing, NoBorrow
  <2> QED BY <2>2, <2>3, <2>4 DEF ThreadInv
<1>9. "idle" \in ThreadPlaces
  BY DEF ThreadPlaces, Places
<1> QED BY <1>1, <1>2, <1>3, <1>4, <1>7, <1>8, <1>9, OneThreadMoves
-------------------------------------------------------------------------------
(* The closures of a PHP thread *)

LEMMA SetKeepsBorrows ==
  ASSUME TableInv, BInv, Numbered, NEW t \in Threads, NEW plain \in BOOLEAN, SetContext(t, plain)
  PROVE  BInv'
<1> DEFINE c == NewContext(current[t], plain)
<1>1. /\ pc[t] = "install" /\ pc' = [pc EXCEPT ![t] = "publish"] /\ Return(t, "set", <<c>>)
      /\ UNCHANGED <<taken, current, pinned, sapi, cookies, signalled>>
  BY DEF SetContext, Goto, phpVars
<1>2. c \in Context /\ c.request = current[t] /\ c.done = FALSE
  BY DEF NewContext, Context, Numbered
<1> HIDE DEF c
<1>3. <<c>> \in Seq(Context) /\ <<c>> # None /\ <<c>>[1] = c
  BY <1>2 DEF None
<1>4. /\ Len(slots') = Len(slots) /\ Ctx(t)' = <<c>>
      /\ \A u \in Threads \ {t} : Ctx(u)' = Ctx(u)
      /\ call'[t].at = "out" /\ \A b \in Actors \ {t} : call'[b] = call[b]
  BY <1>1, <1>3, IndexOf, ReturnEffect
<1>5. /\ Holding(t) /\ Borrowed(t) /\ Len(slots) <= NumThreads
      /\ sapi \in [Threads -> Borrow] /\ pinned \in [Threads -> Int]
  BY ServingFacts
<1>6. Requested'
  BY <1>1 DEF BInv, Requested
<1>7. ThreadInv(t)'
  <2>1. pc'[t] = "publish"
    BY <1>1, IndexOf DEF BInv, StateTyped
  <2>2. CallFits(t)'
    BY <1>4 DEF CallFits
  <2>3. Holding(t)'
    BY <1>1, <1>2, <1>3, <1>4, <1>5, <2>1 DEF Holding, Away
  <2>4. Borrowed(t)'
    BY <1>1, <1>5, <2>1 DEF Borrowed, Borrowing, NoBorrow
  <2> QED BY <2>2, <2>3, <2>4 DEF ThreadInv
<1>8. "publish" \in ThreadPlaces
  BY DEF ThreadPlaces, Places
<1> QED BY <1>1, <1>4, <1>5, <1>6, <1>7, <1>8, OneThreadMoves

LEMMA UpdateKeepsBorrows ==
  ASSUME TableInv, BInv, NEW t \in Threads, UpdateRequestInfo(t)
  PROVE  BInv'
<1>1. /\ pc[t] = "info" /\ pc' = [pc EXCEPT ![t] = "cookies"] /\ Return(t, "info", Found(t))
      /\ UNCHANGED <<taken, current, pinned, cookies, signalled>>
  BY DEF UpdateRequestInfo, Goto
<1>2. Found(t) \in Seq(Context)
  BY <1>1, IndexOf, FoundIsContext DEF Return
<1>3. /\ Len(slots') = Len(slots) /\ Ctx(t)' = Ctx(t) /\ Found(t) = Ctx(t)
      /\ \A u \in Threads \ {t} : Ctx(u)' = Ctx(u)
      /\ call'[t].at = "out" /\ \A b \in Actors \ {t} : call'[b] = call[b]
  BY <1>1, <1>2, IndexOf, ReturnEffect
<1>4. /\ Holding(t) /\ Borrowed(t) /\ Len(slots) <= NumThreads /\ sapi[t] \in Borrow
      /\ sapi \in [Threads -> Borrow] /\ pinned \in [Threads -> Int] /\ taken \in Nat
  BY ServingFacts
<1>5. Found(t) # None /\ Found(t)[1].request = current[t] /\ current[t] \in Int
  BY <1>1, <1>3, <1>4 DEF Holding, Away
<1>6. PICK m \in {Static, current[t]}, k \in {sapi[t].content_type, current[t]} :
        sapi' = [sapi EXCEPT ![t].request_method = m, ![t].query_string = current[t],
                             ![t].content_type = k]
  BY <1>4, <1>5 DEF UpdateRequestInfo
<1> DEFINE new == [sapi[t] EXCEPT !.request_method = m, !.query_string = current[t],
                                  !.content_type = k]
<1>7. m \in Int /\ k \in Int
  BY <1>4, <1>5 DEF Borrow, Static
<1>8. /\ new \in Borrow /\ new.request_method = m /\ new.query_string = current[t]
      /\ new.content_type = k /\ new.script = sapi[t].script
      /\ new.cookie_data = sapi[t].cookie_data /\ new.batch = sapi[t].batch
  BY <1>4, <1>5, <1>7 DEF Borrow
<1>9. sapi' = [sapi EXCEPT ![t] = new]
  BY <1>4, <1>6
<1> HIDE DEF new
<1>10. /\ sapi' \in [Threads -> Borrow] /\ sapi'[t] = new
       /\ \A u \in Threads \ {t} : sapi'[u] = sapi[u]
  BY <1>4, <1>8, <1>9, SapiSet
<1>11. Requested'
  BY <1>1 DEF BInv, Requested
<1>12. ThreadInv(t)'
  <2>1. pc'[t] = "cookies"
    BY <1>1, IndexOf DEF BInv, StateTyped
  <2>2. CallFits(t)'
    BY <1>3 DEF CallFits
  <2>3. Holding(t)'
    BY <1>1, <1>3, <1>4, <2>1 DEF Holding, Away
  <2>4. sapi[t].batch = Null
    BY <1>1, <1>4 DEF Borrowed
  <2>5. Borrowed(t)'
    BY <1>1, <1>4, <1>8, <1>10, <2>1, <2>4 DEF Borrowed, Borrowing
  <2> QED BY <2>2, <2>3, <2>5 DEF ThreadInv
<1>13. "cookies" \in ThreadPlaces
  BY DEF ThreadPlaces, Places
<1> QED BY <1>1, <1>3, <1>4, <1>10, <1>11, <1>12, <1>13, OneThreadMoves

LEMMA CookiesKeepBorrows ==
  ASSUME TableInv, BInv, NEW t \in Threads, NEW some \in BOOLEAN, ReadCookies(t, some)
  PROVE  BInv'
<1>1. /\ pc[t] = "cookies" /\ pc' = [pc EXCEPT ![t] = "collect"] /\ Return(t, "cookies", Found(t))
      /\ UNCHANGED <<taken, current, pinned, signalled>>
  BY DEF ReadCookies, Goto
<1>2. Found(t) \in Seq(Context)
  BY <1>1, IndexOf, FoundIsContext DEF Return
<1>3. /\ Len(slots') = Len(slots) /\ Ctx(t)' = Ctx(t) /\ Found(t) = Ctx(t)
      /\ \A u \in Threads \ {t} : Ctx(u)' = Ctx(u)
      /\ call'[t].at = "out" /\ \A b \in Actors \ {t} : call'[b] = call[b]
  BY <1>1, <1>2, IndexOf, ReturnEffect
<1>4. /\ Holding(t) /\ Borrowed(t) /\ Len(slots) <= NumThreads /\ sapi[t] \in Borrow
      /\ sapi \in [Threads -> Borrow] /\ pinned \in [Threads -> Int] /\ taken \in Nat
      /\ cookies \subseteq 1..taken /\ signalled \subseteq 1..taken
      /\ \A u \in Threads \ {t} : current[u] # Null => current[u] # current[t]
  BY ServingFacts
<1>5. Found(t) # None /\ Found(t)[1].request = current[t] /\ current[t] \in 1..taken
  BY <1>1, <1>3, <1>4 DEF Holding, Away
<1>6. \/ UNCHANGED <<cookies, sapi>>
      \/ /\ cookies' = cookies \cup {current[t]}
         /\ sapi' = [sapi EXCEPT ![t] = [sapi[t] EXCEPT !.cookie_data = current[t]]]
  BY <1>4, <1>5 DEF ReadCookies
<1> DEFINE new == [sapi[t] EXCEPT !.cookie_data = current[t]]
<1>7. /\ new \in Borrow /\ new.request_method = sapi[t].request_method
      /\ new.query_string = sapi[t].query_string /\ new.content_type = sapi[t].content_type
      /\ new.script = sapi[t].script /\ new.cookie_data = current[t] /\ new.batch = sapi[t].batch
  <2>1. current[t] \in Int
    BY <1>5
  <2> QED BY <1>4, <2>1 DEF Borrow
<1> HIDE DEF new
<1>8. /\ sapi' \in [Threads -> Borrow] /\ \A u \in Threads \ {t} : sapi'[u] = sapi[u]
      /\ \/ cookies' = cookies /\ sapi'[t] = sapi[t]
         \/ cookies' = cookies \cup {current[t]} /\ sapi'[t] = new
  BY <1>4, <1>6, <1>7, SapiSet DEF new
<1>9. Requested'
  BY <1>1, <1>4, <1>5, <1>8, RequestsStay
<1>10. ThreadInv(t)'
  <2>1. pc'[t] = "collect"
    BY <1>1, IndexOf DEF BInv, StateTyped
  <2>2. CallFits(t)'
    BY <1>3 DEF CallFits
  <2>3. Holding(t)'
    BY <1>1, <1>3, <1>4, <2>1 DEF Holding, Away
  <2>4. sapi[t].batch = Null
    BY <1>1, <1>4 DEF Borrowed
  <2>5. Borrowed(t)'
    BY <1>1, <1>4, <1>7, <1>8, <2>1, <2>4 DEF Borrowed, Borrowing
  <2> QED BY <2>2, <2>3, <2>5 DEF ThreadInv
<1>11. \A u \in Threads \ {t} : current[u] # Null => (current[u] \in cookies' <=> current[u] \in cookies)
  BY <1>4, <1>8
<1>12. "collect" \in ThreadPlaces
  BY DEF ThreadPlaces, Places
<1> QED BY <1>1, <1>3, <1>4, <1>8, <1>9, <1>10, <1>11, <1>12, OneThreadMoves

LEMMA CollectKeepsBorrows ==
  ASSUME TableInv, BInv, NEW t \in Threads, CollectServerVars(t)
  PROVE  BInv'
<1> DEFINE c == [Found(t)[1] EXCEPT !.batch = TRUE]
           ctx == IF Found(t) = None THEN None ELSE <<c>>
           new == [sapi[t] EXCEPT !.batch = current[t]]
<1>1. /\ pc[t] = "collect" /\ pc' = [pc EXCEPT ![t] = "register"] /\ Return(t, "collect", ctx)
      /\ UNCHANGED <<taken, current, pinned, cookies, signalled>> /\ call[t].at = "closure"
  BY DEF CollectServerVars, Goto, Return
<1>2. /\ Holding(t) /\ Borrowed(t) /\ Len(slots) <= NumThreads /\ sapi[t] \in Borrow
      /\ sapi \in [Threads -> Borrow] /\ pinned \in [Threads -> Int] /\ taken \in Nat
  BY ServingFacts
<1>3. Found(t) = Ctx(t)
  BY <1>1, IndexOf, IndexIsNatural DEF TableInv, CloneIsOwn, Typed, Found, Ctx
<1>4. /\ Found(t) # None /\ Found(t)[1].request = current[t] /\ current[t] \in Int
      /\ Found(t)[1].done => current[t] \in signalled
  BY <1>1, <1>2, <1>3 DEF Holding, Away
<1>5. /\ c \in Context /\ c.request = current[t] /\ c.done = Found(t)[1].done /\ c.batch = TRUE
  <2>1. Found(t)[1] \in Context
    BY <1>1, <1>4, IndexOf, FoundIsContext
  <2> QED BY <1>4, <2>1 DEF Context
<1>6. sapi' = [sapi EXCEPT ![t] = new]
  BY <1>2, <1>4 DEF CollectServerVars
<1>7. /\ new \in Borrow /\ new.request_method = sapi[t].request_method
      /\ new.query_string = sapi[t].query_string /\ new.content_type = sapi[t].content_type
      /\ new.script = sapi[t].script /\ new.cookie_data = sapi[t].cookie_data
      /\ new.batch = current[t]
  BY <1>2, <1>4 DEF Borrow
<1> HIDE DEF new, c
<1>8. ctx = <<c>> /\ ctx \in Seq(Context) /\ ctx # None /\ ctx[1] = c
  BY <1>4, <1>5 DEF None
<1> HIDE DEF ctx
<1>9. /\ Len(slots') = Len(slots) /\ Ctx(t)' = ctx
      /\ \A u \in Threads \ {t} : Ctx(u)' = Ctx(u)
      /\ call'[t].at = "out" /\ \A b \in Actors \ {t} : call'[b] = call[b]
  BY <1>1, <1>8, IndexOf, ReturnEffect
<1>10. /\ sapi' \in [Threads -> Borrow] /\ sapi'[t] = new
       /\ \A u \in Threads \ {t} : sapi'[u] = sapi[u]
  BY <1>2, <1>6, <1>7, SapiSet
<1>11. Requested'
  BY <1>1 DEF BInv, Requested
<1>12. ThreadInv(t)'
  <2>1. pc'[t] = "register"
    BY <1>1, IndexOf DEF BInv, StateTyped
  <2>2. CallFits(t)'
    BY <1>9 DEF CallFits
  <2>3. Holding(t)'
    BY <1>1, <1>2, <1>4, <1>5, <1>8, <1>9, <2>1 DEF Holding, Away
  <2>4. Borrowed(t)'
    BY <1>1, <1>2, <1>5, <1>7, <1>8, <1>9, <1>10, <2>1 DEF Borrowed, Borrowing
  <2> QED BY <2>2, <2>3, <2>4 DEF ThreadInv
<1>13. "register" \in ThreadPlaces
  BY DEF ThreadPlaces, Places
<1> QED BY <1>1, <1>2, <1>9, <1>10, <1>11, <1>12, <1>13, OneThreadMoves

\* close_context fires the signal of the request this thread serves, if it has not before.
LEMMA CloseKeepsBorrows ==
  ASSUME TableInv, BInv, NEW t \in Threads, CloseContext(t)
  PROVE  BInv'
<1> DEFINE c == [Found(t)[1] EXCEPT !.done = TRUE]
           place == IF pc[t] = "close" THEN "clear" ELSE pc[t]
<1>1. /\ call[t].at = "closure" /\ call[t].op = "close"
      /\ pc' = [pc EXCEPT ![t] = place]
      /\ UNCHANGED <<taken, current, pinned, sapi, cookies>>
  BY IndexOf DEF CloseContext, Return, BInv, StateTyped
<1>2. /\ CallFits(t) /\ Holding(t) /\ Borrowed(t) /\ Len(slots) <= NumThreads
      /\ sapi \in [Threads -> Borrow] /\ pinned \in [Threads -> Int] /\ taken \in Nat
      /\ cookies \subseteq 1..taken /\ signalled \subseteq 1..taken
  BY ServingFacts
<1>3. pc[t] \in {"script", "close"}
  BY <1>1, <1>2 DEF CallFits
<1>4. Found(t) = Ctx(t)
  BY <1>1, IndexOf, IndexIsNatural DEF TableInv, CloneIsOwn, Typed, Found, Ctx
<1>5. /\ Found(t) # None /\ Found(t)[1].request = current[t] /\ current[t] \in 1..taken
      /\ Found(t)[1].done => current[t] \in signalled
  BY <1>2, <1>3, <1>4 DEF Holding, Away
<1>6. Found(t) \in Seq(Context) /\ Found(t)[1] \in Context
  BY <1>1, <1>5, IndexOf, FoundIsContext
<1>7. c \in Context /\ c.request = current[t] /\ c.done = TRUE /\ c.batch = Found(t)[1].batch
  BY <1>5, <1>6 DEF Context
<1>8. PICK ctx \in Seq(Context) :
        /\ Return(t, "close", ctx) /\ ctx # None /\ ctx[1].request = current[t]
        /\ signalled' = signalled \cup {current[t]}
  <2>1. CASE Found(t)[1].done
    <3>1. Return(t, "close", Found(t)) /\ signalled' = signalled
      BY <1>5, <2>1 DEF CloseContext
    <3> QED BY <1>5, <1>6, <2>1, <3>1
  <2>2. CASE ~Found(t)[1].done
    <3>1. Return(t, "close", <<c>>) /\ signalled' = signalled \cup {current[t]}
      BY <1>5, <2>2 DEF CloseContext
    <3> HIDE DEF c
    <3>2. <<c>> \in Seq(Context) /\ <<c>> # None /\ <<c>>[1] = c
      BY <1>7 DEF None
    <3> QED BY <1>7, <3>1, <3>2
  <2> QED BY <2>1, <2>2
<1> HIDE DEF c
<1>9. /\ Len(slots') = Len(slots) /\ Ctx(t)' = ctx
      /\ \A u \in Threads \ {t} : Ctx(u)' = Ctx(u)
      /\ call'[t].at = "out" /\ \A b \in Actors \ {t} : call'[b] = call[b]
  BY <1>8, IndexOf, ReturnEffect
<1>10. Requested'
  BY <1>1, <1>2, <1>5, <1>8, RequestsStay
<1>11. ThreadInv(t)'
  <2>1. pc'[t] = place /\ place \in {"script", "clear"}
    BY <1>1, <1>3, IndexOf DEF BInv, StateTyped
  <2>2. CallFits(t)'
    BY <1>9 DEF CallFits
  <2> HIDE DEF place
  <2>3. Holding(t)'
    <3>1. pinned[t] = current[t]
      BY <1>2, <1>3 DEF Holding, Away
    <3> QED BY <1>1, <1>5, <1>8, <1>9, <2>1, <3>1 DEF Holding, Away
  <2>4. sapi[t].batch = Null /\ (place # "script" => sapi[t] = NoBorrow)
    BY <1>2, <1>3 DEF Borrowed, Borrowing, place
  <2>5. Borrowed(t)'
    BY <1>1, <1>2, <2>1, <2>4 DEF Borrowed, Borrowing
  <2> QED BY <2>2, <2>3, <2>5 DEF ThreadInv
<1>12. place \in ThreadPlaces
  BY <1>3 DEF ThreadPlaces, Places
<1> HIDE DEF place
<1> QED BY <1>1, <1>2, <1>3, <1>8, <1>9, <1>10, <1>11, <1>12, OneThreadMoves

LEMMA ClearKeepsBorrows ==
  ASSUME TableInv, BInv, NEW t \in Threads, ClearContext(t)
  PROVE  BInv'
<1>1. /\ pc[t] = "clear" /\ pc' = [pc EXCEPT ![t] = "release"] /\ Return(t, "clear", None)
      /\ UNCHANGED <<taken, current, pinned, sapi, cookies, signalled>>
  BY DEF ClearContext, Goto, phpVars
<1>2. None \in Seq(Context)
  BY DEF None
<1>3. /\ Len(slots') = Len(slots) /\ Ctx(t)' = None
      /\ \A u \in Threads \ {t} : Ctx(u)' = Ctx(u)
      /\ call'[t].at = "out" /\ \A b \in Actors \ {t} : call'[b] = call[b]
  BY <1>1, <1>2, IndexOf, ReturnEffect
<1>4. /\ Holding(t) /\ Borrowed(t) /\ Len(slots) <= NumThreads
      /\ sapi \in [Threads -> Borrow] /\ pinned \in [Threads -> Int]
  BY ServingFacts
<1>5. Requested'
  BY <1>1 DEF BInv, Requested
<1>6. ThreadInv(t)'
  <2>1. pc'[t] = "release"
    BY <1>1, IndexOf DEF BInv, StateTyped
  <2>2. CallFits(t)'
    BY <1>3 DEF CallFits
  <2>3. Holding(t)'
    BY <1>1, <1>3, <1>4, <2>1 DEF Holding, Away
  <2>4. Borrowed(t)'
    BY <1>1, <1>4, <2>1 DEF Borrowed, Borrowing, NoBorrow
  <2> QED BY <2>2, <2>3, <2>4 DEF ThreadInv
<1>7. "release" \in ThreadPlaces
  BY DEF ThreadPlaces, Places
<1> QED BY <1>1, <1>3, <1>4, <1>5, <1>6, <1>7, OneThreadMoves
-------------------------------------------------------------------------------
LEMMA InitBorrows == Init => BInv
<1> SUFFICES ASSUME Init PROVE BInv
  OBVIOUS
<1>1. NoCall.at = "out" /\ NoBorrow \in Borrow /\ "unborn" \in ThreadPlaces /\ "boot" \in Places
  BY DEF NoCall, NoBorrow, Borrow, Null, ThreadPlaces, Places
<1>2. pc[Main] = "boot" /\ call[Main].at = "out" /\ \A t \in Threads : pc[t] = "unborn" /\ call[t].at = "out"
  BY <1>1, IndexOf DEF Init
<1>3. Len(slots) = 0
  BY DEF Init
<1>4. StateTyped
  <2>1. pc \in [Actors -> Places] /\ \A t \in Threads : pc[t] \in ThreadPlaces
    BY <1>1, <1>2 DEF Init, ThreadPlaces
  <2>2. pinned \in [Threads -> Int] /\ sapi \in [Threads -> Borrow]
    BY <1>1 DEF Init, Null
  <2>3. Len(slots) <= NumThreads
    BY <1>3, SlotsAssumption
  <2> QED BY <2>1, <2>2, <2>3 DEF StateTyped
<1>5. MainInv
  BY <1>2 DEF MainInv
<1>6. Requested
  BY SlotsAssumption DEF Init, Requested, Null
<1>7. ASSUME NEW t \in Threads PROVE ThreadInv(t)
  <2>1. Ctx(t) = None
    BY <1>3, IndexOf DEF Ctx
  <2>2. CallFits(t) /\ Holding(t)
    BY <1>2, <2>1 DEF Init, CallFits, Holding, Away
  <2>3. Borrowed(t)
    BY <1>2 DEF Init, Borrowed, Borrowing, NoBorrow
  <2> QED BY <2>2, <2>3 DEF ThreadInv
<1> QED BY <1>4, <1>5, <1>6, <1>7 DEF BInv

LEMMA NextBorrows == IInv /\ BInv /\ [Next]_vars => BInv'
<1> SUFFICES ASSUME TableInv, Numbered, BInv, [Next]_vars PROVE BInv'
  BY DEF IInv
<1>1. CASE UNCHANGED vars
  <2>1. UNCHANGED <<slots, call, pc, phpVars>>
    BY <1>1 DEF vars, tableVars
  <2>2. Len(slots') <= NumThreads /\ \A t \in Threads : Ctx(t)' = Ctx(t)
    BY <2>1 DEF Ctx, BInv, StateTyped
  <2> QED BY <2>1, <2>2, NothingMoves
<1>2. ASSUME NEW a \in Actors, TableStep(a) \/ Callback(a) \/ Reenter(a) PROVE BInv'
  BY <1>2, TableStepKeepsBorrows, CallbackKeepsBorrows, ReenterKeepsBorrows
<1>3. ASSUME NEW t \in Threads, Calls(t) \/ EndScript(t) \/ Stop(t) \/ Bailout(t) PROVE BInv'
  BY <1>3, CallsKeepBorrows, EndsKeepBorrows, LetGoKeepsBorrows
<1>4. ASSUME NEW t \in Threads, ThreadStep(t) PROVE BInv'
  BY <1>4, SetKeepsBorrows, PublishKeepsBorrows, UpdateKeepsBorrows, CookiesKeepBorrows,
     CollectKeepsBorrows, LetGoKeepsBorrows, CloseKeepsBorrows, EndsKeepBorrows, FreeKeepsBorrows,
     ClearKeepsBorrows, ReleaseKeepsBorrows DEF ThreadStep
<1>5. CASE MainCallback \/ StartThreads
  BY <1>5, MainKeepsBorrows
<1> QED BY <1>1, <1>2, <1>3, <1>4, <1>5 DEF Next

\* What each place of php_thread holds and borrows, for any number of threads.
THEOREM BorrowsInvariant == Spec => [](IInv /\ BInv)
BY InitBorrows, NextBorrows, ContextSlotsInvariant, PTL DEF Spec

\* The context of a thread is what its slot holds.
LEMMA InstalledIsCtx ==
  ASSUME TableInv, NEW t \in Threads
  PROVE  Installed(t) = Ctx(t)
<1>1. t < Len(table) => table[t + 1] = t + 1
  BY IndexOf, LenProperties DEF TableInv, TableIsDense, Typed
<1> QED BY <1>1 DEF Installed, Ctx, TableInv, TableIsDense

\* Types, the bounds on the table and on the requests among them.
THEOREM ContextSlotsAreTyped == Spec => []TypeOK
<1>1. IInv /\ BInv => TypeOK
  <2> SUFFICES ASSUME TableInv, Numbered, BInv PROVE TypeOK
    BY DEF IInv
  <2>1. /\ DOMAIN table = 1..Len(table) /\ DOMAIN slots = 1..Len(slots)
        /\ Len(table) = Len(slots) /\ Len(slots) \in Nat
    BY LenProperties DEF TableInv, Typed, TableIsDense
  <2>2. /\ Len(table) <= NumThreads /\ Len(table) <= Len(slots)
        /\ \A i \in DOMAIN table : table[i] \in DOMAIN slots
    BY <2>1 DEF TableInv, TableIsDense, BInv, StateTyped
  <2>3. \A s \in DOMAIN slots : slots[s].holder \in Actors \cup {Nobody}
    <3>1. \A s \in 1..Len(slots) : slots[s] \in SlotType
      BY DEF TableInv, Typed
    <3> QED BY <2>1, <3>1 DEF SlotType
  <2>4. readers \subseteq Actors /\ writer \in Actors \cup {Nobody} /\ held \in [Actors -> BOOLEAN]
    BY DEF TableInv, Typed
  <2>5. \A a \in Actors : pc[a] \in Places /\ call[a].slot \in 0..Len(slots)
    BY <2>1, IndexIsNatural DEF BInv, StateTyped, TableInv, CloneIsOwn
  <2>6. taken \in 0..MaxRequests /\ cookies \subseteq Requests /\ signalled \subseteq Requests
    BY SlotsAssumption DEF BInv, Requested, Requests
  <2>7. current \in [Threads -> 0..taken]
    <3>1. taken \in Nat /\ current \in [Threads -> Nat]
      BY DEF Numbered
    <3>2. \A t \in Threads : current[t] \in 0..taken
      BY <3>1 DEF BInv, ThreadInv, Holding, Null
    <3> QED BY <3>1, <3>2
  <2> QED BY <2>2, <2>3, <2>4, <2>5, <2>6, <2>7 DEF TypeOK
<1> QED BY <1>1, BorrowsInvariant, PTL

\* No pointer C can follow outlives what it points to, and the main thread, which shares the
\* index of thread 0, never finds its request: the order of go_update_request_info,
\* frankenphp_free_request_context and CONTEXT_SLOTS.clear is right on every path.
THEOREM BorrowsStaySound == Spec => []BorrowsAreSound
<1>1. IInv /\ BInv => BorrowsAreSound
  <2> SUFFICES ASSUME TableInv, BInv PROVE BorrowsAreSound
    BY DEF IInv
  <2>1. PointersAreLive
    <3> SUFFICES ASSUME NEW t \in Threads
                 PROVE  LET ctx == Ctx(t)
                            Live(p) == \/ p \in {Null, Static}
                                       \/ p = current[t] /\ ctx # None /\ ctx[1].request = p
                        IN  /\ Live(sapi[t].request_method) /\ Live(sapi[t].query_string)
                            /\ Live(sapi[t].content_type) /\ Live(sapi[t].batch)
                            /\ sapi[t].batch # Null => ctx[1].batch
                            /\ sapi[t].script \in {Null, pinned[t]}
                            /\ sapi[t].cookie_data \in cookies \cup {Null}
      BY InstalledIsCtx DEF PointersAreLive
    <3>1. Holding(t) /\ Borrowed(t)
      BY ServingFacts
    <3>2. CASE pc[t] \in Borrowing
      BY <3>1, <3>2 DEF Holding, Borrowed, Borrowing, Away
    <3>3. CASE pc[t] \notin Borrowing
      BY <3>1, <3>3 DEF Borrowed, NoBorrow
    <3> QED BY <3>2, <3>3
  <2>2. MainFindsNoRequest
    <3> SUFFICES ASSUME call[Main].at = "closure" PROVE Found(Main) = None
      BY DEF MainFindsNoRequest
    <3>1. Found(Main) = Ctx(0)
      BY IndexOf DEF TableInv, CloneIsOwn, Typed, Found, Ctx
    <3>2. pc[0] \in Away /\ Holding(0)
      BY IndexOf DEF BInv, MainInv, Away, ThreadInv
    <3> QED BY <3>1, <3>2 DEF Holding
  <2> QED BY <2>1, <2>2 DEF BorrowsAreSound
<1> QED BY <1>1, BorrowsInvariant, PTL

\* However a request ended, its context is dropped, its signal fired, its cookie freed and
\* its path unpinned before the thread takes the next.
THEOREM RequestsLeaveNothing == Spec => []NothingLeaks
<1>1. IInv /\ BInv => NothingLeaks
  <2> SUFFICES ASSUME TableInv, BInv PROVE NothingLeaks
    BY DEF IInv
  <2>1. ASSUME NEW t \in Threads, pc[t] \in {"idle", "stopped"}
        PROVE  Installed(t) = None /\ pinned[t] = Null /\ sapi[t] = NoBorrow
    <3>1. Holding(t) /\ Borrowed(t)
      BY ServingFacts
    <3> QED BY <2>1, <3>1, InstalledIsCtx DEF Holding, Borrowed, Away, Borrowing
  <2> QED BY <2>1 DEF NothingLeaks, BInv, Requested
<1> QED BY <1>1, BorrowsInvariant, PTL
===============================================================================
