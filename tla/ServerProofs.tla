----------------------------- MODULE ServerProofs -----------------------------
(***************************************************************************)
(* The shutdown of the server, for any number of connections and any size  *)
(* of the PHP pool.  That `run` never returns with the pool up, or with a  *)
(* script in it, needs to be remembered together with where the pool comes *)
(* from (nothing is live before the boot), that no connection survives the *)
(* joins, and that only a pool that is up takes a dispatch.                *)
(***************************************************************************)
EXTENDS Server, FiniteSetTheorems, TLAPS

\* Before the boot there is no connection and no dispatch.
BootIsFirst ==
  at = "boot" => pool = "down" /\ Busy = {} /\ \A c \in Conns : conns[c] = "absent"

\* A slot either has a dispatch, or is free, or has lost its pthread.
PoolHolds == Cardinality(Busy) + lost <= NumThreads

IInv ==
  /\ TypeOK /\ BootIsFirst /\ PoolHolds
  /\ NeverReturnsUndrained /\ NoDispatchAfterDrain /\ OrphansAreWaitedFor

ConnSteps(c) == Accept(c) \/ Reap(c) \/ Request(c) \/ Respond(c) \/ Hear(c) \/ HangUp(c)

JobSteps(c) == JobTaken(c) \/ ScriptStarts(c) \/ JobEnds(c) \/ ThreadIsLost(c)

\* There are finitely many dispatches at a time.
LEMMA BusyIsFinite == IsFiniteSet(Busy) /\ Cardinality(Busy) \in Nat
<1>1. Busy \subseteq Conns
  BY DEF Busy
<1> QED BY <1>1, ServerAssumption, FS_Subset, FS_CardinalityType

\* A step by which no dispatch gets a thread and no thread is lost leaves room.
LEMMA RoomRemains ==
  ASSUME IInv, Busy' \subseteq Busy, lost' = lost PROVE PoolHolds'
<1>1. Cardinality(Busy') \in Nat /\ Cardinality(Busy') <= Cardinality(Busy)
  BY BusyIsFinite, FS_Subset, FS_CardinalityType
<1>2. Cardinality(Busy) \in Nat /\ lost \in 0..NumThreads
  BY BusyIsFinite DEF IInv, TypeOK
<1> QED BY <1>1, <1>2, ServerAssumption DEF IInv, PoolHolds

\* A step of `run` or of the outside that leaves the connections alone.
LEMMA RunStepsPreserve ==
  ASSUME IInv,
         \/ \E ok \in BOOLEAN : Boot(ok)
         \/ AcceptFails \/ BackoffEnds \/ AcceptIsFatal \/ LeaveLoop \/ CloseListener
         \/ AllJoined \/ BeginDrain \/ ForceKill \/ EndDrain \/ Stop
  PROVE  IInv'
<1>1. jobs' = jobs /\ conns' = conns /\ lost' = lost
  BY DEF Boot, AcceptFails, BackoffEnds, AcceptIsFatal, LeaveLoop, CloseListener, AllJoined,
         BeginDrain, ForceKill, EndDrain, Stop, poolVars
<1>2. Busy' = Busy
  BY <1>1 DEF Busy
<1>3. PoolHolds'
  BY <1>1, <1>2, RoomRemains
<1> USE DEF IInv, BootIsFirst, NeverReturnsUndrained, NoDispatchAfterDrain, OrphansAreWaitedFor,
            Live, Go, poolVars
<1>4. ASSUME NEW ok \in BOOLEAN, Boot(ok) PROVE IInv'
  BY <1>1, <1>2, <1>3, <1>4 DEF Boot, TypeOK, Places
<1>5. CASE AcceptFails
  BY <1>2, <1>3, <1>5 DEF AcceptFails, TypeOK, Places
<1>6. CASE BackoffEnds
  BY <1>2, <1>3, <1>6 DEF BackoffEnds, TypeOK, Places, INITIAL_ACCEPT_BACKOFF, MAX_ACCEPT_BACKOFF
<1>7. CASE AcceptIsFatal
  BY <1>2, <1>3, <1>7 DEF AcceptIsFatal, TypeOK, Places
<1>8. CASE LeaveLoop
  BY <1>2, <1>3, <1>8 DEF LeaveLoop, TypeOK, Places
<1>9. CASE CloseListener
  BY <1>2, <1>3, <1>9 DEF CloseListener, TypeOK, Places
<1>10. CASE AllJoined
  BY <1>2, <1>3, <1>10 DEF AllJoined, AllReaped, TypeOK, Places
<1>11. CASE BeginDrain
  BY <1>2, <1>3, <1>11 DEF BeginDrain, TypeOK, Places
<1>12. CASE ForceKill
  BY <1>2, <1>3, <1>12 DEF ForceKill, Running, TypeOK, Places
<1>13. CASE EndDrain
  BY <1>2, <1>3, <1>13 DEF EndDrain, TypeOK, Places
<1>14. CASE Stop
  BY <1>2, <1>3, <1>14 DEF Stop, TypeOK, Places
<1> QED BY <1>4, <1>5, <1>6, <1>7, <1>8, <1>9, <1>10, <1>11, <1>12, <1>13, <1>14

\* The step that changes every connection at once.
LEMMA SweepPreserves ==
  ASSUME IInv, AbortAll PROVE IInv'
<1>1. Busy' = Busy /\ lost' = lost
  BY DEF AbortAll, Busy, poolVars
<1>2. PoolHolds'
  BY <1>1, RoomRemains
<1> QED BY <1>1, <1>2 DEF IInv, BootIsFirst, NeverReturnsUndrained, NoDispatchAfterDrain,
                          OrphansAreWaitedFor, Live, Go, poolVars, AbortAll, TypeOK, Places

\* A step of one connection: only Accept makes a connection live, and `run` accepts
\* neither before the boot nor after its loop.
LEMMA ConnStepsPreserve ==
  ASSUME IInv, NEW c \in Conns, ConnSteps(c) PROVE IInv'
<1>1. Busy' \subseteq Busy /\ lost' = lost
  BY DEF ConnSteps, Accept, Reap, Request, Respond, Hear, HangUp, Busy, IInv, TypeOK, poolVars
<1>2. PoolHolds'
  BY <1>1, RoomRemains
<1> USE DEF IInv, BootIsFirst, NeverReturnsUndrained, NoDispatchAfterDrain, OrphansAreWaitedFor,
            Live, poolVars
<1>3. CASE Accept(c)
  BY <1>1, <1>2, <1>3 DEF Accept, TypeOK, INITIAL_ACCEPT_BACKOFF, MAX_ACCEPT_BACKOFF
<1>4. CASE Reap(c)
  BY <1>1, <1>2, <1>4 DEF Reap, TypeOK
<1>5. CASE Request(c)
  BY <1>1, <1>2, <1>5 DEF Request, TypeOK
<1>6. CASE Respond(c)
  BY <1>1, <1>2, <1>6 DEF Respond, TypeOK
<1>7. CASE Hear(c)
  BY <1>1, <1>2, <1>7 DEF Hear, TypeOK
<1>8. CASE HangUp(c)
  BY <1>1, <1>2, <1>8 DEF HangUp, TypeOK
<1> QED BY <1>3, <1>4, <1>5, <1>6, <1>7, <1>8 DEF ConnSteps

\* A step of one dispatch: it gets a thread only while the pool is up and has room, and
\* a thread that is lost had one.
LEMMA JobStepsPreserve ==
  ASSUME IInv, NEW c \in Conns, JobSteps(c) PROVE IInv'
<1>1. IsFiniteSet(Busy) /\ Cardinality(Busy) \in Nat /\ lost \in 0..NumThreads /\ NumThreads \in Nat
  BY BusyIsFinite, ServerAssumption DEF IInv, TypeOK
<1>2. jobs \in [Conns -> {"none", "queued", "taken", "running", "done"}]
  BY DEF IInv, TypeOK
<1> USE DEF IInv, BootIsFirst, NeverReturnsUndrained, NoDispatchAfterDrain, OrphansAreWaitedFor,
            Live, poolVars
<1>3. CASE JobTaken(c)
  <2>1. Busy' = Busy \cup {c} /\ c \notin Busy
    BY <1>2, <1>3 DEF JobTaken, Busy
  <2>2. Cardinality(Busy') = Cardinality(Busy) + 1
    BY <1>1, <2>1, FS_AddElement
  <2>3. PoolHolds'
    BY <1>1, <1>3, <2>2 DEF JobTaken, PoolHolds
  <2>4. at # "boot" /\ at # "returned"
    BY <1>3 DEF JobTaken
  <2> QED BY <1>3, <2>3, <2>4 DEF JobTaken, TypeOK
<1>4. CASE ScriptStarts(c)
  <2>1. Busy' = Busy
    BY <1>2, <1>4 DEF ScriptStarts, Busy
  <2>2. PoolHolds'
    BY <1>4, <2>1, RoomRemains DEF ScriptStarts
  <2> QED BY <1>4, <2>1, <2>2 DEF ScriptStarts, TypeOK
<1>5. CASE JobEnds(c)
  <2>1. Busy' \subseteq Busy
    BY <1>2, <1>5 DEF JobEnds, Busy
  <2>2. PoolHolds'
    BY <1>5, <2>1, RoomRemains DEF JobEnds
  <2> QED BY <1>5, <2>1, <2>2 DEF JobEnds, TypeOK
<1>6. CASE ThreadIsLost(c)
  <2>1. Busy' = Busy \ {c} /\ c \in Busy
    BY <1>2, <1>6 DEF ThreadIsLost, Busy
  <2>2. Cardinality(Busy') = Cardinality(Busy) - 1
    BY <1>1, <2>1, FS_RemoveElement
  <2>3. lost' = lost + 1
    BY <1>6 DEF ThreadIsLost
  <2>4. Cardinality(Busy') \in Nat
    BY <1>1, <2>1, FS_RemoveElement, FS_CardinalityType
  <2>5. PoolHolds' /\ lost' \in 0..NumThreads
    BY <1>1, <2>2, <2>3, <2>4 DEF PoolHolds
  <2> QED BY <1>6, <2>1, <2>5 DEF ThreadIsLost, TypeOK
<1> QED BY <1>3, <1>4, <1>5, <1>6 DEF JobSteps

\* The inductive invariant of the server: `run` boots first, accepts only inside its
\* loop, joins or aborts every connection before its drain, and drains every thread
\* before it returns; the pool never has more dispatches than threads left.
THEOREM ServerInvariant == Spec => []IInv
<1>1. Init => IInv
  <2> SUFFICES ASSUME Init PROVE IInv
    OBVIOUS
  <2>1. {stop, fatal, latch} \subseteq BOOLEAN
    BY Zenon DEF Init
  <2>2. TypeOK
    BY <2>1, ServerAssumption, SMT
       DEF Init, TypeOK, Places, INITIAL_ACCEPT_BACKOFF, MAX_ACCEPT_BACKOFF
  <2>3. Busy = {}
    BY DEF Init, Busy
  <2>4. PoolHolds
    BY <2>3, ServerAssumption, FS_EmptySet DEF Init, PoolHolds
  <2>5. BootIsFirst /\ NeverReturnsUndrained /\ NoDispatchAfterDrain /\ OrphansAreWaitedFor
    BY <2>3, SMT DEF Init, BootIsFirst, NeverReturnsUndrained, NoDispatchAfterDrain,
                     OrphansAreWaitedFor
  <2> QED BY <2>2, <2>4, <2>5 DEF IInv
<1>2. IInv /\ [Next]_vars => IInv'
  <2> SUFFICES ASSUME IInv, [Next]_vars PROVE IInv'
    OBVIOUS
  <2>1. CASE UNCHANGED vars
    BY <2>1 DEF vars, IInv, TypeOK, BootIsFirst, PoolHolds, NeverReturnsUndrained,
                NoDispatchAfterDrain, OrphansAreWaitedFor, Live, Busy
  <2>2. CASE Next
    BY <2>2, RunStepsPreserve, SweepPreserves, ConnStepsPreserve, JobStepsPreserve
       DEF Next, RunSteps, ConnSteps, JobSteps
  <2> QED BY <2>1, <2>2
<1> QED BY <1>1, <1>2, PTL DEF Spec

\* Type correctness of `run`, for any number of connections and any pool size: the
\* back-off stays between its two bounds, a task is in one of its five states.
THEOREM ServerIsTyped == Spec => []TypeOK
<1>1. IInv => TypeOK
  BY DEF IInv
<1> QED BY <1>1, ServerInvariant, PTL

\* The PHP pool is never left running behind `run`, whatever ended its loop, and no
\* connection is left to dispatch a request once the drain begins, and no PHP thread is
\* left with one when it ends.
THEOREM DrainComesLast == Spec => []DrainIsLast
<1>1. IInv => DrainIsLast
  BY DEF IInv, DrainIsLast
<1> QED BY <1>1, ServerInvariant, PTL

\* Only the peer or the deadline takes the response from a request in flight.
THEOREM ResponsesSurviveShutdown == Spec => InFlightIsFinished
<1> DEFINE Kept == \A c \in Conns : conns[c] = "busy" /\ conns'[c] = "finished" =>
                     AbortAll \/ HangUp(c) \/ jobs[c] = "done"
<1>1. ASSUME IInv, Next PROVE Kept
  <2> SUFFICES ASSUME NEW c \in Conns, conns[c] = "busy", conns'[c] = "finished",
                      ~AbortAll, ~HangUp(c)
               PROVE  jobs[c] = "done"
    OBVIOUS
  <2>1. conns \in [Conns -> {"absent", "idle", "busy", "finished", "reaped"}]
    BY <1>1 DEF IInv, TypeOK
  <2>2. CASE conns' = conns
    BY <2>2
  <2>3. ASSUME NEW d \in Conns, ConnSteps(d) PROVE jobs[c] = "done"
    BY <2>1, <2>3 DEF ConnSteps, Accept, Reap, Request, Respond, Hear, HangUp
  <2>4. (\E d \in Conns : ConnSteps(d)) \/ conns' = conns
    BY <1>1 DEF Next, RunSteps, ConnSteps, Boot, AcceptFails, BackoffEnds, AcceptIsFatal,
                LeaveLoop, CloseListener, AllJoined, BeginDrain, ForceKill, EndDrain, Stop,
                JobTaken, ScriptStarts, JobEnds, ThreadIsLost
  <2> QED BY <2>2, <2>3, <2>4
<1>2. IInv /\ [Next]_vars => [Kept]_vars
  BY <1>1
<1> HIDE DEF Kept
<1>3. Spec => [][Kept]_vars
  BY <1>2, ServerInvariant, PTL DEF Spec
<1> QED BY <1>3 DEF Kept, InFlightIsFinished
===============================================================================
