----------------------------- MODULE ContextSlots -----------------------------
(***************************************************************************)
(* The table of request contexts (crates/frankenrust-core/src/context.rs)  *)
(* and what C borrows from it.  Every PHP thread installs a context in the *)
(* slot of its index, reaches it from callbacks, and clears it after the   *)
(* script; C holds pointers into the context meanwhile, and a bailout (a   *)
(* longjmp) may end the script at any call into PHP.                       *)
(*                                                                         *)
(* A table call takes the thread-local guard, finds the slot under the     *)
(* read lock, grows the table under the write lock when the index is new,  *)
(* locks the slot's own mutex, runs the closure and releases all of it.    *)
(* A closure that enters the table again breaks the table's rule 2: the    *)
(* guard's assertion panics, and a panic in an extern "C" callback aborts  *)
(* the process.                                                            *)
(*                                                                         *)
(* The main PHP thread runs callbacks too, at module startup and shutdown, *)
(* and its thread_index is 0: the slot of PHP thread 0.                    *)
(***************************************************************************)
EXTENDS Integers, Sequences, FiniteSets

CONSTANTS NumThreads,    \* PHP threads; their indices are 0..NumThreads-1
          MaxRequests,   \* requests in all
          Careless       \* whether a closure may break rule 2

ASSUME SlotsAssumption ==
  NumThreads \in Nat \ {0} /\ MaxRequests \in Nat /\ Careless \in BOOLEAN

Threads == 0..(NumThreads - 1)
Main == NumThreads
Actors == 0..NumThreads
Index(a) == IF a = Main THEN 0 ELSE a

None == <<>>
Nobody == -1

\* Requests are numbered as they are taken, and a pointer is the number of the request
\* whose memory it points to; static memory belongs to none.
Requests == 1..MaxRequests
Null == 0
Static == -1

VARIABLES table,     \* ContextSlots::slots: for each index its slot
          slots,     \* every slot ever made: [holder, ctx]
          readers,   \* actors that hold the table's read lock
          writer,    \* the actor that holds its write lock
          held,      \* [Actors -> HOLDING_SLOT_LOCK]
          call,      \* [Actors -> the table call it is in]
          pc,        \* [Actors -> where its C program is]
          taken,     \* how many requests have been taken
          current,   \* [Threads -> the request it serves]
          pinned,    \* [Threads -> PhpThread::script_path]
          sapi,      \* [Threads -> what C borrows or owns for the request]
          cookies,   \* cookie strings that are malloc'ed and not freed
          signalled, \* requests whose CompletionSignal has fired
          aborted    \* a panic has reached C

tableVars == <<table, slots, readers, writer, held>>
phpVars == <<taken, current, pinned, sapi, cookies, signalled>>
vars == <<tableVars, call, pc, phpVars, aborted>>

NoCall == [op |-> "none", at |-> "out", slot |-> 0]

\* scriptName, SG(request_info) and the batch go_register_server_variables walks.
NoBorrow == [script |-> Null, request_method |-> Null, query_string |-> Null,
              content_type |-> Null, cookie_data |-> Null, batch |-> Null]

\* What a thread does next, by the table call it makes there.
Places == {"boot", "unborn", "idle", "install", "publish", "info", "cookies", "collect", "register",
           "script", "shutdown", "free", "close", "clear", "release", "stopped"}

Init ==
  /\ table = <<>> /\ slots = <<>>
  /\ readers = {} /\ writer = Nobody
  /\ held = [a \in Actors |-> FALSE]
  /\ call = [a \in Actors |-> NoCall]
  /\ pc = [a \in Actors |-> IF a = Main THEN "boot" ELSE "unborn"]
  /\ taken = 0
  /\ current = [t \in Threads |-> Null]
  /\ pinned = [t \in Threads |-> Null]
  /\ sapi = [t \in Threads |-> NoBorrow]
  /\ cookies = {}
  /\ signalled = {}
  /\ aborted = FALSE
-------------------------------------------------------------------------------
(* The table *)

\* Seeded fault: the guard is taken without looking whether it is held.
AcquireUnchecked(a, op) ==
  /\ held' = [held EXCEPT ![a] = TRUE]
  /\ call' = [call EXCEPT ![a] = [op |-> op, at |-> "lookup", slot |-> 0]]
  /\ UNCHANGED aborted

\* SingleSlotGuard::acquire, the first thing in set, clear, with_context and
\* with_context_mut.
Acquire(a, op) ==
  IF held[a] THEN aborted' = TRUE /\ UNCHANGED <<held, call>>
  ELSE /\ held' = [held EXCEPT ![a] = TRUE]
       /\ call' = [call EXCEPT ![a] = [op |-> op, at |-> "lookup", slot |-> 0]]
       /\ UNCHANGED aborted

Enter(a, op) ==
  /\ call[a].at = "out" /\ Acquire(a, op)
  /\ UNCHANGED <<table, slots, readers, writer, pc, phpVars>>

\* A closure that calls the table again.
Reenter(a) ==
  /\ Careless /\ call[a].at = "closure" /\ Acquire(a, "callback")
  /\ UNCHANGED <<table, slots, readers, writer, pc, phpVars>>

At(a, from, to, slot) ==
  /\ call[a].at = from
  /\ call' = [call EXCEPT ![a].at = to, ![a].slot = slot]

\* slot(): the read lock,
ReadLock(a) ==
  /\ At(a, "lookup", "reading", 0) /\ writer = Nobody
  /\ readers' = readers \cup {a}
  /\ UNCHANGED <<table, slots, writer, held, pc, phpVars, aborted>>

\* the clone of the slot, or nothing, and the end of the read guard,
LookUp(a) ==
  /\ IF Index(a) < Len(table) THEN At(a, "reading", "lock", table[Index(a) + 1])
     ELSE At(a, "reading", "grow", 0)
  /\ readers' = readers \ {a}
  /\ UNCHANGED <<table, slots, writer, held, pc, phpVars, aborted>>

WriteLock(a) ==
  /\ At(a, "grow", "growing", 0) /\ writer = Nobody /\ readers = {}
  /\ writer' = a
  /\ UNCHANGED <<table, slots, readers, held, pc, phpVars, aborted>>

\* and, under the write lock, as many new slots as are still missing: another thread may
\* have grown the table since the lookup.
NewSlot == [holder |-> Nobody, ctx |-> None]

\* Seeded fault: the slots another thread has made meanwhile are made again.
MissingFromNothing(i) == 1..(i + 1)

Missing(i) == 1..(IF i < Len(table) THEN 0 ELSE i + 1 - Len(table))

Grow(a) ==
  LET grown == table \o [k \in Missing(Index(a)) |-> Len(slots) + k]
  IN  /\ table' = grown
      /\ slots' = slots \o [k \in Missing(Index(a)) |-> NewSlot]
      /\ At(a, "growing", "lock", grown[Index(a) + 1])
      /\ writer' = Nobody
      /\ UNCHANGED <<readers, held, pc, phpVars, aborted>>

LockSlot(a) ==
  /\ At(a, "lock", "closure", call[a].slot)
  /\ slots[call[a].slot].holder = Nobody
  /\ slots' = [slots EXCEPT ![call[a].slot].holder = a]
  /\ UNCHANGED <<table, readers, writer, held, pc, phpVars, aborted>>

\* The closure has run and leaves `ctx` in the slot; both guards drop.
Return(a, op, ctx) ==
  /\ call[a].at = "closure" /\ call[a].op = op
  /\ slots' = [slots EXCEPT ![call[a].slot] = [holder |-> Nobody, ctx |-> ctx]]
  /\ held' = [held EXCEPT ![a] = FALSE]
  /\ call' = [call EXCEPT ![a] = NoCall]
  /\ UNCHANGED <<table, readers, writer, aborted>>

\* The context the closure is given.
Found(a) == slots[call[a].slot].ctx

TableStep(a) == ReadLock(a) \/ LookUp(a) \/ WriteLock(a) \/ Grow(a) \/ LockSlot(a)
-------------------------------------------------------------------------------
(* The program of a PHP thread, php_thread *)

Goto(a, from, to) == pc[a] = from /\ pc' = [pc EXCEPT ![a] = to]

\* The handler has dequeued a request: set, and the next thing is publish_script_path.
Take(t) ==
  /\ taken < MaxRequests
  /\ call[t].at = "out" /\ Goto(t, "idle", "install") /\ Acquire(t, "set")
  /\ taken' = taken + 1
  /\ current' = [current EXCEPT ![t] = taken + 1]
  /\ UNCHANGED <<table, slots, readers, writer, pinned, sapi, cookies, signalled>>

\* A plain request has one of the nine methods with a static name and no Content-Type.
NewContext(r, plain) == [request |-> r, plain |-> plain, done |-> FALSE, batch |-> FALSE]

SetContext(t, plain) ==
  /\ Goto(t, "install", "publish")
  /\ Return(t, "set", <<NewContext(current[t], plain)>>)
  /\ UNCHANGED phpVars

\* publish_script_path: the thread owns the path and C borrows it.
PublishScriptPath(t) ==
  /\ call[t].at = "out" /\ Goto(t, "publish", "info")
  /\ pinned' = [pinned EXCEPT ![t] = current[t]]
  /\ sapi' = [sapi EXCEPT ![t].script = current[t]]
  /\ UNCHANGED <<tableVars, call, taken, current, cookies, signalled, aborted>>

\* go_update_request_info, before php_request_startup.  A known method is a static string;
\* content_type (and path_translated) is assigned only if the request has one.
UpdateRequestInfo(t) ==
  /\ Goto(t, "info", "cookies")
  /\ Return(t, "info", Found(t))
  /\ sapi' = IF Found(t) = None THEN sapi
             ELSE LET owner == Found(t)[1].request
                      plain == Found(t)[1].plain
                  IN  [sapi EXCEPT ![t].request_method = IF plain THEN Static ELSE owner,
                                   ![t].query_string = owner,
                                   ![t].content_type = IF plain THEN @ ELSE owner]
  /\ UNCHANGED <<taken, current, pinned, cookies, signalled>>

\* sapi_activate: go_read_cookies mallocs a string that C owns, or returns NULL.
ReadCookies(t, some) ==
  /\ Goto(t, "cookies", "collect")
  /\ Return(t, "cookies", Found(t))
  /\ IF some /\ Found(t) # None
     THEN /\ cookies' = cookies \cup {Found(t)[1].request}
          /\ sapi' = [sapi EXCEPT ![t].cookie_data = Found(t)[1].request]
     ELSE UNCHANGED <<cookies, sapi>>
  /\ UNCHANGED <<taken, current, pinned, signalled>>

\* frankenrust_collect_server_vars installs the batch in the context and returns; C then
\* walks it with no Rust frame and no lock.
CollectServerVars(t) ==
  /\ Goto(t, "collect", "register")
  /\ LET ctx == IF Found(t) = None THEN None ELSE <<[Found(t)[1] EXCEPT !.batch = TRUE]>>
     IN  Return(t, "collect", ctx)
  /\ sapi' = IF Found(t) = None THEN sapi ELSE [sapi EXCEPT ![t].batch = Found(t)[1].request]
  /\ UNCHANGED <<taken, current, pinned, cookies, signalled>>

RegisterServerVars(t) ==
  /\ call[t].at = "out" /\ Goto(t, "register", "script")
  /\ sapi' = [sapi EXCEPT ![t].batch = Null]
  /\ UNCHANGED <<tableVars, call, taken, current, pinned, cookies, signalled, aborted>>

\* Any callback of the running script or of its shutdown: output, the body, the headers,
\* go_is_context_done.
Callback(a) ==
  /\ Return(a, "callback", Found(a))
  /\ UNCHANGED <<pc, phpVars>>

\* Seeded fault: the thread closes its context again until the signal fires.
CloseUntilItFires(a) ==
  /\ call[a].at = "closure"
  /\ LET ctx == Found(a)
     IN  IF ctx = None \/ ctx[1].done
         THEN Return(a, "close", ctx) /\ UNCHANGED <<signalled, pc>>
         ELSE /\ Return(a, "close", <<[ctx[1] EXCEPT !.done = TRUE]>>)
              /\ signalled' = signalled \cup {ctx[1].request}
              /\ pc' = [pc EXCEPT ![a] = IF @ = "close" THEN "clear" ELSE @]
  /\ UNCHANGED <<taken, current, pinned, sapi, cookies>>

\* close_context, from fastcgi_finish_request or after the script: the signal fires once
\* and the context stays.
CloseContext(a) ==
  /\ call[a].at = "closure"
  /\ LET ctx == Found(a)
     IN  IF ctx = None \/ ctx[1].done THEN Return(a, "close", ctx) /\ UNCHANGED signalled
         ELSE /\ Return(a, "close", <<[ctx[1] EXCEPT !.done = TRUE]>>)
              /\ signalled' = signalled \cup {ctx[1].request}
  /\ pc' = [pc EXCEPT ![a] = IF @ = "close" THEN "clear" ELSE @]
  /\ UNCHANGED <<taken, current, pinned, sapi, cookies>>

EndScript(t) ==
  /\ call[t].at = "out" /\ Goto(t, "script", "shutdown")
  /\ UNCHANGED <<tableVars, call, phpVars, aborted>>

\* php_request_shutdown is over: frankenphp_free_request_context next.
EndShutdown(t) ==
  /\ call[t].at = "out" /\ Goto(t, "shutdown", "free")
  /\ UNCHANGED <<tableVars, call, phpVars, aborted>>

\* Seeded fault: the handler of a bailout clears SG(request_info) without
\* freeing the cookie.
BailoutForgetsCookie(t) ==
  /\ call[t].at = "out" /\ pc[t] \in {"cookies", "collect", "register", "script"}
  /\ pc' = [pc EXCEPT ![t] = "shutdown"]
  /\ sapi' = [sapi EXCEPT ![t] = NoBorrow]
  /\ UNCHANGED <<tableVars, call, taken, current, pinned, cookies, signalled, aborted>>

\* zend_bailout: startup, registration and script longjmp to the catch, which shuts the
\* request down under a catch of its own.  The C frames are gone, their locals with them.
Bailout(t) ==
  /\ call[t].at = "out" /\ pc[t] \in {"cookies", "collect", "register", "script"}
  /\ pc' = [pc EXCEPT ![t] = "shutdown"]
  /\ sapi' = [sapi EXCEPT ![t].batch = Null, ![t].script = Null]
  /\ UNCHANGED <<tableVars, call, taken, current, pinned, cookies, signalled, aborted>>

\* Seeded fault: the Content-Type of the last request stays in SG(request_info).
FreeKeepsContentType(t) ==
  /\ call[t].at = "out" /\ Goto(t, "free", "close")
  /\ cookies' = cookies \ {sapi[t].cookie_data}
  /\ sapi' = [sapi EXCEPT ![t] = [NoBorrow EXCEPT !.content_type = sapi[t].content_type]]
  /\ UNCHANGED <<tableVars, call, taken, current, pinned, signalled, aborted>>

\* frankenphp_free_request_context: the cookie is freed, the borrowed pointers are NULLed.
FreeRequestContext(t) ==
  /\ call[t].at = "out" /\ Goto(t, "free", "close")
  /\ cookies' = cookies \ {sapi[t].cookie_data}
  /\ sapi' = [sapi EXCEPT ![t] = NoBorrow]
  /\ UNCHANGED <<tableVars, call, taken, current, pinned, signalled, aborted>>

\* after_script_execution: close_context and clear, two calls, then release_script_path.
ClearContext(t) ==
  /\ Goto(t, "clear", "release")
  /\ Return(t, "clear", None)
  /\ UNCHANGED phpVars

ReleaseScriptPath(t) ==
  /\ call[t].at = "out" /\ Goto(t, "release", "idle")
  /\ pinned' = [pinned EXCEPT ![t] = Null]
  /\ current' = [current EXCEPT ![t] = Null]
  /\ UNCHANGED <<tableVars, call, taken, sapi, cookies, signalled, aborted>>

\* The handler returns no script: the pool is drained.
Stop(t) ==
  /\ call[t].at = "out" /\ Goto(t, "idle", "stopped")
  /\ UNCHANGED <<tableVars, call, phpVars, aborted>>

\* The table calls of each place.
Calls(t) ==
  \/ Take(t)
  \/ pc[t] = "info" /\ Enter(t, "info")
  \/ pc[t] = "cookies" /\ Enter(t, "cookies")
  \/ pc[t] = "collect" /\ Enter(t, "collect")
  \/ pc[t] \in {"script", "shutdown"} /\ Enter(t, "callback")
  \/ pc[t] = "script" /\ Enter(t, "close")
  \/ pc[t] = "close" /\ Enter(t, "close")
  \/ pc[t] = "clear" /\ Enter(t, "clear")
-------------------------------------------------------------------------------
(* The main PHP thread: module startup, then the PHP threads, then module shutdown once    *)
(* they have all stopped.                                                                   *)

MainCallback ==
  /\ pc[Main] = "boot" \/ (pc[Main] = "script" /\ \A t \in Threads : pc[t] = "stopped")
  /\ Enter(Main, "callback")

StartThreads ==
  /\ pc[Main] = "boot" /\ call[Main].at = "out"
  /\ pc' = [a \in Actors |-> IF a = Main THEN "script" ELSE "idle"]
  /\ UNCHANGED <<tableVars, call, phpVars, aborted>>
-------------------------------------------------------------------------------
ThreadStep(t) ==
  \/ \E plain \in BOOLEAN : SetContext(t, plain)
  \/ PublishScriptPath(t)
  \/ UpdateRequestInfo(t)
  \/ \E some \in BOOLEAN : ReadCookies(t, some)
  \/ CollectServerVars(t)
  \/ RegisterServerVars(t)
  \/ CloseContext(t)
  \/ EndShutdown(t)
  \/ FreeRequestContext(t)
  \/ ClearContext(t)
  \/ ReleaseScriptPath(t)

Next ==
  /\ ~aborted
  /\ \/ \E a \in Actors : TableStep(a) \/ Callback(a) \/ Reenter(a)
     \/ \E t \in Threads : Calls(t) \/ ThreadStep(t) \/ EndScript(t) \/ Bailout(t) \/ Stop(t)
     \/ MainCallback
     \/ StartThreads

Spec == Init /\ [][Next]_vars

\* After the script a thread runs on: the steps of its cleanup and of the table calls in it
\* are not up to PHP.
Cleanup(t) ==
  /\ ~aborted
  /\ pc[t] \in {"free", "close", "clear", "release"}
  /\ Calls(t) \/ TableStep(t) \/ ThreadStep(t)

FairSpec ==
  /\ Spec
  /\ \A t \in Threads : WF_vars(Cleanup(t))
  /\ \A a \in Actors : WF_vars(~aborted /\ (TableStep(a) \/ Callback(a)))
  /\ \A t \in Threads : WF_vars(~aborted /\ ThreadStep(t))
-------------------------------------------------------------------------------
(* Properties *)

\* Types, and the bookkeeping of the locks.
TypeOK ==
  /\ Len(table) <= NumThreads /\ Len(table) <= Len(slots)
  /\ \A i \in DOMAIN table : table[i] \in DOMAIN slots
  /\ \A s \in DOMAIN slots : slots[s].holder \in Actors \cup {Nobody}
  /\ readers \subseteq Actors /\ writer \in Actors \cup {Nobody}
  /\ held \in [Actors -> BOOLEAN]
  /\ \A a \in Actors : pc[a] \in Places /\ call[a].slot \in 0..Len(slots)
  /\ taken \in 0..MaxRequests /\ current \in [Threads -> 0..taken]
  /\ cookies \subseteq Requests /\ signalled \subseteq Requests

\* Two threads that grow the table at once do not lose a slot: a slot an actor has cloned
\* is the table's slot of its index, and no slot has two indices.
SlotIsShared ==
  /\ \A a \in Actors : call[a].slot # 0 => table[Index(a) + 1] = call[a].slot
  /\ \A i, j \in DOMAIN table : table[i] = table[j] => i = j

\* Rule 2: nobody waits for a lock of the table while it holds one, whatever its closures
\* do, so no two threads can wait for each other.
NoHoldAndWait ==
  \A a \in Actors :
    call[a].at \in {"lookup", "grow", "lock"} =>
      /\ \A s \in DOMAIN slots : slots[s].holder # a
      /\ a \notin readers /\ writer # a

\* Rule 1: where PHP runs and can bail out, the thread holds no lock and no guard; a longjmp
\* leaks nothing.
NoLockAcrossPhp ==
  \A t \in Threads :
    pc[t] \in {"register", "script", "shutdown"} /\ call[t].at = "out" =>
      ~held[t] /\ \A s \in DOMAIN slots : slots[s].holder # t

\* The rules of the table hold together: no lock waited for under another, none held where
\* PHP may bail out, and no slot lost while the table grows.
LockDiscipline == NoHoldAndWait /\ NoLockAcrossPhp /\ SlotIsShared

\* The context in the slot of a thread.
Installed(t) == IF t < Len(table) THEN slots[table[t + 1]].ctx ELSE None

\* Every pointer C can follow is into the context that is installed, of the request this
\* thread is serving: nothing is left from the request before, nothing is freed early.
PointersAreLive ==
  \A t \in Threads :
    LET ctx == Installed(t)
        Live(p) == \/ p \in {Null, Static}
                   \/ p = current[t] /\ ctx # None /\ ctx[1].request = p
    IN  /\ Live(sapi[t].request_method) /\ Live(sapi[t].query_string)
        /\ Live(sapi[t].content_type) /\ Live(sapi[t].batch)
        /\ sapi[t].batch # Null => ctx[1].batch
        /\ sapi[t].script \in {Null, pinned[t]}
        /\ sapi[t].cookie_data \in cookies \cup {Null}

\* Between two requests nothing of the first is left, however it ended: its context is
\* dropped and its waiter released, its cookie freed, its script path unpinned.
NothingLeaks ==
  /\ \A t \in Threads :
       pc[t] \in {"idle", "stopped"} /\ call[t].at = "out" =>
         Installed(t) = None /\ pinned[t] = Null /\ sapi[t] = NoBorrow
  /\ \A r \in 1..taken :
       (\A t \in Threads : current[t] # r) => r \in signalled /\ r \notin cookies

\* The main thread's callbacks, which come with thread 0's index, never find a request.
MainFindsNoRequest == call[Main].at = "closure" => Found(Main) = None

\* Nobody reaches into a request that is not its own: not through a pointer C kept, not
\* through an index two threads share.
BorrowsAreSound == PointersAreLive /\ MainFindsNoRequest

\* A script that has ended, by bailout too, leaves its thread ready for the next request,
\* unless a broken rule has aborted the process.
CleanupCompletes == \A t \in Threads : (pc[t] = "free") ~> (pc[t] = "idle" \/ aborted)
===============================================================================
