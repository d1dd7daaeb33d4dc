--------------------------- MODULE RequestLifecycle ---------------------------
(***************************************************************************)
(* A request from the server's `handle` through one PHP thread and back:   *)
(* server.rs (handle), response.rs, sink.rs, context.rs (RequestContext,   *)
(* CompletionSignal, CONTEXT_SLOTS), the callbacks of output.rs, worker.rs *)
(* and misc.rs, and the part of frankenphp.c that calls them.              *)
(*                                                                         *)
(* Actors: one `handle` future per request on the async side, and one PHP  *)
(* pthread that serves the requests one after the other.  They share the   *)
(* response buffer and the completion oneshot, and nothing orders them but *)
(* that oneshot: a script goes on after fastcgi_finish_request(), while    *)
(* the async side is already reading the buffer.                           *)
(*                                                                         *)
(* Data.  A header is its name.  Output is counted in chunks: `echo` puts  *)
(* one into PHP's output buffer, from where a later call writes it out.    *)
(* PHP itself is external: it runs the SAPI calls below in any order.      *)
(***************************************************************************)
EXTENDS Integers, FiniteSets

CONSTANTS Requests,     \* requests, each with its own handle future
          None,         \* no request, no response
          Headers,      \* response header names
          Codes,        \* status codes scripts set
          MaxChunks,    \* bound on the chunks a script echoes
          LateHints,    \* scripts may send early hints after their final headers
          DetectsClose, \* the transport reports a closed peer (Request::cancelled)
          LogsLastError \* a fatal bailout may leave PG(last_error_message) set

ASSUME RequestAssumption ==
  /\ None \notin Requests
  /\ Codes \subseteq 0 .. 999
  /\ MaxChunks \in Nat
  /\ {LateHints, DetectsClose, LogsLastError} \subseteq BOOLEAN

VARIABLES task,      \* [Requests -> where the handle future is]
          ctx,       \* [Requests -> its RequestContext]
          buf,       \* [Requests -> its SharedResponseBuffer]
          resp,      \* [Requests -> the response built, or None]
          slot,      \* CONTEXT_SLOTS[index]: the request installed, or None
          php,       \* the pthread: its place and PHP's per-request state
          alive,     \* the process has not aborted
          seen       \* history of each request, for the properties

vars == <<task, ctx, buf, resp, slot, php, alive, seen>>

Tasks == {"new", "dispatching", "awaiting", "answered", "cancelled"}

\* RequestContext: who owns it, is_done, client_had_closed, whether the completion
\* signal has been fired, and request.cancelled.
Context == [at : {"handler", "dispatch", "slot", "dropped"}, is_done : BOOLEAN,
            client_had_closed : BOOLEAN, fired : BOOLEAN, cancelled : BOOLEAN]

\* SharedResponseBuffer, with headers as the number of values of each name.
Buffer == [status : {0} \cup 100 .. 999, headers : [Headers -> Nat], body : Nat]

\* The pthread's place, SG(sapi_headers) and SG(headers_sent), the output buffer,
\* and has_attempted_shutdown.
Php == [pc : {"select", "startup", "run", "finish", "mark", "shutdown", "catch", "after",
              "mark_after", "clear"},
        code : 0 .. 999, headers : SUBSET Headers, sent : BOOLEAN, pending : Nat,
        attempted : BOOLEAN]

\* What happened: chunks echoed before the request was done, a close of the peer
\* that came after completion, an abort reported to PHP, and whether all output and
\* the final headers were written out before completion.
History == [echoed : Nat, late : BOOLEAN, aborted : BOOLEAN, final : BOOLEAN]

EmptyBuffer == [status |-> 0, headers |-> [h \in Headers |-> 0], body |-> 0]

IdlePhp == [pc |-> "select", code |-> 200, headers |-> {}, sent |-> FALSE, pending |-> 0,
            attempted |-> FALSE]

Init ==
  /\ task = [r \in Requests |-> "new"]
  /\ ctx = [r \in Requests |-> [at |-> "handler", is_done |-> FALSE,
              client_had_closed |-> FALSE, fired |-> FALSE, cancelled |-> FALSE]]
  /\ buf = [r \in Requests |-> EmptyBuffer]
  /\ resp = [r \in Requests |-> None]
  /\ slot = None
  /\ php = IdlePhp
  /\ alive = TRUE
  /\ seen = [r \in Requests |-> [echoed |-> 0, late |-> FALSE, aborted |-> FALSE,
                                 final |-> FALSE]]
-------------------------------------------------------------------------------
(* The async side: handle *)

handling == <<buf, slot, php, alive, seen>>

\* validate rejects: the context is dropped and the rejection is the response.
Reject(r) ==
  /\ alive /\ task[r] = "new"
  /\ task' = [task EXCEPT ![r] = "answered"]
  /\ ctx' = [ctx EXCEPT ![r].at = "dropped"]
  /\ resp' = [resp EXCEPT ![r] = [EmptyBuffer EXCEPT !.status = 400]]
  /\ UNCHANGED handling

\* The sink is attached and the context moves into spawn_blocking.
Spawn(r) ==
  /\ alive /\ task[r] = "new"
  /\ task' = [task EXCEPT ![r] = "dispatching"]
  /\ ctx' = [ctx EXCEPT ![r].at = "dispatch"]
  /\ UNCHANGED <<resp, handling>>

\* The blocking task has handed the context over and is joined.
Dispatched(r) ==
  /\ alive /\ task[r] = "dispatching" /\ ctx[r].at \in {"slot", "dropped"}
  /\ task' = [task EXCEPT ![r] = "awaiting"]
  /\ UNCHANGED <<ctx, resp, handling>>

\* build_response: a status that is no HTTP status reads as 200.
build_response(b) == [b EXCEPT !.status = IF b.status \in 100 .. 999 THEN @ ELSE 200]

\* completion_rx resolves: the sender was used, or dropped with its context.
Answer(r) ==
  /\ alive /\ task[r] = "awaiting" /\ (ctx[r].fired \/ ctx[r].at = "dropped")
  /\ task' = [task EXCEPT ![r] = "answered"]
  /\ resp' = [resp EXCEPT ![r] = build_response(buf[r])]
  /\ UNCHANGED <<ctx, handling>>

\* The peer hangs up: hyper drops the future, the dispatch goes on without it.
DropHandle(r) ==
  /\ alive /\ task[r] \in {"dispatching", "awaiting"}
  /\ task' = [task EXCEPT ![r] = "cancelled"]
  /\ UNCHANGED <<ctx, resp, handling>>

\* The transport sets Request::cancelled: the peer is gone, or the handler is done.
PeerCloses(r) ==
  /\ DetectsClose /\ alive
  /\ task[r] # "new" /\ ctx[r].at # "dropped" /\ ~ctx[r].cancelled
  /\ ctx' = [ctx EXCEPT ![r].cancelled = TRUE]
  /\ seen' = [seen EXCEPT ![r].late = ctx[r].fired]
  /\ UNCHANGED <<task, resp, buf, slot, php, alive>>
-------------------------------------------------------------------------------
(* The SAPI callbacks, for the request installed in the slot.  Each is one        *)
(* with_context_mut closure.                                                       *)

\* Seeded fault: any code PHP sets is stored.
ClampNothing(code) == code

clamp_status(code) == IF code \in 100 .. 999 THEN code ELSE 500

\* The response after go_write_headers(status, headers): append the headers, write
\* the status, and forget the headers again if they were informational.
Written(b, code, headers) ==
  LET status == clamp_status(code)
  IN  [b EXCEPT !.status = status,
                !.headers = IF status < 200 THEN [h \in Headers |-> 0]
                            ELSE [h \in Headers |-> @[h] + IF h \in headers THEN 1 ELSE 0]]

\* frankenphp_send_headers and go_write_headers.
go_write_headers(r, code, headers) ==
  buf' = IF ctx[r].is_done THEN buf
         ELSE [buf EXCEPT ![r] = Written(@, IF code = 0 THEN 200 ELSE code, headers)]

\* Seeded fault: headers and output are accepted after completion.
OutputUnguarded(r, n) ==
  LET b == IF php.sent THEN buf[r]
           ELSE Written(buf[r], IF php.code = 0 THEN 200 ELSE php.code, php.headers)
  IN  buf' = [buf EXCEPT ![r] = [b EXCEPT !.body = @ + n]]

\* The buffer after sapi_send_headers, which does nothing the second time, and then
\* go_ub_write of n chunks, which discards them once the request is done.
Output(r, n) ==
  LET b == IF php.sent THEN buf[r]
           ELSE Written(buf[r], IF php.code = 0 THEN 200 ELSE php.code, php.headers)
  IN  buf' = IF ctx[r].is_done THEN buf ELSE [buf EXCEPT ![r] = [b EXCEPT !.body = @ + n]]

\* Seeded fault: the transport is asked again after completion.
WriteLooksAgain(r) == ctx[r].cancelled

\* The second result of go_ub_write: after completion the frozen snapshot.
WriteSeesClosed(r) ==
  IF ctx[r].is_done THEN ctx[r].client_had_closed ELSE ctx[r].cancelled

\* The result of go_sapi_flush.
FlushSeesClosed(r) == ctx[r].cancelled /\ ~ctx[r].is_done

\* close_context, when the request is not done: the snapshot and the signal; the
\* is_done that follows is a step of its own (see Mark).
CloseContext(r) ==
  ctx' = [ctx EXCEPT ![r].client_had_closed = ctx[r].cancelled, ![r].fired = TRUE]
-------------------------------------------------------------------------------
(* The PHP pthread *)

At(label) == alive /\ php.pc = label

serving == <<task, resp, alive>>

\* wait_for_request receives the context: CONTEXT_SLOTS.set.
Receive(r) ==
  /\ At("select")
  /\ ctx[r].at = "dispatch"
  /\ slot' = r
  /\ ctx' = [ctx EXCEPT ![r].at = "slot"]
  /\ php' = [IdlePhp EXCEPT !.pc = "startup"]
  /\ UNCHANGED <<serving, buf, seen>>

\* frankenphp_update_request_context and php_request_startup, which may fail.
Startup ==
  /\ At("startup")
  /\ \E ok \in BOOLEAN : php' = [php EXCEPT !.pc = IF ok THEN "run" ELSE "catch"]
  /\ UNCHANGED <<serving, ctx, buf, slot, seen>>

\* header() and http_response_code(), as long as no headers have been sent.
SetHeader(h, code) ==
  /\ At("run") /\ ~php.sent
  /\ php' = [php EXCEPT !.headers = @ \cup {h}, !.code = code]
  /\ UNCHANGED <<serving, ctx, buf, slot, seen>>

\* echo into the output buffer.
Echo ==
  /\ At("run")
  /\ seen[slot].echoed + php.pending < MaxChunks
  /\ php' = [php EXCEPT !.pending = @ + 1]
  /\ seen' = [seen EXCEPT ![slot].echoed = IF ctx[slot].is_done THEN @ ELSE @ + 1]
  /\ UNCHANGED <<serving, ctx, buf, slot>>

\* The output buffer and the headers are written out.  A callback that tells PHP
\* that the client is gone makes php_handle_aborted_connection end the script,
\* unless ignore_user_abort is set; otherwise the pthread goes on at `then`.
WriteOut(closed, then) ==
  /\ Output(slot, php.pending)
  /\ \E ends \in BOOLEAN :
       /\ ends => closed
       /\ php' = [php EXCEPT !.pending = 0, !.sent = TRUE,
                             !.pc = IF ends THEN "shutdown" ELSE then]
  /\ UNCHANGED <<serving, ctx, slot>>

Note(closed, final) ==
  seen' = [seen EXCEPT ![slot].aborted = @ \/ closed,
                       ![slot].final = @ \/ (final /\ ~ctx[slot].is_done)]

\* frankenphp_ub_write, after frankenphp_send_headers the first time.
Write ==
  /\ At("run") /\ php.pending > 0
  /\ WriteOut(WriteSeesClosed(slot), "run")
  /\ Note(WriteSeesClosed(slot), FALSE)

\* frankenphp_sapi_flush, once the output buffer is empty: headers, then
\* go_sapi_flush; the sink's flush does nothing.
Flush ==
  /\ At("run") /\ php.pending = 0
  /\ WriteOut(FlushSeesClosed(slot), "run")
  /\ Note(FlushSeesClosed(slot), FALSE)

\* headers_send(103), which goes past headers_sent.
EarlyHints ==
  /\ At("run") /\ (php.sent => LateHints)
  /\ go_write_headers(slot, 103, php.headers)
  /\ UNCHANGED <<serving, ctx, slot, php, seen>>

\* Seeded fault: finish_request sends the headers and leaves the output
\* buffered.
FinishUnflushed ==
  /\ At("run") /\ ~ctx[slot].is_done
  /\ Output(slot, 0)
  /\ php' = [php EXCEPT !.sent = TRUE, !.pc = "finish"]
  /\ Note(FALSE, TRUE)
  /\ UNCHANGED <<serving, ctx, slot>>

\* Seeded fault: finish_request writes out the output without sending the
\* headers.
FinishWithoutHeaders ==
  /\ At("run") /\ ~ctx[slot].is_done
  /\ buf' = [buf EXCEPT ![slot].body = @ + php.pending]
  /\ php' = [php EXCEPT !.pending = 0, !.pc = "finish"]
  /\ Note(FALSE, TRUE)
  /\ UNCHANGED <<serving, ctx, slot>>

\* frankenphp_finish_request: nothing when go_is_context_done, else
\* php_output_end_all, php_header ...
FinishRequest ==
  /\ At("run") /\ ~ctx[slot].is_done
  /\ LET closed == php.pending > 0 /\ WriteSeesClosed(slot)
     IN  WriteOut(closed, "finish") /\ Note(closed, TRUE)

\* ... and go_frankenphp_finish_php_request: close_context in two steps, between
\* which the async side may already build its response.
Finish ==
  /\ At("finish")
  /\ CloseContext(slot)
  /\ php' = [php EXCEPT !.pc = "mark"]
  /\ UNCHANGED <<serving, buf, slot, seen>>

Mark ==
  /\ php.pc \in {"mark", "mark_after"} /\ alive
  /\ ctx' = [ctx EXCEPT ![slot].is_done = TRUE]
  /\ php' = [php EXCEPT !.pc = IF @ = "mark" THEN "run" ELSE "clear"]
  /\ UNCHANGED <<serving, buf, slot, seen>>

\* php_execute_script returns, or bails out to zend_catch.
ScriptEnds ==
  /\ At("run")
  /\ \E ok \in BOOLEAN : php' = [php EXCEPT !.pc = IF ok THEN "shutdown" ELSE "catch"]
  /\ UNCHANGED <<serving, ctx, buf, slot, seen>>

\* php_request_shutdown writes out what is left; an abort has no script to end.
LastOutput ==
  /\ Output(slot, php.pending)
  /\ Note(php.pending > 0 /\ WriteSeesClosed(slot), TRUE)

\* It may bail out, before or after the output.
Shutdown ==
  /\ At("shutdown")
  /\ \/ /\ LastOutput
        /\ \E label \in {"after", "catch"} :
             php' = [php EXCEPT !.attempted = TRUE, !.pc = label]
     \/ /\ php' = [php EXCEPT !.attempted = TRUE, !.pc = "catch"]
        /\ UNCHANGED <<buf, seen>>
  /\ UNCHANGED <<serving, ctx, slot>>

\* Seeded fault: an unhealthy pthread is replaced without
\* after_script_execution.
CatchAndExit ==
  /\ At("catch")
  /\ (~php.attempted /\ LastOutput) \/ UNCHANGED <<buf, seen>>
  /\ php' = IdlePhp
  /\ UNCHANGED <<serving, ctx, slot>>

\* zend_catch: a shutdown if there was none yet, which may bail out itself.
Catch ==
  /\ At("catch")
  /\ (~php.attempted /\ LastOutput) \/ UNCHANGED <<buf, seen>>
  /\ php' = [php EXCEPT !.pc = "after"]
  /\ UNCHANGED <<serving, ctx, slot>>

\* Its log of the pending error message: go_log_attrs is still an abort stub.
AbortStub ==
  /\ At("catch") /\ LogsLastError
  /\ alive' = FALSE
  /\ UNCHANGED <<task, ctx, buf, resp, slot, php, seen>>

\* after_script_execution: close_context, idempotent ...
AfterScriptExecution ==
  /\ At("after")
  /\ IF ctx[slot].is_done
     THEN php' = [php EXCEPT !.pc = "clear"] /\ UNCHANGED ctx
     ELSE php' = [php EXCEPT !.pc = "mark_after"] /\ CloseContext(slot)
  /\ UNCHANGED <<serving, buf, slot, seen>>

\* ... and CONTEXT_SLOTS.clear; an unhealthy pthread is replaced by a new one.
Clear ==
  /\ At("clear")
  /\ slot' = None
  /\ ctx' = [ctx EXCEPT ![slot].at = "dropped"]
  /\ php' = IdlePhp
  /\ UNCHANGED <<serving, buf, seen>>

Serves ==
  \/ \E r \in Requests : Receive(r)
  \/ Startup \/ Finish \/ Mark \/ ScriptEnds \/ Shutdown \/ Catch
  \/ AfterScriptExecution \/ Clear

Script ==
  \/ \E h \in Headers, c \in Codes : SetHeader(h, c)
  \/ Echo \/ Write \/ Flush \/ EarlyHints \/ FinishRequest

Handle(r) == Dispatched(r) \/ Answer(r)

Next ==
  \/ \E r \in Requests : Reject(r) \/ Spawn(r) \/ Handle(r) \/ DropHandle(r) \/ PeerCloses(r)
  \/ Serves \/ Script \/ AbortStub

Spec == Init /\ [][Next]_vars

\* The future is polled when it can proceed, the pthread runs, and a script that is
\* left to itself ends.
Fairness == WF_vars(Serves) /\ \A r \in Requests : WF_vars(Handle(r))

FairSpec == Spec /\ Fairness
-------------------------------------------------------------------------------
\* The types of the two sides' state, and the slot's ownership of its context.
TypeOK ==
  /\ task \in [Requests -> Tasks]
  /\ ctx \in [Requests -> Context]
  /\ buf \in [Requests -> Buffer]
  /\ \A r \in Requests : resp[r] = None \/ resp[r] \in Buffer
  /\ slot \in Requests \cup {None}
  /\ php \in Php
  /\ seen \in [Requests -> History]
  /\ alive \in BOOLEAN

\* The buffer is frozen once it may be read: after the completion signal no call of
\* the script, which may run on for as long as it likes, changes it.  The response
\* is built from it without any other synchronisation.
BufferIsFrozen ==
  [][\A r \in Requests : ctx[r].fired => buf'[r] = buf[r]]_vars

\* The response holds everything the script produced before it finished the
\* request: output still in PHP's buffers reaches the sink before the signal.
ResponseIsComplete ==
  \A r \in Requests :
    resp[r] # None /\ seen[r].final => resp[r].body = seen[r].echoed

\* A header PHP sent once is in the response once: the headers of an early hint do
\* not come back with the final ones, and final headers are not sent twice.
HeadersSentOnce ==
  \A r \in Requests, h \in Headers : resp[r] # None => resp[r].headers[h] <= 1

\* An informational status is never the answer, unless the engine failed before the
\* final headers were sent.
AnswerIsFinal ==
  \A r \in Requests : resp[r] # None /\ seen[r].final => resp[r].status >= 200

\* A context that was received is dropped only after its signal: completion_rx never
\* resolves by a disconnect, so no request is answered with a made-up empty 200.
SignalledBeforeDrop ==
  \A r \in Requests :
    ctx[r].at = "dropped" /\ task[r] \in {"dispatching", "awaiting"} => ctx[r].fired

\* The response is what the script produced, all of it and once, and never made up.
ResponseIsTheScripts == ResponseIsComplete /\ HeadersSentOnce /\ SignalledBeforeDrop

\* A peer that closes after completion, as every peer may, is not reported to the
\* script as an abort (context.rs, client_had_closed).
AbortIsNotInvented == \A r \in Requests : seen[r].late => ~seen[r].aborted

\* Every request that is dispatched is answered, unless its peer hangs up, through
\* bailouts and after scripts that run on.
EveryRequestIsAnswered ==
  \A r \in Requests :
    (task[r] = "dispatching") ~> (task[r] \in {"answered", "cancelled"})

\* What docs/PORTING-NOTES.md says of zend_catch: the unhealthy thread is restarted,
\* so the pthread comes back for another request.
UnhealthyIsRestarted == (php.pc = "catch") ~> (php.pc = "select")
===============================================================================
