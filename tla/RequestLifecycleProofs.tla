------------------------ MODULE RequestLifecycleProofs ------------------------
(***************************************************************************)
(* The life of a request, for any number of requests, headers, codes and   *)
(* chunks.  The two sides share the buffer without a lock, so everything   *)
(* rests on what the pthread's place says about the request it serves:     *)
(* whether the signal has been fired, whether the final headers have been  *)
(* sent, and how much output is where.                                     *)
(***************************************************************************)
EXTENDS RequestLifecycle, TLAPS

\* The slot holds the request being served, and a context is in one place.
Ownership ==
  /\ slot = None <=> php.pc = "select"
  /\ \A r \in Requests :
       /\ ctx[r].at = "slot" <=> slot = r
       /\ ctx[r].at = "handler" <=> task[r] = "new"
       /\ ctx[r].at = "dispatch" => task[r] \in {"dispatching", "cancelled"}

\* Until a pthread receives it nothing has happened to a request.
Untouched(r) ==
  /\ ~ctx[r].fired /\ ~ctx[r].is_done /\ ~ctx[r].client_had_closed
  /\ buf[r] = EmptyBuffer
  /\ seen[r] = [echoed |-> 0, late |-> FALSE, aborted |-> FALSE, final |-> FALSE]

\* The signal comes before is_done, and the pthread's place says which of them it is at.
SignalOrder ==
  /\ \A r \in Requests : ctx[r].is_done => ctx[r].fired
  /\ \A r \in Requests : ctx[r].at \in {"handler", "dispatch"} => Untouched(r) /\ resp[r] = None
  /\ php.pc = "finish" => ~ctx[slot].fired
  /\ php.pc \in {"mark", "mark_after"} => ctx[slot].fired /\ ~ctx[slot].is_done
  /\ slot # None /\ php.pc \notin {"mark", "mark_after"} => (ctx[slot].fired <=> ctx[slot].is_done)
  /\ php.pc = "clear" => ctx[slot].is_done
  /\ \A r \in Requests : ctx[r].at = "dropped" =>
       ctx[r].fired \/ (task[r] = "answered" /\ Untouched(r))

\* The places from which the pthread may still write output.
Writing == \/ php.pc \in {"startup", "run", "finish", "shutdown"}
           \/ php.pc = "catch" /\ ~php.attempted

\* What the script echoed is in the response buffer or in PHP's, and the final headers
\* go out once.
Accounts ==
  /\ \A r \in Requests : seen[r].final => buf[r].body = seen[r].echoed
  /\ \A r \in Requests, h \in Headers : buf[r].headers[h] <= 1
  /\ Writing /\ ~ctx[slot].is_done =>
       /\ buf[slot].body + php.pending = seen[slot].echoed
       /\ ~php.sent => \A h \in Headers : buf[slot].headers[h] = 0
  /\ php.pc \in {"startup", "run"} /\ ~ctx[slot].is_done => ~seen[slot].final

\* A response is a rejection, or the buffer as it was and still is.
Responses ==
  /\ resp \in [Requests -> Buffer \cup {None}]
  /\ \A r \in Requests :
       resp[r] # None =>
         \/ ctx[r].fired /\ resp[r] = build_response(buf[r])
         \/ ~ctx[r].fired /\ ctx[r].at = "dropped" /\ \A h \in Headers : resp[r].headers[h] = 0

\* A close is reported to PHP only if it came before the signal.
Closes ==
  \A r \in Requests :
    /\ ctx[r].client_had_closed => ctx[r].cancelled
    /\ seen[r].aborted => ctx[r].cancelled
    /\ seen[r].late => ctx[r].cancelled /\ ctx[r].fired
                       /\ ~ctx[r].client_had_closed /\ ~seen[r].aborted

IInv == TypeOK /\ Ownership /\ SignalOrder /\ Accounts /\ Responses /\ Closes

\* Scripts whose final status is a final one, and which send no hints after it.
FinalOnly == ~LateHints /\ \A c \in Codes : c \notin 100 .. 199

\* Once the final headers are out the status is a final one.
StatusIsFinal ==
  /\ php.code \in Codes \cup {200}
  /\ \A r \in Requests : seen[r].final => buf[r].status >= 200
  /\ Writing /\ php.sent /\ ~ctx[slot].is_done => buf[slot].status >= 200
-------------------------------------------------------------------------------
(* What the operators do to the shared state *)

LEMMA ClampType ==
  ASSUME NEW code
  PROVE  clamp_status(code) \in 100 .. 999
BY DEF clamp_status

\* A buffer with another body.
LEMMA BodyReplaced ==
  ASSUME NEW b \in Buffer, NEW m \in Nat
  PROVE  LET c == [b EXCEPT !.body = m]
         IN  c \in Buffer /\ c.body = m /\ c.status = b.status /\ c.headers = b.headers
BY DEF Buffer

\* The response after go_write_headers: its body stays, and each header of the call is
\* appended once, or none is kept.
LEMMA WrittenEffect ==
  ASSUME NEW b \in Buffer, NEW code, NEW headers
  PROVE  /\ Written(b, code, headers) \in Buffer
         /\ Written(b, code, headers).status = clamp_status(code)
         /\ Written(b, code, headers).body = b.body
         /\ \A h \in Headers : Written(b, code, headers).headers[h] <= b.headers[h] + 1
         /\ clamp_status(code) < 200 =>
              \A h \in Headers : Written(b, code, headers).headers[h] = 0
<1> DEFINE st == clamp_status(code)
           hs == IF st < 200 THEN [h \in Headers |-> 0]
                 ELSE [h \in Headers |-> b.headers[h] + IF h \in headers THEN 1 ELSE 0]
<1>1. st \in 100 .. 999
  BY ClampType
<1>2. b.headers \in [Headers -> Nat] /\ b.body \in Nat
  BY DEF Buffer
<1>3. hs \in [Headers -> Nat] /\ \A h \in Headers : hs[h] <= b.headers[h] + 1
  BY <1>1, <1>2
<1>4. st < 200 => \A h \in Headers : hs[h] = 0
  OBVIOUS
<1>5. Written(b, code, headers) = [b EXCEPT !.status = st, !.headers = hs]
  BY DEF Written
<1> HIDE DEF st, hs
<1> DEFINE Status == {0} \cup 100 .. 999
           Fields == [Headers -> Nat]
<1>6. Buffer = [status : Status, headers : Fields, body : Nat]
  BY ZenonT(40) DEF Buffer
<1>7. st \in Status /\ hs \in Fields
  BY <1>1, <1>3
<1> HIDE DEF Status, Fields
<1>8. /\ Written(b, code, headers) \in Buffer
      /\ Written(b, code, headers).status = st /\ Written(b, code, headers).headers = hs
      /\ Written(b, code, headers).body = b.body
  BY <1>5, <1>6, <1>7
<1> QED BY <1>3, <1>4, <1>8 DEF st

\* The code PHP's headers go out with.
SentCode == IF php.code = 0 THEN 200 ELSE php.code

\* Headers, the first time, and then n chunks reach the buffer, unless the request is done.
LEMMA OutputEffect ==
  ASSUME TypeOK, NEW r \in Requests, NEW n \in Nat, Output(r, n)
  PROVE  /\ buf' \in [Requests -> Buffer]
         /\ \A q \in Requests \ {r} : buf'[q] = buf[q]
         /\ ctx[r].is_done => buf' = buf
         /\ ~ctx[r].is_done => buf'[r].body = buf[r].body + n
         /\ ~ctx[r].is_done /\ php.sent =>
              buf'[r].status = buf[r].status /\ buf'[r].headers = buf[r].headers
         /\ ~ctx[r].is_done /\ ~php.sent =>
              /\ buf'[r].status = clamp_status(SentCode)
              /\ \A h \in Headers : buf'[r].headers[h] <= buf[r].headers[h] + 1
<1> DEFINE w == Written(buf[r], SentCode, php.headers)
           b == IF php.sent THEN buf[r] ELSE w
           new == [b EXCEPT !.body = @ + n]
<1>1. buf[r] \in Buffer /\ buf \in [Requests -> Buffer]
  BY DEF TypeOK
<1>2. /\ w \in Buffer /\ w.status = clamp_status(SentCode) /\ w.body = buf[r].body
      /\ \A h \in Headers : w.headers[h] <= buf[r].headers[h] + 1
  BY <1>1, WrittenEffect
<1>3. buf' = IF ctx[r].is_done THEN buf ELSE [buf EXCEPT ![r] = new]
  BY DEF Output, SentCode
<1> HIDE DEF w
<1>4. b \in Buffer
  BY <1>1, <1>2
<1> HIDE DEF b
<1>5. b.body + n \in Nat
  BY <1>4 DEF Buffer
<1>6. new \in Buffer /\ new.body = b.body + n /\ new.status = b.status /\ new.headers = b.headers
  BY <1>4, <1>5, BodyReplaced
<1> HIDE DEF new
<1>7. CASE ctx[r].is_done
  BY <1>1, <1>3, <1>7
<1>8. CASE ~ctx[r].is_done
  <2>1. buf' = [buf EXCEPT ![r] = new]
    BY <1>3, <1>8
  <2>2. buf' \in [Requests -> Buffer] /\ buf'[r] = new /\ \A q \in Requests \ {r} : buf'[q] = buf[q]
    BY <1>1, <1>6, <2>1
  <2>3. CASE php.sent
    BY <1>6, <1>8, <2>2, <2>3 DEF b
  <2>4. CASE ~php.sent
    BY <1>2, <1>6, <1>8, <2>2, <2>4 DEF b
  <2> QED BY <2>3, <2>4
<1> QED BY <1>7, <1>8

\* What the history remembers of a call.
LEMMA NoteEffect ==
  ASSUME TypeOK, slot \in Requests, NEW closed \in BOOLEAN, NEW final \in BOOLEAN,
         Note(closed, final)
  PROVE  /\ seen' \in [Requests -> History]
         /\ \A q \in Requests \ {slot} : seen'[q] = seen[q]
         /\ seen'[slot].echoed = seen[slot].echoed /\ seen'[slot].late = seen[slot].late
         /\ seen'[slot].aborted <=> seen[slot].aborted \/ closed
         /\ seen'[slot].final <=> seen[slot].final \/ (final /\ ~ctx[slot].is_done)
<1> DEFINE a == seen[slot].aborted \/ closed
           f == seen[slot].final \/ (final /\ ~ctx[slot].is_done)
           new == [seen[slot] EXCEPT !.aborted = a, !.final = f]
<1>1. seen \in [Requests -> History] /\ seen[slot] \in History
  BY DEF TypeOK
<1>2. a \in BOOLEAN /\ f \in BOOLEAN
  OBVIOUS
<1>3. seen' = [seen EXCEPT ![slot] = new]
  BY <1>1 DEF Note
<1> HIDE DEF a, f
<1>5. /\ new \in History /\ new.echoed = seen[slot].echoed /\ new.late = seen[slot].late
      /\ new.aborted = a /\ new.final = f
  BY <1>1, <1>2 DEF History
<1> HIDE DEF new
<1> QED BY <1>1, <1>3, <1>5 DEF a, f

\* close_context: the snapshot and the signal.
LEMMA CloseEffect ==
  ASSUME TypeOK, NEW r \in Requests, CloseContext(r)
  PROVE  /\ ctx' \in [Requests -> Context]
         /\ \A q \in Requests \ {r} : ctx'[q] = ctx[q]
         /\ ctx'[r].at = ctx[r].at /\ ctx'[r].is_done = ctx[r].is_done
         /\ ctx'[r].cancelled = ctx[r].cancelled /\ ctx'[r].client_had_closed = ctx[r].cancelled
         /\ ctx'[r].fired
<1> DEFINE new == [ctx[r] EXCEPT !.client_had_closed = ctx[r].cancelled, !.fired = TRUE]
<1>1. ctx \in [Requests -> Context] /\ ctx[r] \in Context
  BY DEF TypeOK
<1>2. new \in Context
  BY <1>1 DEF Context
<1>3. ctx' = [ctx EXCEPT ![r] = new]
  BY <1>1 DEF CloseContext
<1>4. /\ new.at = ctx[r].at /\ new.is_done = ctx[r].is_done /\ new.cancelled = ctx[r].cancelled
      /\ new.client_had_closed = ctx[r].cancelled /\ new.fired = TRUE
  BY <1>1 DEF Context
<1> HIDE DEF new
<1> QED BY <1>1, <1>2, <1>3, <1>4

\* A context moves.
LEMMA MoveEffect ==
  ASSUME TypeOK, NEW r \in Requests, NEW place \in {"handler", "dispatch", "slot", "dropped"},
         ctx' = [ctx EXCEPT ![r].at = place]
  PROVE  /\ ctx' \in [Requests -> Context]
         /\ \A q \in Requests \ {r} : ctx'[q] = ctx[q]
         /\ ctx'[r].at = place /\ ctx'[r].is_done = ctx[r].is_done
         /\ ctx'[r].client_had_closed = ctx[r].client_had_closed
         /\ ctx'[r].fired = ctx[r].fired /\ ctx'[r].cancelled = ctx[r].cancelled
<1> DEFINE new == [ctx[r] EXCEPT !.at = place]
<1>1. ctx \in [Requests -> Context] /\ ctx[r] \in Context
  BY DEF TypeOK
<1>2. /\ new \in Context /\ new.at = place /\ new.is_done = ctx[r].is_done
      /\ new.client_had_closed = ctx[r].client_had_closed
      /\ new.fired = ctx[r].fired /\ new.cancelled = ctx[r].cancelled
  BY <1>1 DEF Context
<1>3. ctx' = [ctx EXCEPT ![r] = new]
  BY <1>1
<1> HIDE DEF new
<1> QED BY <1>1, <1>2, <1>3

\* build_response changes the status only, and to an HTTP status.
LEMMA BuildEffect ==
  ASSUME NEW b \in Buffer
  PROVE  /\ build_response(b) \in Buffer
         /\ build_response(b).body = b.body /\ build_response(b).headers = b.headers
         /\ b.status >= 200 => build_response(b).status >= 200
<1> DEFINE st == IF b.status \in 100 .. 999 THEN b.status ELSE 200
           Status == {0} \cup 100 .. 999
           Fields == [Headers -> Nat]
<1>1. st \in Status /\ (b.status >= 200 => st >= 200)
  OBVIOUS
<1>2. build_response(b) = [b EXCEPT !.status = st]
  BY DEF build_response
<1>3. Buffer = [status : Status, headers : Fields, body : Nat]
  BY DEF Buffer
<1> HIDE DEF st, Status, Fields
<1> QED BY <1>1, <1>2, <1>3
-------------------------------------------------------------------------------
(* The async side keeps the invariant *)

LEMMA RejectStep ==
  ASSUME IInv, NEW r \in Requests, Reject(r)
  PROVE  IInv'
<1>1. /\ TypeOK /\ task' = [task EXCEPT ![r] = "answered"] /\ task[r] = "new"
      /\ UNCHANGED <<buf, slot, php, alive, seen>>
      /\ resp' = [resp EXCEPT ![r] = [EmptyBuffer EXCEPT !.status = 400]]
      /\ ctx' = [ctx EXCEPT ![r].at = "dropped"]
  BY DEF Reject, handling, IInv
<1>2. /\ ctx' \in [Requests -> Context]
      /\ \A q \in Requests \ {r} : ctx'[q] = ctx[q]
      /\ ctx'[r].at = "dropped" /\ ctx'[r].is_done = ctx[r].is_done
      /\ ctx'[r].client_had_closed = ctx[r].client_had_closed
      /\ ctx'[r].fired = ctx[r].fired /\ ctx'[r].cancelled = ctx[r].cancelled
  BY <1>1, MoveEffect
<1>3. /\ task' \in [Requests -> Tasks] /\ task'[r] = "answered"
      /\ \A q \in Requests \ {r} : task'[q] = task[q]
  BY <1>1 DEF TypeOK, Tasks
<1>4. /\ resp' \in [Requests -> Buffer \cup {None}]
      /\ \A q \in Requests \ {r} : resp'[q] = resp[q]
      /\ \A h \in Headers : resp'[r].headers[h] = 0
  <2> DEFINE new == [EmptyBuffer EXCEPT !.status = 400]
  <2>1. new \in Buffer /\ \A h \in Headers : new.headers[h] = 0
    BY DEF Buffer, EmptyBuffer
  <2>2. resp \in [Requests -> Buffer \cup {None}]
    BY DEF IInv, Responses
  <2>3. resp' = [resp EXCEPT ![r] = new]
    BY <1>1
  <2> HIDE DEF new
  <2> QED BY <2>1, <2>2, <2>3
<1>5. ctx[r].at = "handler" /\ slot # r
  BY <1>1 DEF IInv, Ownership
<1>6. TypeOK'
  BY <1>1, <1>2, <1>3, <1>4 DEF TypeOK
<1>7. Ownership'
  BY <1>1, <1>2, <1>3, <1>5 DEF IInv, Ownership
<1>8. SignalOrder'
  BY <1>1, <1>2, <1>3, <1>4, <1>5 DEF IInv, SignalOrder, Untouched, TypeOK
<1>9. Accounts'
  BY <1>1, <1>2, <1>5 DEF IInv, Accounts, Writing, Ownership, TypeOK
<1>10. Responses'
  BY <1>1, <1>2, <1>4, <1>5 DEF IInv, Responses, SignalOrder, Untouched
<1>11. Closes'
  BY <1>1, <1>2 DEF IInv, Closes
<1> QED BY <1>6, <1>7, <1>8, <1>9, <1>10, <1>11 DEF IInv

LEMMA SpawnStep ==
  ASSUME IInv, NEW r \in Requests, Spawn(r)
  PROVE  IInv'
<1>1. /\ TypeOK /\ task' = [task EXCEPT ![r] = "dispatching"] /\ task[r] = "new"
      /\ UNCHANGED <<resp, buf, slot, php, alive, seen>>
      /\ ctx' = [ctx EXCEPT ![r].at = "dispatch"]
  BY DEF Spawn, handling, IInv
<1>2. /\ ctx' \in [Requests -> Context]
      /\ \A q \in Requests \ {r} : ctx'[q] = ctx[q]
      /\ ctx'[r].at = "dispatch" /\ ctx'[r].is_done = ctx[r].is_done
      /\ ctx'[r].client_had_closed = ctx[r].client_had_closed
      /\ ctx'[r].fired = ctx[r].fired /\ ctx'[r].cancelled = ctx[r].cancelled
  BY <1>1, MoveEffect
<1>3. /\ task' \in [Requests -> Tasks] /\ task'[r] = "dispatching"
      /\ \A q \in Requests \ {r} : task'[q] = task[q]
  BY <1>1 DEF TypeOK, Tasks
<1>4. ctx[r].at = "handler" /\ slot # r
  BY <1>1 DEF IInv, Ownership
<1>5. TypeOK'
  BY <1>1, <1>2, <1>3 DEF TypeOK
<1>6. Ownership'
  BY <1>1, <1>2, <1>3, <1>4 DEF IInv, Ownership
<1>7. SignalOrder'
  BY <1>1, <1>2, <1>3, <1>4 DEF IInv, SignalOrder, Untouched, TypeOK
<1>8. Accounts'
  BY <1>1, <1>2, <1>4 DEF IInv, Accounts, Writing, Ownership, TypeOK
<1>9. Responses'
  BY <1>1, <1>2, <1>4 DEF IInv, Responses, SignalOrder
<1>10. Closes'
  BY <1>1, <1>2 DEF IInv, Closes
<1> QED BY <1>5, <1>6, <1>7, <1>8, <1>9, <1>10 DEF IInv

\* The future goes on or is dropped: neither touches the context or the buffer.
LEMMA JoinStep ==
  ASSUME IInv, NEW r \in Requests, Dispatched(r) \/ DropHandle(r)
  PROVE  IInv'
<1>1. /\ TypeOK /\ task[r] \in {"dispatching", "awaiting"}
      /\ UNCHANGED <<ctx, resp, buf, slot, php, alive, seen>>
      /\ \/ task' = [task EXCEPT ![r] = "cancelled"]
         \/ task' = [task EXCEPT ![r] = "awaiting"] /\ ctx[r].at \in {"slot", "dropped"}
  BY DEF Dispatched, DropHandle, handling, IInv
<1>2. /\ task' \in [Requests -> Tasks] /\ task'[r] \in {"awaiting", "cancelled"}
      /\ \A q \in Requests \ {r} : task'[q] = task[q]
      /\ task'[r] = "awaiting" => ctx[r].at \in {"slot", "dropped"}
  BY <1>1 DEF TypeOK, Tasks
<1>3. TypeOK'
  BY <1>1, <1>2 DEF TypeOK
<1>4. Ownership'
  BY <1>1, <1>2 DEF IInv, Ownership
<1>5. SignalOrder'
  BY <1>1, <1>2 DEF IInv, SignalOrder, Untouched, TypeOK
<1>6. Accounts' /\ Responses' /\ Closes'
  BY <1>1 DEF IInv, Accounts, Writing, Responses, Closes
<1> QED BY <1>3, <1>4, <1>5, <1>6 DEF IInv

\* An answer is built from a buffer whose signal has been fired: the other way to resolve,
\* a context dropped unfired, is a rejection, and that request is not awaiting.
LEMMA AnswerStep ==
  ASSUME IInv, NEW r \in Requests, Answer(r)
  PROVE  IInv'
<1>1. /\ TypeOK /\ task' = [task EXCEPT ![r] = "answered"] /\ task[r] = "awaiting"
      /\ UNCHANGED <<ctx, buf, slot, php, alive, seen>>
      /\ resp' = [resp EXCEPT ![r] = build_response(buf[r])]
      /\ ctx[r].fired \/ ctx[r].at = "dropped"
  BY DEF Answer, handling, IInv
<1>2. ctx[r].fired
  BY <1>1 DEF IInv, SignalOrder
<1>3. /\ task' \in [Requests -> Tasks] /\ task'[r] = "answered"
      /\ \A q \in Requests \ {r} : task'[q] = task[q]
  BY <1>1 DEF TypeOK, Tasks
<1>4. build_response(buf[r]) \in Buffer
  BY <1>1, BuildEffect DEF TypeOK
<1>5. /\ resp' \in [Requests -> Buffer \cup {None}] /\ resp'[r] = build_response(buf[r])
      /\ \A q \in Requests \ {r} : resp'[q] = resp[q]
  <2>1. resp \in [Requests -> Buffer \cup {None}]
    BY DEF IInv, Responses
  <2> QED BY <1>1, <1>4, <2>1
<1>6. ctx[r].at \notin {"handler", "dispatch"}
  BY <1>2 DEF IInv, SignalOrder, Untouched
<1>7. TypeOK'
  BY <1>1, <1>3, <1>5 DEF TypeOK
<1>8. Ownership'
  BY <1>1, <1>3, <1>6 DEF IInv, Ownership
<1>9. SignalOrder'
  BY <1>1, <1>2, <1>3, <1>5, <1>6 DEF IInv, SignalOrder, Untouched, TypeOK
<1>10. Responses'
  <2>1. \A q \in Requests : ctx'[q] = ctx[q] /\ buf'[q] = buf[q]
    BY <1>1
  <2> QED BY <1>2, <1>5, <2>1 DEF IInv, Responses
<1>11. Accounts' /\ Closes'
  BY <1>1 DEF IInv, Accounts, Writing, Closes
<1> QED BY <1>7, <1>8, <1>9, <1>10, <1>11 DEF IInv

\* A close of the peer after the signal is noted as late.
LEMMA PeerClosesStep ==
  ASSUME IInv, NEW r \in Requests, PeerCloses(r)
  PROVE  IInv'
<1>1. /\ TypeOK /\ UNCHANGED <<task, resp, buf, slot, php, alive>>
      /\ ctx' = [ctx EXCEPT ![r].cancelled = TRUE] /\ ~ctx[r].cancelled
      /\ seen' = [seen EXCEPT ![r].late = ctx[r].fired]
      /\ ctx[r].at # "dropped" /\ task[r] # "new"
  BY DEF PeerCloses, IInv
<1>2. /\ ctx' \in [Requests -> Context]
      /\ \A q \in Requests \ {r} : ctx'[q] = ctx[q]
      /\ ctx'[r].at = ctx[r].at /\ ctx'[r].is_done = ctx[r].is_done
      /\ ctx'[r].client_had_closed = ctx[r].client_had_closed
      /\ ctx'[r].fired = ctx[r].fired /\ ctx'[r].cancelled = TRUE
  <2> DEFINE new == [ctx[r] EXCEPT !.cancelled = TRUE]
  <2>1. ctx \in [Requests -> Context] /\ ctx[r] \in Context
    BY <1>1 DEF TypeOK
  <2>2. /\ new \in Context /\ new.at = ctx[r].at /\ new.is_done = ctx[r].is_done
        /\ new.client_had_closed = ctx[r].client_had_closed
        /\ new.fired = ctx[r].fired /\ new.cancelled = TRUE
    BY <2>1 DEF Context
  <2>3. ctx' = [ctx EXCEPT ![r] = new]
    BY <1>1, <2>1
  <2> HIDE DEF new
  <2> QED BY <2>1, <2>2, <2>3
<1>3. /\ seen' \in [Requests -> History]
      /\ \A q \in Requests \ {r} : seen'[q] = seen[q]
      /\ seen'[r].echoed = seen[r].echoed /\ seen'[r].late = ctx[r].fired
      /\ seen'[r].aborted = seen[r].aborted /\ seen'[r].final = seen[r].final
  <2> DEFINE new == [seen[r] EXCEPT !.late = ctx[r].fired]
  <2>1. seen \in [Requests -> History] /\ seen[r] \in History /\ ctx[r].fired \in BOOLEAN
    BY <1>1 DEF TypeOK, Context
  <2>2. /\ new \in History /\ new.echoed = seen[r].echoed /\ new.late = ctx[r].fired
        /\ new.aborted = seen[r].aborted /\ new.final = seen[r].final
    BY <2>1 DEF History
  <2>3. seen' = [seen EXCEPT ![r] = new]
    BY <1>1, <2>1
  <2> HIDE DEF new
  <2> QED BY <2>1, <2>2, <2>3
<1>4. ctx[r].at # "handler"
  BY <1>1 DEF IInv, Ownership
<1>5. ~ctx[r].fired => seen'[r] = seen[r]
  <2>1. seen[r] \in History /\ seen'[r] \in History
    BY <1>1, <1>3 DEF TypeOK
  <2>2. ~ctx[r].fired => seen[r].late = FALSE
    BY <2>1 DEF IInv, Closes, History
  <2> QED BY <1>3, <2>1, <2>2 DEF History
<1>6. TypeOK'
  BY <1>1, <1>2, <1>3 DEF TypeOK
<1>7. Ownership'
  BY <1>1, <1>2 DEF IInv, Ownership
<1>8. SignalOrder'
  <2>1. \A q \in Requests :
          /\ ctx'[q].at = ctx[q].at /\ ctx'[q].is_done = ctx[q].is_done
          /\ ctx'[q].client_had_closed = ctx[q].client_had_closed
          /\ ctx'[q].fired = ctx[q].fired
          /\ ~ctx[q].fired => seen'[q] = seen[q]
    BY <1>2, <1>3, <1>5
  <2>2. \A q \in Requests : Untouched(q) => Untouched(q)'
    BY <1>1, <2>1 DEF Untouched
  <2>3. slot' = slot /\ (slot # None => slot \in Requests) /\ (slot = None => php.pc = "select")
    BY <1>1 DEF IInv, Ownership, TypeOK
  <2> QED BY <1>1, <2>1, <2>2, <2>3 DEF IInv, SignalOrder
<1>9. Accounts'
  BY <1>1, <1>2, <1>3 DEF IInv, Accounts, Writing, Ownership, TypeOK
<1>10. Responses'
  BY <1>1, <1>2 DEF IInv, Responses
<1>11. Closes'
  BY <1>1, <1>2, <1>3 DEF IInv, Closes
<1> QED BY <1>6, <1>7, <1>8, <1>9, <1>10, <1>11 DEF IInv
-------------------------------------------------------------------------------
(* The PHP pthread keeps the invariant *)

\* Away from select the pthread serves the request in its slot, and outside the two
\* marking steps that request is done exactly when its signal has been fired.
LEMMA Serving ==
  ASSUME IInv, php.pc # "select"
  PROVE  /\ slot \in Requests /\ ctx[slot].at = "slot"
         /\ php.pc \notin {"mark", "mark_after"} => (ctx[slot].fired <=> ctx[slot].is_done)
         /\ \A q \in Requests : q # slot => ctx[q].at # "slot"
<1>1. slot # None /\ slot \in Requests
  BY DEF IInv, Ownership, TypeOK
<1> QED BY <1>1 DEF IInv, Ownership, SignalOrder

\* What an untouched request needs is not disturbed by what happens to the one served.
LEMMA OthersUntouched ==
  ASSUME NEW q \in Requests, Untouched(q),
         ctx'[q] = ctx[q], buf'[q] = buf[q], seen'[q] = seen[q]
  PROVE  Untouched(q)'
BY DEF Untouched

\* The field sets of Php, by name.
Places == {"select", "startup", "run", "finish", "mark", "shutdown", "catch", "after",
           "mark_after", "clear"}
Numbers == 0 .. 999
HeaderSets == SUBSET Headers

LEMMA PhpType ==
  Php = [pc : Places, code : Numbers, headers : HeaderSets, sent : BOOLEAN, pending : Nat,
         attempted : BOOLEAN]
BY DEF Php, Places, Numbers, HeaderSets

LEMMA IdlePhpType == IdlePhp \in Php
<1>1. 200 \in 0 .. 999 /\ {} \in SUBSET Headers
  OBVIOUS
<1> QED BY <1>1 DEF IdlePhp, Php

LEMMA ReceiveStep ==
  ASSUME IInv, NEW r \in Requests, Receive(r)
  PROVE  IInv'
<1>1. /\ TypeOK /\ UNCHANGED <<task, resp, alive, buf, seen>>
      /\ php.pc = "select" /\ ctx[r].at = "dispatch" /\ slot' = r
      /\ ctx' = [ctx EXCEPT ![r].at = "slot"]
      /\ php' = [IdlePhp EXCEPT !.pc = "startup"]
  BY DEF Receive, At, serving, IInv
<1>2. /\ ctx' \in [Requests -> Context]
      /\ \A q \in Requests \ {r} : ctx'[q] = ctx[q]
      /\ ctx'[r].at = "slot" /\ ctx'[r].is_done = ctx[r].is_done
      /\ ctx'[r].client_had_closed = ctx[r].client_had_closed
      /\ ctx'[r].fired = ctx[r].fired /\ ctx'[r].cancelled = ctx[r].cancelled
  BY <1>1, MoveEffect
<1>3. /\ php' \in Php /\ php'.pc = "startup" /\ php'.pending = 0 /\ php'.sent = FALSE
  <2>1. IdlePhp \in Php /\ IdlePhp.pending = 0 /\ IdlePhp.sent = FALSE
    BY IdlePhpType DEF IdlePhp
  <2> QED BY <1>1, <2>1 DEF Php
<1>4. slot = None /\ r # None /\ \A q \in Requests : ctx[q].at # "slot"
  BY <1>1, RequestAssumption DEF IInv, Ownership
<1>5. Untouched(r) /\ resp[r] = None
  BY <1>1 DEF IInv, SignalOrder
<1>6. /\ buf[r].body = 0 /\ \A h \in Headers : buf[r].headers[h] = 0
      /\ seen[r].echoed = 0 /\ seen[r].final = FALSE /\ ~ctx[r].is_done /\ ~ctx[r].fired
  BY <1>5 DEF Untouched, EmptyBuffer
<1>7. TypeOK'
  BY <1>1, <1>2, <1>3 DEF TypeOK
<1>8. Ownership'
  BY <1>1, <1>2, <1>3, <1>4 DEF IInv, Ownership
<1>9. SignalOrder'
  <2>1. \A q \in Requests \ {r} : Untouched(q) => Untouched(q)'
    BY <1>1, <1>2 DEF Untouched
  <2> QED BY <1>1, <1>2, <1>3, <1>6, <2>1 DEF IInv, SignalOrder
<1>10. Accounts'
  BY <1>1, <1>2, <1>3, <1>6 DEF IInv, Accounts
<1>11. Responses'
  BY <1>1, <1>2, <1>5 DEF IInv, Responses
<1>12. Closes'
  BY <1>1, <1>2 DEF IInv, Closes
<1> QED BY <1>7, <1>8, <1>9, <1>10, <1>11, <1>12 DEF IInv

\* Steps that only move the pthread on, set a header or end the process.
LEMMA QuietStep ==
  ASSUME IInv, Startup \/ ScriptEnds \/ AbortStub \/ \E h \in Headers, c \in Codes : SetHeader(h, c)
  PROVE  IInv'
<1>1. /\ TypeOK /\ UNCHANGED <<task, resp, ctx, buf, slot, seen>> /\ alive' \in BOOLEAN
  BY DEF Startup, ScriptEnds, AbortStub, SetHeader, serving, IInv, TypeOK
<1>2. /\ php' \in Php /\ php'.pending = php.pending /\ php'.sent = php.sent
      /\ php'.attempted = php.attempted
      /\ \/ php'.pc = php.pc
         \/ php.pc \in {"startup", "run"} /\ php'.pc \in {"run", "shutdown", "catch"}
  <2>1. php \in Php
    BY <1>1 DEF TypeOK
  <2>2. CASE Startup
    BY <2>1, <2>2 DEF Startup, At, Php
  <2>3. CASE ScriptEnds
    BY <2>1, <2>3 DEF ScriptEnds, At, Php
  <2>4. CASE AbortStub
    BY <2>1, <2>4 DEF AbortStub
  <2>5. ASSUME NEW h \in Headers, NEW c \in Codes, SetHeader(h, c)
        PROVE  /\ php' \in Php /\ php'.pending = php.pending /\ php'.sent = php.sent
               /\ php'.attempted = php.attempted /\ php'.pc = php.pc
    <3>1. c \in 0 .. 999 /\ php.headers \cup {h} \in SUBSET Headers
      BY <2>1, RequestAssumption DEF Php
    <3>2. php' = [php EXCEPT !.headers = php.headers \cup {h}, !.code = c]
      BY <2>5 DEF SetHeader
    <3>3. c \in Numbers /\ php.headers \cup {h} \in HeaderSets
      BY <3>1 DEF Numbers, HeaderSets
    <3> QED BY <2>1, <3>2, <3>3, PhpType
  <2> QED BY <2>2, <2>3, <2>4, <2>5
<1>3. TypeOK'
  BY <1>1, <1>2 DEF TypeOK
<1>4. Ownership'
  BY <1>1, <1>2 DEF IInv, Ownership
<1>5. SignalOrder'
  <2>1. \A q \in Requests : Untouched(q) => Untouched(q)'
    BY <1>1 DEF Untouched
  <2>2. slot' = slot /\ \A q \in Requests : ctx'[q] = ctx[q]
    BY <1>1
  <2>3. ctx'[slot'] = ctx[slot]
    BY <1>1
  <2> QED BY <1>1, <1>2, <2>1, <2>2, <2>3 DEF IInv, SignalOrder
<1>6. Accounts'
  BY <1>1, <1>2 DEF IInv, Accounts, Writing
<1>7. Responses' /\ Closes'
  BY <1>1 DEF IInv, Responses, Closes
<1> QED BY <1>3, <1>4, <1>5, <1>6, <1>7 DEF IInv

LEMMA EchoStep ==
  ASSUME IInv, Echo
  PROVE  IInv'
<1>1. /\ TypeOK /\ UNCHANGED <<task, resp, alive, ctx, buf, slot>> /\ php.pc = "run"
      /\ php' = [php EXCEPT !.pending = @ + 1]
      /\ seen' = [seen EXCEPT ![slot].echoed = IF ctx[slot].is_done THEN @ ELSE @ + 1]
  BY DEF Echo, At, serving, IInv
<1>2. /\ slot \in Requests /\ ctx[slot].at = "slot" /\ (ctx[slot].fired <=> ctx[slot].is_done)
      /\ \A q \in Requests : q # slot => ctx[q].at # "slot"
  BY <1>1, Serving
<1>3. /\ php' \in Php /\ php'.pc = "run" /\ php'.pending = php.pending + 1
      /\ php'.sent = php.sent
  BY <1>1 DEF TypeOK, Php
<1>4. /\ seen' \in [Requests -> History]
      /\ \A q \in Requests \ {slot} : seen'[q] = seen[q]
      /\ seen'[slot].late = seen[slot].late
      /\ seen'[slot].aborted = seen[slot].aborted /\ seen'[slot].final = seen[slot].final
      /\ ctx[slot].is_done => seen'[slot].echoed = seen[slot].echoed
      /\ ~ctx[slot].is_done => seen'[slot].echoed = seen[slot].echoed + 1
  <2> DEFINE n == IF ctx[slot].is_done THEN seen[slot].echoed ELSE seen[slot].echoed + 1
             new == [seen[slot] EXCEPT !.echoed = n]
  <2>1. seen \in [Requests -> History] /\ seen[slot] \in History
    BY <1>1, <1>2 DEF TypeOK
  <2>2. n \in Nat
    BY <2>1 DEF History
  <2>3. seen' = [seen EXCEPT ![slot] = new]
    BY <1>1, <1>2, <2>1
  <2> HIDE DEF n
  <2>4. /\ new \in History /\ new.echoed = n /\ new.late = seen[slot].late
        /\ new.aborted = seen[slot].aborted /\ new.final = seen[slot].final
    BY <2>1, <2>2 DEF History
  <2> HIDE DEF new
  <2> QED BY <1>2, <2>1, <2>3, <2>4 DEF n
<1>5. TypeOK'
  BY <1>1, <1>3, <1>4 DEF TypeOK
<1>6. Ownership'
  BY <1>1, <1>3 DEF IInv, Ownership
<1>7. SignalOrder'
  <2>1. \A q \in Requests \ {slot} : Untouched(q) => Untouched(q)'
    BY <1>1, <1>4, OthersUntouched
  <2>2. slot' = slot /\ \A q \in Requests : ctx'[q] = ctx[q]
    BY <1>1
  <2> QED BY <1>1, <1>2, <1>3, <2>1, <2>2 DEF IInv, SignalOrder
<1>8. Accounts'
  <2>1. ~ctx[slot].is_done => ~seen[slot].final /\ buf[slot].body + php.pending = seen[slot].echoed
    BY <1>1 DEF IInv, Accounts, Writing
  <2>2. buf[slot].body \in Nat /\ php.pending \in Nat /\ seen[slot].echoed \in Nat
    BY <1>1, <1>2 DEF TypeOK, Buffer, Php, History
  <2>3. \A r \in Requests : seen'[r].final => buf'[r].body = seen'[r].echoed
    BY <1>1, <1>4, <2>1 DEF IInv, Accounts
  <2>4. \A r \in Requests, h \in Headers : buf'[r].headers[h] <= 1
    BY <1>1 DEF IInv, Accounts
  <2>5. ~ctx[slot].is_done =>
          /\ buf[slot].body + php'.pending = seen'[slot].echoed
          /\ ~php'.sent => \A h \in Headers : buf[slot].headers[h] = 0
    BY <1>1, <1>3, <1>4, <2>1, <2>2 DEF IInv, Accounts, Writing
  <2>6. ~ctx[slot].is_done => ~seen'[slot].final
    BY <1>4, <2>1
  <2> QED BY <1>1, <2>3, <2>4, <2>5, <2>6 DEF Accounts
<1>9. Responses'
  BY <1>1 DEF IInv, Responses
<1>10. Closes'
  BY <1>1, <1>4 DEF IInv, Closes
<1> QED BY <1>5, <1>6, <1>7, <1>8, <1>9, <1>10 DEF IInv

\* Output, for every place it is written from: the pthread may go on writing only with an
\* empty output buffer and the headers sent, and if the output was final it does not go on
\* with the script before the signal.
LEMMA OutputStep ==
  ASSUME IInv, Writing, php.pc \in {"run", "shutdown", "catch"},
         NEW closed \in BOOLEAN, NEW final \in BOOLEAN,
         closed => ctx[slot].cancelled /\ (ctx[slot].is_done => ctx[slot].client_had_closed),
         Output(slot, php.pending), Note(closed, final),
         UNCHANGED <<task, resp, alive, ctx, slot>>,
         php' \in Php, php'.pc \in {"run", "finish", "shutdown", "after", "catch"},
         Writing' => php'.pending = 0 /\ php'.sent,
         php'.pc = "run" => php.pc = "run" /\ ~final,
         php'.pc = "finish" => ~ctx[slot].is_done
  PROVE  IInv'
<1>1. /\ TypeOK /\ slot \in Requests /\ ctx[slot].at = "slot"
      /\ ctx[slot].fired <=> ctx[slot].is_done
      /\ \A q \in Requests : q # slot => ctx[q].at # "slot"
  BY Serving DEF IInv
<1>2. php.pending \in Nat
  BY <1>1 DEF TypeOK, Php
<1>3. /\ buf' \in [Requests -> Buffer]
      /\ \A q \in Requests \ {slot} : buf'[q] = buf[q]
      /\ ctx[slot].is_done => buf' = buf
      /\ ~ctx[slot].is_done => buf'[slot].body = buf[slot].body + php.pending
      /\ ~ctx[slot].is_done /\ php.sent =>
           buf'[slot].status = buf[slot].status /\ buf'[slot].headers = buf[slot].headers
      /\ ~ctx[slot].is_done /\ ~php.sent =>
           \A h \in Headers : buf'[slot].headers[h] <= buf[slot].headers[h] + 1
  BY <1>1, <1>2, OutputEffect
<1>4. /\ seen' \in [Requests -> History]
      /\ \A q \in Requests \ {slot} : seen'[q] = seen[q]
      /\ seen'[slot].echoed = seen[slot].echoed /\ seen'[slot].late = seen[slot].late
      /\ seen'[slot].aborted <=> seen[slot].aborted \/ closed
      /\ seen'[slot].final <=> seen[slot].final \/ (final /\ ~ctx[slot].is_done)
  BY <1>1, NoteEffect
<1>5. TypeOK'
  BY <1>1, <1>3, <1>4 DEF TypeOK
<1>6. Ownership'
  BY <1>1 DEF IInv, Ownership
<1>7. SignalOrder'
  <2>1. \A q \in Requests \ {slot} : Untouched(q) => Untouched(q)'
    BY <1>3, <1>4, OthersUntouched
  <2>2. slot' = slot /\ ctx' = ctx /\ task' = task /\ resp' = resp
    OBVIOUS
  <2> QED BY <1>1, <2>1, <2>2 DEF IInv, SignalOrder
<1>8. Accounts'
  <2>1. buf[slot].body \in Nat /\ seen[slot].echoed \in Nat
    BY <1>1 DEF TypeOK, Buffer, History
  <2>2. ~ctx[slot].is_done => buf'[slot].body = seen'[slot].echoed
    BY <1>3, <1>4 DEF IInv, Accounts
  <2>3. ctx[slot].is_done => (seen'[slot].final <=> seen[slot].final)
    BY <1>4
  <2>4. \A r \in Requests : seen'[r].final => buf'[r].body = seen'[r].echoed
    BY <1>3, <1>4, <2>2, <2>3 DEF IInv, Accounts
  <2>5. \A h \in Headers : buf[slot].headers[h] \in Nat
    BY <1>1 DEF TypeOK, Buffer
  <2>6. \A h \in Headers : buf'[slot].headers[h] <= 1
    BY <1>1, <1>3, <2>5 DEF IInv, Accounts
  <2>7. \A r \in Requests, h \in Headers : buf'[r].headers[h] <= 1
    BY <1>3, <2>6 DEF IInv, Accounts
  <2>8. Writing' /\ ~ctx[slot].is_done =>
          buf'[slot].body + php'.pending = seen'[slot].echoed /\ php'.sent
    BY <1>4, <2>1, <2>2
  <2>9. php'.pc \in {"startup", "run"} /\ ~ctx[slot].is_done => ~seen'[slot].final
    BY <1>4 DEF IInv, Accounts
  <2>10. slot' = slot /\ ctx'[slot] = ctx[slot]
    OBVIOUS
  <2> QED BY <2>4, <2>7, <2>8, <2>9, <2>10 DEF Accounts
<1>9. Responses'
  <2>1. \A q \in Requests : ctx[q].fired => buf'[q] = buf[q]
    BY <1>1, <1>3
  <2> QED BY <2>1 DEF IInv, Responses
<1>10. Closes'
  BY <1>1, <1>4 DEF IInv, Closes
<1> QED BY <1>5, <1>6, <1>7, <1>8, <1>9, <1>10 DEF IInv

\* What the callbacks report is a close that the script may be told of.
LEMMA ReportsClose ==
  ASSUME IInv, slot \in Requests
  PROVE  /\ WriteSeesClosed(slot) \in BOOLEAN /\ FlushSeesClosed(slot) \in BOOLEAN
         /\ WriteSeesClosed(slot) \/ FlushSeesClosed(slot) =>
              ctx[slot].cancelled /\ (ctx[slot].is_done => ctx[slot].client_had_closed)
<1>1. ctx[slot] \in Context
  BY DEF IInv, TypeOK
<1>2. ctx[slot].client_had_closed => ctx[slot].cancelled
  BY DEF IInv, Closes
<1> QED BY <1>1, <1>2 DEF WriteSeesClosed, FlushSeesClosed, Context

\* The calls of the script that write its output.
LEMMA WriteOutStep ==
  ASSUME IInv, php.pc = "run", NEW closed \in BOOLEAN, NEW final \in BOOLEAN,
         NEW label \in {"run", "finish"},
         closed => WriteSeesClosed(slot) \/ FlushSeesClosed(slot),
         WriteOut(closed, label), Note(closed, final),
         label = "run" => ~final, label = "finish" => ~ctx[slot].is_done
  PROVE  IInv'
<1>1. slot \in Requests
  BY Serving
<1>2. closed => ctx[slot].cancelled /\ (ctx[slot].is_done => ctx[slot].client_had_closed)
  BY <1>1, ReportsClose
<1>3. PICK place \in {"shutdown", label} :
        php' = [php EXCEPT !.pending = 0, !.sent = TRUE, !.pc = place]
  BY DEF WriteOut
<1>4. php' \in Php /\ php'.pending = 0 /\ php'.sent /\ php'.pc \in {"shutdown", label}
  <2>1. php \in Php
    BY DEF IInv, TypeOK
  <2>2. place \in Places
    BY DEF Places
  <2> QED BY <1>3, <2>1, <2>2, PhpType
<1>5. Output(slot, php.pending) /\ UNCHANGED <<task, resp, alive, ctx, slot>>
  BY DEF WriteOut, serving
<1>6. Writing
  BY DEF Writing
<1> QED BY <1>2, <1>4, <1>5, <1>6, OutputStep

LEMMA ScriptWritesStep ==
  ASSUME IInv, Write \/ Flush \/ FinishRequest
  PROVE  IInv'
<1>1. php.pc = "run"
  BY DEF Write, Flush, FinishRequest, At
<1>2. WriteSeesClosed(slot) \in BOOLEAN /\ FlushSeesClosed(slot) \in BOOLEAN
  BY <1>1, Serving, ReportsClose
<1>3. CASE Write
  BY <1>1, <1>2, <1>3, WriteOutStep DEF Write
<1>4. CASE Flush
  BY <1>1, <1>2, <1>4, WriteOutStep DEF Flush
<1>5. CASE FinishRequest
  <2> DEFINE closed == php.pending > 0 /\ WriteSeesClosed(slot)
  <2>1. WriteOut(closed, "finish") /\ Note(closed, TRUE) /\ ~ctx[slot].is_done
    BY <1>5 DEF FinishRequest
  <2>2. closed \in BOOLEAN /\ (closed => WriteSeesClosed(slot))
    BY <1>2
  <2> HIDE DEF closed
  <2> QED BY <1>1, <2>1, <2>2, WriteOutStep
<1> QED BY <1>3, <1>4, <1>5

\* php_request_shutdown and zend_catch, with the output written or not.
LEMMA ShutdownStep ==
  ASSUME IInv, Shutdown \/ Catch
  PROVE  IInv'
<1>1. /\ php.pc \in {"shutdown", "catch"} /\ UNCHANGED <<task, resp, alive, ctx, slot>>
      /\ php' \in Php /\ php'.pc \in {"after", "catch"}
      /\ php'.pc = "catch" => php'.attempted
  <2>1. php \in Php
    BY DEF IInv, TypeOK
  <2>2. CASE Shutdown
    <3>1. PICK label \in {"after", "catch"} : php' = [php EXCEPT !.attempted = TRUE, !.pc = label]
      BY <2>2 DEF Shutdown
    <3>2. php' \in Php /\ php'.pc = label /\ php'.attempted
      BY <2>1, <3>1, PhpType DEF Places
    <3> QED BY <2>2, <3>2 DEF Shutdown, At, serving
  <2>3. CASE Catch
    BY <2>1, <2>3 DEF Catch, At, serving, Php
  <2> QED BY <2>2, <2>3
<1>2. ~Writing'
  BY <1>1 DEF Writing
<1>3. CASE Writing /\ LastOutput
  <2> DEFINE closed == php.pending > 0 /\ WriteSeesClosed(slot)
  <2>1. Output(slot, php.pending) /\ Note(closed, TRUE)
    BY <1>3 DEF LastOutput
  <2>2. closed \in BOOLEAN /\ (closed => WriteSeesClosed(slot))
    BY <1>1, Serving, ReportsClose
  <2>3. closed => ctx[slot].cancelled /\ (ctx[slot].is_done => ctx[slot].client_had_closed)
    BY <1>1, <2>2, Serving, ReportsClose
  <2> HIDE DEF closed
  <2> QED BY <1>1, <1>2, <1>3, <2>1, <2>2, <2>3, OutputStep
<1>4. CASE UNCHANGED <<buf, seen>>
  <2>1. TypeOK'
    BY <1>1, <1>4 DEF IInv, TypeOK
  <2>2. Ownership'
    BY <1>1 DEF IInv, Ownership
  <2>3. SignalOrder'
    <3>1. \A q \in Requests : Untouched(q) => Untouched(q)'
      BY <1>1, <1>4 DEF Untouched
    <3>2. slot' = slot /\ ctx' = ctx /\ task' = task /\ resp' = resp
      BY <1>1
    <3> QED BY <1>1, <3>1, <3>2 DEF IInv, SignalOrder
  <2>4. Accounts'
    BY <1>1, <1>2, <1>4 DEF IInv, Accounts
  <2>5. Responses' /\ Closes'
    BY <1>1, <1>4 DEF IInv, Responses, Closes
  <2> QED BY <2>1, <2>2, <2>3, <2>4, <2>5 DEF IInv
<1>5. (Writing /\ LastOutput) \/ UNCHANGED <<buf, seen>>
  BY DEF Shutdown, Catch, At, Writing
<1> QED BY <1>3, <1>4, <1>5

\* An early hint leaves the body alone and its headers with it.
LEMMA EarlyHintsStep ==
  ASSUME IInv, EarlyHints
  PROVE  IInv'
<1>1. /\ TypeOK /\ UNCHANGED <<task, resp, alive, ctx, slot, php, seen>> /\ php.pc = "run"
      /\ go_write_headers(slot, 103, php.headers)
  BY DEF EarlyHints, At, serving, IInv
<1>2. /\ slot \in Requests /\ ctx[slot].at = "slot" /\ (ctx[slot].fired <=> ctx[slot].is_done)
      /\ \A q \in Requests : q # slot => ctx[q].at # "slot"
  BY <1>1, Serving
<1>3. /\ buf' \in [Requests -> Buffer]
      /\ \A q \in Requests \ {slot} : buf'[q] = buf[q]
      /\ ctx[slot].is_done => buf' = buf
      /\ ~ctx[slot].is_done =>
           buf'[slot].body = buf[slot].body /\ \A h \in Headers : buf'[slot].headers[h] = 0
  <2> DEFINE w == Written(buf[slot], 103, php.headers)
  <2>1. buf \in [Requests -> Buffer] /\ buf[slot] \in Buffer
    BY <1>1, <1>2 DEF TypeOK
  <2>2. clamp_status(103) < 200
    BY DEF clamp_status
  <2>3. w \in Buffer /\ w.body = buf[slot].body /\ \A h \in Headers : w.headers[h] = 0
    BY <2>1, <2>2, WrittenEffect
  <2>4. buf' = IF ctx[slot].is_done THEN buf ELSE [buf EXCEPT ![slot] = w]
    BY <1>1 DEF go_write_headers
  <2> HIDE DEF w
  <2> QED BY <1>2, <2>1, <2>3, <2>4
<1>4. TypeOK'
  BY <1>1, <1>3 DEF TypeOK
<1>5. Ownership'
  BY <1>1 DEF IInv, Ownership
<1>6. SignalOrder'
  <2>1. \A q \in Requests \ {slot} : Untouched(q) => Untouched(q)'
    BY <1>1, <1>3, OthersUntouched
  <2>2. slot' = slot /\ ctx' = ctx /\ task' = task /\ resp' = resp /\ php' = php
    BY <1>1
  <2> QED BY <1>1, <1>2, <2>1, <2>2 DEF IInv, SignalOrder
<1>7. Accounts'
  <2>1. ~ctx[slot].is_done => ~seen[slot].final
    BY <1>1 DEF IInv, Accounts
  <2>2. \A r \in Requests : seen[r].final => buf'[r].body = seen[r].echoed
    BY <1>3, <2>1 DEF IInv, Accounts
  <2>3. \A r \in Requests, h \in Headers : buf'[r].headers[h] <= 1
    BY <1>3 DEF IInv, Accounts
  <2>4. ~ctx[slot].is_done => /\ buf'[slot].body + php.pending = seen[slot].echoed
                              /\ \A h \in Headers : buf'[slot].headers[h] = 0
    BY <1>1, <1>3 DEF IInv, Accounts, Writing
  <2> QED BY <1>1, <2>1, <2>2, <2>3, <2>4 DEF Accounts
<1>8. Responses'
  <2>1. \A q \in Requests : ctx[q].fired => buf'[q] = buf[q]
    BY <1>2, <1>3
  <2> QED BY <1>1, <2>1 DEF IInv, Responses
<1>9. Closes'
  BY <1>1 DEF IInv, Closes
<1> QED BY <1>4, <1>5, <1>6, <1>7, <1>8, <1>9 DEF IInv

\* The places the pthread moves to without touching PHP's own state.
LEMMA PcEffect ==
  ASSUME php \in Php, NEW label \in Places, php' = [php EXCEPT !.pc = label]
  PROVE  /\ php' \in Php /\ php'.pc = label /\ php'.code = php.code
         /\ php'.pending = php.pending /\ php'.sent = php.sent /\ php'.attempted = php.attempted
BY PhpType

\* close_context, first step: the snapshot and the signal, of a request not done before.
LEMMA SignalStep ==
  ASSUME IInv, php.pc \in {"finish", "after"}, ~ctx[slot].is_done, CloseContext(slot),
         NEW label \in {"mark", "mark_after"}, php' = [php EXCEPT !.pc = label],
         UNCHANGED <<task, resp, alive, buf, slot, seen>>
  PROVE  IInv'
<1>1. /\ TypeOK /\ slot \in Requests /\ ctx[slot].at = "slot" /\ ~ctx[slot].fired
      /\ \A q \in Requests : q # slot => ctx[q].at # "slot"
  BY Serving DEF IInv
<1>2. /\ ctx' \in [Requests -> Context]
      /\ \A q \in Requests \ {slot} : ctx'[q] = ctx[q]
      /\ ctx'[slot].at = ctx[slot].at /\ ctx'[slot].is_done = ctx[slot].is_done
      /\ ctx'[slot].cancelled = ctx[slot].cancelled
      /\ ctx'[slot].client_had_closed = ctx[slot].cancelled /\ ctx'[slot].fired
  BY <1>1, CloseEffect
<1>3. php' \in Php /\ php'.pc = label
  BY <1>1, PcEffect DEF TypeOK, Places
<1>4. TypeOK'
  BY <1>1, <1>2, <1>3 DEF TypeOK
<1>5. Ownership'
  BY <1>1, <1>2, <1>3 DEF IInv, Ownership
<1>6. SignalOrder'
  <2>1. \A q \in Requests \ {slot} : Untouched(q) => Untouched(q)'
    BY <1>2, OthersUntouched
  <2>2. slot' = slot /\ task' = task /\ resp' = resp
    OBVIOUS
  <2> QED BY <1>1, <1>2, <1>3, <2>1, <2>2 DEF IInv, SignalOrder
<1>7. Accounts'
  BY <1>3 DEF IInv, Accounts, Writing
<1>8. Responses'
  <2>1. resp[slot] = None
    BY <1>1 DEF IInv, Responses
  <2> QED BY <1>1, <1>2, <2>1 DEF IInv, Responses
<1>9. Closes'
  BY <1>1, <1>2 DEF IInv, Closes
<1> QED BY <1>4, <1>5, <1>6, <1>7, <1>8, <1>9 DEF IInv

\* close_context, second step.
LEMMA MarkStep ==
  ASSUME IInv, Mark
  PROVE  IInv'
<1>1. /\ TypeOK /\ UNCHANGED <<task, resp, alive, buf, slot, seen>>
      /\ php.pc \in {"mark", "mark_after"} /\ ctx' = [ctx EXCEPT ![slot].is_done = TRUE]
      /\ php' = [php EXCEPT !.pc = IF @ = "mark" THEN "run" ELSE "clear"]
  BY DEF Mark, serving, IInv
<1>2. /\ slot \in Requests /\ ctx[slot].at = "slot" /\ ctx[slot].fired
      /\ \A q \in Requests : q # slot => ctx[q].at # "slot"
  BY <1>1, Serving DEF IInv, SignalOrder
<1>3. /\ ctx' \in [Requests -> Context]
      /\ \A q \in Requests \ {slot} : ctx'[q] = ctx[q]
      /\ ctx'[slot].at = ctx[slot].at /\ ctx'[slot].fired = ctx[slot].fired
      /\ ctx'[slot].cancelled = ctx[slot].cancelled
      /\ ctx'[slot].client_had_closed = ctx[slot].client_had_closed /\ ctx'[slot].is_done
  <2> DEFINE new == [ctx[slot] EXCEPT !.is_done = TRUE]
  <2>1. ctx \in [Requests -> Context] /\ ctx[slot] \in Context
    BY <1>1, <1>2 DEF TypeOK
  <2>2. /\ new \in Context /\ new.at = ctx[slot].at /\ new.is_done = TRUE
        /\ new.client_had_closed = ctx[slot].client_had_closed
        /\ new.fired = ctx[slot].fired /\ new.cancelled = ctx[slot].cancelled
    BY <2>1 DEF Context
  <2>3. ctx' = [ctx EXCEPT ![slot] = new]
    BY <1>1, <2>1
  <2> HIDE DEF new
  <2> QED BY <1>2, <2>1, <2>2, <2>3
<1>4. php' \in Php /\ php'.pc \in {"run", "clear"}
  <2>1. PICK label \in {"run", "clear"} : php' = [php EXCEPT !.pc = label]
    BY <1>1 DEF TypeOK, Php
  <2>2. label \in Places
    BY DEF Places
  <2> QED BY <1>1, <2>1, <2>2, PcEffect DEF TypeOK
<1>5. TypeOK'
  BY <1>1, <1>3, <1>4 DEF TypeOK
<1>6. Ownership'
  BY <1>1, <1>2, <1>3, <1>4 DEF IInv, Ownership
<1>7. SignalOrder'
  <2>1. \A q \in Requests \ {slot} : Untouched(q) => Untouched(q)'
    BY <1>1, <1>3, OthersUntouched
  <2>2. slot' = slot /\ task' = task /\ resp' = resp
    BY <1>1
  <2> QED BY <1>2, <1>3, <1>4, <2>1, <2>2 DEF IInv, SignalOrder
<1>8. Accounts'
  BY <1>1, <1>3 DEF IInv, Accounts
<1>9. Responses'
  BY <1>1, <1>2, <1>3 DEF IInv, Responses
<1>10. Closes'
  BY <1>1, <1>3 DEF IInv, Closes
<1> QED BY <1>5, <1>6, <1>7, <1>8, <1>9, <1>10 DEF IInv

LEMMA FinishStep ==
  ASSUME IInv, Finish
  PROVE  IInv'
<1>1. ~ctx[slot].is_done
  BY Serving DEF IInv, SignalOrder, Finish, At
<1> QED BY <1>1, SignalStep DEF Finish, At, serving

LEMMA AfterScriptExecutionStep ==
  ASSUME IInv, AfterScriptExecution
  PROVE  IInv'
<1>1. CASE ~ctx[slot].is_done
  BY <1>1, SignalStep DEF AfterScriptExecution, At, serving
<1>2. CASE ctx[slot].is_done
  <2>1. /\ TypeOK /\ UNCHANGED <<task, resp, alive, ctx, buf, slot, seen>> /\ php.pc = "after"
        /\ php' = [php EXCEPT !.pc = "clear"]
    BY <1>2 DEF AfterScriptExecution, At, serving, IInv
  <2>2. php' \in Php /\ php'.pc = "clear"
    BY <2>1, PcEffect DEF TypeOK, Places
  <2>3. TypeOK'
    BY <2>1, <2>2 DEF TypeOK
  <2>4. Ownership'
    BY <2>1, <2>2 DEF IInv, Ownership
  <2>5. SignalOrder'
    <3>1. \A q \in Requests : Untouched(q) => Untouched(q)'
      BY <2>1 DEF Untouched
    <3>2. slot' = slot /\ ctx' = ctx /\ task' = task /\ resp' = resp
      BY <2>1
    <3> QED BY <1>2, <2>1, <2>2, <3>1, <3>2 DEF IInv, SignalOrder
  <2>6. Accounts'
    BY <2>1, <2>2 DEF IInv, Accounts, Writing
  <2>7. Responses' /\ Closes'
    BY <2>1 DEF IInv, Responses, Closes
  <2> QED BY <2>3, <2>4, <2>5, <2>6, <2>7 DEF IInv
<1> QED BY <1>1, <1>2

LEMMA ClearStep ==
  ASSUME IInv, Clear
  PROVE  IInv'
<1>1. /\ TypeOK /\ UNCHANGED <<task, resp, alive, buf, seen>> /\ php.pc = "clear"
      /\ slot' = None /\ ctx' = [ctx EXCEPT ![slot].at = "dropped"] /\ php' = IdlePhp
  BY DEF Clear, At, serving, IInv
<1>2. /\ slot \in Requests /\ ctx[slot].at = "slot" /\ ctx[slot].is_done /\ ctx[slot].fired
      /\ \A q \in Requests : q # slot => ctx[q].at # "slot"
  BY <1>1, Serving DEF IInv, SignalOrder
<1>3. /\ ctx' \in [Requests -> Context]
      /\ \A q \in Requests \ {slot} : ctx'[q] = ctx[q]
      /\ ctx'[slot].at = "dropped" /\ ctx'[slot].is_done = ctx[slot].is_done
      /\ ctx'[slot].client_had_closed = ctx[slot].client_had_closed
      /\ ctx'[slot].fired = ctx[slot].fired /\ ctx'[slot].cancelled = ctx[slot].cancelled
  BY <1>1, <1>2, MoveEffect
<1>4. php' \in Php /\ php'.pc = "select"
  BY <1>1, IdlePhpType DEF IdlePhp
<1>5. TypeOK'
  BY <1>1, <1>3, <1>4 DEF TypeOK
<1>6. Ownership'
  <2>1. \A q \in Requests : ctx'[q].at # "slot" /\ q # None
    BY <1>2, <1>3, RequestAssumption
  <2> QED BY <1>1, <1>2, <1>3, <1>4, <2>1 DEF IInv, Ownership
<1>7. SignalOrder'
  <2>1. \A q \in Requests \ {slot} : Untouched(q) => Untouched(q)'
    BY <1>1, <1>3, OthersUntouched
  <2> QED BY <1>1, <1>2, <1>3, <1>4, <2>1 DEF IInv, SignalOrder
<1>8. Accounts'
  BY <1>1, <1>4 DEF IInv, Accounts, Writing
<1>9. Responses'
  BY <1>1, <1>2, <1>3 DEF IInv, Responses
<1>10. Closes'
  BY <1>1, <1>3 DEF IInv, Closes
<1> QED BY <1>5, <1>6, <1>7, <1>8, <1>9, <1>10 DEF IInv
-------------------------------------------------------------------------------
LEMMA InitInv == Init => IInv
<1> SUFFICES ASSUME Init PROVE IInv
  OBVIOUS
<1>1. EmptyBuffer \in Buffer /\ \A h \in Headers : EmptyBuffer.headers[h] = 0
  BY DEF EmptyBuffer, Buffer
<1>2. TypeOK
  BY <1>1, IdlePhpType DEF Init, TypeOK, Tasks, Context, History
<1>3. Ownership
  BY RequestAssumption DEF Init, Ownership, IdlePhp
<1>4. SignalOrder
  BY DEF Init, SignalOrder, Untouched, IdlePhp
<1>5. Accounts
  BY <1>1 DEF Init, Accounts, Writing, IdlePhp
<1>6. Responses /\ Closes
  BY DEF Init, Responses, Closes
<1> QED BY <1>2, <1>3, <1>4, <1>5, <1>6 DEF IInv

LEMMA NextInv == IInv /\ [Next]_vars => IInv'
<1> SUFFICES ASSUME IInv, [Next]_vars PROVE IInv'
  OBVIOUS
<1>1. CASE UNCHANGED vars
  BY <1>1 DEF vars, IInv, TypeOK, Ownership, SignalOrder, Untouched, Accounts, Writing, Responses,
              Closes
<1>2. CASE \E r \in Requests :
             Reject(r) \/ Spawn(r) \/ Handle(r) \/ DropHandle(r) \/ PeerCloses(r)
  BY <1>2, RejectStep, SpawnStep, JoinStep, AnswerStep, PeerClosesStep DEF Handle
<1>3. CASE Serves
  BY <1>3, ReceiveStep, QuietStep, FinishStep, MarkStep, ShutdownStep, AfterScriptExecutionStep,
     ClearStep DEF Serves
<1>4. CASE Script
  BY <1>4, QuietStep, EchoStep, ScriptWritesStep, EarlyHintsStep DEF Script
<1>5. CASE AbortStub
  BY <1>5, QuietStep
<1> QED BY <1>1, <1>2, <1>3, <1>4, <1>5 DEF Next

\* The inductive invariant holds, for any requests, headers, codes and chunks.
THEOREM LifecycleInvariant == Spec => []IInv
BY InitInv, NextInv, PTL DEF Spec

\* The types of both sides' state.
THEOREM LifecycleIsTyped == Spec => []TypeOK
<1>1. IInv => TypeOK
  BY DEF IInv
<1> QED BY <1>1, LifecycleInvariant, PTL

\* Output reaches the sink before the signal, headers go out once and no response is made
\* up: close_context comes last on every path, also through zend_catch.
THEOREM ResponsesAreTheScripts == Spec => []ResponseIsTheScripts
<1>1. IInv => ResponseIsTheScripts
  <2> SUFFICES ASSUME IInv PROVE ResponseIsTheScripts
    OBVIOUS
  <2>1. \A r \in Requests : resp[r] # None /\ ctx[r].fired =>
          resp[r].body = buf[r].body /\ resp[r].headers = buf[r].headers
    BY BuildEffect DEF IInv, Responses, TypeOK
  <2>2. ResponseIsComplete
    <3> SUFFICES ASSUME NEW r \in Requests, resp[r] # None, seen[r].final
                 PROVE  resp[r].body = seen[r].echoed
      BY DEF ResponseIsComplete
    <3>1. ctx[r].fired
      BY DEF IInv, Responses, SignalOrder, Untouched
    <3> QED BY <2>1, <3>1 DEF IInv, Accounts
  <2>3. HeadersSentOnce
    BY <2>1 DEF HeadersSentOnce, IInv, Accounts, Responses
  <2>4. SignalledBeforeDrop
    BY DEF SignalledBeforeDrop, IInv, SignalOrder
  <2> QED BY <2>2, <2>3, <2>4 DEF ResponseIsTheScripts
<1> QED BY <1>1, LifecycleInvariant, PTL

\* A close that came after the signal is never reported to the script.
THEOREM NoAbortIsInvented == Spec => []AbortIsNotInvented
<1>1. IInv => AbortIsNotInvented
  BY DEF IInv, Closes, AbortIsNotInvented
<1> QED BY <1>1, LifecycleInvariant, PTL

\* No step changes a buffer whose signal has been fired: the callbacks look at is_done
\* under the same lock, and between the signal and is_done the pthread calls none.
THEOREM BufferStaysFrozen == Spec => BufferIsFrozen
<1> DEFINE Frozen == \A r \in Requests : ctx[r].fired => buf'[r] = buf[r]
<1>1. IInv /\ [Next]_vars => Frozen
  <2> SUFFICES ASSUME IInv, [Next]_vars, NEW r \in Requests, ctx[r].fired, buf'[r] # buf[r]
               PROVE  FALSE
    OBVIOUS
  <2>1. buf' # buf
    BY ZenonT(40)
  <2>2. /\ php.pc \in {"run", "shutdown", "catch"}
        /\ Output(slot, php.pending) \/ go_write_headers(slot, 103, php.headers)
    BY <2>1 DEF Next, vars, Reject, Spawn, Handle, Dispatched, Answer, DropHandle, PeerCloses,
                handling, Serves, Receive, Startup, Finish, Mark, ScriptEnds, Shutdown, Catch,
                AfterScriptExecution, Clear, Script, SetHeader, Echo, Write, Flush, EarlyHints,
                FinishRequest, WriteOut, LastOutput, AbortStub, At
  <2>3. slot \in Requests /\ (ctx[slot].fired <=> ctx[slot].is_done)
    BY <2>2, Serving
  <2>4. ~ctx[slot].is_done
    BY <2>1, <2>2 DEF Output, go_write_headers
  <2>5. r # slot
    BY <2>3, <2>4
  <2> QED BY <2>2, <2>3, <2>5 DEF Output, go_write_headers, IInv, TypeOK
<1> QED BY <1>1, LifecycleInvariant, PTL DEF Spec, BufferIsFrozen
-------------------------------------------------------------------------------
(* The answer's status *)

\* Output sends the final headers, if they were not sent before.
LEMMA OutputIsFinal ==
  ASSUME FinalOnly, IInv, StatusIsFinal, Writing, php.pc \in {"run", "shutdown", "catch"},
         Output(slot, php.pending), NEW closed \in BOOLEAN, NEW final \in BOOLEAN,
         Note(closed, final), UNCHANGED <<ctx, slot>>, php'.code = php.code
  PROVE  StatusIsFinal'
<1>1. TypeOK /\ slot \in Requests /\ php.pending \in Nat
  BY Serving DEF IInv, TypeOK, Php
<1>2. /\ \A q \in Requests \ {slot} : buf'[q] = buf[q]
      /\ ctx[slot].is_done => buf' = buf
      /\ ~ctx[slot].is_done /\ php.sent => buf'[slot].status = buf[slot].status
      /\ ~ctx[slot].is_done /\ ~php.sent => buf'[slot].status = clamp_status(SentCode)
  BY <1>1, OutputEffect
<1>3. /\ \A q \in Requests \ {slot} : seen'[q] = seen[q]
      /\ seen'[slot].final <=> seen[slot].final \/ (final /\ ~ctx[slot].is_done)
  BY <1>1, NoteEffect
<1>4. clamp_status(SentCode) >= 200
  <2>1. php.code \in 0 .. 999 /\ php.code \notin 100 .. 199
    BY <1>1 DEF StatusIsFinal, FinalOnly, TypeOK, Php
  <2> QED BY <2>1 DEF SentCode, clamp_status
<1>5. ~ctx[slot].is_done => buf'[slot].status >= 200
  BY <1>2, <1>4 DEF StatusIsFinal
<1>6. \A r \in Requests : seen'[r].final => buf'[r].status >= 200
  BY <1>1, <1>2, <1>3, <1>5 DEF StatusIsFinal
<1> QED BY <1>5, <1>6 DEF StatusIsFinal

\* Steps that leave the buffers alone: they neither send headers nor finish a request.
LEMMA OtherStepsStayFinal ==
  ASSUME StatusIsFinal, buf' = buf, php'.code \in Codes \cup {200},
         \A r \in Requests : seen'[r].final => seen[r].final,
         Writing' /\ php'.sent /\ ~ctx'[slot'].is_done =>
           slot' = slot /\ Writing /\ php.sent /\ ~ctx[slot].is_done
  PROVE  StatusIsFinal'
BY DEF StatusIsFinal

LEMMA AsyncStaysFinal ==
  ASSUME IInv, StatusIsFinal, NEW r \in Requests,
         Reject(r) \/ Spawn(r) \/ Handle(r) \/ DropHandle(r) \/ PeerCloses(r)
  PROVE  StatusIsFinal'
<1>1. UNCHANGED <<buf, slot, php>>
  BY DEF Reject, Spawn, Handle, Dispatched, Answer, DropHandle, PeerCloses, handling
<1>2. \A q \in Requests : seen'[q].final => seen[q].final
  BY DEF Reject, Spawn, Handle, Dispatched, Answer, DropHandle, PeerCloses, handling, IInv,
         TypeOK, History
<1>3. \A q \in Requests : ctx'[q].is_done = ctx[q].is_done
  <2>1. ctx \in [Requests -> Context]
    BY DEF IInv, TypeOK
  <2> QED BY <2>1 DEF Reject, Spawn, Handle, Dispatched, Answer, DropHandle, PeerCloses, Context
<1>4. Writing => slot \in Requests
  BY Serving DEF Writing
<1>5. Writing' <=> Writing
  BY <1>1 DEF Writing
<1> QED BY <1>1, <1>2, <1>3, <1>4, <1>5, OtherStepsStayFinal DEF StatusIsFinal

LEMMA ScriptStaysFinal ==
  ASSUME FinalOnly, IInv, StatusIsFinal, Script
  PROVE  StatusIsFinal'
<1>1. /\ php.pc = "run" /\ Writing /\ TypeOK /\ php \in Php /\ slot \in Requests
      /\ UNCHANGED <<ctx, slot>> /\ php.code \in Codes \cup {200}
  BY Serving DEF Script, SetHeader, Echo, Write, Flush, EarlyHints, FinishRequest, WriteOut, At,
                 Writing, IInv, TypeOK, StatusIsFinal
<1>2. ASSUME NEW h \in Headers, NEW c \in Codes, SetHeader(h, c)
      PROVE  StatusIsFinal'
  <2>1. php' = [php EXCEPT !.headers = php.headers \cup {h}, !.code = c] /\ UNCHANGED <<buf, seen>>
    BY <1>2 DEF SetHeader
  <2>2. php'.code = c /\ php'.sent = php.sent
    BY <1>1, <2>1, PhpType
  <2> QED BY <1>1, <2>1, <2>2, OtherStepsStayFinal
<1>3. CASE Echo
  <2>1. php'.code = php.code /\ php'.sent = php.sent /\ buf' = buf
    BY <1>1, <1>3, PhpType DEF Echo
  <2>2. \A r \in Requests : seen'[r].final => seen[r].final
    BY <1>1, <1>3 DEF Echo, TypeOK, History
  <2> QED BY <1>1, <2>1, <2>2, OtherStepsStayFinal
<1>4. ASSUME NEW closed \in BOOLEAN, NEW final \in BOOLEAN, NEW label,
             WriteOut(closed, label), Note(closed, final)
      PROVE  StatusIsFinal'
  <2>1. php'.code = php.code /\ Output(slot, php.pending)
    BY <1>1, <1>4, PhpType DEF WriteOut
  <2> QED BY <1>1, <1>4, <2>1, OutputIsFinal
<1>5. CASE Write \/ Flush \/ FinishRequest
  <2>1. WriteSeesClosed(slot) \in BOOLEAN /\ FlushSeesClosed(slot) \in BOOLEAN
    BY <1>1, ReportsClose
  <2>2. CASE Write
    BY <1>4, <2>1, <2>2 DEF Write
  <2>3. CASE Flush
    BY <1>4, <2>1, <2>3 DEF Flush
  <2>4. CASE FinishRequest
    <3> DEFINE closed == php.pending > 0 /\ WriteSeesClosed(slot)
    <3>1. WriteOut(closed, "finish") /\ Note(closed, TRUE) /\ closed \in BOOLEAN
      BY <2>1, <2>4 DEF FinishRequest
    <3> HIDE DEF closed
    <3> QED BY <1>4, <3>1
  <2> QED BY <1>5, <2>2, <2>3, <2>4
<1>6. CASE EarlyHints
  <2>1. /\ ~php.sent /\ UNCHANGED <<php, seen>> /\ buf \in [Requests -> Buffer]
        /\ go_write_headers(slot, 103, php.headers)
    BY <1>1, <1>6 DEF EarlyHints, FinalOnly, TypeOK
  <2>2. ~ctx[slot].is_done => ~seen[slot].final
    BY <1>1 DEF IInv, Accounts
  <2>3. \A q \in Requests : q # slot \/ ctx[slot].is_done => buf'[q] = buf[q]
    BY <1>1, <2>1 DEF go_write_headers
  <2>4. \A r \in Requests : seen'[r].final => buf'[r].status >= 200
    BY <2>1, <2>2, <2>3 DEF StatusIsFinal
  <2> QED BY <1>1, <2>1, <2>4 DEF StatusIsFinal
<1> QED BY <1>2, <1>3, <1>5, <1>6 DEF Script

LEMMA ServesStaysFinal ==
  ASSUME FinalOnly, IInv, StatusIsFinal, Serves \/ AbortStub
  PROVE  StatusIsFinal'
<1>1. TypeOK /\ php \in Php /\ php.code \in Codes \cup {200}
  BY DEF IInv, TypeOK, StatusIsFinal
<1>2. ASSUME NEW r \in Requests, Receive(r)
      PROVE  StatusIsFinal'
  <2>1. php' = [IdlePhp EXCEPT !.pc = "startup"] /\ UNCHANGED <<buf, seen>>
    BY <1>2 DEF Receive
  <2>2. php'.code = 200 /\ ~php'.sent
    BY <2>1 DEF IdlePhp
  <2> QED BY <2>1, <2>2, OtherStepsStayFinal
<1>3. CASE Startup \/ ScriptEnds \/ AbortStub
  <2>1. UNCHANGED <<buf, seen, ctx, slot>>
    BY <1>3 DEF Startup, ScriptEnds, AbortStub
  <2>2. php'.code = php.code /\ php'.sent = php.sent /\ (Writing' => Writing)
    <3>1. CASE AbortStub
      BY <3>1 DEF AbortStub, Writing
    <3>2. ASSUME NEW label \in {"run", "shutdown", "catch"}, php' = [php EXCEPT !.pc = label],
                 php.pc \in {"startup", "run"}
          PROVE  php'.code = php.code /\ php'.sent = php.sent /\ (Writing' => Writing)
      <4>1. Writing
        BY <3>2 DEF Writing
      <4> QED BY <1>1, <3>2, <4>1, PhpType
    <3> QED BY <1>3, <3>1, <3>2 DEF Startup, ScriptEnds, At
  <2> QED BY <1>1, <2>1, <2>2, OtherStepsStayFinal
<1>4. CASE Finish \/ AfterScriptExecution
  <2>1. UNCHANGED <<buf, seen>>
    BY <1>4 DEF Finish, AfterScriptExecution
  <2>2. PICK label \in {"mark", "mark_after", "clear"} : php' = [php EXCEPT !.pc = label]
    BY <1>4 DEF Finish, AfterScriptExecution
  <2>3. php'.code = php.code /\ php'.pc = label
    BY <1>1, <2>2, PhpType
  <2> QED BY <1>1, <2>1, <2>3, OtherStepsStayFinal DEF Writing
<1>5. CASE Mark
  <2>1. /\ UNCHANGED <<buf, seen, slot>> /\ slot \in Requests
        /\ ctx' = [ctx EXCEPT ![slot].is_done = TRUE]
        /\ php' = [php EXCEPT !.pc = IF @ = "mark" THEN "run" ELSE "clear"]
    BY <1>5, Serving DEF Mark
  <2>2. php'.code = php.code
    BY <1>1, <2>1, PhpType
  <2>3. ctx'[slot].is_done
    BY <1>1, <2>1 DEF TypeOK, Context
  <2> QED BY <1>1, <2>1, <2>2, <2>3, OtherStepsStayFinal
<1>6. CASE Clear
  BY <1>1, <1>6, OtherStepsStayFinal DEF Clear, IdlePhp, Writing
<1>7. CASE Shutdown \/ Catch
  <2>1. /\ php.pc \in {"shutdown", "catch"} /\ UNCHANGED <<ctx, slot>>
        /\ php'.code = php.code /\ ~Writing'
    <3>1. ASSUME NEW label \in {"after", "catch"},
                 php' = [php EXCEPT !.attempted = TRUE, !.pc = label]
          PROVE  php'.code = php.code /\ php'.attempted /\ php'.pc = label
      BY <1>1, <3>1, PhpType
    <3>2. CASE Shutdown
      BY <3>1, <3>2 DEF Shutdown, At, Writing
    <3>3. CASE Catch
      BY <1>1, <3>3, PhpType DEF Catch, At, Writing
    <3> QED BY <1>7, <3>2, <3>3
  <2>2. CASE UNCHANGED <<buf, seen>>
    BY <1>1, <2>1, <2>2, OtherStepsStayFinal
  <2>3. CASE Writing /\ LastOutput
    <3> DEFINE closed == php.pending > 0 /\ WriteSeesClosed(slot)
    <3>1. Output(slot, php.pending) /\ Note(closed, TRUE) /\ closed \in BOOLEAN
      BY <2>1, <2>3, Serving, ReportsClose DEF LastOutput
    <3> HIDE DEF closed
    <3> QED BY <2>1, <2>3, <3>1, OutputIsFinal
  <2>4. (Writing /\ LastOutput) \/ UNCHANGED <<buf, seen>>
    BY <1>7 DEF Shutdown, Catch, At, Writing
  <2> QED BY <2>2, <2>3, <2>4
<1> QED BY <1>2, <1>3, <1>4, <1>5, <1>6, <1>7 DEF Serves

\* Whatever the script does, the answer to a request that got as far as its final headers
\* has a final status: the status an early hint wrote into the buffer is overwritten before
\* the signal.  A script that sends hints after its final headers, or sets an informational
\* code itself, is excluded: what it gets is the finding on early hints.
THEOREM AnswersAreFinal ==
  ASSUME FinalOnly
  PROVE  Spec => []AnswerIsFinal
<1>1. Init => StatusIsFinal
  BY DEF Init, StatusIsFinal, IdlePhp, Writing
<1>2. IInv /\ StatusIsFinal /\ [Next]_vars => StatusIsFinal'
  <2> SUFFICES ASSUME IInv, StatusIsFinal, [Next]_vars PROVE StatusIsFinal'
    OBVIOUS
  <2>1. CASE UNCHANGED vars
    BY <2>1 DEF vars, StatusIsFinal, Writing
  <2>2. CASE Next
    BY <2>2, AsyncStaysFinal, ScriptStaysFinal, ServesStaysFinal DEF Next
  <2> QED BY <2>1, <2>2
<1>3. IInv /\ StatusIsFinal => AnswerIsFinal
  <2> SUFFICES ASSUME IInv, StatusIsFinal, NEW r \in Requests, resp[r] # None, seen[r].final
               PROVE  resp[r].status >= 200
    BY DEF AnswerIsFinal
  <2>1. ctx[r].fired
    BY DEF IInv, Responses, SignalOrder, Untouched
  <2>2. resp[r] = build_response(buf[r]) /\ buf[r] \in Buffer /\ buf[r].status >= 200
    BY <2>1 DEF IInv, Responses, TypeOK, StatusIsFinal
  <2> QED BY <2>2, BuildEffect
<1> QED BY <1>1, <1>2, <1>3, LifecycleInvariant, PTL DEF Spec
===============================================================================
