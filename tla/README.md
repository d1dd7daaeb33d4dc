# A TLA+ verification of FrankenRust

FrankenRust (`src/`) has two halves. The lower one is a Rust port of FrankenPHP:
a pool of PHP pthreads driven from Rust through the callbacks of an unchanged
`frankenphp.c`, and a small HTTP/1.1 server on hyper. The upper one is the
orchestrator, a Python loop that works an issue queue with coding agents. This
project models the lower half, the program that is served; the orchestrator is
development tooling and is left out (section 7).

## 1. Inventory

| Component | State | Operations | Modelled in |
|---|---|---|---|
| `ThreadState` (`state.rs`) | current state, subscriber list | set, compare_and_swap, wait_for, timed wait, safe state change | `StateCells`, `ThreadState` |
| PHP pool (`thread.rs`, `thread_inactive.rs`, `callbacks/thread.rs`) | slots: lifecycle state, handler, drain generation, force-kill slot; registry; SCALING | init, boot, claim, set_handler, shutdown, drain; the pthread callbacks | `PhpThreadSlots`, `PhpPthreads`, `ThreadController`, `PhpThreads` |
| Main PHP thread (`callbacks/mainthread.rs`) | its lifecycle state, TSRM | ready, wait for Done, teardown | `PhpPthreads` |
| C side (`vendor/frankenphp/frankenphp.c`) | TSRM storage, health, request globals | `php_thread`, `php_main`, SAPI functions | `PhpPthreads`, `RequestLifecycle` |
| Dispatch (`thread_regular.rs`) | registry of directed channels, shared channel, counter | dispatch, attach, detach, select | `Dispatch` |
| Request context (`context.rs`) | is_done, snapshot, signal, arena, headers, body source | new, validate, close_context, fill, header lookups | `RequestLifecycle`, `RequestInput`, `HeaderText` |
| Context slots (`context.rs`) | the table, one mutex per slot, a thread-local guard | set, clear, with_context, with_context_mut | `ContextSlots` |
| Input callbacks (`callbacks/input.rs`) | none of their own | read_post, read_cookies, apache_request_headers | `RequestInput`, `ContextSlots` |
| Server variables (`callbacks/servervars.rs`, `shim.c`) | the batch kept in the context, SG(request_info) | update_request_info, collect, register | `RequestInput`, `ContextSlots` |
| Output (`callbacks/output.rs`, `sink.rs`, `response.rs`) | response buffer | write, headers, flush, finish, build_response | `RequestLifecycle` |
| Server (`server.rs`) | accept loop, JoinSet, latch | run, handle | `Server`, `RequestLifecycle` |
| CGI algorithms (`cgi.rs`) | none | paths, addresses, header names | `CgiPaths`, `CgiHosts`, `HeaderText` |
| Request construction (`request.rs`, `server.rs`) | none | percent_decode, build_request, resolve_directory_index | `CgiPaths`, `RequestInput` |
| Logging (`callbacks/log.rs`, quoting in `context.rs`) | none | go_log, levels, escaping, Go's `%q` | `LogText`; the abort stub of `go_log_attrs` in `RequestLifecycle` |
| Orchestrator (`orchestrator/*.py`, `scripts/supervise.sh`) | issue labels, counters, worktrees, lanes | claim, work, review, merge, block, recover, self-update | not modelled |

**How they interact.** The pthreads, the main pthread, the Rust threads that call
the lifecycle API, the blocking dispatch tasks and the async connection tasks run
concurrently. They meet at: the `ThreadState` of each slot (everybody waits on
it); the drain generation, a channel closed to wake a pthread out of its select;
the handler pointer; the force-kill slot; the two kinds of request channel; the
table of context slots, which any pthread may have to grow, with one slot per
index that only its pthread uses (and main, as index 0); the response buffer with its
completion oneshot; and the latch that tells connections to finish.

**What is hard.** A state that moves on before a waiter runs; a request taken
although the drain is closed; a handler replaced under a running pthread; engine
teardown under a live pthread; a bailout that replaces a pthread in the middle of
a drain; scripts that go on after they finished their request; dispatches that
outlive their connection; a longjmp over Rust frames, with whatever they hold;
pointers C keeps into a context that is dropped; two functions that must agree on
what a name, a path or an address is. `PROJECT.json` lists the
hazards of the served program at their lines, each with the properties that cover it.

**What makes each part correct.** `ThreadState`: no wake-up lost or invented. Pool: the
engine outlives its threads, one pthread per index, handlers swapped only under a parked
pthread, every call returns. Dispatch: single delivery, no overtaking, exact counter,
complete registry. Request: the response is complete, final and frozen when it is read, and
it is always produced. Server: whatever ends the loop, the pool is drained with nothing left
in it, and `run` returns unless that drain is held. Context slots: no lock nested or leaked,
every borrowed pointer live, nothing left after a request. Input: PHP sees the target,
headers, cookies and body the client sent, each by the rule for it, and no path leaves the
document root.

## 2. Modules

**`StateCells`** gives the methods of `ThreadState` as operators on `state` and
`waits`, one per critical section of its mutex. An OS thread has at most one call
in progress, so its subscriber record is `waits[a]`; waking it is dropping the
record, which stays dropped, as the closed channel does in the code.

**`ThreadState`** lets arbitrary clients make arbitrary calls on one object, so
its properties hold for every protocol. A blocking call is a step that subscribes
and one that returns; a timed wait has two more, the timeout and the clean-up
that follows under the lock. `want` and `reached` are the call's argument and a
history bit: an awaited state was current at some moment of the call.

**`PhpThreadSlots`**, **`PhpPthreads`**, **`ThreadController`**, **`PhpThreads`**
are the pool. `pc` holds the place of every OS thread; `slots[i]` is the Rust
object of a slot, `php[i]` what belongs to its pthread, `job` the locals of the
controller call that holds SCALING (one at a time). Every lock region between two
blocking points is one action. The drain generations are not numbered: the only
thing compared is whether the receiver a pthread holds is of the current one
(`fresh`). A script is "finite" or "runaway" (only a kill ends it); between the receipt
of its request and its start lies `php_request_startup` (the place "startup"), where a kill
is delivered to nothing and lost. Left out:
the reboot arms of the handlers (nothing publishes those states) and the arm for
unexpected states (`NoUnexpectedState` shows that it is never taken).

**`EngineContract`** is the abstract specification: what the engine demands of an
embedder. `PhpThreads` implements it with `up <- engine` and `threads` the slots
that have a pthread, from its creation to its last step.

**`Dispatch`** has one dispatcher per request and the regular slots; a whole
conversion or retirement is one step here. Handler instances are numbered because
a directed channel belongs to an instance, so that stale registry entries exist;
`Retained` is the `Vec::retain` by which a detach drops the entries of its slot.

**`RequestLifecycle`** has one `handle` future per request and one pthread that
serves them in turn. The buffer, the oneshot and the context are shared exactly
as in the code; `close_context` is two steps because its signal comes before its
`is_done`. Output is counted in chunks, a header is its name. PHP runs the SAPI
calls in any order.

**`Server`** is `run`: accept with back-off, the connection tasks, the latch, the
bounded join, the abort, the drain. A request's blocking dispatch (`jobs[c]`)
survives its connection: it is queued, taken by one of `NumThreads` PHP threads, and
running once its script has begun. A thread whose replacement fails is `lost`. Of the
drain the module has what `run` waits for: a grace period, one kill that ends the
scripts running at that moment (`hit`), and then a wait without bound.

**`ContextSlots`** is the table and the part of `php_thread` that uses it. A table
call is the guard, the read lock and lookup, the growth under the write lock when
the index is new, the slot's mutex, the closure, the release: each waiting point
is a step of its own. A request is a number and a pointer is the number of the
request whose memory it points to, so a pointer into a dropped context, or into
the previous request's, is visible. `Bailout` may come wherever PHP runs. With
`Careless` a closure may call the table again, which rule 2 forbids: the guard's
assertion aborts the process, and nothing worse may have happened.

**`Bytes`**, **`CgiPaths`**, **`CgiHosts`**, **`HeaderText`**, **`LogText`** are
the pure functions as operators on sequences of bytes, under their names in the
code; a loop of the code is `Loop`, what so many of its turns make of its state.
`Bytes` also has UTF-8 and `String::from_utf8_lossy`, which puts a replacement
character for every maximal part of an ill-formed character.
**`RequestText`** builds a text byte by byte and states what each function
must be: `clean_path` the lexical resolution of its components, `split_host_port`
the one reading of host and port there is, escapes and quotes reversible, and so
on. The references are written from what the function is for (a stack of the
components a path has left, a decoder), not from its loop.

**`RequestInput`** takes one request from hyper to the script: the fields as they
arrive, `handle` with its rejections, the context, `SG(request_info)`, the cookies,
`$_SERVER` in its two phases, the header list, and the body read in pieces:
`RequestBody::fill` meets a source that gives less than asked, is interrupted,
fails, or claims more than the room it was given. A body that does not arrive
(`body.collect()` fails) is dispatched as an empty one of length 0, as the code does: the
script then sees no difference from a request without a body, and `BodyIsWhole` says
so. `DOCUMENT_ROOT` is the root read as UTF-8 with replacements, while the script's path
is built from its raw bytes, so the two differ for a root that is not UTF-8. A target
without a path, as of CONNECT, becomes "/".

`MC*` modules give TLC small instances. Operators marked *seeded fault* are
plausible bugs; substituted for the definition that follows them, each makes one
property fail, which shows that the property looks at that code.

## 3. Runs

| Run | Checks | Shows |
|---|---|---|
| `thread_state` | `NoLostWakeup NoSpuriousWakeup NoLeakedSubscriber ReachedStateReleases SafeChangeIsAnswered` | 3 clients, 3 wait lists, 4 states: the subscription protocol, through timeouts that race notifications; a safe change is answered wherever the state comes to rest |
| `php_threads` | `TypeOK ReuseIsSafe SharedMemoryIsLive HandlersAreInStep CallsFindTheirSlots NoStrandedRequest KeepsEngineContract CallsReturn` | 2 slots, failing launches and respawns, bailouts, runaway scripts, grace periods that elapse at any moment; the refinement of `EngineContract`; what can hold a call, and nothing else |
| `dispatch` | `TypeOK NobodyIsOvertaken ExecutedOnce BookkeepingIsExact` | 2 slots, 2 requests, 2 tenures each |
| `dispatch_live` | `EveryRequestIsServed` | one slot stays regular, the other comes and goes |
| `dispatch_drained` | `UndeliverableIsDropped` — **violated** | a request queued when the last regular thread leaves blocks for ever |
| `request` | `TypeOK ResponseIsTheScripts AnswerIsFinal AbortIsNotInvented BufferIsFrozen` | 2 requests through one pthread, peers that hang up at any time |
| `request_live` | `EveryRequestIsAnswered` | answers through bailouts and scripts that run on |
| `early_hints` | `AnswerIsFinal` — **violated** | `flush(); headers_send(103)` makes 103 the final status |
| `unhealthy` | `UnhealthyIsRestarted` — **violated** | a pending fatal message aborts the process instead |
| `server` | `TypeOK DrainIsLast InFlightIsFinished RunReturns TasksAreReaped` | 2 connections, 1 PHP thread that may be lost; what can hold the drain, and nothing else, keeps `run` from returning |
| `request_input` | `PathsFindTheirScript NamesAndAddressesAgree LoggedTextIsReversible` of `RequestText`, `InputTypeOK RequestReachesPhp BodyIsWhole` of `RequestInput` | every text up to 4 to 6 critical bytes; a request with up to 3 fields, or a body of up to 3 bytes that may not arrive and is read by 1 or 2; a document root that is not UTF-8 |
| `slots` | `TypeOK LockDiscipline BorrowsAreSound NothingLeaks CleanupCompletes` | 2 PHP threads and main, 2 requests, bailouts anywhere |

Several of these are conjunctions of parts that have a name and a comment of their
own in the module:

| Property | Its parts |
|---|---|
| `ReuseIsSafe` | `OnePthreadPerSlot`, `DoneIsAwaited` |
| `SharedMemoryIsLive` | `KillSlotIsLive`, `MetricsOutliveScripts` |
| `HandlersAreInStep` | `RunsInstalledHandler`, `NoUnexpectedState` |
| `CallsFindTheirSlots` | `QuietSlots`, `DrainIsOpen` |
| `BookkeepingIsExact` | `CounterIsExact`, `ServiceIsRegistered` |
| `ResponseIsTheScripts` | `ResponseIsComplete`, `HeadersSentOnce`, `SignalledBeforeDrop` |
| `DrainIsLast` | `NeverReturnsUndrained`, `NoDispatchAfterDrain`, `OrphansAreWaitedFor` |
| `PathsFindTheirScript` | `DecodesOnce`, `IndexIsTheScript`, `SplitsAtTheScript`, `CleanIsLexical`, `StaysUnderRoot`, `ScriptPathIsWhole` |
| `NamesAndAddressesAgree` | `CanonicalNamesAgree`, `OneVariablePerName`, `HostPortIsTheReading`, `RemoteAddressIsWhole`, `ServerNamesAgree` |
| `LoggedTextIsReversible` | `LogLineIsReversible`, `QuoteIsReversible`, `PrintableIsInTheTable` |
| `RequestReachesPhp` | `FieldsReachPhp`, `HeaderListIsWhole`, `FirstValueCounts`, `CookiesAreWhole`, `TargetIsPreserved` |
| `BodyIsWhole` | `BodyIsInOrder`, `UploadIsWhole` |
| `LockDiscipline` | `NoHoldAndWait`, `NoLockAcrossPhp`, `SlotIsShared` |
| `BorrowsAreSound` | `PointersAreLive`, `MainFindsNoRequest` |

**Bounds.** Three clients of a `ThreadState` are a waiter, a publisher and a second of
either; the theorems below remove the bound. Two slots are what it takes for a drain with
one slot done and one not, and for a claim that scans past a busy slot; one controller is
enough, as a second could only wait for SCALING. `MaxTenures = 2` gives a slot one stale
registry entry. Two requests are one served and one queued behind it. `MaxChunks = 1`
suffices because chunks are only counted. `Codes` holds one ordinary code and one that has
to be clamped; a script that makes an informational code its *final* status is left out, as
the conformance corpus documents that case as broken upstream too. Texts are over the bytes
the functions tell apart (for a path "/", ".", both cases of a letter and NUL; in the
document root one byte that no UTF-8 text has), and long enough for two components with a
"..", a bracketed address with a port, or a rune of four bytes; ".p" stands for ".php",
"i.p" for "index.php" and single letters for the five header names the code asks for, which
are parameters. The print tables are the first entries of the real ones and of plane 2: the
search is what is checked, not Unicode. `MaxI64 = 10` puts a length beyond the limit within
two digits. Fields and body are not combined: what reads one does not look at the other. One
PHP thread and two connections give a dispatch that runs and one behind it, which the thread
may still take after the kill. Two threads race for the growth of the table, and two
requests are one after the other on a thread, or one on each. `DetectsClose = TRUE` gives
`Request::cancelled` to the transport, the contract `context.rs` states; the present server
never sets it, so the abort path is reached only in the model.

**Deadlock** is not a separate check: all these systems may stop (all requests
answered, the server returned, the process aborted). In the pool a slot lost to a
failed respawn can stop everything; `CallsReturn` says that only that, or a script
out of reach of the kill, holds a call.

**Fairness.** Every OS thread and every polled future that can proceed does, as
the scheduler and tokio guarantee. Nothing is assumed of peers, of new calls, of
shutdown signals or of bailouts. Per system:
- pool: threads run, finite scripts end, the 30 s grace period elapses at some
  point; runaway scripts need not end and a respawn need not succeed. The grace
  period may elapse just before a pthread starts its script: the one kill then
  misses it and the wait for Done is unbounded. `CallsReturn` makes that exception
  explicit (`HeldByScript`), as it does a failed respawn (`HeldByLoss`);
- thread state: a call that can go on does, a woken one as well as a safe change that
  looks at the state again; nobody has to publish anything, and no timeout has to pass;
- context slots: steps of table calls, closures and the clean-up after a script
  run on; scripts need not end and bailouts need not come;
- dispatch: scripts end, and slots that can be converted are;
- request: a script left to itself ends;
- server: `select!` picks among ready arms at random, so an arm that is ready
  again and again is taken (strong fairness of `LeaveLoop` and `Reap`); the
  connection deadline and the grace period pass. A script the kill has hit ends; no other
  need end, nor need one that was taken begin. `RunReturns` therefore names what can
  hold the drain (`thread.rs:895-907`: one kill, then a wait without bound): a dispatch
  the kill came too early for (`HeldByScript`) and a lost slot (`HeldByLoss`).

**Symmetry** is used where all members of a set are interchangeable and no
liveness is checked: requests, and slots with requests in `dispatch`.

## 4. Findings

1. *Undeliverable requests hang* (`dispatch_drained`). The shared channel's
   receiver is `'static`, so the blocking send cannot fail; comments in
   `server.rs` and `thread_regular.rs` promise a dropped request and an empty 200.
2. *Late early hints replace the final status* (`early_hints`). The sink stores
   every status it is given; Go's `WriteHeader`, which it stands for, ignores all
   after the first final one.
3. *An unhealthy thread is not always restarted* (`unhealthy`). The bailout path
   calls `go_log_attrs`, still an abort stub.

## 5. Proofs

Every safety property of the state primitive, the pool, dispatch, the request lifecycle, the
server, the context table and the way of a request to PHP is proved for every value of the
constants, and what the path, name, address, logging and quoting functions compute for texts
of every length. Each proof has one lemma or step per action of the code and, under it, one
per conjunct of the inductive invariant the action can disturb; TLC checked each
strengthening on the instance of its run before it was proved.

| Module | Properties proved | Assumptions used |
|---|---|---|
| `ThreadStateProofs` | `NoLostWakeup NoSpuriousWakeup NoLeakedSubscriber` | `CellAssumption`, `ArgumentsAssumption` |
| `PhpThreadsProofs` | `TypeOK SharedMemoryIsLive HandlersAreInStep NoStrandedRequest ReuseIsSafe CallsFindTheirSlots`, the refinement `KeepsEngineContract` | `SizesAssumption`, `NamesAssumption`, `ActorsAssumption`, `ScriptsAssumption` |
| `DispatchProofs` | `TypeOK NobodyIsOvertaken ExecutedOnce BookkeepingIsExact` | `DispatchAssumption` |
| `RequestLifecycleProofs` | `TypeOK ResponseIsTheScripts AbortIsNotInvented BufferIsFrozen`; `AnswerIsFinal` under `FinalOnly` | `RequestAssumption` |
| `ServerProofs` | `TypeOK DrainIsLast InFlightIsFinished` | `ServerAssumption` |
| `ContextSlotsProofs` | `TypeOK LockDiscipline BorrowsAreSound NothingLeaks` | `SlotsAssumption` |
| `RequestTextProofs` | `PathsFindTheirScript NamesAndAddressesAgree LoggedTextIsReversible` | `CgiPathsAssumption`, `IndexFileAssumption`, `CommonNamesAssumption`, `PrintTableAssumption`, `RootsAssumption`, `SplitListsAssumption` |
| `RequestInputProofs` | `InputTypeOK RequestReachesPhp BodyIsWhole` | `RequestInputAssumption`, `WireAssumption`, and those of the path and name functions |

The assumptions say that the sets are what the code has (at least one slot, names
that differ from each other, lists of lifecycle states), what hyper's parser lets
through (names are lower-case tokens, values hold no NUL), that a target
without a path has no query, that a document root, which
comes from the environment, is bytes without a NUL, and what the literals of the code are
("index.php" ends in ".php" and nowhere else has it; Go's tables are sorted, have an even
number of bounds, begin with the pairs the shortcut below 256 stands for, and hold 16-bit
offsets beyond the first plane). TLC evaluates all of them.

**State primitive.** The inductive invariant is the conjunction of the properties
with the types and `SubscriptionsMatch`: the record a parked call has on the list holds the states
*that* call waits for. Without it a notification could not be related to the history
bit of the call it wakes. There is a lemma for each way the list changes
(`notify_subscribers` under a publication, `subscribe`, the removal).

**Pool.** Nothing about a slot can be shown from its own pthread alone: a controller
moves its state, its handler and its drain from outside. The invariant therefore has
four parts for every slot. `Finds`: the states its pthread may find at each of its
places, by the installed handler. `Owns`: what belongs to the pthread itself (its
storage, its script, its health). `Owner`: the call a state belongs to, because a
slot leaves the quiet states only for the call that holds SCALING. `Knows`: what that
call may rely on at each of its labels, for the slots it has visited and those it
has not. `CallInv` and `HolderWaits` describe the call and its wait, `MainShape` and
`MainCall` tie the main pthread, the engine and the metrics to it. `Owner` is what
makes the parts fit: `Asked` says which slots the running call has asked and not
finished with, and only those may be in a transition or a shutdown.
The first half of the module shows that the steps of the pthreads and of main keep it,
the second that the steps of the controllers do. The lemmas `CellStep` and
its kin carry the waits: an operation on one cell leaves the other cells alone, and
the waits of others too unless it publishes what they wait for. For the refinement,
`MainStartup` is the contract's bring-up, `BootLaunch` its spawn, `OnThreadShutdown`
and a failed respawn its retire and `MainTeardown` its tear-down; the teardown is the
hard step, and rests on `Knows`: when main is released every slot is Reserved, and a
Reserved slot has no pthread. All other steps leave the contract's state as it is.

**Dispatch.** A request can be received by three actions. That none delivers it twice
rests on `QueueIsBlocked`: the shared channel holds blocked senders only, each once.
The counter is shown equal to the number of calls between its two updates, with the
finiteness of that set (`CounterIsFinite`) in the invariant, since there may be
infinitely many requests. That a detach loses no other slot's entry is a lemma about
`Vec::retain` (`RetainedEntries`): the kept positions, ranked, are all of the kept
entries and nothing else.

**Request.** The connection and the pthread share the buffer without a lock, so the
invariant says what the pthread's place tells about the request it serves:
`Ownership` (a context is in one place), `SignalOrder` (the signal comes before
`is_done`, and where each has happened), `Accounts` (what was echoed is in the
response buffer or in PHP's, and the final headers go out once), `Responses` and
`Closes`. `BufferIsFrozen` follows because every write looks at `is_done` and the
window between signal and `is_done` has no write. `AnswersAreFinal` assumes scripts
that set no informational code themselves and send no hints after their headers
(`FinalOnly`, what the `request` run has too): for the others it is false, which is
finding 2.

**Server.** The strengthening is `BootIsFirst`: before the boot the pool is down and
neither a connection nor a dispatch exists. Without it a failed boot, which returns
directly, could leave one behind. `PoolHolds` counts: a slot has a dispatch, is free or is
lost, so there are never more of the first and the last than threads.

**Context table.** With careless closures allowed, the invariant says where each lock
can be held: the guard is set exactly during a call (`GuardIsExact`), a lock is held
only at the place of the call that took it (`TableLockMatches`, `SlotLocksMatch`), the
table is dense (`TableIsDense`: entry i is the i-th slot made) and a call's clone is
the slot of its index (`CloneIsOwn`). Density is what makes concurrent growth
harmless; without it a clone could not be related to a table that grew meanwhile.
The second half of the module adds, for each place of `php_thread`, which context is
installed, which path is pinned and what C has in hand (`Holding`, `Borrowed`), that
two threads never serve one request (`Requested`), and that main calls only before
the threads are born or after they have stopped (`MainInv`). From it every pointer of
`SG(request_info)` is into the installed context, on the bailout paths too.

**Texts.** `LoopExists` turns every loop of the code into a function of the number of
turns; what holds before the first turn and is kept by a turn then holds after the last
one, by induction on the numbers (`Induction`, stated for sets, so that a prover can
apply it). The work is in the loop invariants. For `clean_path` it says: the output is
the text (`Out`) of the components the reference has kept so far, the components ".."
stand only in front (`Shape`), the floor that the code moves is where those end, and
every turn that finds a component advances to the end of that component and nothing
else. The in-place backing up to the last slash is then the removal of the last
component, because a kept component has no slash. For the root join, the request is
resolved behind a "/" of its own; `ResolveNext` and `ResolveBehind` show that the stack
of a root followed by that of the request is the stack of the joined text, since a
request that never climbs above its "/" never reaches the root's components. The split
is shown to be at the least match by relating the scan to the set of positions where an
extension ends; the reading of an address follows from where its colons and brackets
are; the canonicalisers agree byte by byte, with the letter before as the only state.
That C opens the whole name is a chain of small facts (`CText`): every function from the
decoded path to the script name adds no NUL.

That logged and quoted text can be read back rests on one notion, `ReadAs`: a code, in
front of anything, is taken by exactly one turn of the reader, which finds the bytes.
Each escape is shown to be read so (one lemma for a letter, one for the digits, one for
a plain character), and `Reads` strings the codes together, so that the loops of
`escape_for_log_line` and `go_quote` need only say: what is written reads as what was
consumed. For the digits, `Hex` and `FromHex` are inverse where the width is enough
(`HexFits`, the fact a `\u` with too large a code point would break); for the rest,
`RuneBytes` shows that encoding a decoded character gives its bytes back, for each of the
four lengths, which is where overlong forms have to be excluded. The probe of
`go_is_print` is right because the entries below the needle are the first ones
(`Partition`), so that the parity of their number tells whether the needle is inside a
pair.

**Input.** `Body` says where the bytes of the collected body are: those PHP has, those read into
the present block, those the source still holds, in this order. `Derived` says what each
stage was computed from, so that what PHP sees can be followed back to the wire. The
header map is shown to have one entry per canonical name, with the values in the order
of arrival; from this the joined values, the cookie header, the first value of the
single-valued headers and the variables registered by C follow. Where two names mangle
to one variable, one of the two headers is shown to be there, whole. `LossyReading` shows
that reading a root as UTF-8 changes it exactly when it is not UTF-8: every turn takes at
least one byte and what is written stays UTF-8, so a root that is not cannot come out
unchanged; and where the root can be cut into characters the turns follow the cuts.

**Model-checked only.** The liveness properties (`ReachedStateReleases`,
`SafeChangeIsAnswered`, `CallsReturn`, `EveryRequestIsServed`, `EveryRequestIsAnswered`,
`RunReturns`, `TasksAreReaped`, `CleanupCompletes`): fairness and `ENABLED` are out of the
prover's reach. Every invariant and every action property of the passing runs is proved; TLC
checks them as well, on the instances of section 3, and there the seeded faults show that
each of them can fail.

## 6. Plan

The modules were written in this order: the state primitive, the pool with its engine
contract, dispatch, the request, the server, the context table, the pure functions, the
way of a request to PHP. All of them are in place, with their runs and proofs. Open, should
the project grow: the liveness properties as theorems, once a prover handles fairness; the
C side beyond what `php_thread`, `php_main` and the registered variables show of it; and
the orchestrator, which would be a system of its own.

## 7. Not modelled

- The orchestrator (`orchestrator/*.py`, `scripts/supervise.sh`). It is tooling that
  develops this repository, not part of the program that serves requests: its state
  is the labels of a remote tracker and the worktrees of agents, its steps are
  subprocess calls. Its hazards (claims made of several label edits without a
  compare-and-swap, a restart on new code between a merge and its label, the bounded
  recoveries of a blocked issue) are therefore open and not in the hazard list.
- FFI bindings and layout checks, the build script, the benchmark and conformance
  tooling: no state.
- Of modelled files: `mark_as_waiting` and `wait_time` (diagnostic), php.ini
  overrides and the sizing of max_threads, the layout of log lines with attributes,
  `log_once`, the notices of callbacks that are not ported, constants of `$_SERVER`.
- In `vendor/`, everything except the functions of `frankenphp.c` the port calls or
  is called by.
- The source of a body: the server's is a `Cursor` over the collected bytes, which never
  fails and gives what is asked. The sources that interrupt, fail or claim too much are
  those `fill` is written for, and are met in the model only. A collected body and the
  fields of its request are checked in separate instances.
- The entries of `COMMON_HEADERS`. The table is modelled by what the repository's test of
  it says, that every entry is its name mangled, so the model says nothing of a misspelt
  entry.
- tokio's limit of 512 blocking threads: beyond it a dispatch waits for a pool thread
  before it can queue, which only delays it.
