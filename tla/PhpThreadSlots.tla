---------------------------- MODULE PhpThreadSlots ----------------------------
(***************************************************************************)
(* The state shared by the PHP pthreads and their Rust controllers:        *)
(* crates/frankenrust-core/src/thread.rs (`PhpThread`, `PhpMainThread`,    *)
(* `Registry`, SCALING), with what vendor/frankenphp/frankenphp.c keeps    *)
(* for a pthread while it lives.                                           *)
(*                                                                         *)
(* Actors are OS threads: the pthread of each slot, named by its index;    *)
(* the main PHP pthread; and the Rust threads that run controller calls.   *)
(*                                                                         *)
(* Abstractions.  A drain generation is a number in the code; all that is  *)
(* ever compared is whether the receiver a pthread holds belongs to the    *)
(* generation now in the slot, so `fresh` stands for that comparison and   *)
(* needs no bound.  A request is its kind of script: one that ends by      *)
(* itself or one that only a force-kill ends.                              *)
(***************************************************************************)
EXTENDS StateCells, Integers, FiniteSets

CONSTANTS NumSlots,     \* final max_threads: the length of Registry::threads
          NumThreads,   \* num_threads: how many slots init boots
          Main,         \* the main PHP pthread, and its ThreadState
          Controllers,  \* Rust threads that call the lifecycle API
          Free,         \* SCALING is not held
          Scripts       \* the kinds of script that may be requested

Slots == 0 .. NumSlots - 1

ASSUME SizesAssumption ==
  /\ NumSlots \in Nat \ {0}
  /\ NumThreads \in 0 .. NumSlots
ASSUME NamesAssumption ==
  /\ Main \notin Slots \cup Controllers
  /\ Free \notin Controllers
  /\ Slots \cap Controllers = {}
ASSUME ActorsAssumption ==
  /\ Cells = Slots \cup {Main}
  /\ Actors = Cells \cup Controllers
ASSUME ScriptsAssumption == Scripts \subseteq {"finite", "runaway"}

VARIABLES pc,        \* [Actors -> label]: where each OS thread is
          slots,     \* [Slots -> the Rust object PhpThread]
          php,       \* [Slots -> what belongs to the slot's pthread]
          engine,    \* TSRM is up: between php_tsrm_startup and tsrm_shutdown
          metrics,   \* C's thread_metrics array is allocated
          installed, \* Registry::main is Some
          scaling,   \* the holder of SCALING, or Free
          job        \* the call the holder of SCALING is running

vars == <<state, waits, pc, slots, php, engine, metrics, installed, scaling, job>>

\* Everything but the lifecycle cells, the subscribers and the program counters.
rest == <<slots, php, engine, metrics, installed, scaling, job>>

\* PhpThread: the handler, whether the drain generation still has its sender,
\* and whether a force-kill slot is stored.
Slot == [handler : {"none", "inactive", "regular"}, open : BOOLEAN, kill : BOOLEAN]

\* The pthread: the handler whose loop it runs, whether its drain receiver is of
\* the slot's generation, its TSRM storage, its health, the request in its
\* context slot, whether that request's script has been interrupted, and (for
\* CallsReturn only) whether the kill signal has found it outside a script.
Pthread == [running : {"none", "inactive", "regular"}, fresh : BOOLEAN, tsrm : BOOLEAN,
            healthy : BOOLEAN, script : {"none", "finite", "runaway"},
            interrupted : BOOLEAN, missed : BOOLEAN]

Operations == {"init", "convert", "to_inactive", "shutdown", "drain"}

Job == [op : Operations \cup {"none"}, slot : Slots, pending : SUBSET Slots,
        failed : BOOLEAN]

NoJob == [op |-> "none", slot |-> 0, pending |-> {}, failed |-> FALSE]

FreshSlot == [handler |-> "none", open |-> TRUE, kill |-> FALSE]

NoPthread == [running |-> "none", fresh |-> FALSE, tsrm |-> FALSE, healthy |-> TRUE,
              script |-> "none", interrupted |-> FALSE, missed |-> FALSE]

Goto(a, label) == pc' = [pc EXCEPT ![a] = label]

At(a, label) == pc[a] = label

\* A step of a that only moves its program counter.
Move(a, from, to) ==
  /\ At(a, from)
  /\ Goto(a, to)
  /\ UNCHANGED <<state, waits, rest>>

\* The three pieces of a blocking wait_for(cell, S): subscribe, then recv.
SubscribeThen(a, from, c, S, to) ==
  /\ At(a, from)
  /\ subscribe(a, c, S)
  /\ Goto(a, to)
  /\ UNCHANGED rest

Woken(a, at) == At(a, at) /\ ~Subscribed(a)

\* A step that publishes a state and changes nothing else.
SetThen(a, from, c, s, to) ==
  /\ At(a, from)
  /\ Set(c, s)
  /\ Goto(a, to)
  /\ UNCHANGED rest

\* The drain generation a pthread selects on has been disconnected.
Drained(i) == ~slots[i].open \/ ~php[i].fresh
===============================================================================
