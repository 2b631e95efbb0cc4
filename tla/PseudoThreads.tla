---------------------------- MODULE PseudoThreads ----------------------------
(***************************************************************************)
(* src/pseudo_threads.c: cooperative threads on top of the event loop.  A  *)
(* thread runs until it blocks; the loop runs all ready threads at the top *)
(* of an iteration and then dispatches events, whose callbacks put blocked *)
(* threads on the ready list.                                              *)
(*                                                                         *)
(* The lists are sequences, newest first.  Each thread reads a descriptor  *)
(* of its own (threads that share one overwrite each other's handler), so  *)
(* a descriptor is named by its thread, and no thread unblocks itself.  A  *)
(* behaviour ends when an assertion fails or freed memory is used.         *)
(***************************************************************************)
EXTENDS Naturals, Sequences, FiniteSets

CONSTANTS Thread, None,
          Api        \* the calls the application makes on other threads

ASSUME ThreadAssumption == None \notin Thread /\ Api \subseteq {"unblock", "destroy"}

VARIABLES live,      \* the allocated threads
          ready, blocked, curr, goner,
          doing,     \* what each thread was doing when it last stopped
          sched_evt, \* the threads whose sched_evt is set
          timers,    \* the threads a pending timed event is for
          handlers,  \* the threads an fd event is registered for
          phase,     \* "threads" in PT_run_all, "events" in callbacks
          failed     \* "no", "assert" or "freed"

queues == <<ready, blocked, curr, goner>>
vars == <<live, queues, doing, sched_evt, timers, handlers, phase, failed>>

Init ==
  /\ live = {} /\ ready = <<>> /\ blocked = <<>> /\ curr = None /\ goner = None
  /\ doing = [t \in Thread |-> "start"] /\ sched_evt = {} /\ timers = {} /\ handlers = {}
  /\ phase = "events" /\ failed = "no"

dequeue(q, t) == SelectSeq(q, LAMBDA u : u # t)
enqueue(q, t) == <<t>> \o q
On(q, t) == \E i \in DOMAIN q : q[i] = t
Fail(what) == failed' = what /\ UNCHANGED <<live, queues, doing, sched_evt, timers, handlers, phase>>

\* Application code runs in event callbacks and in the current thread.
AppRuns == phase = "events" \/ curr # None
-----------------------------------------------------------------------------
(* Calls from anywhere.                                                    *)

PT_create(t) ==
  /\ AppRuns /\ t \notin live
  /\ live' = live \cup {t} /\ ready' = enqueue(ready, t)
  /\ doing' = [doing EXCEPT ![t] = "start"]
  /\ UNCHANGED <<blocked, curr, goner, sched_evt, timers, handlers, phase, failed>>

\* Mutant: the thread is not taken off the list it is on.
Awake_Still(t) ==
  /\ ready' = enqueue(ready, t) /\ UNCHANGED <<blocked, curr, goner>>

Awake(t) ==
  /\ ready' = enqueue(dequeue(ready, t), t) /\ blocked' = dequeue(blocked, t)
  /\ UNCHANGED <<curr, goner>>

PT_unblock(t) ==
  /\ "unblock" \in Api /\ AppRuns /\ t \in live /\ t # curr
  /\ Awake(t)
  /\ UNCHANGED <<live, doing, sched_evt, timers, handlers, phase, failed>>

\* A thread that destroys itself is freed by PT_run_all.
PT_destroy(t) ==
  /\ "destroy" \in Api /\ AppRuns /\ t \in live
  /\ sched_evt' = sched_evt \ {t} /\ timers' = timers \ {t}
  /\ IF t = curr THEN /\ curr' = None /\ goner' = t /\ UNCHANGED <<live, ready, blocked>>
     ELSE /\ live' = live \ {t}
          /\ ready' = dequeue(ready, t) /\ blocked' = dequeue(blocked, t)
          /\ UNCHANGED <<curr, goner>>
  /\ UNCHANGED <<doing, handlers, phase, failed>>
-----------------------------------------------------------------------------
(* The current thread.  After it is resumed it first finishes the call     *)
(* that it was blocked in.                                                 *)

Sleep(t, what) ==
  /\ curr' = None /\ blocked' = enqueue(blocked, t)
  /\ doing' = [doing EXCEPT ![t] = what]
  /\ UNCHANGED <<ready, goner>>

\* Mutant: the next round of the loop does not register the descriptor again.
Again_Unregistered(t) ==
  /\ Sleep(t, doing[t]) /\ UNCHANGED handlers

\* The next round of pt_rw_int's loop, when the call would block.
Again(t) ==
  /\ Sleep(t, doing[t]) /\ handlers' = handlers \cup {t}

\* pt_rw_int after swapcontext: a timeout, or the call itself.
Resumed(t) ==
  /\ curr = t /\ doing[t] \in {"read", "timed read"}
  /\ IF doing[t] = "timed read" /\ t \notin sched_evt
     THEN /\ doing' = [doing EXCEPT ![t] = "run"]
          /\ UNCHANGED <<queues, sched_evt, timers, handlers>>
     ELSE /\ sched_evt' = sched_evt \ {t} /\ timers' = timers \ {t}
          /\ \/ /\ doing' = [doing EXCEPT ![t] = "run"] /\ UNCHANGED <<queues, handlers>>
             \/ Again(t)
  /\ UNCHANGED <<live, phase, failed>>

Runs(t) == curr = t /\ doing[t] \notin {"read", "timed read"}

PT_block(t) ==
  /\ Runs(t) /\ Sleep(t, "block")
  /\ UNCHANGED <<live, sched_evt, timers, handlers, phase, failed>>

PT_wait(t) ==
  /\ Runs(t)
  /\ IF t \in sched_evt THEN Fail("assert")
     ELSE /\ sched_evt' = sched_evt \cup {t} /\ timers' = timers \cup {t}
          /\ Sleep(t, "wait")
          /\ UNCHANGED <<live, handlers, phase, failed>>

\* PT_read and PT_write up to swapcontext; both wait for EVENT_FD_READ.
pt_rw_int(t, timeout) ==
  /\ Runs(t)
  /\ IF timeout /\ t \in sched_evt THEN Fail("assert")
     ELSE /\ IF timeout
             THEN sched_evt' = sched_evt \cup {t} /\ timers' = timers \cup {t}
             ELSE UNCHANGED <<sched_evt, timers>>
          /\ handlers' = handlers \cup {t}
          /\ Sleep(t, IF timeout THEN "timed read" ELSE "read")
          /\ UNCHANGED <<live, phase, failed>>

\* The thread's function returns.
tmain_wrapper(t) ==
  /\ Runs(t)
  /\ curr' = None /\ goner' = t
  /\ sched_evt' = sched_evt \ {t} /\ timers' = timers \ {t}
  /\ UNCHANGED <<live, ready, blocked, doing, handlers, phase, failed>>
-----------------------------------------------------------------------------
(* PT_run_all and the event loop.                                          *)

\* A thread gave way: what is left of it is freed before the next one runs.
Reap ==
  /\ phase = "threads" /\ curr = None /\ goner # None
  /\ live' = live \ {goner} /\ goner' = None
  /\ UNCHANGED <<ready, blocked, curr, doing, sched_evt, timers, handlers, phase, failed>>

PT_run_all ==
  /\ phase = "threads" /\ curr = None /\ goner = None /\ ready # <<>>
  /\ curr' = Head(ready) /\ ready' = Tail(ready)
  /\ UNCHANGED <<live, blocked, goner, doing, sched_evt, timers, handlers, phase, failed>>

Switch ==
  /\ IF phase = "events" THEN phase' = "threads"
     ELSE curr = None /\ goner = None /\ ready = <<>> /\ phase' = "events"
  /\ UNCHANGED <<live, queues, doing, sched_evt, timers, handlers, failed>>

timed_evt_cb(t) ==
  /\ phase = "events" /\ t \in timers
  /\ IF t \notin live THEN Fail("freed")
     ELSE /\ timers' = timers \ {t} /\ sched_evt' = sched_evt \ {t} /\ Awake(t)
          /\ UNCHANGED <<live, doing, handlers, phase, failed>>

fd_evt_cb(t) ==
  /\ phase = "events" /\ t \in handlers
  /\ IF t \notin live THEN Fail("freed")
     ELSE /\ handlers' = handlers \ {t} /\ Awake(t)
          /\ UNCHANGED <<live, doing, sched_evt, timers, phase, failed>>
-----------------------------------------------------------------------------
Next == failed = "no" /\
  \/ Reap \/ PT_run_all \/ Switch
  \/ \E t \in Thread :
       \/ PT_create(t) \/ PT_unblock(t) \/ PT_destroy(t)
       \/ Resumed(t) \/ PT_block(t) \/ PT_wait(t) \/ tmain_wrapper(t)
       \/ \E timeout \in BOOLEAN : pt_rw_int(t, timeout)
       \/ timed_evt_cb(t) \/ fd_evt_cb(t)

Spec == Init /\ [][Next]_vars
-----------------------------------------------------------------------------

Places(t) ==
  (IF curr = t THEN 1 ELSE 0) + (IF goner = t THEN 1 ELSE 0)
    + Cardinality({i \in DOMAIN ready : ready[i] = t})
    + Cardinality({i \in DOMAIN blocked : blocked[i] = t})

\* Whatever threads and callbacks create, unblock, destroy and wake, a thread
\* that exists is in exactly one place (ready, blocked, running or about to be
\* freed) and a freed one in none, so that no list runs into freed memory.
OnePlace == \A t \in Thread : Places(t) = IF t \in live THEN 1 ELSE 0

\* A sleeping thread can be woken: one that is blocked in PT_wait has its timer
\* pending, one blocked in a read has its descriptor registered.
WakeupArmed ==
  \A t \in Thread : On(blocked, t) =>
    /\ doing[t] = "wait" => t \in timers
    /\ doing[t] \in {"read", "timed read"} => t \in handlers
=============================================================================
