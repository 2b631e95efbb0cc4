----------------------------- MODULE EventTimer -----------------------------
(***************************************************************************)
(* The event timers of src/eventTimer.c: the default one, the one of a     *)
(* program under the debugger (rtdebug) and the virtual clock, with the    *)
(* calls of src/events.c that choose a timer, the loop's use of it, and    *)
(* the log of src/debug.c, which stamps its messages with it.  The global  *)
(* virtual clock is module GlobalTimer.                                    *)
(*                                                                         *)
(* CLOCK_MONOTONIC is counted in half units of a timeval, so that the      *)
(* rounding of the conversion is kept; the other times are in whole units. *)
(***************************************************************************)
EXTENDS Integers, FiniteSets, FiniteSetsExt

CONSTANTS MaxReal,   \* bound on CLOCK_MONOTONIC
          MaxTime,   \* bound on the program's time
          Delays,    \* delays and increments a caller passes
          Starts,    \* the times a virtual clock starts at
          MaxTimers, \* bound on the timers allocated
          MaxEvents, \* bound on the timed events
          NULL

VARIABLES real,      \* CLOCK_MONOTONIC
          timer,     \* ctx->evt_timer
          custom,    \* ctx->custom_timer
          server,    \* whether ctx->dbgServer exists
          log,       \* gDBGTimer: NULL or the id of a timer
          queue,     \* the nextAwake times of the timed events
          hold,      \* whether the debugger holds an event of the loop
          pc,        \* "user", "block", "wake" or "freed"
          paused,    \* the pauseWhileBlocking argument
          began,     \* the program's clock when it was called
          limit      \* when the timeout given to select ends, or NULL

vars == <<real, timer, custom, server, log, queue, hold, pc, paused, began, limit>>

Timer(id, kind, time) ==
  [id |-> id, kind |-> kind, offset |-> 0, time |-> time, pause |-> "active"]

\* EVT_initWithSize
Init ==
  /\ real = 0 /\ timer = Timer(1, "default", 0) /\ custom = FALSE /\ server = FALSE
  /\ log = 1 /\ queue = {} /\ hold = FALSE
  /\ pc = "user" /\ paused = FALSE /\ began = 0 /\ limit = NULL

\* ET_default_monotonic: rounded to the nearest unit.
ET_default_monotonic(r) == (r + 1) \div 2

\* get_monotonic_time of the timer t when CLOCK_MONOTONIC is r.
Monotonic(t, r) ==
  CASE t.kind = "default" -> ET_default_monotonic(r)
    [] t.kind = "rtdebug" -> ET_default_monotonic(r) - t.offset
    [] t.kind = "virtual" -> t.time

Clock == Monotonic(timer, real)
-----------------------------------------------------------------------------
(* The choice of a timer.                                                  *)

\* The old timer is cleaned up, and the log uses the new one.
EVT_set_evt_timer(t) == timer' = t /\ custom' = TRUE /\ log' = t.id

EVT_enable_virt(start) ==
  /\ pc = "user" /\ timer.id < MaxTimers
  /\ EVT_set_evt_timer(Timer(timer.id + 1, "virtual", start))
  /\ UNCHANGED <<real, server, queue, hold, pc, paused, began, limit>>

\* edbg_init, when the loop of a program under the debugger starts: a timer
\* the program chose stays, else the environment asks for a virtual one.
edbg_init(kind, start) ==
  /\ pc = "user" /\ ~server
  /\ custom \/ timer.id < MaxTimers
  /\ server' = TRUE
  /\ IF custom THEN UNCHANGED <<timer, log>>
     ELSE timer' = Timer(timer.id + 1, kind, start) /\ log' = timer.id + 1
  /\ UNCHANGED <<real, custom, queue, hold, pc, paused, began, limit>>

EVT_free_handler ==
  /\ pc = "user"
  /\ log' = NULL /\ pc' = "freed"
  /\ UNCHANGED <<real, timer, custom, server, queue, hold, paused, began, limit>>
-----------------------------------------------------------------------------
(* What callbacks do: schedule events, move or pause a virtual clock; and  *)
(* the debugger, which holds the loop at an event and lets it go.          *)

Virtual == pc = "user" /\ timer.kind = "virtual"

Schedules(d) ==
  /\ pc = "user" /\ Cardinality(queue) < MaxEvents /\ Clock + d <= MaxTime
  /\ queue' = queue \cup {Clock + d}
  /\ UNCHANGED <<real, timer, custom, server, log, hold, pc, paused, began, limit>>

et_virt_inc_time(d) ==
  /\ Virtual /\ timer.time + d <= MaxTime
  /\ timer' = [timer EXCEPT !.time = @ + d]
  /\ UNCHANGED <<real, custom, server, log, queue, hold, pc, paused, began, limit>>

et_virt_set_time(t) ==
  /\ Virtual /\ timer' = [timer EXCEPT !.time = t]
  /\ UNCHANGED <<real, custom, server, log, queue, hold, pc, paused, began, limit>>

\* A local clock cannot be stolen.
et_virt_set_pause(state) ==
  /\ Virtual /\ timer' = [timer EXCEPT !.pause = IF state = "stolen" THEN @ ELSE state]
  /\ UNCHANGED <<real, custom, server, log, queue, hold, pc, paused, began, limit>>

Holds ==
  /\ pc = "user" /\ server /\ hold' = ~hold
  /\ UNCHANGED <<real, timer, custom, server, log, queue, pc, paused, began, limit>>
-----------------------------------------------------------------------------
(* The block call of one iteration of the loop.                            *)

Passes ==
  /\ real < MaxReal /\ real' = real + 1
  /\ UNCHANGED <<timer, custom, server, log, queue, hold, pc, paused, began, limit>>

\* The head of ctx->queue; a loop that is paused waits for none.
NextAwake == IF hold \/ queue = {} THEN NULL ELSE Min(queue)

\* timersub, and nothing when that is negative.
Remaining(next, now) == IF next > now THEN next - now ELSE 0

\* Mutant: the time left is counted on the real clock.
Timeout_Real(next) == real + 2 * Remaining(next, ET_default_monotonic(real))

\* select sleeps for the time left on the program's clock.
Timeout(next) == real + 2 * Remaining(next, Clock)

ET_default_block ==
  /\ pc = "user" /\ timer.kind \in {"default", "rtdebug"}
  /\ limit' = IF NextAwake = NULL THEN NULL ELSE Timeout(NextAwake)
  /\ UNCHANGED timer

\* An active virtual clock jumps to the next event and does not wait; one that
\* is paused waits for a descriptor, whatever its events.
ET_virt_block ==
  /\ Virtual
  /\ IF NextAwake # NULL /\ timer.pause = "active"
     THEN timer' = [timer EXCEPT !.time = NextAwake] /\ limit' = real
     ELSE limit' = NULL /\ UNCHANGED timer

Block ==
  /\ ET_default_block \/ ET_virt_block
  /\ pc' = "block" /\ paused' = hold /\ began' = Clock
  /\ UNCHANGED <<real, custom, server, log, queue, hold>>

\* Mutant: the pauses do not add up.
Credited_Last == [timer EXCEPT !.offset = Remaining(Clock, began)]

\* ET_rtdebug_block: the time spent in a paused call is taken off the clock.
Credited == [timer EXCEPT !.offset = @ + Remaining(Clock, began)]

\* select_event_loop_cb returns: its timeout has passed, a descriptor is
\* ready, or a timer of dbg_queue is due, which runs on the real clock.
Returns(timedout) ==
  /\ pc = "block" /\ (timedout => limit # NULL /\ real >= limit)
  /\ pc' = "wake" /\ limit' = NULL
  /\ timer' = IF timer.kind = "rtdebug" /\ paused THEN Credited ELSE timer
  /\ UNCHANGED <<real, custom, server, log, queue, hold, paused, began>>

\* The timed events that are due run, unless the loop is paused.
Dispatches ==
  /\ pc = "wake" /\ pc' = "user"
  /\ queue' = IF paused THEN queue ELSE {t \in queue : t > Clock}
  /\ UNCHANGED <<real, timer, custom, server, log, hold, paused, began, limit>>

Next ==
  \/ Passes \/ Block \/ Dispatches \/ Holds \/ EVT_free_handler
  \/ \E timedout \in BOOLEAN : Returns(timedout)
  \/ \E d \in Delays : Schedules(d) \/ et_virt_inc_time(d)
  \/ \E t \in Starts :
       \/ EVT_enable_virt(t) \/ et_virt_set_time(t)
       \/ \E kind \in {"rtdebug", "virtual"} : edbg_init(kind, t)
  \/ \E state \in {"active", "paused", "stolen"} : et_virt_set_pause(state)

Spec == Init /\ [][Next]_vars
-----------------------------------------------------------------------------
\* A program that the debugger holds, or whose virtual clock is paused, sees no
\* time pass: however often and for how long it was held before, its clock reads
\* the same after the block call as before it.
TimeStands ==
  [][\A timedout \in BOOLEAN :
       Returns(timedout) /\ (paused \/ (timer.kind = "virtual" /\ timer.pause = "paused"))
         => Clock' = began]_vars

\* A block call that ends because its timeout has passed finds an event due on
\* the program's clock, rounding and earlier pauses included: the loop neither
\* spins until the time comes nor sleeps past it.
WakesWhenDue ==
  [][Returns(TRUE) => \E next \in queue : next <= Clock']_vars
=============================================================================
