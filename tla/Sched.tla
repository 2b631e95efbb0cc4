-------------------------------- MODULE Sched --------------------------------
(***************************************************************************)
(* The timed-event half of src/events.c: the EVT_sched_* and EVT_defer_*   *)
(* calls, EVT_start_loop_auto_exit, and the debugger that can hold the     *)
(* loop at an event.  The two priority queues are the sets of queued       *)
(* events whose head is an event with the least nextAwake, which is what   *)
(* priorityQueue.h promises; module SchedHeap puts the heap of module Heap *)
(* in their place.  File-descriptor events appear only as callbacks that   *)
(* run in the fd phase; module FdEvents has their registration.            *)
(*                                                                         *)
(* User code (a callback, a pseudo-thread, or the program outside the      *)
(* loop) may make any number of calls while it runs; UserCode says when    *)
(* that is.  The clocks may advance between any two steps.                 *)
(***************************************************************************)
EXTENDS Integers, Sequences, FiniteSets

CONSTANTS Evt,       \* ScheduleCB allocations
          Dfr,       \* DeferredEvent allocations
          None,      \* NULL
          NullEvt,   \* &ctx->null_evt
          Delays,    \* delays a caller passes, as numbers of clock ticks
          MaxTime,   \* bound on both clocks
          MaxSteps,  \* bound on the "steps" of a debugger "next"
          Api,       \* the calls user code makes
          Debugger,  \* the debugger commands a client sends ({}: disabled)
          StartStopped, \* whether initialDebuggerState is EDBG_STOPPED
          AutoExit,  \* whether auto_exit contains EVT_EXIT_SCHED
          Virtual,   \* whether the event timer is a virtual clock
          ReplyWait, \* RESP_WAIT_MS, as a number of ticks
          Errors     \* the errors select can return

Calls == {"add", "timestep", "remove", "update", "credit", "critical",
          "defer", "cancel", "exit", "redefer", "errno",
          "update_held"}
Failures == {"eintr", "ebadf", "error"}
Commands == {"run", "stop", "next", "dump", "break"}

ASSUME SchedAssumption ==
  /\ IsFiniteSet(Evt) /\ Evt \cap Dfr = {}
  /\ \A x \in {None, "fd", "client"} : x \notin Evt \cup Dfr
  /\ NullEvt \notin Evt \cup {None} /\ None \notin {"fd", "client"}
  /\ Delays \subseteq Nat /\ MaxTime \in Nat /\ MaxSteps \in Nat \ {0}
  /\ Api \subseteq Calls /\ Debugger \subseteq Commands
  /\ StartStopped \in BOOLEAN /\ AutoExit \in BOOLEAN /\ Virtual \in BOOLEAN
  /\ ReplyWait \in Nat /\ Errors \subseteq Failures

VARIABLES now,        \* the event timer's monotonic clock
          mono,       \* the real monotonic clock, which dbg_queue runs on
          evt,        \* the events
          critCount,  \* critical_sched_count
          deferred,   \* the deferred list, head first
          pc,         \* where EVT_start_loop_auto_exit is
          run,        \* what runs: an event, a deferred event, the callback of
                      \* a user's fd ("fd") or of a debugger client's ("client")
          keepGoing, inLoop,
          ret,        \* what the block call returned, or errno after -1
          curTime,    \* the time read before the running event's callback
          timePaused, \* time_paused and fd_paused
          dbgState, breakNext, stepsToBreak, dbgStep,
          nextTimed,  \* next_timed_event: the timed event held at a breakpoint
          nextFd,     \* next_fd_event: None, "fd" or "client"
          replyEvt, breakEvt, dumpEvt

loopVars == <<pc, run, keepGoing, inLoop, ret, curTime, timePaused>>
dbgVars == <<dbgState, breakNext, stepsToBreak, nextTimed, nextFd, dbgStep,
             replyEvt, breakEvt, dumpEvt>>
clocks == <<now, mono>>
vars == <<clocks, evt, critCount, deferred, loopVars, dbgVars>>

\* st: "free" (not allocated), "queued" (in queue q), "out" (popped: held at
\* a breakpoint or in its callback).  in is inCallback, at nextAwake, since
\* scheduleTime, kind the library's own callbacks or the user's.
Kinds == {"user", "reply", "break", "dump"}
FreeEvt == [st |-> "free", q |-> "virt", at |-> 0, since |-> 0, step |-> 0,
            crit |-> FALSE, brk |-> FALSE, in |-> 0, kind |-> "user"]

Live(e) == evt[e].st # "free"
Queued(q) == {e \in Evt : evt[e].st = "queued" /\ evt[e].q = q}
Clock(e) == IF evt[e].q = "virt" THEN now ELSE mono
CriticalEvts == {e \in Evt : Live(e) /\ evt[e].crit}
Pending == {deferred[i].id : i \in 1..Len(deferred)}

\* ps_pqueue_peek: an event of the queue that no other one is before.
IsHead(q, e) == e \in Queued(q) /\ \A x \in Queued(q) : evt[e].at <= evt[x].at

\* The callbacks of the debugger's own timers run no user code.
UserCode == \/ pc \in {"outside", "threads"}
            \/ run \in Dfr \cup {"fd"}
            \/ run \in Evt /\ evt[run].kind = "user"

\* EVT_initWithSize, with the debugger state the environment asks for.
Init ==
  /\ now = 0 /\ mono = 0
  /\ evt = [e \in Evt |-> FreeEvt]
  /\ critCount = 0 /\ deferred = <<>>
  /\ pc = "outside" /\ run = None
  /\ keepGoing = TRUE /\ inLoop = FALSE /\ ret = "none"
  /\ curTime = 0 /\ timePaused = FALSE
  /\ dbgState = IF Debugger = {} THEN "disabled" ELSE "enabled"
  /\ breakNext = FALSE /\ stepsToBreak = 0
  /\ nextTimed = None /\ nextFd = None /\ dbgStep = FALSE
  /\ replyEvt = None /\ breakEvt = None /\ dumpEvt = None
-----------------------------------------------------------------------------
(* The calls.  A new event is critical and in the virtual queue.           *)

NewEvt(delay, step, kind) ==
  [st |-> "queued", q |-> "virt", at |-> now + delay, since |-> now,
   step |-> step, crit |-> TRUE, brk |-> FALSE, in |-> 0, kind |-> kind]

\* An event added and moved to dbg_queue with EVT_sched_move_to_mono.
MonoEvt(delay, kind) ==
  [st |-> "queued", q |-> "mono", at |-> mono + delay, since |-> mono,
   step |-> delay, crit |-> FALSE, brk |-> FALSE, in |-> 0, kind |-> kind]

\* The fields an operation changes: an update (inCallback becomes 2 in the
\* event's own callback), a dispatch, and the return of a callback that is kept,
\* which moves the event on by its timeStep unless it was updated meanwhile.
Moved(r, at, since, step) ==
  [r EXCEPT !.at = at, !.since = since, !.step = step, !.in = IF @ = 0 THEN 0 ELSE 2]
WithCrit(r, c) == [r EXCEPT !.crit = c]
WithBrk(r, b) == [r EXCEPT !.brk = b]
Popped(r) == [r EXCEPT !.st = "out"]
Called(r) == [r EXCEPT !.st = "out", !.in = 1]
Kept(r, time) ==
  [r EXCEPT !.st = "queued", !.in = 0,
            !.at = IF r.in = 1 THEN r.at + r.step ELSE r.at,
            !.since = IF r.in = 1 THEN time ELSE r.since]

EVT_sched_add(e, delay) ==
  /\ UserCode /\ "add" \in Api /\ ~Live(e)
  /\ evt' = [evt EXCEPT ![e] = NewEvt(delay, delay, "user")]
  /\ critCount' = critCount + 1
  /\ UNCHANGED <<clocks, deferred, loopVars, dbgVars>>

EVT_sched_add_with_timestep(e, delay, step) ==
  /\ UserCode /\ "timestep" \in Api /\ ~Live(e)
  /\ evt' = [evt EXCEPT ![e] = NewEvt(delay, step, "user")]
  /\ critCount' = critCount + 1
  /\ UNCHANGED <<clocks, deferred, loopVars, dbgVars>>

\* Mutant: the count is released before the test for a running callback.
Removed_Uncounted(x) ==
  /\ critCount' = critCount - (IF evt[x].crit THEN 1 ELSE 0)
  /\ IF evt[x].in # 0 THEN UNCHANGED <<evt, nextTimed>>
     ELSE /\ evt' = [evt EXCEPT ![x] = FreeEvt]
          /\ nextTimed' = IF nextTimed = x THEN NullEvt ELSE nextTimed

\* The state EVT_sched_remove(x) leaves; nothing when x is in its callback.
Removed(x) ==
  IF evt[x].in # 0 THEN UNCHANGED <<evt, critCount, nextTimed>>
  ELSE /\ evt' = [evt EXCEPT ![x] = FreeEvt]
       /\ critCount' = critCount - (IF evt[x].crit THEN 1 ELSE 0)
       /\ nextTimed' = IF nextTimed = x THEN NullEvt ELSE nextTimed

EVT_sched_remove(e) ==
  /\ UserCode /\ "remove" \in Api /\ Live(e) /\ evt[e].kind = "user"
  /\ Removed(e)
  /\ UNCHANGED <<clocks, deferred, loopVars, dbgState, breakNext,
                 stepsToBreak, nextFd, dbgStep, replyEvt, breakEvt, dumpEvt>>

\* Both updates store the new time.  Outside the event's own callback its
\* queue entry is moved, so the event has to be in a queue: one held at a
\* breakpoint (pos SIZE_MAX) is not, and the heap is indexed out of its array.
Retimed(e, at, since, step) ==
  IF evt[e].st = "out" /\ evt[e].in = 0
  THEN /\ "update_held" \in Api
       /\ pc' = "undefined" /\ run' = None
       /\ UNCHANGED <<evt, keepGoing, inLoop, ret, curTime, timePaused>>
  ELSE /\ evt' = [evt EXCEPT ![e] = Moved(evt[e], at, since, step)]
       /\ UNCHANGED loopVars

EVT_sched_update(e, delay) ==
  /\ UserCode /\ "update" \in Api /\ Live(e) /\ evt[e].kind = "user"
  /\ Retimed(e, Clock(e) + delay, Clock(e), delay)
  /\ UNCHANGED <<clocks, critCount, deferred, dbgVars>>

\* Credit for the time waited: counted from scheduleTime, never in the past.
EVT_sched_update_partial_credit(e, delay) ==
  /\ UserCode /\ "credit" \in Api /\ Live(e) /\ evt[e].kind = "user"
  /\ LET at == evt[e].since + delay
     IN Retimed(e, IF at <= Clock(e) THEN Clock(e) ELSE at, evt[e].since, delay)
  /\ UNCHANGED <<clocks, critCount, deferred, dbgVars>>

EVT_sched_set_critical(e, c) ==
  /\ UserCode /\ "critical" \in Api /\ Live(e) /\ evt[e].kind = "user"
  /\ critCount' = critCount + (IF evt[e].crit /\ ~c THEN -1
                               ELSE IF ~evt[e].crit /\ c THEN 1 ELSE 0)
  /\ evt' = [evt EXCEPT ![e] = WithCrit(@, c)]
  /\ UNCHANGED <<clocks, deferred, loopVars, dbgVars>>

\* Outside the loop the callback runs at once and nothing is recorded.
EVT_defer_add(d) ==
  /\ UserCode /\ "defer" \in Api /\ d \notin Pending /\ run # d
  /\ run \in Dfr => "redefer" \in Api
  /\ deferred' = IF inLoop THEN <<[id |-> d, cb |-> TRUE]>> \o deferred
                 ELSE deferred
  /\ UNCHANGED <<clocks, evt, critCount, loopVars, dbgVars>>

EVT_defer_cancel(d) ==
  /\ UserCode /\ "cancel" \in Api /\ d \in Pending
  /\ deferred' = [i \in 1..Len(deferred) |->
                    IF deferred[i].id = d THEN [id |-> d, cb |-> FALSE]
                    ELSE deferred[i]]
  /\ UNCHANGED <<clocks, evt, critCount, loopVars, dbgVars>>

EVT_exit_loop ==
  /\ UserCode /\ "exit" \in Api /\ keepGoing
  /\ keepGoing' = FALSE
  /\ UNCHANGED <<clocks, evt, critCount, deferred, pc, run, inLoop, ret,
                 curTime, timePaused, dbgVars>>
-----------------------------------------------------------------------------
(* The event loop.                                                         *)

\* Mutant: the state is not recorded.
Stop_Unrecorded == UNCHANGED dbgState /\ breakNext' = FALSE

\* edbg_breakpoint
Stop == dbgState' = "stopped" /\ breakNext' = FALSE

\* --steps_to_break; every value that is not positive acts as 0 does.
Decremented == IF stepsToBreak > 0 THEN stepsToBreak - 1 ELSE 0

\* Mutant: inCallback is not set.
Begin_Unmarked(e) ==
  /\ evt' = [evt EXCEPT ![e] = Popped(evt[e])]
  /\ run' = e /\ curTime' = Clock(e)

\* The callback of e starts; e is in no queue.
Begin(e) ==
  /\ evt' = [evt EXCEPT ![e] = Called(evt[e])]
  /\ run' = e /\ curTime' = Clock(e)

Start ==
  /\ pc = "outside"
  /\ pc' = "threads" /\ inLoop' = TRUE /\ keepGoing' = TRUE
  /\ breakNext' = (Debugger # {} /\ StartStopped)
  /\ UNCHANGED <<clocks, evt, critCount, deferred, run, ret, curTime,
                 timePaused, dbgState, stepsToBreak, nextTimed, nextFd,
                 dbgStep, replyEvt, breakEvt, dumpEvt>>

\* The while condition and, after PT_run_all, the check that follows it.
LoopCheck ==
  /\ \/ pc = "top" /\ pc' = IF keepGoing THEN "threads" ELSE "outside"
     \/ pc = "threads" /\ pc' = IF keepGoing THEN "step" ELSE "outside"
  /\ inLoop' = keepGoing
  /\ UNCHANGED <<clocks, evt, critCount, deferred, run, keepGoing, ret,
                 curTime, timePaused, dbgVars>>

\* A single step of the debugger runs the held timed event, if it was not
\* removed meanwhile, and then the held fd event.
StepTimed ==
  /\ pc = "step" /\ run = None /\ dbgStep /\ nextTimed # None
  /\ IF nextTimed = NullEvt
     THEN /\ nextTimed' = None /\ dbgState' = "enabled"
          /\ UNCHANGED <<evt, run, curTime>>
     ELSE /\ Begin(nextTimed)
          /\ UNCHANGED <<nextTimed, dbgState>>
  /\ UNCHANGED <<clocks, critCount, deferred, pc, keepGoing, inLoop, ret,
                 timePaused, breakNext, stepsToBreak, nextFd, dbgStep,
                 replyEvt, breakEvt, dumpEvt>>

StepFd ==
  /\ pc = "step" /\ run = None /\ dbgStep /\ nextTimed = None /\ nextFd # None
  /\ run' = nextFd
  /\ UNCHANGED <<clocks, evt, critCount, deferred, pc, keepGoing, inLoop, ret,
                 curTime, timePaused, dbgVars>>

\* The rest of the top half, up to the block call or the automatic exit.
TopHalf(paused, idle) ==
  /\ pc = "step" /\ run = None /\ ~(dbgStep /\ (nextTimed # None \/ nextFd # None))
  /\ dbgStep' = FALSE /\ timePaused' = paused
  /\ IF AutoExit /\ idle
     THEN pc' = "outside" /\ keepGoing' = FALSE /\ inLoop' = FALSE
     ELSE pc' = "select" /\ UNCHANGED <<keepGoing, inLoop>>
  /\ UNCHANGED <<clocks, evt, critCount, deferred, run, ret, curTime, dbgState,
                 breakNext, stepsToBreak, nextTimed, nextFd, replyEvt, breakEvt,
                 dumpEvt>>

Holding == nextTimed # None \/ nextFd # None \/ replyEvt # None

\* Mutant: a held timed event does not pause the queue.
StepDone_Unpaused == TopHalf(nextFd # None \/ replyEvt # None, critCount <= 0)

StepDone == TopHalf(Holding, critCount <= 0)

\* The block call of the event timer returns r.
Block(r) ==
  /\ pc = "select"
  /\ ret' = r /\ pc' = "timed"
  /\ UNCHANGED <<clocks, evt, critCount, deferred, run, keepGoing, inLoop, curTime, timePaused, dbgVars>>

\* It returns 0 when the head of a queue it waits for has become due.
Due(q) == \E e \in Evt : IsHead(q, e) /\ evt[e].at <= Clock(e)
Select == \/ ((~timePaused /\ Due("virt")) \/ Due("mono")) /\ Block("timeout")
          \/ \E r \in {"ready"} \cup Errors : Block(r)

\* evt_process_timed_event on an event that was popped from ctx->queue.
Process(e) ==
  /\ pc = "timed" /\ run = None /\ ~timePaused
  /\ LET breaks == breakNext \/ evt[e].brk
     IN /\ stepsToBreak' = IF breaks THEN Decremented ELSE stepsToBreak
        /\ IF breaks /\ Decremented = 0
           THEN /\ evt' = [evt EXCEPT ![e] = Popped(evt[e])]
                /\ nextTimed' = e /\ Stop /\ pc' = "defer"
                /\ UNCHANGED <<run, curTime>>
           ELSE Begin(e) /\ UNCHANGED <<pc, nextTimed, dbgState, breakNext>>
  /\ UNCHANGED <<clocks, critCount, deferred, keepGoing, inLoop, ret,
                 timePaused, nextFd, dbgStep, replyEvt, breakEvt, dumpEvt>>

\* Mutant: an event is due only after its time.
DispatchTimed_Late(e) == evt[e].at < now /\ Process(e)

DispatchTimed(e) == evt[e].at <= now /\ Process(e)

TimedDone ==
  /\ pc = "timed" /\ run = None
  /\ pc' = "mono"
  /\ UNCHANGED <<clocks, evt, critCount, deferred, run, keepGoing, inLoop, ret, curTime, timePaused, dbgVars>>

DispatchMono(e) ==
  /\ pc = "mono" /\ run = None /\ evt[e].at <= mono
  /\ Begin(e)
  /\ UNCHANGED <<clocks, critCount, deferred, pc, keepGoing, inLoop, ret,
                 timePaused, dbgVars>>

\* errno is read after the callbacks of the timed events, which may set it.
SetErrno(r) ==
  /\ pc \in {"timed", "mono"} /\ run # None /\ "errno" \in Api /\ ret \in Failures
  /\ ret' = r
  /\ UNCHANGED <<clocks, evt, critCount, deferred, pc, run, keepGoing, inLoop,
                 curTime, timePaused, dbgVars>>

\* EBADF is recovered by EVT_clean_fdsets (when that finds nothing: "error").
\* EINTR goes straight to the next iteration; another error leaves the loop.
MonoDone ==
  /\ pc = "mono" /\ run = None
  /\ pc' = CASE ret = "ready" -> "fd" [] ret = "eintr" -> "top"
             [] ret = "error" -> "outside" [] OTHER -> "defer"
  /\ ret' = "none"
  /\ UNCHANGED <<clocks, evt, critCount, deferred, run, keepGoing, inLoop, curTime, timePaused, dbgVars>>

\* The callback of the running event returns.  The debugger's own timers
\* clear the handle the context keeps for them.
Return(keep) ==
  /\ run \in Evt
  /\ evt[run].kind \in {"reply", "dump"} => keep
  /\ evt[run].kind = "break" => ~keep
  /\ IF keep
     THEN /\ evt' = [evt EXCEPT ![run] = Kept(evt[run], curTime)]
          /\ UNCHANGED critCount
     ELSE /\ evt' = [evt EXCEPT ![run] = FreeEvt]
          /\ critCount' = critCount - (IF evt[run].crit THEN 1 ELSE 0)
  /\ run' = None /\ curTime' = 0
  /\ replyEvt' = IF evt[run].kind = "reply" THEN None ELSE replyEvt
  /\ breakEvt' = IF evt[run].kind = "break" THEN None ELSE breakEvt
  /\ IF pc = "step" THEN nextTimed' = None /\ dbgState' = "enabled"
                    ELSE UNCHANGED <<nextTimed, dbgState>>
  /\ UNCHANGED <<clocks, deferred, pc, keepGoing, inLoop, ret, timePaused,
                 breakNext, stepsToBreak, nextFd, dbgStep, dumpEvt>>
-----------------------------------------------------------------------------
(* The fd phase.  f says whose callback it is.  The sockets of debugger    *)
(* clients are pausable as the user's are; an explicit breakpoint b keeps  *)
(* the fd out of the set select watches while the loop is paused.          *)

DispatchFd(f, b) ==
  /\ pc = "fd" /\ run = None
  /\ f = "client" => Debugger # {}
  /\ b => ~timePaused /\ "break" \in Debugger
  /\ LET breaks == breakNext \/ b
     IN /\ stepsToBreak' = IF breaks THEN Decremented ELSE stepsToBreak
        /\ IF breaks /\ Decremented = 0
           THEN nextFd' = f /\ Stop /\ pc' = "defer" /\ UNCHANGED run
           ELSE run' = f /\ UNCHANGED <<nextFd, dbgState, breakNext, pc>>
  /\ UNCHANGED <<clocks, evt, critCount, deferred, keepGoing, inLoop, ret,
                 curTime, timePaused, nextTimed, dbgStep, replyEvt, breakEvt,
                 dumpEvt>>

ReturnFd ==
  /\ run \in {"fd", "client"}
  /\ run' = None
  /\ IF pc = "step" THEN nextFd' = None /\ dbgState' = "enabled"
                    ELSE UNCHANGED <<nextFd, dbgState>>
  /\ UNCHANGED <<clocks, evt, critCount, deferred, pc, keepGoing, inLoop, ret,
                 curTime, timePaused, breakNext, stepsToBreak, nextTimed,
                 dbgStep, replyEvt, breakEvt, dumpEvt>>

FdDone ==
  /\ pc = "fd" /\ run = None
  /\ pc' = "defer"
  /\ UNCHANGED <<clocks, evt, critCount, deferred, run, keepGoing, inLoop, ret, curTime, timePaused, dbgVars>>

\* edbg_client_msg: the commands that change the loop's state.
Command(c) == run = "client" /\ c \in Debugger

BreakEvt(delay) ==
  [st |-> "queued", q |-> "virt", at |-> now + delay, since |-> now,
   step |-> delay, crit |-> FALSE, brk |-> TRUE, in |-> 0, kind |-> "break"]

\* "run" removes the last timed breakpoint, and adds one when "ms" is given
\* (a missing "ms" leaves the delay uninitialised: either may happen).
CmdRun ==
  /\ Command("run")
  /\ breakNext' = FALSE /\ dbgStep' = TRUE
  /\ LET cleared == IF breakEvt = None THEN evt
                    ELSE [evt EXCEPT ![breakEvt] = FreeEvt]
     IN \/ breakEvt' = None /\ evt' = cleared
        \/ \E e \in Evt, delay \in Delays :
             /\ cleared[e].st = "free"
             /\ breakEvt' = e
             /\ evt' = [cleared EXCEPT ![e] = BreakEvt(delay)]
  /\ nextTimed' = IF nextTimed = breakEvt /\ breakEvt # None THEN NullEvt
                  ELSE nextTimed
  /\ UNCHANGED <<clocks, critCount, deferred, loopVars, dbgState,
                 stepsToBreak, nextFd, replyEvt, dumpEvt>>

CmdStop ==
  /\ Command("stop")
  /\ breakNext' = TRUE /\ stepsToBreak' = 1
  /\ UNCHANGED <<clocks, evt, critCount, deferred, loopVars, dbgState,
                 nextTimed, nextFd, dbgStep, replyEvt, breakEvt, dumpEvt>>

CmdNext(n) ==
  /\ Command("next")
  /\ breakNext' = TRUE /\ stepsToBreak' = n /\ dbgStep' = TRUE
  /\ UNCHANGED <<clocks, evt, critCount, deferred, loopVars, dbgState,
                 nextTimed, nextFd, replyEvt, breakEvt, dumpEvt>>

\* "periodic_dump", and the disconnection of the last client, which only
\* removes the dump event.
CmdDump ==
  /\ Command("dump")
  /\ LET cleared == IF dumpEvt = None THEN evt
                    ELSE [evt EXCEPT ![dumpEvt] = FreeEvt]
     IN \/ dumpEvt' = None /\ evt' = cleared
        \/ \E e \in Evt, delay \in Delays :
             /\ cleared[e].st = "free"
             /\ dumpEvt' = e /\ evt' = [cleared EXCEPT ![e] = MonoEvt(delay, "dump")]
  /\ UNCHANGED <<clocks, critCount, deferred, loopVars, dbgState, breakNext,
                 stepsToBreak, nextTimed, nextFd, dbgStep, replyEvt, breakEvt>>

\* Breakpoints are set and cleared on the events of the virtual queue.
CmdBreak(e, b) ==
  /\ Command("break") /\ e \in Queued("virt")
  /\ evt' = [evt EXCEPT ![e] = WithBrk(@, b)]
  /\ UNCHANGED <<clocks, critCount, deferred, loopVars, dbgVars>>
-----------------------------------------------------------------------------
(* The end of an iteration.                                                *)

RunDeferred ==
  /\ pc \in {"defer", "freeing"} /\ run = None /\ deferred # <<>>
  /\ deferred' = Tail(deferred)
  /\ run' = IF Head(deferred).cb THEN Head(deferred).id ELSE None
  /\ UNCHANGED <<clocks, evt, critCount, pc, keepGoing, inLoop, ret, curTime,
                 timePaused, dbgVars>>

ReturnDeferred ==
  /\ run \in Dfr
  /\ run' = None
  /\ UNCHANGED <<clocks, evt, critCount, deferred, pc, keepGoing, inLoop, ret,
                 curTime, timePaused, dbgVars>>

EndDeferred ==
  /\ pc = "defer" /\ run = None
  /\ pc' = "tail"
  /\ UNCHANGED <<clocks, evt, critCount, deferred, run, keepGoing, inLoop, ret, curTime, timePaused, dbgVars>>

\* Mutant: the deferred callbacks may be left for later.
DeferDone_Early == EndDeferred

DeferDone == deferred = <<>> /\ EndDeferred

\* Mutant: the timer of answered commands is removed, not forgotten.
Answers_Dangling(pending) ==
  IF Debugger = {} \/ ~Virtual THEN UNCHANGED <<evt, replyEvt, dbgStep>>
  ELSE IF pending
  THEN /\ dbgStep' = FALSE
       /\ IF replyEvt # None THEN UNCHANGED <<evt, replyEvt>>
          ELSE \E e \in Evt : /\ ~Live(e) /\ replyEvt' = e
                              /\ evt' = [evt EXCEPT ![e] = MonoEvt(ReplyWait, "reply")]
  ELSE /\ evt' = IF replyEvt = None THEN evt ELSE [evt EXCEPT ![replyEvt] = FreeEvt]
       /\ UNCHANGED <<replyEvt, dbgStep>>

\* With the debugger on a virtual clock, the loop waits for the answers to
\* pending commands for ReplyWait at most (CMD_pending_responses is external).
Answers(pending) ==
  IF Debugger = {} \/ ~Virtual THEN UNCHANGED <<evt, replyEvt, dbgStep>>
  ELSE IF pending
  THEN /\ dbgStep' = FALSE
       /\ IF replyEvt # None THEN UNCHANGED <<evt, replyEvt>>
          ELSE \E e \in Evt : /\ ~Live(e) /\ replyEvt' = e
                              /\ evt' = [evt EXCEPT ![e] = MonoEvt(ReplyWait, "reply")]
  ELSE /\ evt' = IF replyEvt = None THEN evt ELSE [evt EXCEPT ![replyEvt] = FreeEvt]
       /\ replyEvt' = None
       /\ UNCHANGED dbgStep

EndIteration(pending) ==
  /\ pc = "tail" /\ pc' = "top"
  /\ Answers(pending)
  /\ UNCHANGED <<clocks, critCount, deferred, run, keepGoing, inLoop,
                 ret, curTime, timePaused, dbgState, breakNext, stepsToBreak,
                 nextTimed, nextFd, breakEvt, dumpEvt>>

\* EVT_free_handler: the deferred callbacks that are left run first.
Free ==
  /\ \/ pc = "outside" /\ pc' = "freeing" /\ UNCHANGED evt
     \/ /\ pc = "freeing" /\ run = None /\ deferred = <<>>
        /\ pc' = "gone"
        /\ evt' = [e \in Evt |-> IF evt[e].st = "queued" 
                               \/ e \in {breakEvt, dumpEvt, replyEvt}
                            THEN FreeEvt ELSE evt[e]]
  /\ UNCHANGED <<clocks, critCount, deferred, run, keepGoing, inLoop,
                 ret, curTime, timePaused, dbgVars>>

Tick ==
  /\ \/ now < MaxTime /\ now' = now + 1 /\ UNCHANGED mono
     \/ mono < MaxTime /\ mono' = mono + 1 /\ UNCHANGED now
  /\ UNCHANGED <<evt, critCount, deferred, loopVars, dbgVars>>
-----------------------------------------------------------------------------
Call ==
  \/ \E e \in Evt, delay \in Delays :
       \/ EVT_sched_add(e, delay) \/ EVT_sched_update(e, delay)
       \/ EVT_sched_update_partial_credit(e, delay)
       \/ \E step \in Delays : EVT_sched_add_with_timestep(e, delay, step)
  \/ \E e \in Evt : \/ EVT_sched_remove(e)
                    \/ \E c \in BOOLEAN : EVT_sched_set_critical(e, c)
  \/ \E d \in Dfr : EVT_defer_add(d) \/ EVT_defer_cancel(d)
  \/ EVT_exit_loop \/ Start
  \/ \E r \in Failures : SetErrno(r)

Debug ==
  \/ CmdRun \/ CmdStop \/ CmdDump
  \/ \E n \in 1..MaxSteps : CmdNext(n)
  \/ \E e \in Evt, b \in BOOLEAN : CmdBreak(e, b)

\* The steps of the loop that no queue decides.
LoopStep ==
  \/ LoopCheck \/ StepTimed \/ StepFd \/ StepDone
  \/ (\E f \in {"fd", "client"}, b \in BOOLEAN : DispatchFd(f, b)) \/ ReturnFd \/ FdDone
  \/ RunDeferred \/ ReturnDeferred \/ DeferDone
  \/ \E pending \in BOOLEAN : EndIteration(pending)

\* The steps that look at the head of a queue or change what is in one.
QueueStep ==
  \/ Select
  \/ \E e \in Evt : IsHead("virt", e) /\ DispatchTimed(e)
  \/ (timePaused \/ ~Due("virt")) /\ TimedDone
  \/ \E e \in Evt : IsHead("mono", e) /\ DispatchMono(e)
  \/ ~Due("mono") /\ MonoDone
  \/ \E keep \in BOOLEAN : Return(keep)

Next == Call \/ Debug \/ LoopStep \/ QueueStep \/ Free \/ Tick

Spec == Init /\ [][Next]_vars

\* A callback returns and the loop makes progress whenever it can.  An fd phase
\* visits every descriptor once, so it ends however many callbacks it runs.
FairSpec == Spec /\ WF_vars(LoopStep) /\ WF_vars(QueueStep) /\ SF_vars(FdDone)
-----------------------------------------------------------------------------
Places == {"outside", "threads", "top", "step", "select", "timed", "mono", "fd",
           "defer", "tail", "freeing", "gone", "undefined"}
EvtType == [st : {"free", "queued", "out"}, q : {"virt", "mono"}, at : Nat,
            since : Nat, step : Nat, crit : BOOLEAN, brk : BOOLEAN, in : {0, 1, 2},
            kind : Kinds]

\* The values the fields of EVTHandler and the locals of the loop may take.
TypeOK ==
  /\ now \in Nat /\ mono \in Nat /\ evt \in [Evt -> EvtType] /\ critCount \in Int
  /\ deferred \in Seq([id : Dfr, cb : BOOLEAN])
  /\ pc \in Places /\ run \in Evt \cup Dfr \cup {None, "fd", "client"}
  /\ keepGoing \in BOOLEAN /\ inLoop \in BOOLEAN
  /\ ret \in {"none", "timeout", "ready"} \cup Failures
  /\ curTime \in Nat /\ timePaused \in BOOLEAN
  /\ dbgState \in {"disabled", "enabled", "stopped"}
  /\ breakNext \in BOOLEAN /\ stepsToBreak \in Nat /\ dbgStep \in BOOLEAN
  /\ nextTimed \in Evt \cup {None, NullEvt} /\ nextFd \in {None, "fd", "client"}
  /\ replyEvt \in Evt \cup {None} /\ breakEvt \in Evt \cup {None}
  /\ dumpEvt \in Evt \cup {None}

Intact == pc \notin {"gone", "undefined"}

\* critical_sched_count is the number of critical events that exist, wherever
\* they are: queued, held at a breakpoint, or in their callback.
CriticalCount == Intact => critCount = Cardinality(CriticalEvts)

\* No event is lost or in two places: one that is in no queue is either the
\* event a breakpoint holds or the one whose callback runs, and inCallback is
\* set exactly in the latter.
EventsAccounted ==
  Intact => \A e \in Evt :
    /\ evt[e].st = "out" <=> e \in {run, nextTimed}
    /\ evt[e].in # 0 <=> run = e

\* The context's pointers to timed events never dangle: the held event is out
\* of its queue, and the debugger's own timers exist as long as they are known.
HandlesLive ==
  Intact => /\ nextTimed \in Evt => evt[nextTimed].st = "out"
            /\ \A h \in {<<replyEvt, "reply">>, <<breakEvt, "break">>,
                         <<dumpEvt, "dump">>} :
                 h[1] # None => Live(h[1]) /\ evt[h[1]].kind = h[2]

\* The loop exits by itself exactly when no critical event exists.
AutoExitExact ==
  [][/\ pc = "step" /\ pc' = "outside" => CriticalEvts = {}
     /\ AutoExit /\ pc = "step" /\ pc' = "select" => CriticalEvts # {}]_vars

\* While a timed event is held at a breakpoint no other event of the virtual
\* queue runs: "next" and "run" resume with the held one.
HeldFirst ==
  [][\A e \in Evt : run # e /\ run' = e /\ evt[e].q = "virt" /\ nextTimed # None
                      => nextTimed = e /\ dbgStep]_vars

\* The debugger reports "stopped" exactly while an event is held.
StoppedIffHeld ==
  pc # "step" /\ Intact => (dbgState = "stopped" <=> nextTimed # None \/ nextFd # None)

InLoop == pc \notin {"outside", "freeing", "gone", "undefined"}

\* An event that is due while the loop runs gets its callback, is removed or is
\* postponed, unless the loop ends.
DueFires ==
  \A e \in Evt : (InLoop /\ e \in Queued("virt") /\ evt[e].at <= now)
                   ~> (~InLoop \/ e \notin Queued("virt") \/ evt[e].at > now)

\* A deferred callback runs or is cancelled, unless the loop ends before.
DeferredRuns ==
  \A d \in Dfr : (InLoop /\ d \in Pending) ~> (~InLoop \/ d \notin Pending)
=============================================================================
