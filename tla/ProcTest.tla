------------------------------ MODULE ProcTest ------------------------------
(***************************************************************************)
(* src/proctest.cpp, src/proctest.h: a test drives a process through its   *)
(* event debugger.  The test is a pseudo thread that waits for reports of  *)
(* the process; callbacks of the event loop wake it.                       *)
(*                                                                         *)
(* h is the test's side: the thread (pt: ready or blocked, and pc, the     *)
(* call it is in), the members of ProcTest and Proc, and whether there are *)
(* secondary processes; command is what is left to write, NULL without a   *)
(* write callback.  Times are numbers of units, MS to a millisecond.       *)
(***************************************************************************)
EXTENDS Integers, Sequences, SequencesExt, FiniteSets

CONSTANTS MS,        \* units to a millisecond
          Waits,     \* the milliseconds a test advances by
          Garbage,   \* what memory nobody initialised may hold: target times
          MaxTime,   \* bound on the clock of the process
          MaxCalls,  \* bound on the calls a test's sequence makes
          NULL

VARIABLES h,       \* the test
          p,       \* the process under test
          up,      \* reports on their way to the test
          down,    \* commands on their way to the process
          goal,    \* the time the test asked for, NULL when it asked for none
          calls,   \* calls made so far
          clean    \* target_time was zero when the test was made

harnessVars == <<h, p, up, down, goal, calls, clean>>
-----------------------------------------------------------------------------
(* The test's side.  A step of it: h, the reports that are left and the    *)
(* commands that were written.                                             *)

PT_block(s) == [s EXCEPT !.h.pt = "blocked"]
PT_unblock(s) == [s EXCEPT !.h.pt = "ready"]

RECURSIVE fd_callback(_)
\* The write callback stands until the command is written; what can be read is
\* read first, and may lead to another command, which takes this one's place.
SendCmd(s, cmd) == fd_callback([s EXCEPT !.h.command = cmd])
Running(s) == [s EXCEPT !.h.running = TRUE]
StepProc(s) == Running(SendCmd(s, <<"next">>))
RunProc(s, cmd) == Running(SendCmd(s, cmd))

\* Mutant: a report wakes the thread whatever it waits for.
state_updated_Any(s) == PT_unblock([s EXCEPT !.h.now = s.h.tm])

\* The three conditions of state_updated, one after the other.
Targeted(s) ==
  IF s.h.target = 0 THEN s
  ELSE IF s.h.now >= s.h.target THEN PT_unblock(s) ELSE IF ~s.h.running THEN StepProc(s) ELSE s
Initialized(s) == IF s.h.waiting /\ s.h.initialized THEN PT_unblock(s) ELSE s
Stepped(s) == IF s.h.stepping THEN PT_unblock(s) ELSE s
state_updated(s) == IF s.h.testProc THEN Stepped(Initialized(Targeted([s EXCEPT !.h.now = s.h.tm]))) ELSE s

SetState(s, report) ==
  state_updated(IF report.stopped THEN [s EXCEPT !.h.initialized = TRUE, !.h.running = FALSE, !.h.tm = report.time]
                ELSE [s EXCEPT !.h.running = TRUE])
zmq_write_cb(s) == IF s.h.command # NULL THEN [s EXCEPT !.sent = Append(@, s.h.command), !.h.command = NULL] ELSE s
fd_callback(s) ==
  IF s.up = <<>> THEN zmq_write_cb(s) ELSE fd_callback(SetState([s EXCEPT !.up = Tail(@)], Head(s.up)))

Now == [h |-> h, up |-> up, sent |-> <<>>]
Do(s) == h' = s.h /\ up' = s.up /\ down' = down \o s.sent

\* The event loop finds reports.
zmq_read_cb ==
  /\ up # <<>> /\ h.testProc
  /\ Do(fd_callback(Now))
  /\ UNCHANGED <<p, goal, calls, clean>>

\* Run and the calls of the thread, each up to where it blocks.
Runs == h.pt = "ready" /\ h.pc # "done"
At(s, pc) == [s EXCEPT !.h.pc = pc]
\* What a call does after it has been woken.
Woken(s) ==
  CASE s.h.pc \in {"stepping", "advancing"} -> [s EXCEPT !.h.stepping = FALSE]
    [] s.h.pc = "waiting" -> [s EXCEPT !.h.waiting = FALSE]
    [] OTHER -> s

WaitForTestProc ==
  /\ Runs /\ h.pc = "main"
  /\ Do(IF h.initialized THEN At(Now, "sequence") ELSE PT_block(At([Now EXCEPT !.h.waiting = TRUE], "waiting")))
  /\ UNCHANGED <<p, goal, calls, clean>>

Called == calls < MaxCalls /\ calls' = calls + 1
Sequence == Runs /\ h.pc \notin {"main", "shutdown"}

Step ==
  /\ Sequence
  /\ Do(PT_block(At(StepProc([Woken(Now) EXCEPT !.h.stepping = TRUE]), "stepping")))
  /\ goal' = NULL
  /\ UNCHANGED <<p, clean>> /\ Called

Until(s, t) == IF t <= s.h.tm THEN At(s, "sequence") ELSE PT_block(At([s EXCEPT !.h.target = t], "until"))
Advanced(s, ms) ==
  IF s.h.secondary THEN Until(s, s.h.now + ms * MS)
  ELSE PT_block(At(RunProc([s EXCEPT !.h.target = 0, !.h.stepping = TRUE], <<"run", ms>>), "advancing"))
AdvanceForMS(ms) ==
  /\ Sequence /\ h.now + ms * MS <= MaxTime
  /\ Do(Advanced(Woken(Now), ms))
  /\ goal' = h.now + ms * MS
  /\ UNCHANGED <<p, clean>> /\ Called

AdvanceUntil(t) ==
  /\ Sequence /\ t <= MaxTime
  /\ Do(IF h.secondary THEN Until(Woken(Now), t)
        ELSE Advanced(Woken(Now), IF t > h.now THEN (t - h.now) \div MS ELSE 0))
  /\ goal' = IF t > h.now THEN t ELSE h.now
  /\ UNCHANGED <<p, clean>> /\ Called

\* The process is told to run, so that it takes the signal.
ShutdownTestProc ==
  /\ Sequence
  /\ Do(PT_block(At([RunProc(Woken(Now), <<"run">>) EXCEPT !.h.death = TRUE], "shutdown")))
  /\ p' = [p EXCEPT !.sigint = TRUE] /\ goal' = NULL
  /\ UNCHANGED <<calls, clean>>

Exit ==
  /\ Runs /\ h.pc = "shutdown"
  /\ h' = [h EXCEPT !.pc = "done"]
  /\ UNCHANGED <<p, up, down, goal, calls, clean>>

\* child_death_cb and child_exited.
child_exited ==
  /\ p.mode = "dead" /\ ~p.reaped /\ h.pc # "done"
  /\ h' = IF h.testProc /\ h.death THEN [h EXCEPT !.death = FALSE, !.pt = "ready", !.testProc = FALSE] ELSE h
  /\ p' = [p EXCEPT !.reaped = TRUE]
  /\ UNCHANGED <<up, down, goal, calls, clean>>
-----------------------------------------------------------------------------
(* The process under test and its debugger, as Sched describes them: it    *)
(* reports when a client connects and whenever it stops.  A time is        *)
(* printed in seconds and read as a double, which may lose a unit.         *)

Reports(stopped, t) == {[stopped |-> stopped, time |-> x] : x \in IF stopped /\ t > 0 THEN {t - 1, t} ELSE {0}}
Alive == p.mode # "dead"
Tells(stopped, t) == \E r \in Reports(stopped, t) : up' = IF p.connected THEN Append(up, r) ELSE up

Connect ==
  /\ Alive /\ ~p.connected
  /\ p' = [p EXCEPT !.connected = TRUE]
  /\ \E r \in Reports(p.mode = "held", p.clock) : up' = Append(up, r)
  /\ UNCHANGED <<h, down, goal, calls, clean>>

\* edbg_client_msg.  Without a number of milliseconds the breakpoint is at a
\* time nobody chose, or there is none.
Breakpoint(cmd) ==
  IF Len(cmd) = 2 THEN (IF cmd[2] > 0 THEN {p.clock + cmd[2] * MS} ELSE {NULL}) ELSE {NULL} \cup (p.clock + 1)..MaxTime
Command ==
  /\ Alive /\ down # <<>> /\ p.connected
  /\ \E at \in Breakpoint(Head(down)) :
       p' = IF Head(down)[1] = "next" THEN [p EXCEPT !.mode = "running", !.break_on_next = TRUE]
            ELSE [p EXCEPT !.mode = "running", !.break_on_next = FALSE, !.at = at]
  /\ down' = Tail(down)
  /\ UNCHANGED <<h, up, goal, calls, clean>>

\* The next event is due at t: it is held, or handled.
Holds(t) == p.break_on_next \/ p.at = t
Event(t) ==
  /\ p.mode = "running" /\ t \in p.clock..MaxTime /\ (p.at # NULL => t <= p.at)
  /\ p' = [p EXCEPT !.clock = t, !.mode = IF Holds(t) THEN "held" ELSE @, !.break_on_next = FALSE, !.at = IF @ = t THEN NULL ELSE @]
  /\ IF Holds(t) THEN Tells(TRUE, t) ELSE UNCHANGED up
  /\ UNCHANGED <<h, down, goal, calls, clean>>

\* A signal is an event like others; a process that is held does not take it.
Dies ==
  /\ p.mode = "running" /\ p.sigint
  /\ p' = [p EXCEPT !.mode = "dead"]
  /\ UNCHANGED <<h, up, down, goal, calls, clean>>

\* Run: the thread is made and the event loop begins.  The process is stopped
\* before its first event (LIBPROC_DEBUGGER).
HarnessInit ==
  /\ \E t \in Garbage, others \in BOOLEAN :
       /\ h = [pt |-> "ready", pc |-> "main", stepping |-> FALSE, waiting |-> FALSE, target |-> t, now |-> 0, running |-> TRUE,
               initialized |-> FALSE, tm |-> 0, death |-> FALSE, testProc |-> TRUE, secondary |-> others, command |-> NULL]
       /\ clean = (t = 0)
  /\ p = [mode |-> "running", clock |-> 0, break_on_next |-> TRUE, at |-> NULL, connected |-> FALSE, sigint |-> FALSE, reaped |-> FALSE]
  /\ up = <<>> /\ down = <<>> /\ goal = NULL /\ calls = 0

HarnessNext ==
  \/ zmq_read_cb \/ WaitForTestProc \/ Step \/ ShutdownTestProc \/ Exit \/ child_exited
  \/ \E ms \in Waits : AdvanceForMS(ms)
  \/ \E t \in 0..MaxTime : AdvanceUntil(t)
  \/ Connect \/ Command \/ Dies
  \/ \E t \in 0..MaxTime : Event(t)
-----------------------------------------------------------------------------
\* While the test's sequence runs, the process stands still: it is held, there
\* is nothing on its way, the test knows its time, to a unit, and that is the
\* time the test asked for, to a millisecond.  When the test ends the process is
\* dead.  That takes a target time that begins as zero, which the constructor
\* does not see to.
Synchronous ==
  clean /\ h.pt = "ready" =>
    /\ h.pc \in {"stepping", "advancing", "waiting", "sequence"} =>
         /\ p.mode = "held" /\ up = <<>> /\ down = <<>>
         /\ p.clock - h.now \in 0..1
         /\ goal # NULL => goal - p.clock \in -1..(MS - 1)
    /\ h.pc \in {"shutdown", "done"} => p.mode = "dead"
=============================================================================
