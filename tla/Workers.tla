------------------------------- MODULE Workers -------------------------------
(***************************************************************************)
(* thread_function of src/proclib.c: a function runs in a thread of its    *)
(* own, and when it has returned a byte in a pipe makes the event loop     *)
(* join the thread and call the callback with what the function returned.  *)
(* The loop is one thread; it runs thread_cb of one job at a time, and     *)
(* callbacks may start further jobs.  Descriptors are numbers of which the *)
(* lowest free ones are used; the loop registers them by number.           *)
(***************************************************************************)
EXTENDS Integers, FiniteSets, FiniteSetsExt, Functions, Sequences

CONSTANTS Job, Value, None,
          MaxFd,   \* the descriptors are 1..MaxFd
          Faults   \* "create": no thread can be started, "write": the write fails

VARIABLES job,     \* the jobs
          open,    \* the descriptors that are open
          events,  \* the registered read events: a function of descriptors
          loop     \* the job thread_cb runs for, or None

vars == <<job, open, events, loop>>

\* at: "new", "refused"; the thread: "running", "returned" (the function has),
\* "written" (the byte is in the pipe), "ended"; the callback: "called", "done".
NewJob == [at |-> "new", rd |-> 0, wr |-> 0, retval |-> None, got |-> <<>>, mute |-> FALSE]

Init ==
  /\ job = [j \in Job |-> NewJob] /\ open = {} /\ events = [f \in {} |-> None] /\ loop = None

Free == 1..MaxFd \ open
Pipe == LET rd == Min(Free) IN [rd |-> rd, wr |-> Min(Free \ {rd})]

\* The loop starts jobs between callbacks or in one of a job.  A thread may
\* end before its pipe is registered, but the loop does not run meanwhile.
UserCode == loop # None => job[loop].at = "called"

thread_function(j) ==
  /\ UserCode /\ job[j].at = "new" /\ Cardinality(Free) >= 2
  /\ open' = open \cup {Pipe.rd, Pipe.wr}
  /\ job' = [job EXCEPT ![j].at = "running", ![j].rd = Pipe.rd, ![j].wr = Pipe.wr]
  /\ events' = [f \in DOMAIN events \cup {Pipe.rd} |-> IF f = Pipe.rd THEN j ELSE events[f]]
  /\ UNCHANGED loop

\* A job without a pipe leaves nothing behind, one without a thread its pipe.
Refused(j) ==
  /\ UserCode /\ job[j].at = "new"
  /\ job' = [job EXCEPT ![j].at = "refused"]
  /\ IF Cardinality(Free) < 2 THEN UNCHANGED open
     ELSE "create" \in Faults /\ open' = open \cup {Pipe.rd, Pipe.wr}
  /\ UNCHANGED <<events, loop>>

\* thread_main
FunctionReturns(j, v) ==
  /\ job[j].at = "running"
  /\ job' = [job EXCEPT ![j].at = "returned", ![j].retval = v]
  /\ UNCHANGED <<open, events, loop>>

ByteWritten(j, ok) ==
  /\ job[j].at = "returned" /\ (~ok => "write" \in Faults)
  /\ job' = [job EXCEPT ![j].at = "written", ![j].mute = ~ok]
  /\ UNCHANGED <<open, events, loop>>

ThreadEnds(j) ==
  /\ job[j].at = "written"
  /\ job' = [job EXCEPT ![j].at = "ended"]
  /\ UNCHANGED <<open, events, loop>>

\* The loop finds the byte.
thread_cb(f) ==
  /\ loop = None /\ f \in DOMAIN events
  /\ job[events[f]].at \in {"written", "ended"} /\ ~job[events[f]].mute
  /\ loop' = events[f]
  /\ UNCHANGED <<job, open, events>>

\* Mutant: the pipe is closed before the callback, so that a job started there
\* gets its numbers.
Joined_Closed(j) ==
  /\ loop = j /\ job[j].at = "ended"
  /\ open' = open \ {job[j].rd, job[j].wr}
  /\ job' = [job EXCEPT ![j].at = "called", ![j].got = Append(@, job[j].retval)]
  /\ UNCHANGED <<events, loop>>

\* pthread_join, which waits for the thread, and then the callback.
Joined(j) ==
  /\ loop = j /\ job[j].at = "ended"
  /\ job' = [job EXCEPT ![j].at = "called", ![j].got = Append(@, job[j].retval)]
  /\ UNCHANGED <<open, events, loop>>

\* The end of thread_cb; the loop then removes the event of the descriptor.
CallbackReturns(j) ==
  /\ loop = j /\ job[j].at = "called"
  /\ open' = open \ {job[j].rd, job[j].wr}
  /\ job' = [job EXCEPT ![j].at = "done"]
  /\ events' = Restrict(events, DOMAIN events \ {job[j].rd})
  /\ loop' = None

Next == \E j \in Job :
  \/ thread_function(j) \/ Refused(j) \/ ThreadEnds(j) \/ Joined(j) \/ CallbackReturns(j)
  \/ \E v \in Value : FunctionReturns(j, v)
  \/ \E ok \in BOOLEAN : ByteWritten(j, ok)
  \/ \E f \in 1..MaxFd : thread_cb(f)

Spec == Init /\ [][Next]_vars
-----------------------------------------------------------------------------
\* However the threads and the loop interleave, and whatever descriptors the
\* jobs share in turn, the loop waits for the byte of every thread that may
\* still write one, and the callback is called once, with what the function of
\* that very job has returned.
JobsHeard ==
  \A j \in Job :
    /\ job[j].at \in {"running", "returned", "written", "ended"} /\ ~job[j].mute =>
         job[j].rd \in open \cap DOMAIN events /\ events[job[j].rd] = j /\ job[j].got = <<>>
    /\ job[j].at \in {"called", "done"} => job[j].got = <<job[j].retval>> /\ job[j].retval # None
=============================================================================
