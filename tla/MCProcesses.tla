---------------------------- MODULE MCProcesses ----------------------------
(***************************************************************************)
(* Other processes and threads for TLC: the children of a process, the     *)
(* jobs it gives to threads, or the processes of a host with their files   *)
(* and their watchdog.  The three have nothing in common, so that a        *)
(* behaviour is of one of them.                                            *)
(***************************************************************************)
EXTENDS Children

CONSTANTS Job, Value, None, MaxFd, JobFaults,
          Name, NULL, MaxPid, Watched, MaxStarts, MaxCrashes, MaxLost, MaxResets

VARIABLES part,   \* what the behaviour is of
          job, open, events, loop,
          pidFile, procFile, proc, last, wd, net, starts, crashes, lost, resets

jobVars == <<job, open, events, loop>>
lifeVars == <<pidFile, procFile, proc, last, wd, net, starts, crashes, lost, resets>>

Jobs == INSTANCE Workers WITH Faults <- JobFaults
Life == INSTANCE ProcessLife

ProcessesInit == part \in {"children", "jobs", "life"} /\ Init /\ Jobs!Init /\ Life!Init

ProcessesNext ==
  /\ UNCHANGED part
  /\ \/ part = "children" /\ Next /\ UNCHANGED <<jobVars, lifeVars>>
     \/ part = "jobs" /\ Jobs!Next /\ UNCHANGED <<vars, lifeVars>>
     \/ part = "life" /\ Life!Next /\ UNCHANGED <<vars, jobVars>>

all == <<part, vars, jobVars, lifeVars>>

ProcessesSpec ==
  /\ ProcessesInit /\ [][ProcessesNext]_all
  /\ WF_vars(part = "children" /\ PROC_signal_handler)
  /\ WF_vars(part = "children" /\ signal_fd_cb)
  /\ \A c \in Child, s \in Stream : WF_vars(part = "children" /\ ReadData(c, s))
  /\ \A p \in Life!Pid : WF_lifeVars(part = "life" /\ Life!validate_watch_registration(p))
  /\ \A n \in Name :
       /\ WF_lifeVars(part = "life" /\ \E m \in net : m.name = n /\ (Life!Answers(m) \/ Life!Registers(m)))
       /\ WF_lifeVars(part = "life" /\ \E m \in net : m.name = n /\ \E p \in Life!Pid : Life!watchdog_reg_info(p, m))

\* The loop waits for every thread that may write, and its callback is called
\* once, with what its function returned.
JobsHeard == Jobs!JobsHeard

\* A process that runs is listed in the files of its name.
RunningListed == Life!RunningListed

\* A process that keeps running is watched in the end, by its own number.
EventuallyWatched == Life!EventuallyWatched
=============================================================================
