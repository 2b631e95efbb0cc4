---------------------------- MODULE ProcessLife ----------------------------
(***************************************************************************)
(* The life of processes built on src/proclib.c: PROC_init leaves a file   *)
(* <name>.pid with the process' number and a file <pid>.proc with its      *)
(* name, after it has removed the .proc file of an earlier instance that   *)
(* did not clean up; PROC_cleanup removes both.  A process that is watched *)
(* asks the watchdog every WATCHDOG_VALIDATE_SECS how it is registered and *)
(* registers anew when the answer is wrong; packets get lost, and both     *)
(* ends die and come back.                                                 *)
(*                                                                         *)
(* One instance of a name runs at a time.  Process numbers are used in     *)
(* turn; a process does not start while another one does that has the      *)
(* number of its last instance (they look at the same .proc file).  The    *)
(* watchdog is a process of its own; it finds the number of a name in the  *)
(* .pid file.                                                              *)
(***************************************************************************)
EXTENDS Integers, FiniteSets

CONSTANTS Name, NULL,
          MaxPid,    \* process numbers are 1..MaxPid
          Watched,   \* the names whose wdMode is WD_ENABLED or WD_XDR
          MaxStarts, MaxCrashes, MaxLost, MaxResets

Pid == 1..MaxPid

VARIABLES pidFile, procFile, \* the files, by name and by process number
          proc,              \* the processes
          last,              \* the last process number used
          wd,                \* the watchdog's table
          net,               \* the packets on the way
          starts, crashes, lost, resets

files == <<pidFile, procFile>>
watch == <<wd, net, lost, resets>>
counts == <<starts, crashes>>
vars == <<files, proc, last, watch, counts>>

NoProc == [at |-> "none", name |-> NULL, old |-> NULL]

Init ==
  /\ pidFile = [n \in Name |-> NULL] /\ procFile = [p \in Pid |-> NULL]
  /\ proc = [p \in Pid |-> NoProc] /\ last = MaxPid
  /\ wd = [n \in Name |-> NULL] /\ net = {}
  /\ starts = 0 /\ crashes = 0 /\ lost = 0 /\ resets = 0

At(p, place) == proc' = [proc EXCEPT ![p].at = place]
Runs(n) == {p \in Pid : proc[p].name = n /\ proc[p].at = "run"}
-----------------------------------------------------------------------------
(* PROC_init_xdr_hashsize.                                                 *)

Starting == {"init", "old", "unlink", "proc"}

Starts(n, p) ==
  /\ starts < MaxStarts /\ starts' = starts + 1
  /\ \A q \in Pid : proc[q].name # n
  /\ p = (last % MaxPid) + 1 /\ proc[p].at = "none" /\ last' = p
  /\ \A q \in Pid : proc[q].at \in Starting => pidFile[proc[q].name] # p /\ pidFile[n] # q
  /\ proc' = [proc EXCEPT ![p] = [at |-> "init", name |-> n, old |-> NULL]]
  /\ UNCHANGED <<files, watch, crashes>>

ReadsPidFile(p) ==
  /\ proc[p].at = "init"
  /\ LET old == pidFile[proc[p].name]
     IN proc' = [proc EXCEPT ![p].old = old, ![p].at = IF old = NULL THEN "proc" ELSE "old"]
  /\ UNCHANGED <<files, last, watch, counts>>

\* Mutant: the name in the old .proc file is not looked at.
ReadsOldProcFile_Any(p) ==
  /\ proc[p].at = "old"
  /\ At(p, "unlink")
  /\ UNCHANGED <<files, last, watch, counts>>

\* "Delete old .proc file if it claims to be our process"
ReadsOldProcFile(p) ==
  /\ proc[p].at = "old"
  /\ At(p, IF procFile[proc[p].old] = proc[p].name THEN "unlink" ELSE "proc")
  /\ UNCHANGED <<files, last, watch, counts>>

UnlinksOld(p) ==
  /\ proc[p].at = "unlink"
  /\ procFile' = [procFile EXCEPT ![proc[p].old] = NULL] /\ At(p, "proc")
  /\ UNCHANGED <<pidFile, last, watch, counts>>

WritesProcFile(p) ==
  /\ proc[p].at = "proc"
  /\ procFile' = [procFile EXCEPT ![p] = proc[p].name] /\ At(p, "pid")
  /\ UNCHANGED <<pidFile, last, watch, counts>>

WritesPidFile(p) ==
  /\ proc[p].at = "pid"
  /\ pidFile' = [pidFile EXCEPT ![proc[p].name] = p] /\ At(p, "run")
  /\ UNCHANGED <<procFile, last, watch, counts>>
-----------------------------------------------------------------------------
(* PROC_cleanup, and a death without it.                                   *)

RemovesProcFile(p) ==
  /\ proc[p].at = "run"
  /\ procFile' = [procFile EXCEPT ![p] = NULL] /\ At(p, "ends")
  /\ UNCHANGED <<pidFile, last, watch, counts>>

RemovesPidFile(p) ==
  /\ proc[p].at = "ends"
  /\ pidFile' = [pidFile EXCEPT ![proc[p].name] = NULL]
  /\ proc' = [proc EXCEPT ![p] = NoProc]
  /\ UNCHANGED <<procFile, last, watch, counts>>

Dies(p) ==
  /\ proc[p].at # "none" /\ crashes < MaxCrashes /\ crashes' = crashes + 1
  /\ proc' = [proc EXCEPT ![p] = NoProc]
  /\ UNCHANGED <<files, last, watch, starts>>
-----------------------------------------------------------------------------
(* The watchdog registration.                                              *)

Packet(type, n) == [type |-> type, name |-> n, pid |-> NULL]

\* The timer that PROC_wd_enable schedules; its period is much longer than the
\* packets of the last one live.
validate_watch_registration(p) ==
  /\ proc[p].at = "run" /\ proc[p].name \in Watched
  /\ \A m \in net : m.name # proc[p].name
  /\ net' = net \cup {Packet("info", proc[p].name)}
  /\ UNCHANGED <<files, proc, last, wd, lost, resets, counts>>

Answers(m) ==
  /\ m \in net /\ m.type = "info"
  /\ net' = (net \ {m}) \cup {[type |-> "answer", name |-> m.name, pid |-> wd[m.name]]}
  /\ UNCHANGED <<files, proc, last, wd, lost, resets, counts>>

Registers(m) ==
  /\ m \in net /\ m.type = "register"
  /\ net' = net \ {m} /\ wd' = [wd EXCEPT ![m.name] = pidFile[m.name]]
  /\ UNCHANGED <<files, proc, last, lost, resets, counts>>

\* Mutant: any entry of the name is good.
Good_Name(p, m) == m.pid # NULL

Good(p, m) == m.pid = p

\* watchdog_reg_info and watchdog_xdr_reg_info, the answer may be to an earlier
\* instance.
watchdog_reg_info(p, m) ==
  /\ m \in net /\ m.type = "answer" /\ proc[p].at = "run" /\ proc[p].name = m.name
  /\ net' = (net \ {m}) \cup (IF Good(p, m) THEN {} ELSE {Packet("register", m.name)})
  /\ UNCHANGED <<files, proc, last, wd, lost, resets, counts>>

Lost(m) ==
  /\ m \in net /\ lost < MaxLost
  /\ net' = net \ {m} /\ lost' = lost + 1
  /\ UNCHANGED <<files, proc, last, wd, resets, counts>>

WatchdogResets ==
  /\ resets < MaxResets /\ resets' = resets + 1
  /\ wd' = [n \in Name |-> NULL]
  /\ UNCHANGED <<files, proc, last, net, lost, counts>>

Next ==
  \/ \E p \in Pid : \/ \E n \in Name : Starts(n, p)
                    \/ ReadsPidFile(p) \/ ReadsOldProcFile(p) \/ UnlinksOld(p)
                    \/ WritesProcFile(p) \/ WritesPidFile(p)
                    \/ RemovesProcFile(p) \/ RemovesPidFile(p) \/ Dies(p)
                    \/ validate_watch_registration(p)
                    \/ \E m \in net : watchdog_reg_info(p, m)
  \/ \E m \in net : Answers(m) \/ Registers(m) \/ Lost(m)
  \/ WatchdogResets

Spec == Init /\ [][Next]_vars

\* The timer fires again and again; a packet that is not lost arrives, and the
\* watchdog serves it.
Fairness ==
  /\ \A p \in Pid : WF_vars(validate_watch_registration(p))
  /\ \A n \in Name : /\ WF_vars(\E m \in net : m.name = n /\ (Answers(m) \/ Registers(m)))
                     /\ WF_vars(\E m \in net : m.name = n /\ \E p \in Pid : watchdog_reg_info(p, m))
-----------------------------------------------------------------------------
\* Whatever processes started, ended or died before, and whoever used its number
\* then, a process that runs is found by its name and by its number, and no
\* start of another one takes its file away.
RunningListed ==
  \A p \in Pid : proc[p].at = "run" => procFile[p] = proc[p].name /\ pidFile[proc[p].name] = p

\* A process that goes on running ends up registered with the watchdog under
\* its present number and stays so, although registrations are lost by packet
\* loss and by deaths of either side and answers may be to an earlier instance.
EventuallyWatched ==
  \A n \in Watched : \A p \in Pid :
    <>[](p \in Runs(n)) => <>[](wd[n] = p)
=============================================================================
