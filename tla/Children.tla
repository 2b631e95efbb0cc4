------------------------------ MODULE Children ------------------------------
(***************************************************************************)
(* Child processes of proclib.c: fork, SIGCHLD through the signal pipe,    *)
(* the streams of the children, and the notice of a child's death.         *)
(*                                                                         *)
(* The signal handler only writes the signal's number to a pipe, which the *)
(* event loop reads one number at a time; the kernel keeps at most one     *)
(* SIGCHLD pending.  Data is the number of bytes in a stream.  The         *)
(* application forks, registers readers and closes stdin in callbacks of   *)
(* the loop; it leaves closing stdout and stderr to the readers.           *)
(***************************************************************************)
EXTENDS Naturals, FiniteSets

CONSTANTS Child,
          MaxData,   \* bound on the bytes in a stream
          PipeSize,  \* the signals the pipe has room for
          Used,      \* the streams children write to
          Faults     \* the streams reads of which fail

Stream == {"out", "err"}

ASSUME ChildrenAssumption ==
  /\ MaxData \in Nat /\ PipeSize \in Nat /\ Used \subseteq Stream /\ Faults \subseteq Stream

VARIABLES kid,       \* the kernel's view of each child
          state,     \* child->state
          fds,       \* the parent's open ends of the pipes of each child
          reader,    \* the fd events: who reads each stream
          data,      \* the bytes in each stream
          pending,   \* SIGCHLD is pending
          sigPipe,   \* the numbers in the signal pipe
          deaths,    \* the calls of each child's deathCb
          broken     \* the streams a read of which has failed

parent == <<state, fds, reader, deaths>>
vars == <<kid, parent, data, pending, sigPipe, broken>>

Init ==
  /\ kid = [c \in Child |-> "none"] /\ state = [c \in Child |-> "none"]
  /\ fds = [c \in Child |-> {}] /\ reader = [c \in Child |-> [s \in Stream |-> "none"]]
  /\ data = [c \in Child |-> [s \in Stream |-> 0]]
  /\ pending = FALSE /\ sigPipe = 0
  /\ deaths = [c \in Child |-> 0] /\ broken = {}
-----------------------------------------------------------------------------
(* The end of a child.  validate_pipe_flush is given the states and        *)
(* descriptors its caller has stored: a child is done, and freed, when it  *)
(* has been waited for and all three descriptors are closed.               *)

\* Mutant: stderr is not looked at.
Flushed_NoStderr(st, f) == {c \in Child : st[c] = "flush" /\ f[c] \subseteq {"err"}}

Flushed(st, f) == {c \in Child : st[c] = "flush" /\ f[c] = {}}

validate_pipe_flush(st, f) ==
  LET done == Flushed(st, f)
  IN /\ state' = [c \in Child |-> IF c \in done THEN "freed" ELSE st[c]]
     /\ deaths' = [c \in Child |-> IF c \in done THEN deaths[c] + 1 ELSE deaths[c]]
     /\ fds' = f

\* Mutant: the descriptor is closed and nothing else happens.
CHLD_close_fd_Only(c, s) ==
  /\ fds' = [fds EXCEPT ![c] = @ \ {s}] /\ UNCHANGED <<state, deaths>>

CHLD_close_fd(c, s) == validate_pipe_flush(state, [fds EXCEPT ![c] = @ \ {s}])
-----------------------------------------------------------------------------
(* Calls of the application.                                               *)

PROC_fork_child(c) ==
  /\ state[c] = "none"
  /\ kid' = [kid EXCEPT ![c] = "running"] /\ state' = [state EXCEPT ![c] = "init"]
  /\ fds' = [fds EXCEPT ![c] = {"in", "out", "err"}]
  /\ UNCHANGED <<reader, deaths, data, pending, sigPipe, broken>>

\* CHLD_ignore_ and CHLD_echo_ read and throw away or copy, CHLD_*_reader
\* hands the data on.
Register(c, s, how) ==
  /\ state[c] \in {"init", "flush"} /\ s \in fds[c] /\ reader[c][s] = "none"
  /\ reader' = [reader EXCEPT ![c][s] = how]
  /\ UNCHANGED <<kid, state, fds, deaths, data, pending, sigPipe, broken>>

CHLD_close_stdin(c) ==
  /\ state[c] \in {"init", "flush"} /\ "in" \in fds[c]
  /\ CHLD_close_fd(c, "in")
  /\ UNCHANGED <<kid, reader, data, pending, sigPipe, broken>>
-----------------------------------------------------------------------------
(* The children and the kernel.                                            *)

Writes(c, s) ==
  /\ kid[c] = "running" /\ s \in Used /\ data[c][s] < MaxData
  /\ data' = [data EXCEPT ![c][s] = @ + 1]
  /\ UNCHANGED <<kid, parent, pending, sigPipe, broken>>

Exits(c) ==
  /\ kid[c] = "running"
  /\ kid' = [kid EXCEPT ![c] = "zombie"] /\ pending' = TRUE
  /\ UNCHANGED <<parent, data, sigPipe, broken>>

\* A full pipe makes the write block.
PROC_signal_handler ==
  /\ pending /\ sigPipe < PipeSize
  /\ pending' = FALSE /\ sigPipe' = sigPipe + 1
  /\ UNCHANGED <<kid, parent, data, broken>>
-----------------------------------------------------------------------------
(* Callbacks of the loop.                                                  *)

\* wait4 is called until no child is left that has ended.
Reaped == {c \in Child : kid[c] = "zombie"}

\* signal_fd_cb reads one number and calls sigchld_handler.
signal_fd_cb ==
  /\ sigPipe > 0 /\ sigPipe' = sigPipe - 1
  /\ kid' = [c \in Child |-> IF c \in Reaped THEN "reaped" ELSE kid[c]]
  /\ validate_pipe_flush([c \in Child |-> IF c \in Reaped THEN "flush" ELSE state[c]], fds)
  /\ UNCHANGED <<reader, data, pending, broken>>

Unread(c, s) == reader' = [reader EXCEPT ![c][s] = "none"]

\* dump_child_data, echo_child_data and child_read_data.  A failed read
\* closes the descriptor only in the last one.
ReadData(c, s) ==
  /\ reader[c][s] # "none"
  /\ \/ /\ data[c][s] > 0
        /\ \E n \in 0..data[c][s] - 1 : data' = [data EXCEPT ![c][s] = n]
        /\ UNCHANGED <<parent, broken>>
     \/ /\ data[c][s] = 0 /\ kid[c] # "running"
        /\ Unread(c, s) /\ CHLD_close_fd(c, s) /\ UNCHANGED <<data, broken>>
     \/ /\ s \in Faults /\ Unread(c, s) /\ broken' = broken \cup {<<c, s>>} /\ UNCHANGED data
        /\ IF reader[c][s] = "reader" THEN CHLD_close_fd(c, s)
           ELSE UNCHANGED <<state, fds, deaths>>
  /\ UNCHANGED <<kid, pending, sigPipe>>
-----------------------------------------------------------------------------
Next ==
  \/ PROC_signal_handler \/ signal_fd_cb
  \/ \E c \in Child :
       \/ PROC_fork_child(c) \/ CHLD_close_stdin(c) \/ Exits(c)
       \/ \E s \in Stream :
            \/ Writes(c, s) \/ ReadData(c, s)
            \/ \E how \in {"dump", "reader"} : Register(c, s, how)

Spec == Init /\ [][Next]_vars

\* The kernel delivers signals, and the loop calls the callback of every
\* descriptor that stays readable.
Fairness ==
  /\ WF_vars(PROC_signal_handler) /\ WF_vars(signal_fd_cb)
  /\ \A c \in Child, s \in Stream : WF_vars(ReadData(c, s))
-----------------------------------------------------------------------------
\* CHLD_death_notice: "called once, after the OS has notified the process of
\* the child's death AND all data remaining on input / output streams have been
\* processed"; and the child's memory is freed then, with no event left to it.
DeathNotice ==
  \A c \in Child :
    /\ deaths[c] = IF state[c] = "freed" THEN 1 ELSE 0
    /\ state[c] = "freed" =>
         /\ kid[c] = "reaped" /\ fds[c] = {}
         /\ \A s \in Stream : reader[c][s] = "none" /\ (data[c][s] = 0 \/ <<c, s>> \in broken)

\* The child has ended, its stdin is closed and its streams are read.
Orphan(c) ==
  /\ kid[c] \in {"zombie", "reaped"} /\ "in" \notin fds[c]
  /\ \A s \in Stream : s \in fds[c] => reader[c][s] # "none"

\* Such a child is reported dead (CHLD_death_notice), unless a read fails.
DeathReported ==
  \A c \in Child : Orphan(c) ~> deaths[c] = 1 \/ \E s \in Stream : <<c, s>> \in broken
=============================================================================
