----------------------------- MODULE GlobalTimer -----------------------------
(***************************************************************************)
(* src/globalTimer.c: one virtual clock for the event loops of several     *)
(* processes, in a shared file.  A process runs its loop only while it     *)
(* holds the event mutex; before it blocks it moves the global time to the *)
(* earliest wake-up time, posts the barrier once for every active process, *)
(* gives up the mutex, and waits at the barrier until its time has come.   *)
(*                                                                         *)
(* Shared memory is accessed under the mutex, so a stretch of code between *)
(* two operations on a semaphore or on the file lock is one step.  Process *)
(* p's entry in the procs array is named p; num_procs is never lowered, so *)
(* the entries are those that ever joined.  A process that is paused, or   *)
(* has no timed event, blocks with the mutex held, which is a turn that    *)
(* does not end.  What a semaphore does after sem_destroy is undefined, so *)
(* a behaviour ends when the region is destroyed while others use it.      *)
(***************************************************************************)
EXTENDS Integers, FiniteSets

CONSTANTS Proc,
          None,     \* no process
          MaxTime,  \* bound on the virtual time
          MaxTokens,\* bound on the value of the barrier semaphore
          Start,    \* the global time an initialised file starts with
          Api       \* what processes do besides joining and blocking

ASSUME GlobalAssumption ==
  /\ None \notin Proc /\ MaxTime \in Nat /\ MaxTokens \in Nat /\ Start \in 0..MaxTime
  /\ Api \subseteq {"leave", "steal", "rejoin", "crash"}

Time == 0..MaxTime

VARIABLES region,     \* the state file: "none", "empty", "ready" or "broken"
          lock,       \* who holds the flock on it
          mutex,      \* the value of evt_mutex
          barrier,    \* the value of barrier
          curr_time, time_thief,
          procs,      \* the entries of the processes
          pc,         \* where each process is
          time,       \* each process' own copy of the time
          others      \* cleanup_shared_state's cnt

shared == <<region, lock, mutex, barrier, curr_time, time_thief>>
vars == <<shared, procs, pc, time, others>>

\* pid is whether the pid field is positive.
NoEntry == [pid |-> FALSE, active |-> FALSE, holds_mutex |-> FALSE,
            thief |-> FALSE, next_time |-> 0]

Init ==
  /\ region = "none" /\ lock = None /\ mutex = 1 /\ barrier = 0
  /\ curr_time = Start /\ time_thief = None
  /\ procs = [p \in Proc |-> NoEntry] /\ pc = [p \in Proc |-> "out"]
  /\ time = [p \in Proc |-> 0] /\ others = [p \in Proc |-> 0]

Counted(ps) == {p \in Proc : ps[p].pid /\ ps[p].active}
To(p, place) == pc' = [pc EXCEPT ![p] = place]
-----------------------------------------------------------------------------
(* setup_shared_state: open the file; under the file lock the first        *)
(* process initialises it, and every one waits there for the mutex.        *)

Open(p) ==
  /\ pc[p] = "out" \/ (pc[p] = "gone" /\ "rejoin" \in Api)
  /\ region' = IF region = "none" THEN "empty" ELSE region
  /\ To(p, "open")
  /\ UNCHANGED <<lock, mutex, barrier, curr_time, time_thief, procs, time, others>>

Lock(p) ==
  /\ pc[p] = "open" /\ lock = None
  /\ lock' = p /\ region' = "ready" /\ To(p, "join")
  /\ IF region = "ready" THEN UNCHANGED <<mutex, barrier, curr_time, time_thief, procs>>
     ELSE /\ mutex' = 1 /\ barrier' = 0 /\ curr_time' = Start /\ time_thief' = None
          /\ procs' = [q \in Proc |-> NoEntry]
  /\ UNCHANGED <<time, others>>

\* Mutant: the entry is taken without the mutex.
Join_Unlocked(p) ==
  /\ pc[p] = "join"
  /\ procs' = [procs EXCEPT ![p] = [NoEntry EXCEPT !.pid = TRUE, !.active = TRUE,
                                       !.holds_mutex = TRUE, !.next_time = curr_time]]
  /\ time' = [time EXCEPT ![p] = 0]
  /\ lock' = None /\ To(p, "turn")
  /\ UNCHANGED <<region, mutex, barrier, curr_time, time_thief, others>>

\* The process' own clock stays at 0 until it has been through the barrier.
Join(p) ==
  /\ pc[p] = "join" /\ mutex > 0
  /\ mutex' = mutex - 1
  /\ procs' = [procs EXCEPT ![p] = [NoEntry EXCEPT !.pid = TRUE, !.active = TRUE,
                                       !.holds_mutex = TRUE, !.next_time = curr_time]]
  /\ time' = [time EXCEPT ![p] = 0]
  /\ lock' = None /\ To(p, "turn")
  /\ UNCHANGED <<region, barrier, curr_time, time_thief, others>>

\* A signal interrupts the wait for the mutex: the caller gets no timer.
JoinInterrupted(p) ==
  /\ pc[p] = "join" /\ mutex = 0
  /\ lock' = None /\ To(p, "gone")
  /\ UNCHANGED <<region, mutex, barrier, curr_time, time_thief, procs, time, others>>
-----------------------------------------------------------------------------
(* ET_gvirt_block.                                                         *)

\* The array is scanned in the order in which processes joined, so that any
\* of those with the smallest time may be the first.
Earliest(ps) ==
  {q \in Counted(ps) : \A r \in Counted(ps) : ps[q].next_time <= ps[r].next_time}

\* The end of a turn, with the next event of p at time n: not before the last
\* one it waited for, but any time as long as its clock is not the global one.
\* The process whose time is the earliest is marked inactive until it runs.
Release(p, n) ==
  /\ pc[p] = "turn" /\ (time[p] # 0 => n >= procs[p].next_time)
  /\ LET ps == [procs EXCEPT ![p].next_time = n]
         mine == time_thief = p
     IN IF ~procs[p].holds_mutex \/ Earliest(ps) = {}
        THEN To(p, "aborted") /\ UNCHANGED <<shared, procs>>
        ELSE /\ mutex' = mutex + 1
             /\ To(p, IF mine THEN "steal" ELSE "barrier")
             /\ \E q \in Earliest(ps) :
                  LET passed == IF time_thief = None THEN [ps EXCEPT ![q].active = FALSE] ELSE ps
                  IN /\ procs' = [passed EXCEPT ![p].thief = mine, ![p].holds_mutex = FALSE]
                     /\ IF time_thief = None
                        THEN /\ curr_time' = ps[q].next_time
                             /\ barrier' = barrier + Cardinality(Counted(ps))
                        ELSE UNCHANGED <<curr_time, barrier>>
             /\ UNCHANGED <<region, lock, time_thief>>
  /\ barrier' <= MaxTokens
  /\ UNCHANGED <<time, others>>

PassBarrier(p) ==
  /\ pc[p] = "barrier" /\ barrier > 0
  /\ barrier' = barrier - 1 /\ To(p, "mutex")
  /\ UNCHANGED <<region, lock, mutex, curr_time, time_thief, procs, time, others>>

\* A process whose time has not come gives the mutex back.
TakeMutex(p) ==
  /\ pc[p] = "mutex" /\ mutex > 0
  /\ time' = [time EXCEPT ![p] = curr_time]
  /\ IF procs[p].next_time > curr_time
     THEN To(p, "barrier") /\ UNCHANGED <<mutex, procs>>
     ELSE /\ To(p, "turn") /\ mutex' = mutex - 1
          /\ procs' = [procs EXCEPT ![p].active = TRUE, ![p].holds_mutex = TRUE]
  /\ UNCHANGED <<region, lock, barrier, curr_time, time_thief, others>>

\* A thief blocks on its own and then takes the mutex again.
Regain(p) ==
  /\ pc[p] = "steal" /\ mutex > 0
  /\ mutex' = mutex - 1 /\ To(p, "turn")
  /\ UNCHANGED <<region, lock, barrier, curr_time, time_thief, procs, time, others>>

et_gvirt_set_pause(p, mode) ==
  /\ "steal" \in Api /\ pc[p] = "turn" /\ procs[p].holds_mutex
  /\ IF mode = "stolen" THEN time_thief = None /\ time_thief' = p
     ELSE time_thief = p /\ time_thief' = None
  /\ UNCHANGED <<region, lock, mutex, barrier, curr_time, procs, pc, time, others>>
-----------------------------------------------------------------------------
(* cleanup_shared_state, at the end of a turn: the processes that are left *)
(* are let through the barrier; the last one destroys the file.            *)

Leave(p) ==
  /\ "leave" \in Api /\ pc[p] = "turn" /\ procs[p].holds_mutex
  /\ LET rest == Counted([procs EXCEPT ![p].active = FALSE])
     IN /\ barrier' = barrier + Cardinality(rest)
        /\ others' = [others EXCEPT ![p] = Cardinality(rest)]
  /\ procs' = [procs EXCEPT ![p].active = FALSE, ![p].pid = FALSE, ![p].holds_mutex = FALSE]
  /\ time_thief' = IF time_thief = p THEN None ELSE time_thief
  /\ mutex' = mutex + 1 /\ To(p, "leave")
  /\ barrier' <= MaxTokens
  /\ UNCHANGED <<region, lock, curr_time, time>>

\* A process in its turn that is not marked as the holder releases nothing.
LeaveUnmarked(p) ==
  /\ "leave" \in Api /\ pc[p] = "turn" /\ ~procs[p].holds_mutex
  /\ procs' = [procs EXCEPT ![p].active = FALSE, ![p].pid = FALSE]
  /\ To(p, "gone")
  /\ UNCHANGED <<shared, time, others>>

Users == {p \in Proc : pc[p] \in {"open", "join", "turn", "barrier", "mutex", "steal", "leave"}}

Unlink(p) ==
  /\ pc[p] = "leave" /\ lock = None
  /\ region' = IF others[p] > 0 THEN region ELSE IF Users = {p} THEN "none" ELSE "broken"
  /\ To(p, "gone")
  /\ others' = [others EXCEPT ![p] = 0]
  /\ UNCHANGED <<lock, mutex, barrier, curr_time, time_thief, procs, time>>

\* A process dies while it waits; its entry stays.
Crash(p) ==
  /\ "crash" \in Api /\ pc[p] \in {"barrier", "mutex", "steal"}
  /\ To(p, "dead")
  /\ UNCHANGED <<shared, procs, time, others>>
-----------------------------------------------------------------------------
Next == region # "broken" /\ \E p \in Proc :
  \/ Open(p) \/ Lock(p) \/ Join(p) \/ JoinInterrupted(p) \/ PassBarrier(p) \/ TakeMutex(p) \/ Regain(p)
  \/ \E n \in Time : Release(p, n)
  \/ \E mode \in {"active", "stolen"} : et_gvirt_set_pause(p, mode)
  \/ Leave(p) \/ LeaveUnmarked(p) \/ Unlink(p) \/ Crash(p)

Spec == Init /\ [][Next]_vars
-----------------------------------------------------------------------------
InTurn == {p \in Proc : pc[p] = "turn"}

\* "only one process to execute a non-debug event at a time": in any order of
\* joins, turns, thefts, departures and deaths, at most one process runs its
\* loop, and none does while the semaphore is free.
TurnsExclusive == mutex + Cardinality(InTurn) <= 1

\* "strict global ordering on their clocks", and the global time is "the next
\* smallest time" of the processes: it never passes the time at which a process
\* that waits needs to run.
NobodyOvertaken ==
  \A p \in Proc : pc[p] \in {"barrier", "mutex"} => curr_time <= procs[p].next_time
=============================================================================
