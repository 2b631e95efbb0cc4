--------------------------- MODULE ChildrenProofs ---------------------------
(***************************************************************************)
(* A child's death is reported once and not before its streams are read,   *)
(* for any number of children, any amount of data and any pipe.            *)
(***************************************************************************)
EXTENDS Children, TLAPS

\* What is true of one child.  A stream whose descriptor the parent has closed
\* is at its end, or was given up after an error; only then can the last close
\* find the child done.
ChildInv(c) ==
  /\ deaths[c] = IF state[c] = "freed" THEN 1 ELSE 0
  /\ state[c] = "none" => kid[c] = "none"
  /\ state[c] = "init" => kid[c] \in {"running", "zombie"}
  /\ state[c] \in {"flush", "freed"} => kid[c] = "reaped"
  /\ state[c] \in {"none", "freed"} => fds[c] = {}
  /\ \A s \in Stream :
       /\ reader[c][s] # "none" => s \in fds[c]
       /\ state[c] # "none" /\ s \notin fds[c] =>
            (data[c][s] = 0 /\ kid[c] # "running") \/ <<c, s>> \in broken

\* The values of what the parent's callbacks change.
Types ==
  /\ kid \in [Child -> {"none", "running", "zombie", "reaped"}]
  /\ state \in [Child -> {"none", "init", "flush", "freed"}]
  /\ fds \in [Child -> SUBSET {"in", "out", "err"}]
  /\ reader \in [Child -> [Stream -> {"none", "dump", "reader"}]]
  /\ data \in [Child -> [Stream -> Nat]]
  /\ deaths \in [Child -> Nat] /\ broken \subseteq Child \X Stream

Inv == Types /\ \A c \in Child : ChildInv(c)

\* The invariant is strong enough: what a death notice promises follows.
LEMMA InvDeathNotice == Inv => DeathNotice
  BY DEF Inv, ChildInv, DeathNotice, Stream

\* Before the first fork there is nothing to report.
LEMMA InitInv == Init => Inv
  <1> SUFFICES ASSUME Init PROVE Inv
    OBVIOUS
  <1>1. Types
    BY DEF Init, Types
  <1>2. \A c \in Child : ChildInv(c)
    BY DEF Init, ChildInv
  <1> QED BY <1>1, <1>2 DEF Inv

\* Closing a descriptor, or reaping, frees exactly the children that are done:
\* the states st and descriptors f are what the caller has stored.
LEMMA FlushTypes ==
  ASSUME NEW st \in [Child -> {"none", "init", "flush", "freed"}], NEW f \in [Child -> SUBSET {"in", "out", "err"}],
         deaths \in [Child -> Nat], validate_pipe_flush(st, f)
  PROVE  /\ state' \in [Child -> {"none", "init", "flush", "freed"}] /\ fds' = f /\ deaths' \in [Child -> Nat]
         /\ \A c \in Child : IF st[c] = "flush" /\ f[c] = {}
                             THEN state'[c] = "freed" /\ deaths'[c] = deaths[c] + 1
                             ELSE state'[c] = st[c] /\ deaths'[c] = deaths[c]
  BY DEF validate_pipe_flush, Flushed

\* A fork gives a child its state and its descriptors.
LEMMA InvFork ==
  ASSUME Inv, NEW c \in Child, PROC_fork_child(c)
  PROVE  Inv'
  <1>1. Types'
    BY DEF Inv, Types, PROC_fork_child
  <1>2. ASSUME NEW d \in Child PROVE ChildInv(d)'
    <2>1. CASE d = c
      <3>1. /\ kid'[c] = "running" /\ state'[c] = "init" /\ fds'[c] = {"in", "out", "err"}
            /\ state[c] = "none" /\ UNCHANGED <<deaths, reader>>
        BY DEF Inv, Types, PROC_fork_child
      <3>2. \A s \in Stream : s \in fds'[c]
        BY <3>1 DEF Stream
      <3> QED BY <2>1, <3>1, <3>2 DEF Inv, ChildInv
    <2>2. CASE d # c
      BY <2>2 DEF Inv, Types, PROC_fork_child, ChildInv
    <2> QED BY <2>1, <2>2
  <1> QED BY <1>1, <1>2 DEF Inv

\* Setting a reader for a stream, which is open as long as the child is not
\* freed.
LEMMA InvRegister ==
  ASSUME Inv, NEW c \in Child, NEW s \in Stream, NEW how \in {"dump", "reader"}, Register(c, s, how)
  PROVE  Inv'
  <1>1. Types'
    BY DEF Inv, Types, Register
  <1>2. \A d \in Child : ChildInv(d)'
    BY DEF Inv, Types, Register, ChildInv
  <1> QED BY <1>1, <1>2 DEF Inv

\* The child writes while it runs.
LEMMA InvWrites ==
  ASSUME Inv, NEW c \in Child, NEW s \in Stream, Writes(c, s)
  PROVE  Inv'
  <1>1. Types'
    BY DEF Inv, Types, Writes, parent
  <1>2. \A d \in Child : ChildInv(d)'
    BY DEF Inv, Types, Writes, ChildInv, parent
  <1> QED BY <1>1, <1>2 DEF Inv

\* The child ends, and becomes a zombie.
LEMMA InvExits ==
  ASSUME Inv, NEW c \in Child, Exits(c)
  PROVE  Inv'
  <1>1. Types'
    BY DEF Inv, Types, Exits, parent
  <1>2. \A d \in Child : ChildInv(d)'
    BY DEF Inv, Types, Exits, ChildInv, parent
  <1> QED BY <1>1, <1>2 DEF Inv

\* The kernel delivers SIGCHLD: only the pipe changes.
LEMMA InvSignal ==
  ASSUME Inv, PROC_signal_handler
  PROVE  Inv'
  <1>1. Types'
    BY DEF Inv, Types, PROC_signal_handler, parent
  <1>2. \A d \in Child : ChildInv(d)'
    BY DEF Inv, Types, PROC_signal_handler, ChildInv, parent
  <1> QED BY <1>1, <1>2 DEF Inv

\* A descriptor of c is closed, which may be the last one of c and frees no
\* other child: those were freed when their own last one was closed.
LEMMA InvClose ==
  ASSUME Inv, NEW c \in Child, NEW s \in {"in", "out", "err"}, CHLD_close_fd(c, s),
         reader' \in [Child -> [Stream -> {"none", "dump", "reader"}]],
         broken \subseteq broken', broken' \subseteq Child \X Stream,
         UNCHANGED <<kid, data>>, s \in fds[c],
         \A d \in Child, r \in Stream : reader'[d][r] = IF d = c /\ r = s THEN "none" ELSE reader[d][r],
         s \in Stream => (data[c][s] = 0 /\ kid[c] # "running") \/ <<c, s>> \in broken'
  PROVE  Inv'
  <1> DEFINE f == [fds EXCEPT ![c] = @ \ {s}]
  <1>1. /\ f \in [Child -> SUBSET {"in", "out", "err"}]
        /\ \A d \in Child : f[d] = IF d = c THEN fds[c] \ {s} ELSE fds[d]
    BY DEF Inv, Types
  <1> HIDE DEF f
  <1>2. validate_pipe_flush(state, f)
    BY DEF CHLD_close_fd, f
  <1>3. /\ state' \in [Child -> {"none", "init", "flush", "freed"}] /\ fds' = f /\ deaths' \in [Child -> Nat]
        /\ \A d \in Child : IF state[d] = "flush" /\ f[d] = {}
                            THEN state'[d] = "freed" /\ deaths'[d] = deaths[d] + 1
                            ELSE state'[d] = state[d] /\ deaths'[d] = deaths[d]
    <2>1. state \in [Child -> {"none", "init", "flush", "freed"}] /\ deaths \in [Child -> Nat]
      BY DEF Inv, Types
    <2> QED BY <1>1, <1>2, <2>1, FlushTypes
  <1>4. Types'
    BY <1>1, <1>3 DEF Inv, Types
  <1>5. ASSUME NEW d \in Child PROVE ChildInv(d)'
    <2>1. CASE d = c
      <3>1. state[c] # "none" /\ state[c] # "freed"
        BY DEF Inv, ChildInv
      <3>2. \A r \in Stream : (reader'[c][r] # "none" => r \in f[c]) /\ (r \notin f[c] => r = s \/ r \notin fds[c])
        <4>1. f[c] = fds[c] \ {s}
          BY <1>1
        <4>2. \A r \in Stream : reader[c][r] # "none" => r \in fds[c]
          BY DEF Inv, ChildInv
        <4>3. \A r \in Stream : reader'[c][r] = IF r = s THEN "none" ELSE reader[c][r]
          OBVIOUS
        <4> QED BY <4>1, <4>2, <4>3
      <3>3. \A r \in Stream : r \notin f[c] => (data[c][r] = 0 /\ kid[c] # "running") \/ <<c, r>> \in broken'
        BY <3>1, <3>2 DEF Inv, ChildInv
      <3>4. ChildInv(c) /\ UNCHANGED <<kid, data>>
        BY DEF Inv
      <3>5. CASE state[c] = "flush" /\ f[c] = {}
        <4>1. state'[c] = "freed" /\ deaths'[c] = 1 /\ fds'[c] = {} /\ kid'[c] = "reaped"
          BY <3>4, <3>5, <1>3 DEF ChildInv
        <4> QED BY <2>1, <3>2, <3>3, <3>4, <3>5, <4>1, <1>3 DEF ChildInv
      <3>6. CASE ~(state[c] = "flush" /\ f[c] = {})
        BY <2>1, <3>1, <3>2, <3>3, <3>4, <3>6, <1>3 DEF ChildInv
      <3> QED BY <3>5, <3>6
    <2>2. CASE d # c
      BY <2>2, <1>1, <1>3 DEF Inv, Types, ChildInv
    <2> QED BY <2>1, <2>2
  <1> QED BY <1>4, <1>5 DEF Inv

\* Closing the child's stdin may be the last close.
LEMMA InvCloseStdin ==
  ASSUME Inv, NEW c \in Child, CHLD_close_stdin(c)
  PROVE  Inv'
  <1>1. \A d \in Child, r \in Stream : reader'[d][r] = IF d = c /\ r = "in" THEN "none" ELSE reader[d][r]
    BY DEF CHLD_close_stdin, Stream
  <1> QED BY <1>1, InvClose DEF CHLD_close_stdin, Inv, Types, Stream

\* signal_fd_cb reaps every zombie; those without open descriptors are freed.
LEMMA InvReap ==
  ASSUME Inv, signal_fd_cb
  PROVE  Inv'
  <1> DEFINE st == [c \in Child |-> IF c \in Reaped THEN "flush" ELSE state[c]]
  <1>1. st \in [Child -> {"none", "init", "flush", "freed"}]
    BY DEF Inv, Types
  <1>2. \A c \in Child : st[c] = IF kid[c] = "zombie" THEN "flush" ELSE state[c]
    BY DEF Reaped
  <1>3. validate_pipe_flush(st, fds)
    BY DEF signal_fd_cb
  <1> HIDE DEF st
  <1>4. /\ state' \in [Child -> {"none", "init", "flush", "freed"}] /\ fds' = fds /\ deaths' \in [Child -> Nat]
        /\ \A c \in Child : IF st[c] = "flush" /\ fds[c] = {}
                            THEN state'[c] = "freed" /\ deaths'[c] = deaths[c] + 1
                            ELSE state'[c] = st[c] /\ deaths'[c] = deaths[c]
    BY <1>1, <1>3, FlushTypes DEF Inv, Types
  <1>5. Types'
    BY <1>4 DEF Inv, Types, signal_fd_cb, Reaped
  <1>6. ASSUME NEW c \in Child PROVE ChildInv(c)'
    <2>1. kid'[c] = (IF kid[c] = "zombie" THEN "reaped" ELSE kid[c]) /\ UNCHANGED <<reader, data, broken>>
      BY DEF signal_fd_cb, Reaped
    <2>2. ChildInv(c) /\ deaths[c] \in Nat
      BY DEF Inv, Types
    <2>3. CASE kid[c] = "zombie"
      BY <1>2, <1>4, <2>1, <2>2, <2>3 DEF ChildInv, Inv, Types
    <2>4. CASE kid[c] # "zombie"
      <3>1. st[c] = state[c] /\ kid'[c] = kid[c] /\ fds'[c] = fds[c]
        BY <1>2, <1>4, <2>1, <2>4
      <3>2. ~(st[c] = "flush" /\ fds[c] = {}) \/ (state'[c] = "freed" /\ deaths'[c] = 1)
        BY <1>4, <2>2, <3>1 DEF ChildInv
      <3>3. CASE st[c] = "flush" /\ fds[c] = {}
        BY <2>1, <2>2, <3>1, <3>2, <3>3 DEF ChildInv
      <3>4. CASE ~(st[c] = "flush" /\ fds[c] = {})
        <4>1. state'[c] = state[c] /\ deaths'[c] = deaths[c]
          BY <1>4, <3>1, <3>4
        <4> QED BY <2>1, <2>2, <3>1, <4>1 DEF ChildInv
      <3> QED BY <3>3, <3>4
    <2> QED BY <2>3, <2>4
  <1> QED BY <1>5, <1>6 DEF Inv

\* A read takes data, or finds the end or an error and closes the stream.
LEMMA InvRead ==
  ASSUME Inv, NEW c \in Child, NEW s \in Stream, ReadData(c, s)
  PROVE  Inv'
  <1>1. CASE data[c][s] > 0 /\ (\E n \in 0..data[c][s] - 1 : data' = [data EXCEPT ![c][s] = n]) /\ UNCHANGED <<parent, broken>>
    <2>1. Types'
      BY <1>1 DEF Inv, Types, ReadData, parent
    <2>2. \A d \in Child : ChildInv(d)'
      <3>1. \A d \in Child, r \in Stream : data[d][r] = 0 => data'[d][r] = 0
        BY <1>1 DEF Inv, Types
      <3>2. UNCHANGED <<kid, state, fds, reader, deaths, broken>>
        BY <1>1 DEF ReadData, parent
      <3> QED BY <3>1, <3>2 DEF Inv, ChildInv
    <2> QED BY <2>1, <2>2 DEF Inv
  <1> DEFINE ended == /\ reader' \in [Child -> [Stream -> {"none", "dump", "reader"}]]
                      /\ \A d \in Child, r \in Stream : reader'[d][r] = IF d = c /\ r = s THEN "none" ELSE reader[d][r]
  <1>2. Unread(c, s) => ended
    BY DEF Unread, Inv, Types
  <1>3. s \in fds[c] /\ s \in {"in", "out", "err"} /\ broken \subseteq Child \X Stream
    <2>1. s \in fds[c]
      BY DEF ReadData, Inv, ChildInv
    <2>2. s \in {"in", "out", "err"}
      BY DEF Stream
    <2> QED BY <2>1, <2>2 DEF Inv, Types
  <1>4. CASE data[c][s] = 0 /\ kid[c] # "running" /\ Unread(c, s) /\ CHLD_close_fd(c, s) /\ UNCHANGED <<data, broken>>
    <2>1. ended /\ UNCHANGED <<kid, data>> /\ broken \subseteq broken' /\ broken' \subseteq Child \X Stream
      BY <1>2, <1>3, <1>4 DEF ReadData
    <2> HIDE DEF ended
    <2> QED BY <1>3, <1>4, <2>1, InvClose DEF ended
  <1>5. CASE /\ s \in Faults /\ Unread(c, s) /\ broken' = broken \cup {<<c, s>>} /\ UNCHANGED data
             /\ IF reader[c][s] = "reader" THEN CHLD_close_fd(c, s) ELSE UNCHANGED <<state, fds, deaths>>
    <2>1. CASE CHLD_close_fd(c, s)
      <3>1. ended /\ UNCHANGED <<kid, data>> /\ broken \subseteq broken' /\ broken' \subseteq Child \X Stream
        BY <1>2, <1>3, <1>5 DEF ReadData
      <3>2. <<c, s>> \in broken'
        BY <1>5
      <3> QED BY <1>3, <2>1, <3>1, <3>2, InvClose
    <2>2. CASE UNCHANGED <<state, fds, deaths>>
      <3>1. Types'
        BY <1>2, <1>5, <2>2 DEF Inv, Types, ReadData
      <3>2. \A d \in Child : ChildInv(d)'
        BY <1>2, <1>5, <2>2 DEF Inv, ReadData, ChildInv
      <3> QED BY <3>1, <3>2 DEF Inv
    <2> QED BY <1>5, <2>1, <2>2
  <1> QED BY <1>1, <1>4, <1>5 DEF ReadData

\* Every step of the parent, the children and the kernel keeps the invariant.
LEMMA InvStep == Inv /\ [Next]_vars => Inv'
  <1> SUFFICES ASSUME Inv, [Next]_vars PROVE Inv'
    OBVIOUS
  <1>1. CASE UNCHANGED vars
    BY <1>1 DEF Inv, Types, ChildInv, vars, parent
  <1>2. CASE Next
    BY <1>2, InvFork, InvCloseStdin, InvExits, InvWrites, InvRead, InvRegister, InvSignal, InvReap DEF Next
  <1> QED BY <1>1, <1>2

\* CHLD_death_notice is called once, after the child has been waited for and
\* all its streams have been read to their end or given up, and by then no event
\* of the loop leads to the child's memory, which is freed.
THEOREM DeathNoticed == Spec => []DeathNotice
  <1>1. Inv /\ [Next]_vars => Inv'
    BY InvStep
  <1> QED BY <1>1, InitInv, InvDeathNotice, PTL DEF Spec
=============================================================================
