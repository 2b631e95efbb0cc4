-------------------------- MODULE GlobalTimerProofs --------------------------
(***************************************************************************)
(* Processes on the global clock take turns, for any number of processes,  *)
(* times and tokens.                                                       *)
(***************************************************************************)
EXTENDS GlobalTimer, FiniteSetTheorems, TLAPS

Outside == {"out", "open", "gone", "dead", "aborted"}
Place == Outside \cup {"join", "turn", "barrier", "mutex", "steal", "leave"}

\* The event mutex is a lock: it is free only between turns.  While the file has
\* yet to be initialised nobody has got as far as the mutex, so that the
\* initialisation, which sets it, takes it from nobody.
Inv ==
  /\ pc \in [Proc -> Place]
  /\ region \in {"none", "empty", "ready", "broken"}
  /\ mutex \in {0, 1}
  /\ \A p, q \in Proc : pc[p] = "turn" /\ pc[q] = "turn" => p = q
  /\ \A p \in Proc : pc[p] = "turn" => mutex = 0
  /\ region \in {"none", "empty"} => \A p \in Proc : pc[p] \in Outside

\* The invariant leaves room for one turn at a time.
LEMMA InvTurns == Inv => TurnsExclusive
  <1> SUFFICES ASSUME Inv PROVE TurnsExclusive
    OBVIOUS
  <1>1. CASE InTurn = {}
    BY <1>1, FS_EmptySet DEF Inv, TurnsExclusive
  <1>2. CASE InTurn # {}
    <2>1. PICK p \in Proc : InTurn = {p} /\ pc[p] = "turn"
      BY <1>2 DEF Inv, InTurn
    <2>2. Cardinality(InTurn) = 1
      BY <2>1, FS_Singleton
    <2> QED BY <2>1, <2>2 DEF Inv, TurnsExclusive
  <1> QED BY <1>1, <1>2

\* At first there is no file and nobody in it.
LEMMA InitInv == Init => Inv
  BY DEF Init, Inv, Place, Outside

\* A step of p that neither starts nor ends a turn.
LEMMA InvMoves ==
  ASSUME Inv, NEW p \in Proc, NEW place \in Place, To(p, place),
         pc[p] # "turn", place # "turn", mutex' = mutex,
         region' = region, pc[p] \notin Outside \/ place \in Outside
  PROVE  Inv'
  BY DEF Inv, To

\* p takes the mutex and runs its loop.
LEMMA InvTakes ==
  ASSUME Inv, NEW p \in Proc, To(p, "turn"), pc[p] \notin Outside, mutex > 0,
         mutex' = mutex - 1, region' = region
  PROVE  Inv'
  <1>1. mutex = 1 /\ mutex' = 0 /\ region' \notin {"none", "empty"} /\ \A q \in Proc : pc[q] # "turn"
    BY DEF Inv
  <1>2. pc' \in [Proc -> Place] /\ \A q \in Proc : pc'[q] = IF q = p THEN "turn" ELSE pc[q]
    BY DEF Inv, To, Place
  <1> QED BY <1>1, <1>2 DEF Inv

\* The turn of p ends, with or without the mutex being posted.
LEMMA InvEnds ==
  ASSUME Inv, NEW p \in Proc, NEW place \in Place, To(p, place), pc[p] = "turn",
         place # "turn", mutex' \in {mutex, mutex + 1}, region' = region
  PROVE  Inv'
  <1>1. mutex = 0 /\ region \notin {"none", "empty"} /\ \A q \in Proc : pc[q] = "turn" => q = p
    BY DEF Inv, Outside
  <1>2. pc' \in [Proc -> Place] /\ \A q \in Proc : pc'[q] = IF q = p THEN place ELSE pc[q]
    BY DEF Inv, To
  <1> QED BY <1>1, <1>2 DEF Inv

\* setup_shared_state opens the file, and takes no mutex.
LEMMA InvOpen ==
  ASSUME Inv, NEW p \in Proc, Open(p)
  PROVE  Inv'
  BY DEF Inv, Open, To, Place, Outside

\* The first process initialises the semaphores.
LEMMA InvLock ==
  ASSUME Inv, region # "broken", NEW p \in Proc, Lock(p)
  PROVE  Inv'
  <1>1. pc' \in [Proc -> Place] /\ \A q \in Proc : pc'[q] = IF q = p THEN "join" ELSE pc[q]
    BY DEF Inv, Lock, To, Place
  <1>2. CASE region = "ready"
    BY <1>1, <1>2 DEF Inv, Lock
  <1>3. CASE region # "ready"
    <2>1. region' = "ready" /\ mutex' = 1 /\ \A q \in Proc : pc[q] # "turn"
      BY <1>3 DEF Inv, Lock, Outside
    <2> QED BY <1>1, <2>1 DEF Inv
  <1> QED BY <1>2, <1>3

\* The last process removes the file, and then nobody uses it.
LEMMA InvUnlink ==
  ASSUME Inv, NEW p \in Proc, Unlink(p)
  PROVE  Inv'
  <1>1. pc' \in [Proc -> Place] /\ \A q \in Proc : pc'[q] = IF q = p THEN "gone" ELSE pc[q]
    BY DEF Inv, Unlink, To, Place, Outside
  <1>2. region \notin {"none", "empty"} /\ mutex' = mutex /\ region' \in {region, "none", "broken"}
    BY DEF Inv, Unlink, Outside
  <1>3. region' = "none" => \A q \in Proc : pc'[q] \in Outside
    <2>1. SUFFICES ASSUME region' = "none", NEW q \in Proc PROVE pc'[q] \in Outside
      OBVIOUS
    <2>2. Users = {p}
      BY <1>2, <2>1 DEF Unlink
    <2>3. q # p => pc[q] \notin {"open", "join", "turn", "barrier", "mutex", "steal", "leave"}
      BY <2>2 DEF Users
    <2> QED BY <1>1, <2>3 DEF Inv, Place, Outside
  <1> QED BY <1>1, <1>2, <1>3 DEF Inv

\* The end of a turn posts the mutex, after the turn.
LEMMA InvRelease ==
  ASSUME Inv, NEW p \in Proc, NEW n \in Time, Release(p, n)
  PROVE  Inv'
  <1>1. \E place \in {"aborted", "steal", "barrier"} : To(p, place)
    BY Zenon DEF Release
  <1>2. pc[p] = "turn" /\ mutex' \in {mutex, mutex + 1} /\ region' = region
    BY DEF Release, shared
  <1> QED BY <1>1, <1>2, InvEnds DEF Place, Outside

\* A process that leaves posts the mutex if it holds it.
LEMMA InvLeave ==
  ASSUME Inv, NEW p \in Proc, Leave(p) \/ LeaveUnmarked(p)
  PROVE  Inv'
  <1>1. \E place \in {"leave", "gone"} : To(p, place)
    BY DEF Leave, LeaveUnmarked
  <1>2. pc[p] = "turn" /\ mutex' \in {mutex, mutex + 1} /\ region' = region
    BY DEF Leave, LeaveUnmarked, shared
  <1> QED BY <1>1, <1>2, InvEnds DEF Place, Outside

\* A process that gets the mutex takes its turn, or gives the mutex back at
\* once.
LEMMA InvTakeMutex ==
  ASSUME Inv, NEW p \in Proc, TakeMutex(p)
  PROVE  Inv'
  <1>1. CASE procs[p].next_time > curr_time
    <2>1. To(p, "barrier") /\ pc[p] = "mutex" /\ mutex' = mutex /\ region' = region
      BY <1>1 DEF TakeMutex
    <2> QED BY <2>1, InvMoves DEF Place, Outside
  <1>2. CASE ~(procs[p].next_time > curr_time)
    <2>1. To(p, "turn") /\ pc[p] = "mutex" /\ mutex > 0 /\ mutex' = mutex - 1 /\ region' = region
      BY <1>2 DEF TakeMutex
    <2> QED BY <2>1, InvTakes DEF Outside
  <1> QED BY <1>1, <1>2

\* Every step of every process keeps the invariant.
LEMMA InvStep == Inv /\ [Next]_vars => Inv'
  <1> SUFFICES ASSUME Inv, [Next]_vars PROVE Inv'
    OBVIOUS
  <1>1. CASE UNCHANGED vars
    BY <1>1 DEF Inv, vars, shared
  <1>2. CASE Next
    <2>1. region # "broken"
      BY <1>2 DEF Next
    <2>2. PICK p \in Proc :
            \/ Open(p) \/ Lock(p) \/ Join(p) \/ JoinInterrupted(p) \/ PassBarrier(p) \/ TakeMutex(p) \/ Regain(p)
            \/ \E n \in Time : Release(p, n)
            \/ \E mode \in {"active", "stolen"} : et_gvirt_set_pause(p, mode)
            \/ Leave(p) \/ LeaveUnmarked(p) \/ Unlink(p) \/ Crash(p)
      BY <1>2 DEF Next
    <2>3. CASE Join(p) \/ Regain(p)
      <3>1. To(p, "turn") /\ pc[p] \in {"join", "steal"} /\ mutex > 0 /\ mutex' = mutex - 1 /\ region' = region
        BY <2>3 DEF Join, Regain
      <3> QED BY <3>1, InvTakes DEF Outside
    <2>4. CASE JoinInterrupted(p)
      BY <2>4, InvMoves DEF JoinInterrupted, Place, Outside
    <2>5. CASE PassBarrier(p)
      BY <2>5, InvMoves DEF PassBarrier, Place, Outside
    <2>6. CASE Crash(p)
      BY <2>6, InvMoves DEF Crash, Place, Outside, shared
    <2>7. ASSUME NEW mode \in {"active", "stolen"}, et_gvirt_set_pause(p, mode) PROVE Inv'
      BY <2>7 DEF et_gvirt_set_pause, Inv
    <2> QED BY <2>1, <2>2, <2>3, <2>4, <2>5, <2>6, <2>7, InvOpen, InvLock, InvTakeMutex, InvRelease, InvLeave, InvUnlink
  <1> QED BY <1>1, <1>2

\* "only one process to execute a non-debug event at a time": whatever joins,
\* turns, thefts, departures and deaths there were, at most one process runs its
\* loop, and the event mutex is not free meanwhile.
THEOREM TurnsTaken == Spec => []TurnsExclusive
  <1>1. Inv /\ [Next]_vars => Inv'
    BY InvStep
  <1> QED BY <1>1, InitInv, InvTurns, PTL DEF Spec
=============================================================================
