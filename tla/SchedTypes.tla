----------------------------- MODULE SchedTypes -----------------------------
(***************************************************************************)
(* Type correctness of the event loop of module Sched, for any sets of     *)
(* events and deferred events, any delays and any use of the API and the   *)
(* debugger.                                                               *)
(***************************************************************************)
EXTENDS Sched, TLAPS

USE DEF Failures, Kinds, Places
-----------------------------------------------------------------------------
(* Types                                                                   *)

\* The type of an event record after every operation on it, and the fields the
\* invariants look at.
LEMMA NewFields ==
  ASSUME now \in Nat, mono \in Nat
  PROVE  /\ FreeEvt \in EvtType
         /\ \A delay \in Nat, step \in Nat, kind \in Kinds :
              NewEvt(delay, step, kind) \in EvtType /\ MonoEvt(delay, kind) \in EvtType
         /\ \A delay \in Nat : BreakEvt(delay) \in EvtType
  BY DEF FreeEvt, EvtType, NewEvt, MonoEvt, BreakEvt

\* An event that is given another time is an event.
LEMMA MovedFields ==
  ASSUME NEW r \in EvtType, NEW at \in Nat, NEW since \in Nat, NEW step \in Nat
  PROVE  LET m == Moved(r, at, since, step)
         IN /\ m \in EvtType
            /\ m.st = r.st /\ m.q = r.q /\ m.crit = r.crit /\ m.kind = r.kind
            /\ m.in = 0 <=> r.in = 0
  <1> DEFINE y == IF r.in = 0 THEN 0 ELSE 2
  <1>1. y \in {0, 1, 2} /\ (y = 0 <=> r.in = 0)
    OBVIOUS
  <1>2. Moved(r, at, since, step)
          = [r EXCEPT !.at = at, !.since = since, !.step = step, !.in = y]
    BY DEF Moved
  <1> HIDE DEF y
  <1>3. Moved(r, at, since, step) \in EvtType
    BY Zenon, <1>1, <1>2 DEF EvtType
  <1> QED
    BY <1>1, <1>2, <1>3 DEF EvtType

\* An event that is taken out of its queue is an event.
LEMMA OutFields ==
  ASSUME NEW r \in EvtType
  PROVE  /\ Popped(r) \in EvtType /\ Called(r) \in EvtType
         /\ Popped(r).st = "out" /\ Popped(r).in = r.in
         /\ Called(r).st = "out" /\ Called(r).in = 1
         /\ \A f \in {"q", "crit", "kind"} : Popped(r)[f] = r[f] /\ Called(r)[f] = r[f]
  <1>1. Popped(r) \in EvtType /\ Called(r) \in EvtType
    BY Zenon DEF EvtType, Popped, Called
  <1> QED
    BY <1>1 DEF EvtType, Popped, Called

\* An event that is put back after its callback is an event.
LEMMA KeptFields ==
  ASSUME NEW r \in EvtType, NEW time \in Nat
  PROVE  /\ Kept(r, time) \in EvtType
         /\ Kept(r, time).st = "queued" /\ Kept(r, time).in = 0
         /\ \A f \in {"q", "crit", "kind"} : Kept(r, time)[f] = r[f]
  <1> DEFINE at == IF r.in = 1 THEN r.at + r.step ELSE r.at
             since == IF r.in = 1 THEN time ELSE r.since
  <1>1. at \in Nat /\ since \in Nat
    <2>1. r.at \in Nat /\ r.step \in Nat /\ r.since \in Nat
      BY DEF EvtType
    <2> QED
      BY <2>1
  <1>2. Kept(r, time) = [r EXCEPT !.st = "queued", !.in = 0, !.at = at, !.since = since]
    BY DEF Kept
  <1> HIDE DEF at, since
  <1>3. Kept(r, time) \in EvtType
    BY Zenon, <1>1, <1>2 DEF EvtType
  <1> QED
    BY <1>2, <1>3 DEF EvtType

\* An event whose flags are set is an event.
LEMMA FlagFields ==
  ASSUME NEW r \in EvtType, NEW b \in BOOLEAN
  PROVE  /\ WithCrit(r, b) \in EvtType /\ WithBrk(r, b) \in EvtType
         /\ WithCrit(r, b).crit = b
  <1>1. WithCrit(r, b) \in EvtType /\ WithBrk(r, b) \in EvtType
    BY Zenon DEF EvtType, WithCrit, WithBrk
  <1> QED
    BY <1>1, Zenon DEF EvtType, WithCrit, WithBrk

\* Replacing one event keeps the type of all.
LEMMA EvtUpdate ==
  ASSUME evt \in [Evt -> EvtType], NEW e \in Evt, NEW r \in EvtType
  PROVE  [evt EXCEPT ![e] = r] \in [Evt -> EvtType]
  OBVIOUS

\* The context EVT_initWithSize makes is of its types.
LEMMA InitTypes == Init => TypeOK
  <1> SUFFICES ASSUME Init PROVE TypeOK
    OBVIOUS
  <1>1. /\ keepGoing \in BOOLEAN /\ inLoop \in BOOLEAN /\ timePaused \in BOOLEAN
        /\ breakNext \in BOOLEAN /\ dbgStep \in BOOLEAN
        /\ dbgState \in {"disabled", "enabled", "stopped"}
    BY Zenon DEF Init
  <1>2. evt \in [Evt -> EvtType]
    BY NewFields DEF Init
  <1> QED
    BY <1>1, <1>2 DEF Init, TypeOK

\* The calls of the API keep the types.
LEMMA CallTypes == TypeOK /\ Call => TypeOK'
  <1> SUFFICES ASSUME TypeOK, Call PROVE TypeOK'
    OBVIOUS
  <1> USE SchedAssumption
  <1>0. now \in Nat /\ mono \in Nat /\ evt \in [Evt -> EvtType] /\ Delays \subseteq Nat
    BY DEF TypeOK
  <1>1. ASSUME NEW e \in Evt, NEW delay \in Delays, NEW step \in Delays,
               \/ EVT_sched_add(e, delay)
               \/ EVT_sched_add_with_timestep(e, delay, step)
        PROVE  TypeOK'
    BY <1>0, <1>1, NewFields, EvtUpdate
    DEF TypeOK, EVT_sched_add, EVT_sched_add_with_timestep, clocks, loopVars, dbgVars
  <1>2. ASSUME NEW e \in Evt, EVT_sched_remove(e) PROVE TypeOK'
    BY <1>0, <1>2, NewFields, EvtUpdate
    DEF TypeOK, EVT_sched_remove, Removed, clocks, loopVars
  <1>3. ASSUME NEW e \in Evt, NEW at \in Nat, NEW since \in Nat, NEW step \in Nat,
               Retimed(e, at, since, step),
               UNCHANGED <<clocks, critCount, deferred, dbgVars>>
        PROVE  TypeOK'
    <2>1. Moved(evt[e], at, since, step) \in EvtType
      BY <1>0, MovedFields
    <2> QED
      BY <1>0, <1>3, <2>1, EvtUpdate DEF TypeOK, Retimed, clocks, loopVars, dbgVars
  <1>4. ASSUME NEW e \in Evt PROVE evt[e].since \in Nat /\ Clock(e) \in Nat
    BY <1>0 DEF EvtType, Clock
  <1>5. ASSUME NEW e \in Evt, NEW delay \in Delays, EVT_sched_update(e, delay)
        PROVE  TypeOK'
    <2>1. Clock(e) + delay \in Nat /\ delay \in Nat
      BY <1>0, <1>4
    <2> QED
      BY <1>3, <1>4, <1>5, <2>1 DEF EVT_sched_update
  <1>6. ASSUME NEW e \in Evt, NEW delay \in Delays,
               EVT_sched_update_partial_credit(e, delay)
        PROVE  TypeOK'
    <2> DEFINE at == IF evt[e].since + delay <= Clock(e) THEN Clock(e)
                     ELSE evt[e].since + delay
    <2>1. at \in Nat /\ delay \in Nat
      BY <1>0, <1>4
    <2>2. Retimed(e, at, evt[e].since, delay)
      BY <1>6 DEF EVT_sched_update_partial_credit
    <2> HIDE DEF at
    <2> QED
      BY <1>3, <1>4, <1>6, <2>1, <2>2 DEF EVT_sched_update_partial_credit
  <1>7. ASSUME NEW e \in Evt, NEW c \in BOOLEAN, EVT_sched_set_critical(e, c)
        PROVE  TypeOK'
    <2>1. evt' = [evt EXCEPT ![e] = WithCrit(evt[e], c)]
      BY <1>7 DEF EVT_sched_set_critical
    <2>2. evt' \in [Evt -> EvtType]
      <3>1. WithCrit(evt[e], c) \in EvtType
        <4>1. evt[e] \in EvtType
          BY <1>0
        <4> QED
          BY <4>1, FlagFields, Zenon
      <3> DEFINE r == WithCrit(evt[e], c)
      <3> HIDE DEF r
      <3>2. [evt EXCEPT ![e] = r] \in [Evt -> EvtType]
        BY <1>0, <3>1, EvtUpdate DEF r
      <3> QED
        BY <2>1, <3>2 DEF r
    <2>3. critCount' \in Int
      BY <1>7 DEF TypeOK, EVT_sched_set_critical
    <2> QED
      BY <1>7, <2>2, <2>3 DEF TypeOK, EVT_sched_set_critical, clocks, loopVars, dbgVars
  <1>8. ASSUME NEW d \in Dfr, EVT_defer_add(d) \/ EVT_defer_cancel(d) PROVE TypeOK'
    <2> DEFINE D == [id : Dfr, cb : BOOLEAN]
               x == [id |-> d, cb |-> TRUE]
               y == [id |-> d, cb |-> FALSE]
    <2>1. x \in D /\ y \in D
      BY Zenon
    <2>2. deferred \in Seq(D)
      BY DEF TypeOK
    <2>3. \/ deferred' = <<x>> \o deferred \/ deferred' = deferred
          \/ deferred' = [i \in 1..Len(deferred) |->
                            IF deferred[i].id = d THEN y ELSE deferred[i]]
      BY Zenon, <1>8 DEF EVT_defer_add, EVT_defer_cancel
    <2> HIDE DEF x, y, D
    <2>4. deferred' \in Seq(D)
      <3>1. CASE deferred' = <<x>> \o deferred
        BY <2>1, <2>2, <3>1
      <3>2. CASE deferred' = [i \in 1..Len(deferred) |->
                                IF deferred[i].id = d THEN y ELSE deferred[i]]
        <4>1. \A i \in 1..Len(deferred) :
                (IF deferred[i].id = d THEN y ELSE deferred[i]) \in D
          BY <2>1, <2>2
        <4>2. Len(deferred) \in Nat
          BY <2>2
        <4> QED
          BY <3>2, <4>1, <4>2
      <3> QED
        BY <2>2, <2>3, <3>1, <3>2
    <2> QED
      BY <1>8, <2>4 DEF D, TypeOK, EVT_defer_add, EVT_defer_cancel, clocks, loopVars, dbgVars
  <1>9. CASE EVT_exit_loop
    <2>1. keepGoing' \in BOOLEAN
      BY <1>9, Zenon DEF EVT_exit_loop
    <2> QED
      BY <1>9, <2>1 DEF TypeOK, EVT_exit_loop, clocks, dbgVars
  <1>10. CASE Start
    <2>1. keepGoing' \in BOOLEAN /\ inLoop' \in BOOLEAN /\ breakNext' \in BOOLEAN
      BY <1>10, Zenon DEF Start
    <2> QED
      BY <1>10, <2>1 DEF TypeOK, Start, clocks
  <1>11. ASSUME NEW r \in Failures, SetErrno(r) PROVE TypeOK'
    BY <1>11 DEF TypeOK, SetErrno, clocks, dbgVars
  <1> QED
    BY <1>1, <1>2, <1>5, <1>6, <1>7, <1>8, <1>9, <1>10, <1>11 DEF Call

\* The commands of the debugger keep the types.
LEMMA DebugTypes == TypeOK /\ Debug => TypeOK'
  <1> SUFFICES ASSUME TypeOK, Debug PROVE TypeOK'
    OBVIOUS
  <1> USE SchedAssumption
  <1>0. /\ now \in Nat /\ mono \in Nat /\ evt \in [Evt -> EvtType] /\ Delays \subseteq Nat
        /\ FreeEvt \in EvtType
        /\ \A delay \in Delays : MonoEvt(delay, "dump") \in EvtType
                                 /\ BreakEvt(delay) \in EvtType
    <2>1. now \in Nat /\ mono \in Nat /\ evt \in [Evt -> EvtType] /\ Delays \subseteq Nat
      BY DEF TypeOK
    <2> QED
      BY <2>1, NewFields
  <1>1. CASE CmdRun
    <2>1. breakNext' \in BOOLEAN /\ dbgStep' \in BOOLEAN
      BY <1>1, Zenon DEF CmdRun
    <2>2. evt' \in [Evt -> EvtType] /\ breakEvt' \in Evt \cup {None}
      BY <1>0, <1>1 DEF CmdRun, TypeOK
    <2> QED
      BY <1>1, <2>1, <2>2 DEF TypeOK, CmdRun, clocks, loopVars
  <1>2. CASE CmdStop
    <2>1. breakNext' \in BOOLEAN
      BY <1>2, Zenon DEF CmdStop
    <2> QED
      BY <1>2, <2>1 DEF TypeOK, CmdStop, clocks, loopVars
  <1>3. CASE CmdDump
    <2>1. evt' \in [Evt -> EvtType] /\ dumpEvt' \in Evt \cup {None}
      BY <1>0, <1>3 DEF CmdDump, TypeOK
    <2> QED
      BY <1>3, <2>1 DEF TypeOK, CmdDump, clocks, loopVars
  <1>4. ASSUME NEW n \in 1..MaxSteps, CmdNext(n) PROVE TypeOK'
    <2>1. breakNext' \in BOOLEAN /\ dbgStep' \in BOOLEAN
      BY <1>4, Zenon DEF CmdNext
    <2> QED
      BY <1>4, <2>1 DEF TypeOK, CmdNext, clocks, loopVars
  <1>5. ASSUME NEW e \in Evt, NEW b \in BOOLEAN, CmdBreak(e, b) PROVE TypeOK'
    <2>1. evt[e] \in EvtType
      BY <1>0
    <2> DEFINE r == WithBrk(evt[e], b)
    <2>2. r \in EvtType
      BY <2>1, FlagFields, Zenon
    <2>3. evt' = [evt EXCEPT ![e] = r]
      BY <1>5 DEF CmdBreak
    <2> HIDE DEF r
    <2>4. evt' \in [Evt -> EvtType]
      BY <1>0, <2>2, <2>3
    <2> QED
      BY <1>5, <2>4 DEF TypeOK, CmdBreak, clocks, loopVars, dbgVars
  <1> QED
    BY <1>1, <1>2, <1>3, <1>4, <1>5 DEF Debug

\* An event of the type that is popped or called keeps the type of all.
LEMMA BeginTypes ==
  ASSUME TypeOK, NEW e \in Evt, Begin(e)
  PROVE  evt' \in [Evt -> EvtType] /\ run' \in Evt /\ curTime' \in Nat
  <1>1. evt \in [Evt -> EvtType] /\ evt[e] \in EvtType
    BY DEF TypeOK
  <1>2. Called(evt[e]) \in EvtType
    BY <1>1, OutFields
  <1> QED
    BY <1>1, <1>2 DEF TypeOK, Begin, Clock

\* Taking the first deferred callback leaves a list of them.
LEMMA DeferredTypes ==
  ASSUME TypeOK, RunDeferred
  PROVE  deferred' \in Seq([id : Dfr, cb : BOOLEAN]) /\ run' \in Dfr \cup {None}
  <1> DEFINE D == [id : Dfr, cb : BOOLEAN]
  <1>1. Head(deferred) \in D /\ Tail(deferred) \in Seq(D)
    <2>1. deferred \in Seq(D) /\ deferred # <<>>
      BY DEF RunDeferred, TypeOK
    <2> HIDE DEF D
    <2> QED
      BY <2>1
  <1>2. Head(deferred).id \in Dfr
    BY <1>1
  <1> QED
    BY <1>1, <1>2 DEF RunDeferred

\* The steps of the loop that no queue decides keep the types.
LEMMA LoopTypes == TypeOK /\ LoopStep => TypeOK'
  <1> SUFFICES ASSUME TypeOK, LoopStep PROVE TypeOK'
    OBVIOUS
  <1> USE SchedAssumption
  <1>0. /\ now \in Nat /\ mono \in Nat /\ evt \in [Evt -> EvtType] /\ FreeEvt \in EvtType
        /\ MonoEvt(ReplyWait, "reply") \in EvtType
    <2>1. now \in Nat /\ mono \in Nat /\ evt \in [Evt -> EvtType]
      BY DEF TypeOK
    <2> QED
      BY <2>1, NewFields
  <1>1. CASE LoopCheck
    <2>1. inLoop' \in BOOLEAN
      BY <1>1 DEF LoopCheck, TypeOK
    <2>2. pc' \in Places
      BY <1>1 DEF LoopCheck
    <2> QED
      BY <1>1, <2>1, <2>2 DEF TypeOK, LoopCheck, clocks, dbgVars
  <1>2. CASE StepTimed
    <2>1. evt' \in [Evt -> EvtType] /\ run' \in Evt \cup Dfr \cup {None, "fd", "client"}
          /\ curTime' \in Nat
      BY <1>2, BeginTypes DEF StepTimed, TypeOK
    <2> QED
      BY <1>2, <2>1 DEF TypeOK, StepTimed, clocks
  <1>3. CASE StepFd
    BY <1>3 DEF TypeOK, StepFd, clocks, dbgVars
  <1>4. CASE StepDone
    <2>1. /\ dbgStep' \in BOOLEAN /\ timePaused' \in BOOLEAN
          /\ keepGoing' \in BOOLEAN /\ inLoop' \in BOOLEAN
      BY <1>4, Zenon DEF StepDone, TopHalf, Holding, TypeOK
    <2>2. pc' \in Places
      BY <1>4 DEF StepDone, TopHalf
    <2> QED
      BY <1>4, <2>1, <2>2 DEF TypeOK, StepDone, TopHalf, clocks
  <1>5. ASSUME NEW f \in {"fd", "client"}, NEW b \in BOOLEAN, DispatchFd(f, b)
        PROVE  TypeOK'
    <2>1. breakNext' \in BOOLEAN
      BY <1>5, Zenon DEF DispatchFd, Stop, TypeOK
    <2>2. stepsToBreak' \in Nat
      BY <1>5 DEF DispatchFd, Decremented, TypeOK
    <2>3. /\ nextFd' \in {None, "fd", "client"} /\ pc' \in Places
          /\ run' \in Evt \cup Dfr \cup {None, "fd", "client"}
          /\ dbgState' \in {"disabled", "enabled", "stopped"}
      BY <1>5, Zenon DEF DispatchFd, Stop, TypeOK
    <2> QED
      BY <1>5, <2>1, <2>2, <2>3 DEF TypeOK, DispatchFd, clocks
  <1>6. CASE ReturnFd
    BY <1>6 DEF TypeOK, ReturnFd, clocks
  <1>7. CASE FdDone
    BY <1>7 DEF TypeOK, FdDone, clocks, dbgVars
  <1>8. CASE RunDeferred
    BY <1>8, DeferredTypes DEF TypeOK, RunDeferred, clocks, dbgVars
  <1>9. CASE ReturnDeferred
    BY <1>9 DEF TypeOK, ReturnDeferred, clocks, dbgVars
  <1>10. CASE DeferDone
    BY <1>10 DEF TypeOK, DeferDone, EndDeferred, clocks, dbgVars
  <1>11. ASSUME NEW p \in BOOLEAN, EndIteration(p) PROVE TypeOK'
    <2>1. Answers(p)
      BY <1>11 DEF EndIteration
    <2>2. evt' \in [Evt -> EvtType] /\ replyEvt' \in Evt \cup {None}
      <3>1. replyEvt \in Evt \cup {None}
        BY DEF TypeOK
      <3>2. \/ UNCHANGED <<evt, replyEvt>>
            \/ \E e \in Evt : replyEvt' = e /\ evt' = [evt EXCEPT ![e] = MonoEvt(ReplyWait, "reply")]
            \/ /\ replyEvt' = None
               /\ evt' = IF replyEvt = None THEN evt ELSE [evt EXCEPT ![replyEvt] = FreeEvt]
        BY <2>1, Zenon DEF Answers
      <3> QED
        BY <1>0, <3>1, <3>2
    <2>3. dbgStep' \in BOOLEAN
      BY <2>1, Zenon DEF Answers, TypeOK
    <2> QED
      BY <1>11, <2>2, <2>3 DEF TypeOK, EndIteration, clocks
  <1> QED
    BY <1>1, <1>2, <1>3, <1>4, <1>5, <1>6, <1>7, <1>8, <1>9, <1>10, <1>11 DEF LoopStep

\* The steps that take events from a queue, or put them back, keep the types.
LEMMA QueueTypes == TypeOK /\ QueueStep => TypeOK'
  <1> SUFFICES ASSUME TypeOK, QueueStep PROVE TypeOK'
    OBVIOUS
  <1> USE SchedAssumption
  <1>0. evt \in [Evt -> EvtType] /\ FreeEvt \in EvtType
    BY NewFields DEF TypeOK
  <1>1. CASE Select
    <2>1. \E r \in {"timeout", "ready"} \cup Failures : Block(r)
      BY <1>1 DEF Select
    <2> QED
      BY <2>1 DEF TypeOK, Block, clocks, dbgVars
  <1>2. ASSUME NEW e \in Evt, DispatchTimed(e) PROVE TypeOK'
    <2>1. Process(e)
      BY <1>2 DEF DispatchTimed
    <2>2. /\ breakNext' \in BOOLEAN /\ pc' \in Places
          /\ nextTimed' \in Evt \cup {None, NullEvt}
          /\ dbgState' \in {"disabled", "enabled", "stopped"}
      BY <2>1, Zenon DEF Process, Stop, TypeOK
    <2>3. stepsToBreak' \in Nat
      BY <2>1 DEF Process, Decremented, TypeOK
    <2>4. /\ evt' \in [Evt -> EvtType] /\ curTime' \in Nat
          /\ run' \in Evt \cup Dfr \cup {None, "fd", "client"}
      <3>1. \/ evt' = [evt EXCEPT ![e] = Popped(evt[e])] /\ UNCHANGED <<run, curTime>>
            \/ Begin(e)
        BY <2>1, Zenon DEF Process
      <3>2. Popped(evt[e]) \in EvtType
        BY <1>0, OutFields
      <3> QED
        BY <1>0, <3>1, <3>2, BeginTypes, EvtUpdate DEF TypeOK
    <2> QED
      BY <2>1, <2>2, <2>3, <2>4 DEF TypeOK, Process, clocks
  <1>3. CASE TimedDone
    BY <1>3 DEF TypeOK, TimedDone, clocks, dbgVars
  <1>4. ASSUME NEW e \in Evt, DispatchMono(e) PROVE TypeOK'
    BY <1>4, BeginTypes DEF TypeOK, DispatchMono, clocks, dbgVars
  <1>5. CASE MonoDone
    <2>1. pc' \in Places /\ ret' = "none"
      BY <1>5, Zenon DEF MonoDone
    <2> QED
      BY <1>5, <2>1 DEF TypeOK, MonoDone, clocks, dbgVars
  <1>6. ASSUME NEW keep \in BOOLEAN, Return(keep) PROVE TypeOK'
    <2>1. run \in Evt /\ curTime \in Nat /\ evt[run] \in EvtType
      BY <1>6 DEF Return, TypeOK
    <2>2. Kept(evt[run], curTime) \in EvtType
      BY <2>1, KeptFields
    <2>3. evt' = [evt EXCEPT ![run] = Kept(evt[run], curTime)] \/ evt' = [evt EXCEPT ![run] = FreeEvt]
      BY <1>6, Zenon DEF Return
    <2>4. evt' \in [Evt -> EvtType]
      BY <1>0, <2>1, <2>2, <2>3
    <2>5. critCount' \in Int
      BY <1>6 DEF Return, TypeOK
    <2> QED
      BY <1>6, <2>4, <2>5 DEF TypeOK, Return, clocks
  <1> QED
    BY <1>1, <1>2, <1>3, <1>4, <1>5, <1>6 DEF QueueStep

\* Every variable keeps its type: no call, command or step of the loop leaves a
\* field of the handler or of an event with a value its users do not expect.
THEOREM TypeCorrect == Spec => []TypeOK
  <1>1. TypeOK /\ [Next]_vars => TypeOK'
    <2> SUFFICES ASSUME TypeOK, [Next]_vars PROVE TypeOK'
      OBVIOUS
    <2>1. CASE Free
      <3>1. evt' \in [Evt -> EvtType]
        BY <2>1, NewFields DEF Free, TypeOK
      <3> QED
        BY <2>1, <3>1 DEF TypeOK, Free, clocks, dbgVars
    <2>2. CASE Tick
      BY <2>2 DEF TypeOK, Tick, loopVars, dbgVars
    <2>3. CASE UNCHANGED vars
      BY <2>3 DEF TypeOK, vars, clocks, loopVars, dbgVars
    <2> QED
      BY <2>1, <2>2, <2>3, CallTypes, DebugTypes, LoopTypes, QueueTypes DEF Next
  <1> QED
    BY <1>1, InitTypes, PTL DEF Spec
=============================================================================
