----------------------------- MODULE SchedProofs ----------------------------
(***************************************************************************)
(* The steps of the loop and of its queues preserve the invariant, and the *)
(* theorems that follow from it, for any sets of events and deferred       *)
(* events, any delays and any use of the API and the debugger.             *)
(***************************************************************************)
EXTENDS SchedCalls

USE DEF Failures, Kinds, Places
-----------------------------------------------------------------------------
\* The callback of event e starts: e was in a queue, or held by the debugger.
LEMMA BeginInv ==
  ASSUME Inv, Intact, TypeOK', Control', Halted', NEW e \in Evt, Begin(e),
         UNCHANGED <<critCount, nextTimed, replyEvt, breakEvt, dumpEvt>>,
         run \notin Evt, Live(e), nextTimed = e \/ nextTimed \notin Evt \/ evt[e].st = "queued"
  PROVE  Inv'
  <1> USE SchedAssumption
  <1> DEFINE r == Called(evt[e])
  <1>1. evt' = [evt EXCEPT ![e] = r] /\ run' = e
    BY DEF Begin
  <1>2. /\ r \in EvtType /\ r.st = "out" /\ r.in = 1 /\ r.q = evt[e].q
        /\ r.crit = evt[e].crit /\ r.kind = evt[e].kind
    BY EvtFacts, OutFields
  <1> HIDE DEF r
  <1>3. critCount' = critCount + (IF r.st # "free" /\ r.crit = TRUE THEN 1 ELSE 0)
                       - (IF Live(e) /\ evt[e].crit = TRUE THEN 1 ELSE 0)
    BY <1>2 DEF Inv, TypeOK
  <1>4. /\ Pointer(replyEvt, replyEvt', e, r, "reply")
        /\ Pointer(breakEvt, breakEvt', e, r, "break")
        /\ Pointer(dumpEvt, dumpEvt', e, r, "dump")
    BY <1>2, EvtFacts DEF Pointer
  <1>5. /\ r.st = "out" <=> e \in {run', nextTimed'}
        /\ r.in # 0 <=> run' = e
        /\ \A x \in Evt \ {e} : /\ x \in {run', nextTimed'} <=> x \in {run, nextTimed}
                                /\ run' = x <=> run = x
        /\ nextTimed' \in Evt => \/ nextTimed' = e /\ r.q = "virt"
                                 \/ nextTimed' = nextTimed /\ nextTimed' # e
    BY <1>1, <1>2, EvtFacts
  <1>6. (r.kind # "user" => r.crit = FALSE) /\ (r.kind \in {"reply", "dump"} => r.q = "mono")
    BY Zenon, <1>2, EvtFacts
  <1> QED
    BY Zenon, <1>1, <1>2, <1>3, <1>4, <1>5, <1>6, Replace

\* The steps of the loop that no queue decides keep the invariant.
LEMMA LoopInv == Inv /\ LoopStep => Inv'
  <1> SUFFICES ASSUME Inv, LoopStep PROVE Inv'
    OBVIOUS
  <1>t. TypeOK /\ TypeOK'
    BY LoopTypes DEF Inv
  <1> USE SchedAssumption
  <1>0. CASE ~Intact
    <2>1. pc' = pc
      BY Zenon, <1>0 DEF LoopStep, LoopCheck, StepTimed, StepFd, StepDone, TopHalf, DispatchFd,
            ReturnFd, FdDone, RunDeferred, ReturnDeferred, DeferDone, EndDeferred,
            EndIteration, Intact
    <2> QED
      BY <1>0, <1>t, <2>1, Wrecked DEF Intact
  <1>1. ASSUME Intact, LoopCheck \/ FdDone \/ DeferDone PROVE Inv'
    <2>1. /\ UNCHANGED <<evt, critCount, run, timePaused, dbgVars>>
          /\ \/ pc \in {"top", "threads"} /\ pc' \in {"threads", "step", "outside"}
             \/ pc \in {"fd", "defer"} /\ run = None /\ pc' \in {"defer", "tail"}
      BY <1>1, Zenon DEF LoopCheck, FdDone, DeferDone, EndDeferred
    <2>2. Control' /\ Halted'
      BY Zenon, <2>1 DEF Inv, Control, Halted, Intact, dbgVars
    <2> QED
      BY <1>1, <1>t, <2>1, <2>2, Frame DEF dbgVars
  <1>2. ASSUME Intact, StepTimed PROVE Inv'
    <2>1. CASE nextTimed = NullEvt
      <3>1. /\ UNCHANGED <<evt, critCount, run, pc, nextFd, timePaused, dbgStep, replyEvt, breakEvt,
                           dumpEvt>>
            /\ pc = "step" /\ dbgStep /\ nextTimed' = None /\ dbgState' = "enabled"
        BY <1>2, <2>1 DEF StepTimed
      <3>2. Control' /\ Halted'
        BY <2>1, <3>1, <1>2 DEF Inv, Control, Halted, Intact
      <3> QED
        BY <1>2, <1>t, <2>1, <3>1, <3>2, Frame
    <2>2. CASE nextTimed # NullEvt
      <3>1. /\ Begin(nextTimed) /\ nextTimed \in Evt /\ run = None
            /\ UNCHANGED <<critCount, pc, nextTimed, nextFd, timePaused, dbgState, dbgStep,
                           replyEvt, breakEvt, dumpEvt>>
            /\ pc = "step" /\ dbgStep
        BY <1>2, <1>t, <2>2 DEF StepTimed, TypeOK
      <3>2. Control' /\ Halted'
        BY Zenon, <3>1, <1>2 DEF Inv, Control, Halted, Intact, Begin
      <3>3. Live(nextTimed)
        BY Zenon, <1>2, <3>1, EvtFacts DEF Live
      <3> QED
        BY <1>2, <1>t, <3>1, <3>2, <3>3, BeginInv
    <2> QED
      BY <2>1, <2>2
  <1>3. ASSUME Intact, StepFd PROVE Inv'
    <2>1. /\ UNCHANGED <<evt, critCount, pc, timePaused, dbgVars>>
          /\ pc = "step" /\ dbgStep /\ run = None /\ run' \in {"fd", "client"}
      BY <1>3, <1>t DEF StepFd, TypeOK
    <2>2. Control' /\ Halted'
      BY <1>3, <2>1 DEF Inv, Control, Halted, Intact, dbgVars
    <2> QED
      BY <1>3, <1>t, <2>1, <2>2, Frame DEF dbgVars
  <1>4. ASSUME Intact, StepDone PROVE Inv'
    <2>1. /\ UNCHANGED <<evt, critCount, run, nextTimed, nextFd, dbgState, replyEvt, breakEvt,
                         dumpEvt>>
          /\ pc = "step" /\ pc' \in {"select", "outside"} /\ run = None
          /\ ~(dbgStep /\ (nextTimed # None \/ nextFd # None))
          /\ nextTimed # None => timePaused' = TRUE
      BY <1>4, Zenon DEF StepDone, TopHalf, Holding
    <2>2. Control' /\ Halted'
      BY <1>4, <2>1 DEF Inv, Control, Halted, Intact
    <2> QED
      BY <1>4, <1>t, <2>1, <2>2, Frame
  <1>5. ASSUME Intact, NEW f \in {"fd", "client"}, NEW b \in BOOLEAN, DispatchFd(f, b)
        PROVE  Inv'
    <2>1. /\ UNCHANGED <<evt, critCount, nextTimed, timePaused, dbgStep, replyEvt, breakEvt, dumpEvt>>
          /\ pc = "fd" /\ run = None
          /\ \/ nextFd' = f /\ dbgState' = "stopped" /\ pc' = "defer" /\ run' = run
             \/ run' = f /\ UNCHANGED <<nextFd, dbgState, pc>>
      BY <1>5, Zenon DEF DispatchFd, Stop
    <2>2. Control' /\ Halted'
      BY <1>5, <2>1 DEF Inv, Control, Halted, Intact
    <2> QED
      BY <1>5, <1>t, <2>1, <2>2, Frame
  <1>6. ASSUME Intact, ReturnFd PROVE Inv'
    <2>1. /\ UNCHANGED <<evt, critCount, pc, nextTimed, timePaused, dbgStep, replyEvt, breakEvt,
                         dumpEvt>>
          /\ run \in {"fd", "client"} /\ run' = None
          /\ \/ pc = "step" /\ nextFd' = None /\ dbgState' = "enabled"
             \/ pc # "step" /\ UNCHANGED <<nextFd, dbgState>>
      BY <1>6, Zenon DEF ReturnFd
    <2>2. Control' /\ Halted'
      BY <1>6, <2>1 DEF Inv, Control, Halted, Intact
    <2> QED
      BY <1>6, <1>t, <2>1, <2>2, Frame
  <1>7. ASSUME Intact, RunDeferred \/ ReturnDeferred PROVE Inv'
    <2>1. /\ UNCHANGED <<evt, critCount, pc, timePaused, dbgVars>>
          /\ run \notin Evt
          /\ pc \in {"defer", "freeing"} \/ run' = None
      BY <1>7 DEF RunDeferred, ReturnDeferred
    <2>2. run' \notin Evt
      BY <1>7, <1>t, DeferredTypes DEF ReturnDeferred
    <2>3. Control' /\ Halted'
      BY <1>7, <2>1, <2>2 DEF Inv, Control, Halted, Intact, dbgVars
    <2> QED
      BY <1>7, <1>t, <2>1, <2>2, <2>3, Frame DEF dbgVars
  <1>8. ASSUME Intact, NEW pending \in BOOLEAN, EndIteration(pending) PROVE Inv'
    <2>0. /\ UNCHANGED <<critCount, run, nextTimed, nextFd, dbgState, breakEvt, dumpEvt>>
          /\ pc = "tail" /\ pc' = "top" /\ Answers(pending)
      BY <1>8 DEF EndIteration
    <2>1. Control' /\ Halted'
      BY <1>8, <2>0 DEF Inv, Control, Halted, Intact
    <2>2. CASE UNCHANGED <<evt, replyEvt>>
      BY <1>8, <1>t, <2>0, <2>1, <2>2, Frame
    <2>3. CASE ~UNCHANGED <<evt, replyEvt>>
      <3> DEFINE r == MonoEvt(ReplyWait, "reply")
      <3>1. \/ replyEvt = None /\ replyEvt' # None /\ evt[replyEvt'].st = "free"
               /\ evt' = [evt EXCEPT ![replyEvt'] = r]
            \/ replyEvt' = None /\ replyEvt # None /\ evt' = [evt EXCEPT ![replyEvt] = FreeEvt]
        BY <2>0, <2>3 DEF Answers, Live
      <3>2. /\ r \in EvtType /\ r.st = "queued" /\ r.in = 0 /\ r.crit = FALSE
            /\ r.kind = "reply" /\ r.q = "mono"
        BY Zenon, <1>8, EvtFacts, NewFields DEF MonoEvt
      <3>3. replyEvt \in Evt \cup {None} /\ replyEvt' \in Evt \cup {None}
        BY <1>t DEF TypeOK
      <3> HIDE DEF r
      <3>4. \A x \in Evt : evt'[x] = IF x = replyEvt' THEN r
                                     ELSE IF x = replyEvt THEN FreeEvt ELSE evt[x]
        BY <1>8, <3>1, <3>3, EvtFacts
      <3>5. replyEvt # None => evt[replyEvt].kind # "user" /\ run # replyEvt
        BY Zenon, <1>8, <2>0, EvtFacts DEF Inv, Control
      <3>6. nextTimed' = nextTimed /\ (nextTimed # replyEvt \/ replyEvt = None)
        BY Zenon, <1>8, <2>0, EvtFacts
      <3>7. /\ TimerPointer(replyEvt, replyEvt', replyEvt, replyEvt', r, "reply")
            /\ TimerPointer(replyEvt, replyEvt', breakEvt, breakEvt', r, "break")
            /\ TimerPointer(replyEvt, replyEvt', dumpEvt, dumpEvt', r, "dump")
        BY <1>8, <2>0, <3>1, <3>2, EvtFacts DEF TimerPointer, Live
      <3>8. Swapped(replyEvt, replyEvt', r)
        BY <2>0, <3>1, <3>2, <3>3, <3>4, <3>5, <3>6, <3>7 DEF Swapped
      <3> QED
        BY <1>8, <1>t, <2>1, <3>8, Swap
    <2> QED
      BY <2>2, <2>3
  <1> QED
    BY <1>0, <1>1, <1>2, <1>3, <1>4, <1>5, <1>6, <1>7, <1>8 DEF LoopStep

\* The steps that take events from a queue, or put them back, keep the
\* invariant.
LEMMA QueueInv == Inv /\ QueueStep => Inv'
  <1> SUFFICES ASSUME Inv, QueueStep PROVE Inv'
    OBVIOUS
  <1>t. TypeOK /\ TypeOK'
    BY QueueTypes DEF Inv
  <1> USE SchedAssumption
  <1>0. CASE ~Intact
    <2>1. pc' = pc
      BY <1>0 DEF QueueStep, Select, Block, DispatchTimed, Process, TimedDone, DispatchMono,
            MonoDone, Return, Intact
    <2> QED
      BY <1>0, <1>t, <2>1, Wrecked DEF Intact
  <1>1. ASSUME Intact, Select \/ TimedDone \/ MonoDone PROVE Inv'
    <2>1. /\ UNCHANGED <<evt, critCount, run, timePaused, dbgVars>>
          /\ \/ pc = "select" /\ pc' = "timed"
             \/ pc = "timed" /\ run = None /\ pc' = "mono"
             \/ pc = "mono" /\ run = None /\ pc' \in {"fd", "top", "outside", "defer"}
      BY <1>1, Zenon DEF Select, Block, TimedDone, MonoDone
    <2>2. Control' /\ Halted'
      BY <1>1, <2>1 DEF Inv, Control, Halted, Intact, dbgVars
    <2> QED
      BY <1>1, <1>t, <2>1, <2>2, Frame DEF dbgVars
  <1>2. ASSUME Intact, NEW e \in Evt, IsHead("virt", e), Process(e) PROVE Inv'
    <2>0. evt[e].st = "queued" /\ evt[e].q = "virt" /\ Live(e)
      BY <1>2 DEF IsHead, Queued, Live
    <2>1. /\ UNCHANGED <<critCount, timePaused, nextFd, dbgStep, replyEvt, breakEvt, dumpEvt>>
          /\ pc = "timed" /\ run = None /\ ~timePaused
          /\ \/ /\ evt' = [evt EXCEPT ![e] = Popped(evt[e])]
                /\ nextTimed' = e /\ dbgState' = "stopped" /\ pc' = "defer" /\ run' = run
             \/ Begin(e) /\ UNCHANGED <<pc, nextTimed, dbgState>>
      BY <1>2, Zenon DEF Process, Stop
    <2>2. nextTimed = None
      BY Zenon, <1>2, <2>1 DEF Inv, Control
    <2>3. CASE Begin(e) /\ UNCHANGED <<pc, nextTimed, dbgState>>
      <3>1. Control' /\ Halted'
        BY Zenon, <1>2, <2>1, <2>2, <2>3 DEF Inv, Control, Halted, Intact, Begin
      <3> QED
        BY <1>2, <1>t, <2>0, <2>1, <2>2, <2>3, <3>1, BeginInv
    <2>4. CASE /\ evt' = [evt EXCEPT ![e] = Popped(evt[e])]
               /\ nextTimed' = e /\ dbgState' = "stopped" /\ pc' = "defer" /\ run' = run
      <3>1. Control' /\ Halted'
        BY Zenon, <1>2, <2>1, <2>2, <2>4 DEF Inv, Control, Halted, Intact
      <3> DEFINE r == Popped(evt[e])
      <3>2. /\ r \in EvtType /\ r.st = "out" /\ r.in = evt[e].in /\ r.q = evt[e].q
            /\ r.crit = evt[e].crit /\ r.kind = evt[e].kind
        BY <1>2, EvtFacts, OutFields
      <3>3. evt' = [evt EXCEPT ![e] = r]
        BY <2>4
      <3> HIDE DEF r
      <3>4. critCount' = critCount + (IF r.st # "free" /\ r.crit = TRUE THEN 1 ELSE 0)
                           - (IF Live(e) /\ evt[e].crit = TRUE THEN 1 ELSE 0)
        BY <1>t, <2>0, <2>1, <3>2 DEF TypeOK
      <3>5. /\ Pointer(replyEvt, replyEvt', e, r, "reply")
            /\ Pointer(breakEvt, breakEvt', e, r, "break")
            /\ Pointer(dumpEvt, dumpEvt', e, r, "dump")
        BY <1>2, <2>1, <3>2, EvtFacts DEF Pointer
      <3>6. /\ r.st = "out" <=> e \in {run', nextTimed'}
            /\ r.in # 0 <=> run' = e
            /\ \A x \in Evt \ {e} : /\ x \in {run', nextTimed'} <=> x \in {run, nextTimed}
                                    /\ run' = x <=> run = x
            /\ nextTimed' = e /\ r.q = "virt"
        BY Zenon, <1>2, <2>0, <2>1, <2>2, <2>4, <3>2, EvtFacts
      <3>7. /\ r.kind # "user" => r.crit = FALSE
            /\ r.kind \in {"reply", "dump"} => r.q = "mono"
        BY Zenon, <1>2, <3>2, EvtFacts
      <3> QED
        BY Zenon, <1>2, <1>t, <3>1, <3>2, <3>3, <3>4, <3>5, <3>6, <3>7, Replace
    <2> QED
      BY <2>1, <2>3, <2>4
  <1>3. ASSUME Intact, NEW e \in Evt, IsHead("mono", e), DispatchMono(e) PROVE Inv'
    <2>0. evt[e].st = "queued" /\ Live(e)
      BY Zenon, <1>3 DEF IsHead, Queued, Live
    <2>1. /\ UNCHANGED <<critCount, timePaused, pc, dbgVars>>
          /\ pc = "mono" /\ run = None /\ Begin(e)
      BY <1>3 DEF DispatchMono
    <2>2. nextTimed # e
      BY Zenon, <1>3, <2>0, EvtFacts
    <2>3. Control' /\ Halted'
      BY Zenon, <1>3, <2>1, <2>2 DEF Inv, Control, Halted, Intact, Begin, dbgVars
    <2> QED
      BY Zenon, <1>3, <1>t, <2>0, <2>1, <2>3, BeginInv DEF dbgVars
  <1>4. ASSUME Intact, NEW keep \in BOOLEAN, Return(keep) PROVE Inv'
    <2> DEFINE e == run
               r == IF keep THEN Kept(evt[e], curTime) ELSE FreeEvt
    <2>0. /\ e \in Evt /\ evt[e] \in EvtType /\ curTime \in Nat /\ evt[e].st = "out" /\ Live(e)
          /\ run' = None
      <3>1. run \in Evt /\ run' = None
        BY <1>4 DEF Return
      <3>2. evt \in [Evt -> EvtType] /\ curTime \in Nat
        BY <1>t DEF TypeOK
      <3>3. evt[run].st = "out"
        BY Zenon, <1>4, <3>1, EvtFacts
      <3> QED
        BY <3>1, <3>2, <3>3 DEF Live
    <2>1. /\ UNCHANGED <<pc, timePaused, nextFd, dbgStep, dumpEvt>>
          /\ \/ pc = "step" /\ nextTimed' = None /\ dbgState' = "enabled"
             \/ pc # "step" /\ UNCHANGED <<nextTimed, dbgState>>
          /\ replyEvt' = IF evt[e].kind = "reply" THEN None ELSE replyEvt
          /\ breakEvt' = IF evt[e].kind = "break" THEN None ELSE breakEvt
          /\ ~keep => evt[e].kind \in {"user", "break"}
      <3>1. evt[e].kind \in Kinds
        BY Zenon, <2>0 DEF EvtType
      <3> QED
        BY <1>4, <3>1 DEF Return
    <2>2. evt' = [evt EXCEPT ![e] = r]
      BY <1>4, Zenon DEF Return
    <2>3. pc = "step" <=> nextTimed = e
      BY <1>4, <2>0 DEF Inv, Control
    <2>4. Control' /\ Halted'
      BY <1>4, <2>0, <2>1 DEF Inv, Control, Halted, Intact
    <2>5. /\ r \in EvtType /\ r.st # "out" /\ r.in = 0
          /\ keep => r.st # "free" /\ r.q = evt[e].q /\ r.crit = evt[e].crit
                     /\ r.kind = evt[e].kind
          /\ ~keep => r = FreeEvt
      <3>1. CASE keep
        <4>1. r = Kept(evt[e], curTime)
          BY <3>1
        <4> QED
          BY <2>0, <3>1, <4>1, KeptFields
      <3>2. CASE ~keep
        BY <1>4, <3>2, EvtFacts
      <3> QED
        BY Zenon, <3>1, <3>2
    <2>6. evt[e].crit \in BOOLEAN /\ critCount \in Int
      BY <1>t, <2>0 DEF EvtType, TypeOK
    <2>7. critCount' = critCount - (IF ~keep /\ evt[e].crit = TRUE THEN 1 ELSE 0)
      BY <1>4, <2>6 DEF Return
    <2> HIDE DEF r
    <2>8. critCount' = critCount + (IF r.st # "free" /\ r.crit = TRUE THEN 1 ELSE 0)
                         - (IF Live(e) /\ evt[e].crit = TRUE THEN 1 ELSE 0)
      <3>1. CASE keep
        BY <2>0, <2>5, <2>6, <2>7, <3>1
      <3>2. CASE ~keep
        BY <1>4, <2>0, <2>5, <2>6, <2>7, <3>2, EvtFacts
      <3> QED
        BY Zenon, <3>1, <3>2
    <2>9. /\ Pointer(replyEvt, replyEvt', e, r, "reply")
          /\ Pointer(breakEvt, breakEvt', e, r, "break")
          /\ Pointer(dumpEvt, dumpEvt', e, r, "dump")
      BY ZenonT(30), <1>4, <2>0, <2>1, <2>5, EvtFacts DEF Pointer
    <2>10. /\ r.st = "out" <=> e \in {run', nextTimed'}
           /\ r.in # 0 <=> run' = e
           /\ \A x \in Evt \ {e} : /\ x \in {run', nextTimed'} <=> x \in {run, nextTimed}
                                   /\ run' = x <=> run = x
           /\ nextTimed' \in Evt => nextTimed' = nextTimed /\ nextTimed' # e
      BY <2>0, <2>1, <2>3, <2>5
    <2>11. /\ r.kind # "user" => r.crit = FALSE
           /\ r.kind \in {"reply", "dump"} => r.q = "mono"
      <3>1. ~keep => r.kind = "user"
        BY <1>4, <2>5, EvtFacts
      <3>2. keep => /\ r.kind # "user" => r.crit = FALSE
                    /\ r.kind \in {"reply", "dump"} => r.q = "mono"
        BY Zenon, <1>4, <2>0, <2>5, EvtFacts
      <3> QED
        BY <3>1, <3>2
    <2> QED
      BY Zenon, <1>4, <1>t, <2>0, <2>2, <2>4, <2>5, <2>8, <2>9, <2>10, <2>11, Replace
  <1> QED
    BY Zenon, <1>0, <1>1, <1>2, <1>3, <1>4 DEF QueueStep, DispatchTimed

\* Every step keeps the invariant.
LEMMA InvStep == Inv /\ [Next]_vars => Inv'
  <1> SUFFICES ASSUME Inv, [Next]_vars PROVE Inv'
    OBVIOUS
  <1>t. TypeOK
    BY DEF Inv
  <1>1. CASE Free
    <2>0. TypeOK'
      <3>1. evt' \in [Evt -> EvtType]
        BY <1>1, <1>t, NewFields DEF Free, TypeOK
      <3> QED
        BY <1>1, <1>t, <3>1 DEF TypeOK, Free, clocks, dbgVars
    <2>1. CASE pc' = "gone"
      BY <2>0, <2>1, Wrecked DEF Intact
    <2>2. CASE pc' # "gone"
      <3>1. /\ UNCHANGED <<evt, critCount, run, timePaused, dbgVars>>
            /\ pc = "outside" /\ pc' = "freeing"
        BY <1>1, <2>2 DEF Free
      <3>2. Control' /\ Halted' /\ Intact
        BY <3>1 DEF Inv, Control, Halted, Intact, dbgVars
      <3> QED
        BY <2>0, <3>1, <3>2, Frame DEF dbgVars
    <2> QED
      BY <2>1, <2>2
  <1>2. CASE Tick \/ UNCHANGED vars
    <2>1. UNCHANGED <<evt, critCount, deferred, loopVars, dbgVars>>
      BY <1>2 DEF Tick, vars
    <2>2. now' \in Nat /\ mono' \in Nat
      BY <1>2, <1>t DEF TypeOK, Tick, vars, clocks
    <2>3. TypeOK'
      BY <1>t, <2>1, <2>2 DEF TypeOK, loopVars, dbgVars
    <2>4. Control' /\ Halted' /\ (Intact' => Intact)
      BY <2>1 DEF Inv, Control, Halted, Intact, loopVars, dbgVars
    <2> QED
      BY <2>1, <2>3, <2>4, Frame DEF loopVars, dbgVars
  <1> QED
    BY <1>1, <1>2, CallInv, DebugInv, LoopInv, QueueInv DEF Next

\* critical_sched_count always equals the number of critical events: no order
\* of adds, removals, set_critical calls, holds and returns makes it drift.
THEOREM CriticalCountExact == Spec => []CriticalCount
  <1>1. Inv => CriticalCount
    BY DEF Inv
  <1> QED
    BY <1>1, InitInv, InvStep, PTL DEF Spec

\* An event is in a queue, held, or in its callback, and in one of these only.
THEOREM NoEventLost == Spec => []EventsAccounted
  <1>1. Inv => EventsAccounted
    BY DEF Inv
  <1> QED
    BY <1>1, InitInv, InvStep, PTL DEF Spec

\* next_timed_event and the debugger's timer handles never dangle while the
\* handler exists.
THEOREM NoDanglingHandle == Spec => []HandlesLive
  <1>1. Inv => HandlesLive
    BY DEF Inv
  <1> QED
    BY <1>1, InitInv, InvStep, PTL DEF Spec

\* dbg_state is EDBG_STOPPED exactly while the loop holds an event.
THEOREM StoppedExact == Spec => []StoppedIffHeld
  <1>1. Inv => StoppedIffHeld
    BY DEF Inv, Halted, StoppedIffHeld
  <1> QED
    BY <1>1, InitInv, InvStep, PTL DEF Spec

\* The automatic exit is taken when, and only when, no critical event is left.
THEOREM AutoExitSound == Spec => AutoExitExact
  <1> DEFINE A == /\ pc = "step" /\ pc' = "outside" => CriticalEvts = {}
                  /\ AutoExit /\ pc = "step" /\ pc' = "select" => CriticalEvts # {}
  <1>1. Inv /\ [Next]_vars => [A]_vars
    <2> SUFFICES ASSUME Inv, Next, pc = "step", pc' \in {"outside", "select"} PROVE A
      BY DEF vars, loopVars
    <2>1. StepDone
      BY ZenonT(30) DEF Next, Call, Debug, LoopStep, QueueStep, EVT_sched_add, EVT_sched_add_with_timestep,
        EVT_sched_remove, EVT_sched_update, EVT_sched_update_partial_credit, Retimed,
        EVT_sched_set_critical, EVT_defer_add, EVT_defer_cancel, EVT_exit_loop, Start, SetErrno,
        CmdRun, CmdStop, CmdNext, CmdDump, CmdBreak, LoopCheck, StepTimed, StepFd, DispatchFd,
        ReturnFd, FdDone, RunDeferred, ReturnDeferred, DeferDone, EndDeferred, EndIteration,
        Select, Block, DispatchTimed, Process, TimedDone, DispatchMono, MonoDone, Return, Free,
        Tick, loopVars
    <2>2. critCount = Cardinality(CriticalEvts) /\ IsFiniteSet(CriticalEvts)
      BY CriticalFinite DEF Inv, CriticalCount, Intact
    <2>3. Cardinality(CriticalEvts) \in Nat
          /\ (Cardinality(CriticalEvts) = 0 <=> CriticalEvts = {})
      BY <2>2, FS_EmptySet, FS_CardinalityType
    <2>4. (critCount <= 0) <=> CriticalEvts = {}
      BY <2>2, <2>3
    <2>5. /\ AutoExit /\ critCount <= 0 => pc' = "outside"
          /\ ~(AutoExit /\ critCount <= 0) => pc' = "select"
      BY <2>1, Zenon DEF StepDone, TopHalf
    <2> QED
      BY <2>4, <2>5
  <1> QED
    BY <1>1, InitInv, InvStep, PTL DEF Spec, AutoExitExact

\* While a timed event is held, the virtual queue is paused: the next of its
\* events to run is the held one, in the debugger's single step.
THEOREM HeldRunsFirst == Spec => HeldFirst
  <1> DEFINE A == \A e \in Evt : run # e /\ run' = e /\ evt[e].q = "virt" /\ nextTimed # None
                                   => nextTimed = e /\ dbgStep
  <1>1. Inv /\ [Next]_vars => [A]_vars
    <2> SUFFICES ASSUME Inv, Next, NEW e \in Evt, run # e, run' = e, evt[e].q = "virt",
                        nextTimed # None
                 PROVE  nextTimed = e /\ dbgStep
      BY DEF vars
    <2> USE SchedAssumption
    <2>1. \/ StepTimed
          \/ \E x \in Evt : IsHead("virt", x) /\ DispatchTimed(x)
          \/ \E x \in Evt : IsHead("mono", x) /\ DispatchMono(x)
      <3>1. TypeOK /\ run' \notin {None, "fd", "client"} \cup Dfr
        BY DEF Inv
      <3>2. RunDeferred => run' \in Dfr \cup {None}
        BY <3>1, DeferredTypes
      <3>3. StepFd => run' \in {"fd", "client"}
        BY <3>1 DEF StepFd, TypeOK
      <3>4. ~Call /\ ~Debug
        BY Zenon, <3>1 DEF Call, Debug, EVT_sched_add, EVT_sched_add_with_timestep, EVT_sched_remove,
          EVT_sched_update, EVT_sched_update_partial_credit, Retimed, EVT_sched_set_critical,
          EVT_defer_add, EVT_defer_cancel, EVT_exit_loop, Start, SetErrno, CmdRun, CmdStop,
          CmdNext, CmdDump, CmdBreak, loopVars
      <3>5. ~(LoopStep /\ ~StepTimed)
        BY Zenon, <3>1, <3>2, <3>3 DEF LoopStep, LoopCheck, StepDone, TopHalf, DispatchFd, ReturnFd,
          FdDone, ReturnDeferred, DeferDone, EndDeferred, EndIteration
      <3> QED
        BY <3>1, <3>4, <3>5 DEF Next, QueueStep, Select, Block, TimedDone, MonoDone, Return, Free,
          Tick, loopVars
    <2>2. CASE StepTimed
      BY Zenon, <2>2 DEF StepTimed, Begin
    <2>3. ASSUME NEW x \in Evt, IsHead("virt", x), DispatchTimed(x) PROVE FALSE
      BY Zenon, <2>3 DEF DispatchTimed, Process, Inv, Control, Intact
    <2>4. ASSUME NEW x \in Evt, IsHead("mono", x), DispatchMono(x) PROVE FALSE
      BY Zenon, <2>4 DEF DispatchMono, Begin, IsHead, Queued
    <2> QED
      BY <2>1, <2>2, <2>3, <2>4
  <1> QED
    BY <1>1, InitInv, InvStep, PTL DEF Spec, HeldFirst
=============================================================================
