----------------------------- MODULE SchedCalls -----------------------------
(***************************************************************************)
(* The inductive invariant of the event loop, what a step that replaces    *)
(* one event does to it, and the proof that the library's calls and the    *)
(* debugger's commands and timers preserve it.                             *)
(***************************************************************************)
EXTENDS SchedTypes, FiniteSetTheorems

USE DEF Failures, Kinds, Places
-----------------------------------------------------------------------------
(* The invariant.  What the safety properties need besides themselves is   *)
(* where the callback of a timed event may run and what is held meanwhile  *)
(* (Control), what sets the debugger's own timers apart (OwnTimers), and   *)
(* when the loop counts as stopped (Halted).                               *)

Control ==
  Intact => /\ run \in Evt => /\ pc \in {"step", "timed", "mono"}
                              /\ pc = "step" <=> nextTimed = run
            /\ pc \in {"select", "timed", "mono", "fd"} /\ nextTimed # None => timePaused
            /\ pc = "step" /\ run # None => dbgStep
            /\ pc \in {"outside", "top", "threads", "select", "tail"} => run = None

OwnTimers ==
  Intact => /\ \A e \in Evt : /\ evt[e].kind # "user" => evt[e].crit = FALSE
                              /\ evt[e].kind \in {"reply", "dump"} => evt[e].q = "mono"
            /\ nextTimed \in Evt => evt[nextTimed].q = "virt"

Halted ==
  Intact => /\ nextTimed = None /\ nextFd = None => dbgState # "stopped"
            /\ nextTimed # None \/ nextFd # None
                 => dbgState = "stopped" \/ (pc = "step" /\ dbgStep)

Inv == /\ TypeOK /\ CriticalCount /\ EventsAccounted /\ HandlesLive
       /\ Control /\ OwnTimers /\ Halted

\* There are finitely many critical events to count.
LEMMA CriticalFinite == IsFiniteSet(CriticalEvts) /\ IsFiniteSet(CriticalEvts')
  BY SchedAssumption, FS_Subset DEF CriticalEvts

\* The number of critical events after one event has been replaced.
LEMMA CountOne ==
  ASSUME TypeOK, NEW e \in Evt, NEW r \in EvtType, evt' = [evt EXCEPT ![e] = r],
         critCount = Cardinality(CriticalEvts),
         critCount' = critCount + (IF r.st # "free" /\ r.crit = TRUE THEN 1 ELSE 0)
                        - (IF Live(e) /\ evt[e].crit = TRUE THEN 1 ELSE 0)
  PROVE  critCount' = Cardinality(CriticalEvts')
  <1>0. evt \in [Evt -> EvtType] /\ critCount \in Int
    BY DEF TypeOK
  <1>1. e \in CriticalEvts <=> Live(e) /\ evt[e].crit = TRUE
    BY <1>0 DEF CriticalEvts, EvtType
  <1>2. e \in CriticalEvts' <=> r.st # "free" /\ r.crit = TRUE
    BY <1>0 DEF CriticalEvts, EvtType, Live
  <1>3. ASSUME NEW x \in Evt, x # e PROVE x \in CriticalEvts' <=> x \in CriticalEvts
    BY <1>0, <1>3 DEF CriticalEvts, Live
  <1>4. CriticalEvts \subseteq Evt /\ CriticalEvts' \subseteq Evt
    BY DEF CriticalEvts
  <1>5. CASE e \in CriticalEvts <=> e \in CriticalEvts'
    <2>1. CriticalEvts' = CriticalEvts
      BY <1>3, <1>4, <1>5
    <2> QED
      BY <1>0, <1>1, <1>2, <1>5, <2>1
  <1>6. CASE e \in CriticalEvts /\ e \notin CriticalEvts'
    <2>1. CriticalEvts' = CriticalEvts \ {e}
      BY <1>3, <1>4, <1>6
    <2>2. Cardinality(CriticalEvts') = Cardinality(CriticalEvts) - 1
      BY <1>6, <2>1, CriticalFinite, FS_RemoveElement
    <2> QED
      BY <1>0, <1>1, <1>2, <1>6, <2>2
  <1>7. CASE e \notin CriticalEvts /\ e \in CriticalEvts'
    <2>1. CriticalEvts' = CriticalEvts \cup {e}
      BY <1>3, <1>4, <1>7
    <2>2. Cardinality(CriticalEvts') = Cardinality(CriticalEvts) + 1
      BY <1>7, <2>1, CriticalFinite, FS_AddElement
    <2> QED
      BY <1>0, <1>1, <1>2, <1>7, <2>2
  <1> QED
    BY <1>5, <1>6, <1>7

\* A step that leaves the events and the pointers to them alone.
LEMMA Frame ==
  ASSUME Inv, TypeOK', Intact' => Intact, Control', Halted',
         UNCHANGED <<evt, critCount, replyEvt, breakEvt, dumpEvt>>,
         \A e \in Evt : (run' = e <=> run = e) /\ (nextTimed' = e <=> nextTimed = e)
  PROVE  Inv'
  <1>1. CriticalEvts' = CriticalEvts
    BY DEF CriticalEvts, Live
  <1>2. CriticalCount'
    BY <1>1 DEF Inv, CriticalCount
  <1>3. EventsAccounted' /\ HandlesLive' /\ OwnTimers'
    BY DEF Inv, EventsAccounted, HandlesLive, OwnTimers, Live
  <1> QED
    BY <1>2, <1>3 DEF Inv

\* The context EVT_initWithSize makes satisfies the invariant.
LEMMA InitInv == Init => Inv
  <1> SUFFICES ASSUME Init PROVE Inv
    OBVIOUS
  <1>1. CriticalEvts = {}
    BY DEF Init, CriticalEvts, Live, FreeEvt
  <1>2. CriticalCount
    BY <1>1, FS_EmptySet DEF Init, CriticalCount
  <1>3. EventsAccounted /\ HandlesLive /\ Control /\ OwnTimers
    BY SchedAssumption
    DEF Init, EventsAccounted, HandlesLive, Control, OwnTimers, FreeEvt, Live
  <1>4. Halted
    BY DEF Init, Halted
  <1> QED
    BY InitTypes, <1>2, <1>3, <1>4 DEF Inv

\* A step that replaces event e by r, whatever it does to the loop: r is where
\* the pointers say, the other events stay where they are, and no pointer to e
\* is left unless r is what the pointer is for.
Pointer(old, new, e, r, kind) ==
  new # None => \/ new = e /\ r.st # "free" /\ r.kind = kind
                \/ new = old /\ new # e

\* Replacing one event keeps the invariant when the count of critical events and
\* the pointers of the context follow.
LEMMA Replace ==
  ASSUME Inv, Intact, TypeOK', Control', Halted',
         NEW e \in Evt, NEW r \in EvtType, evt' = [evt EXCEPT ![e] = r],
         critCount' = critCount + (IF r.st # "free" /\ r.crit = TRUE THEN 1 ELSE 0)
                        - (IF Live(e) /\ evt[e].crit = TRUE THEN 1 ELSE 0),
         r.st = "out" <=> e \in {run', nextTimed'},
         r.in # 0 <=> run' = e,
         \A x \in Evt \ {e} : /\ x \in {run', nextTimed'} <=> x \in {run, nextTimed}
                              /\ run' = x <=> run = x,
         nextTimed' \in Evt => \/ nextTimed' = e /\ r.q = "virt"
                               \/ nextTimed' = nextTimed /\ nextTimed' # e,
         Pointer(replyEvt, replyEvt', e, r, "reply"),
         Pointer(breakEvt, breakEvt', e, r, "break"),
         Pointer(dumpEvt, dumpEvt', e, r, "dump"),
         r.kind # "user" => r.crit = FALSE,
         r.kind \in {"reply", "dump"} => r.q = "mono"
  PROVE  Inv'
  <1>0. evt \in [Evt -> EvtType] /\ TypeOK
    BY DEF Inv, TypeOK
  <1>1. evt'[e] = r /\ \A x \in Evt \ {e} : evt'[x] = evt[x]
    BY <1>0
  <1>2. CriticalCount'
    <2>1. critCount = Cardinality(CriticalEvts)
      BY DEF Inv, CriticalCount
    <2> QED
      BY Zenon, <1>0, <2>1, CountOne DEF CriticalCount
  <1>3. EventsAccounted'
    BY <1>1 DEF Inv, EventsAccounted
  <1>4. HandlesLive'
    <2>1. nextTimed' \in Evt => evt'[nextTimed'].st = "out"
      BY <1>1, <1>3 DEF Inv, EventsAccounted, HandlesLive
    <2>2. ASSUME NEW h \in Evt \cup {None}, NEW new \in Evt \cup {None}, NEW kind,
                 h # None => Live(h) /\ evt[h].kind = kind, Pointer(h, new, e, r, kind)
          PROVE  new # None => evt'[new].st # "free" /\ evt'[new].kind = kind
      BY <1>1, <2>2, SchedAssumption DEF Pointer, Live
    <2>3. /\ replyEvt # None => Live(replyEvt) /\ evt[replyEvt].kind = "reply"
          /\ breakEvt # None => Live(breakEvt) /\ evt[breakEvt].kind = "break"
          /\ dumpEvt # None => Live(dumpEvt) /\ evt[dumpEvt].kind = "dump"
      BY DEF Inv, HandlesLive
    <2>4. /\ replyEvt' # None => evt'[replyEvt'].st # "free" /\ evt'[replyEvt'].kind = "reply"
          /\ breakEvt' # None => evt'[breakEvt'].st # "free" /\ evt'[breakEvt'].kind = "break"
          /\ dumpEvt' # None => evt'[dumpEvt'].st # "free" /\ evt'[dumpEvt'].kind = "dump"
      <3>1. /\ {replyEvt, breakEvt, dumpEvt} \subseteq Evt \cup {None}
            /\ {replyEvt', breakEvt', dumpEvt'} \subseteq Evt \cup {None}
        BY <1>0 DEF TypeOK
      <3>2. replyEvt' # None => evt'[replyEvt'].st # "free" /\ evt'[replyEvt'].kind = "reply"
        BY <2>2, <2>3, <3>1
      <3>3. breakEvt' # None => evt'[breakEvt'].st # "free" /\ evt'[breakEvt'].kind = "break"
        BY <2>2, <2>3, <3>1
      <3>4. dumpEvt' # None => evt'[dumpEvt'].st # "free" /\ evt'[dumpEvt'].kind = "dump"
        BY <2>2, <2>3, <3>1
      <3> QED
        BY <3>2, <3>3, <3>4
    <2> QED
      BY <2>1, <2>4 DEF HandlesLive, Live
  <1>5. OwnTimers'
    BY Zenon, <1>1 DEF Inv, OwnTimers
  <1> QED
    BY <1>2, <1>3, <1>4, <1>5 DEF Inv

\* Nothing is claimed once the handler is freed or its queue is corrupted.
LEMMA Wrecked == TypeOK' /\ ~Intact' => Inv'
  BY DEF Inv, CriticalCount, EventsAccounted, HandlesLive, Control, OwnTimers, Halted

\* The facts about a new, free or moved event that Replace asks for.
LEMMA EvtFacts ==
  ASSUME Inv, Intact
  PROVE  /\ evt \in [Evt -> EvtType] /\ FreeEvt \in EvtType /\ now \in Nat /\ mono \in Nat
         /\ FreeEvt.st = "free" /\ FreeEvt.in = 0 /\ FreeEvt.crit = FALSE
         /\ FreeEvt.kind = "user"
         /\ \A e \in Evt : /\ evt[e].st = "out" <=> e \in {run, nextTimed}
                           /\ evt[e].in # 0 <=> run = e
                           /\ evt[e].kind # "user" => evt[e].crit = FALSE
                           /\ evt[e].kind \in {"reply", "dump"} => evt[e].q = "mono"
         /\ nextTimed \in Evt => evt[nextTimed].q = "virt"
         /\ replyEvt # None => replyEvt \in Evt /\ Live(replyEvt) /\ evt[replyEvt].kind = "reply"
         /\ breakEvt # None => breakEvt \in Evt /\ Live(breakEvt) /\ evt[breakEvt].kind = "break"
         /\ dumpEvt # None => dumpEvt \in Evt /\ Live(dumpEvt) /\ evt[dumpEvt].kind = "dump"
  <1>1. evt \in [Evt -> EvtType] /\ FreeEvt \in EvtType /\ now \in Nat /\ mono \in Nat
    BY NewFields DEF Inv, TypeOK
  <1>2. /\ FreeEvt.st = "free" /\ FreeEvt.in = 0 /\ FreeEvt.crit = FALSE
        /\ FreeEvt.kind = "user"
    BY DEF FreeEvt
  <1>3. \A e \in Evt : /\ evt[e].st = "out" <=> e \in {run, nextTimed}
                       /\ evt[e].in # 0 <=> run = e
    BY DEF Inv, EventsAccounted
  <1>4. /\ \A e \in Evt : /\ evt[e].kind # "user" => evt[e].crit = FALSE
                          /\ evt[e].kind \in {"reply", "dump"} => evt[e].q = "mono"
        /\ nextTimed \in Evt => evt[nextTimed].q = "virt"
    BY DEF Inv, OwnTimers
  <1>5. /\ replyEvt # None => Live(replyEvt) /\ evt[replyEvt].kind = "reply"
        /\ breakEvt # None => Live(breakEvt) /\ evt[breakEvt].kind = "break"
        /\ dumpEvt # None => Live(dumpEvt) /\ evt[dumpEvt].kind = "dump"
    BY DEF Inv, HandlesLive
  <1>6. /\ replyEvt # None => replyEvt \in Evt
        /\ breakEvt # None => breakEvt \in Evt
        /\ dumpEvt # None => dumpEvt \in Evt
    BY DEF Inv, TypeOK
  <1> QED
    BY <1>1, <1>2, <1>3, <1>4, <1>5, <1>6

\* The calls of the API keep the invariant.
LEMMA CallInv == Inv /\ Call => Inv'
  <1> SUFFICES ASSUME Inv, Call PROVE Inv'
    OBVIOUS
  <1>t. TypeOK /\ TypeOK'
    BY CallTypes DEF Inv
  <1> USE SchedAssumption
  <1>0. CASE ~Intact'
    BY <1>0, <1>t, Wrecked
  <1>1. ASSUME Intact, NEW e \in Evt, NEW delay \in Nat, NEW step \in Nat, ~Live(e),
               evt' = [evt EXCEPT ![e] = NewEvt(delay, step, "user")],
               critCount' = critCount + 1, UNCHANGED <<loopVars, dbgVars>>
        PROVE  Inv'
    <2>1. Control' /\ Halted'
      BY <1>1 DEF Inv, Control, Halted, Intact, loopVars, dbgVars
    <2> DEFINE r == NewEvt(delay, step, "user")
    <2>2. /\ r \in EvtType /\ r.st = "queued" /\ r.q = "virt" /\ r.crit = TRUE
          /\ r.in = 0 /\ r.kind = "user"
      BY Zenon, <1>1, EvtFacts, NewFields DEF NewEvt
    <2> HIDE DEF r
    <2>3. /\ e \notin {run', nextTimed'}
          /\ \A x \in Evt \ {e} : /\ x \in {run', nextTimed'} <=> x \in {run, nextTimed}
                                  /\ run' = x <=> run = x
          /\ nextTimed' \in Evt => nextTimed' = nextTimed /\ nextTimed' # e
      BY Zenon, <1>1, EvtFacts DEF Live, loopVars, dbgVars
    <2>4. /\ Pointer(replyEvt, replyEvt', e, r, "reply")
          /\ Pointer(breakEvt, breakEvt', e, r, "break")
          /\ Pointer(dumpEvt, dumpEvt', e, r, "dump")
      BY <1>1, EvtFacts DEF Pointer, dbgVars
    <2>5. critCount' = critCount + (IF r.st # "free" /\ r.crit = TRUE THEN 1 ELSE 0)
                         - (IF Live(e) /\ evt[e].crit = TRUE THEN 1 ELSE 0)
      BY <1>1, <1>t, <2>2 DEF TypeOK
    <2> QED
      BY Zenon, <1>1, <1>t, <2>1, <2>2, <2>3, <2>4, <2>5, Replace DEF r
  <1>2. ASSUME Intact, NEW e \in Evt, EVT_sched_remove(e) PROVE Inv'
    <2>1. CASE evt[e].in # 0
      <3>1. UNCHANGED <<evt, critCount, loopVars, dbgVars>>
        BY <1>2, <2>1 DEF EVT_sched_remove, Removed, dbgVars
      <3>2. Control' /\ Halted' /\ (Intact' => Intact)
        BY <3>1 DEF Inv, Control, Halted, Intact, loopVars, dbgVars
      <3> QED
        BY <1>t, <3>1, <3>2, Frame DEF loopVars, dbgVars
    <2>2. CASE evt[e].in = 0
      <3>1. /\ evt' = [evt EXCEPT ![e] = FreeEvt]
            /\ critCount' = critCount - (IF evt[e].crit THEN 1 ELSE 0)
            /\ nextTimed' = IF nextTimed = e THEN NullEvt ELSE nextTimed
            /\ Live(e) /\ evt[e].kind = "user"
            /\ UNCHANGED <<loopVars, dbgState, dbgStep, nextFd, replyEvt, breakEvt, dumpEvt>>
        BY <1>2, <2>2 DEF EVT_sched_remove, Removed
      <3>2. run # e
        BY Zenon, <1>2, <2>2, EvtFacts
      <3>3. Control' /\ Halted'
        BY <3>1, <3>2 DEF Inv, Control, Halted, Intact, loopVars
      <3>4. /\ e \notin {run', nextTimed'}
            /\ \A x \in Evt \ {e} : /\ x \in {run', nextTimed'} <=> x \in {run, nextTimed}
                                    /\ run' = x <=> run = x
            /\ nextTimed' \in Evt => nextTimed' = nextTimed /\ nextTimed' # e
        BY <3>1, <3>2 DEF loopVars
      <3>5. /\ Pointer(replyEvt, replyEvt', e, FreeEvt, "reply")
            /\ Pointer(breakEvt, breakEvt', e, FreeEvt, "break")
            /\ Pointer(dumpEvt, dumpEvt', e, FreeEvt, "dump")
        BY <1>2, <3>1, EvtFacts DEF Pointer
      <3>6. evt[e].crit \in BOOLEAN /\ critCount \in Int
        BY <1>2, EvtFacts DEF EvtType, Inv, TypeOK
      <3>7. critCount' = critCount + (IF FreeEvt.st # "free" /\ FreeEvt.crit = TRUE THEN 1 ELSE 0)
                           - (IF Live(e) /\ evt[e].crit = TRUE THEN 1 ELSE 0)
        BY <1>2, <3>1, <3>6, EvtFacts
      <3> QED
        BY Zenon, <1>2, <1>t, <3>1, <3>3, <3>4, <3>5, <3>7, EvtFacts, Replace DEF loopVars
    <2> QED
      BY <2>1, <2>2
  <1>3. ASSUME Intact, Intact', NEW e \in Evt, NEW at \in Nat, NEW since \in Nat,
               NEW step \in Nat, Live(e), Retimed(e, at, since, step),
               UNCHANGED <<critCount, dbgVars>>
        PROVE  Inv'
    <2> DEFINE r == Moved(evt[e], at, since, step)
    <2>1. evt' = [evt EXCEPT ![e] = r] /\ UNCHANGED loopVars
      BY <1>3 DEF Retimed, Intact
    <2>2. Control' /\ Halted'
      BY Zenon, <1>3, <2>1 DEF Inv, Control, Halted, Intact, loopVars, dbgVars
    <2>3. /\ r \in EvtType /\ r.st = evt[e].st /\ r.q = evt[e].q
          /\ r.crit = evt[e].crit /\ r.kind = evt[e].kind
          /\ r.in = 0 <=> evt[e].in = 0
      BY <1>3, EvtFacts, MovedFields
    <2> HIDE DEF r
    <2>4. /\ Pointer(replyEvt, replyEvt', e, r, "reply")
          /\ Pointer(breakEvt, breakEvt', e, r, "break")
          /\ Pointer(dumpEvt, dumpEvt', e, r, "dump")
      BY <1>3, <2>3, EvtFacts DEF Pointer, dbgVars, Live
    <2>5. critCount' = critCount + (IF r.st # "free" /\ r.crit = TRUE THEN 1 ELSE 0)
                         - (IF Live(e) /\ evt[e].crit = TRUE THEN 1 ELSE 0)
      BY <1>3, <1>t, <2>3 DEF TypeOK, dbgVars, Live
    <2>6. /\ r.st = "out" <=> e \in {run', nextTimed'}
          /\ r.in # 0 <=> run' = e
          /\ \A x \in Evt \ {e} : /\ x \in {run', nextTimed'} <=> x \in {run, nextTimed}
                                  /\ run' = x <=> run = x
          /\ nextTimed' \in Evt => \/ nextTimed' = e /\ r.q = "virt"
                                   \/ nextTimed' = nextTimed /\ nextTimed' # e
      <3>1. run' = run /\ nextTimed' = nextTimed
        BY <1>3, <2>1 DEF loopVars, dbgVars
      <3>2. /\ evt[e].st = "out" <=> e \in {run, nextTimed}
            /\ evt[e].in # 0 <=> run = e
            /\ nextTimed = e => evt[e].q = "virt"
        BY Zenon, <1>3, EvtFacts
      <3> QED
        BY Zenon, <1>3, <2>3, <3>1, <3>2
    <2>7. (r.kind # "user" => r.crit = FALSE) /\ (r.kind \in {"reply", "dump"} => r.q = "mono")
      BY Zenon, <1>3, <2>3, EvtFacts
    <2> QED
      BY Zenon, <1>3, <1>t, <2>1, <2>2, <2>3, <2>4, <2>5, <2>6, <2>7, Replace
  <1>4. ASSUME NEW e \in Evt, NEW delay \in Delays
        PROVE  evt[e].since \in Nat /\ Clock(e) \in Nat /\ delay \in Nat
    <2>1. delay \in Nat
      OBVIOUS
    <2> QED
      BY <1>t, <2>1 DEF TypeOK, EvtType, Clock
  <1>5. ASSUME Intact, Intact', NEW e \in Evt, NEW delay \in Delays,
               EVT_sched_update(e, delay)
        PROVE  Inv'
    <2>1. Clock(e) + delay \in Nat /\ delay \in Nat
      BY <1>4
    <2> QED
      BY <1>3, <1>4, <1>5, <2>1 DEF EVT_sched_update
  <1>6. ASSUME Intact, Intact', NEW e \in Evt, NEW delay \in Delays,
               EVT_sched_update_partial_credit(e, delay)
        PROVE  Inv'
    <2> DEFINE at == IF evt[e].since + delay <= Clock(e) THEN Clock(e)
                     ELSE evt[e].since + delay
    <2>1. at \in Nat /\ delay \in Nat
      BY <1>4
    <2>2. Retimed(e, at, evt[e].since, delay)
      BY <1>6 DEF EVT_sched_update_partial_credit
    <2> HIDE DEF at
    <2> QED
      BY <1>3, <1>4, <1>6, <2>1, <2>2 DEF EVT_sched_update_partial_credit
  <1>7. ASSUME Intact, NEW e \in Evt, NEW c \in BOOLEAN, EVT_sched_set_critical(e, c)
        PROVE  Inv'
    <2> DEFINE r == WithCrit(evt[e], c)
    <2>1. /\ evt' = [evt EXCEPT ![e] = r] /\ Live(e) /\ evt[e].kind = "user"
          /\ UNCHANGED <<loopVars, dbgVars>>
      BY <1>7 DEF EVT_sched_set_critical
    <2>2. Control' /\ Halted'
      BY Zenon, <2>1 DEF Inv, Control, Halted, Intact, loopVars, dbgVars
    <2>3. evt[e] \in EvtType
      BY <1>7, EvtFacts
    <2>4. /\ r \in EvtType /\ r.st = evt[e].st /\ r.q = evt[e].q
          /\ r.crit = c /\ r.kind = evt[e].kind /\ r.in = evt[e].in
      <3>1. WithCrit(evt[e], c) \in EvtType
        BY <2>3, FlagFields, Zenon
      <3>2. WithCrit(evt[e], c).crit = c
        BY <2>3, FlagFields, Zenon
      <3>3. LET w == WithCrit(evt[e], c)
            IN w.st = evt[e].st /\ w.q = evt[e].q /\ w.kind = evt[e].kind /\ w.in = evt[e].in
        BY <2>3, SMT DEF WithCrit, EvtType
      <3> QED
        BY <3>1, <3>2, <3>3
    <2>5. critCount' = critCount + (IF evt[e].crit /\ ~c THEN -1
                                    ELSE IF ~evt[e].crit /\ c THEN 1 ELSE 0)
      BY <1>7 DEF EVT_sched_set_critical
    <2>6. evt[e].crit \in BOOLEAN
      BY <2>3 DEF EvtType
    <2> HIDE DEF r
    <2>7. critCount' = critCount + (IF r.st # "free" /\ r.crit = TRUE THEN 1 ELSE 0)
                         - (IF Live(e) /\ evt[e].crit = TRUE THEN 1 ELSE 0)
      BY <1>t, <2>1, <2>4, <2>5, <2>6 DEF TypeOK, Live
    <2>8. /\ Pointer(replyEvt, replyEvt', e, r, "reply")
          /\ Pointer(breakEvt, breakEvt', e, r, "break")
          /\ Pointer(dumpEvt, dumpEvt', e, r, "dump")
      BY <1>7, <2>1, EvtFacts DEF Pointer, dbgVars
    <2>9. /\ r.st = "out" <=> e \in {run', nextTimed'}
          /\ r.in # 0 <=> run' = e
          /\ \A x \in Evt \ {e} : /\ x \in {run', nextTimed'} <=> x \in {run, nextTimed}
                                  /\ run' = x <=> run = x
          /\ nextTimed' \in Evt => \/ nextTimed' = e /\ r.q = "virt"
                                   \/ nextTimed' = nextTimed /\ nextTimed' # e
      <3>1. run' = run /\ nextTimed' = nextTimed
        BY <2>1 DEF loopVars, dbgVars
      <3>2. /\ evt[e].st = "out" <=> e \in {run, nextTimed}
            /\ evt[e].in # 0 <=> run = e
            /\ nextTimed = e => evt[e].q = "virt"
        BY Zenon, <1>7, EvtFacts
      <3> QED
        BY Zenon, <1>7, <2>4, <3>1, <3>2
    <2>10. r.kind = "user"
      BY <2>1, <2>4
    <2> QED
      BY Zenon, <1>7, <1>t, <2>1, <2>2, <2>4, <2>7, <2>8, <2>9, <2>10, Replace
  <1>8. ASSUME Intact, \/ \E d \in Dfr : EVT_defer_add(d) \/ EVT_defer_cancel(d)
                       \/ EVT_exit_loop \/ Start \/ \E r \in Failures : SetErrno(r)
        PROVE  Inv'
    <2>1. /\ UNCHANGED <<evt, critCount, run, nextTimed, nextFd, dbgState, dbgStep,
                         replyEvt, breakEvt, dumpEvt, timePaused>>
          /\ pc' = pc \/ (pc = "outside" /\ pc' = "threads")
      BY Zenon, <1>8 DEF EVT_defer_add, EVT_defer_cancel, EVT_exit_loop, Start, SetErrno,
                  loopVars, dbgVars
    <2>2. Control' /\ Halted' /\ (Intact' => Intact)
      BY <2>1 DEF Inv, Control, Halted, Intact
    <2> QED
      BY <1>t, <2>1, <2>2, Frame
  <1>9. Intact' => Intact
    <2>1. ASSUME NEW e \in Evt, NEW at, NEW since, NEW step, Retimed(e, at, since, step)
          PROVE  pc' = "undefined" \/ pc' = pc
      BY <2>1 DEF Retimed, loopVars
    <2>2. pc' \in {pc, "undefined"} \/ (pc = "outside" /\ pc' = "threads")
      BY Zenon, <2>1 DEF Call, EVT_sched_add, EVT_sched_add_with_timestep, EVT_sched_remove,
         EVT_sched_update, EVT_sched_update_partial_credit, EVT_sched_set_critical,
         EVT_defer_add, EVT_defer_cancel, EVT_exit_loop, Start, SetErrno, loopVars
    <2> QED
      BY <2>2 DEF Intact
  <1>10. ASSUME Intact, NEW e \in Evt, NEW delay \in Delays, NEW step \in Delays,
                \/ EVT_sched_add(e, delay)
                \/ EVT_sched_add_with_timestep(e, delay, step)
         PROVE  Inv'
    <2>1. delay \in Nat /\ step \in Nat
      OBVIOUS
    <2> QED
      BY <1>1, <1>10, <2>1 DEF EVT_sched_add, EVT_sched_add_with_timestep
  <1> QED
    BY <1>0, <1>2, <1>5, <1>6, <1>7, <1>8, <1>9, <1>10 DEF Call
-----------------------------------------------------------------------------
(* The debugger's commands and timers preserve the invariant.              *)

\* The debugger removes one of its own timers, old, and adds another one, new;
\* either may be missing.
TimerPointer(old, new, h, hNew, r, kind) ==
  hNew # None => \/ hNew = new /\ r.kind = kind
                 \/ hNew = h /\ h # old /\ h # new

Swapped(old, new, r) ==
  /\ old \in Evt \cup {None} /\ new \in Evt \cup {None} /\ r \in EvtType
  /\ old # None => evt[old].kind # "user" /\ run # old
  /\ r.st = "queued" /\ r.in = 0 /\ r.crit = FALSE
  /\ r.kind \in {"reply", "dump"} => r.q = "mono"
  /\ new # None => evt[new].st = "free" \/ new = old
  /\ \A x \in Evt : evt'[x] = IF x = new THEN r ELSE IF x = old THEN FreeEvt ELSE evt[x]
  /\ UNCHANGED <<critCount, run>>
  /\ nextTimed' = IF nextTimed = old /\ old # None THEN NullEvt ELSE nextTimed
  /\ TimerPointer(old, new, replyEvt, replyEvt', r, "reply")
  /\ TimerPointer(old, new, breakEvt, breakEvt', r, "break")
  /\ TimerPointer(old, new, dumpEvt, dumpEvt', r, "dump")

\* Replacing one of the debugger's own timers keeps the invariant.
LEMMA Swap ==
  ASSUME Inv, Intact, TypeOK', Control', Halted', NEW old, NEW new, NEW r, Swapped(old, new, r)
  PROVE  Inv'
  <1> USE DEF Swapped
  <1> USE SchedAssumption
  <1>1. CriticalEvts' = CriticalEvts
    <2>1. ASSUME NEW x \in Evt
          PROVE  (evt'[x].st # "free" /\ evt'[x].crit) <=> (evt[x].st # "free" /\ evt[x].crit)
      <3>1. CASE x = new
        <4>1. evt'[x] = r /\ (evt[x].st = "free" \/ evt[x].kind # "user")
          BY <3>1
        <4>2. evt[x].kind # "user" => evt[x].crit = FALSE
          BY Zenon, EvtFacts
        <4> QED
          BY <4>1, <4>2, Zenon
      <3>2. CASE x # new /\ x = old
        <4>1. evt'[x] = FreeEvt /\ FreeEvt.st = "free" /\ evt[x].crit = FALSE
          BY Zenon, <3>2, EvtFacts
        <4> QED
          BY Zenon, <4>1
      <3>3. CASE x # new /\ x # old
        BY Zenon, <3>3
      <3> QED
        BY <3>1, <3>2, <3>3
    <2> QED
      BY Zenon, <2>1 DEF CriticalEvts, Live
  <1>2. CriticalCount'
    BY Zenon, <1>1 DEF Inv, CriticalCount
  <1>3. nextTimed' # new \/ nextTimed' = None
    <2>1. new \in Evt /\ nextTimed = new => evt[new].st = "out"
      BY Zenon, EvtFacts
    <2>2. NullEvt \notin Evt
      BY Zenon
    <2> QED
      BY Zenon, <2>1, <2>2
  <1>4. EventsAccounted'
    <2>1. ASSUME NEW x \in Evt
          PROVE  (evt'[x].st = "out" <=> x \in {run', nextTimed'}) /\ (evt'[x].in # 0 <=> run' = x)
      <3>1. /\ evt[x].st = "out" <=> x \in {run, nextTimed}
            /\ evt[x].in # 0 <=> run = x
            /\ FreeEvt.st = "free" /\ FreeEvt.in = 0
        BY Zenon, EvtFacts
      <3> QED
        BY <1>3, <3>1
    <2> QED
      BY Zenon, <2>1 DEF EventsAccounted
  <1>5. HandlesLive'
    <2>1. nextTimed' \in Evt => evt'[nextTimed'].st = "out"
      <3>1. ASSUME NEW x \in Evt, nextTimed' = x PROVE evt'[x].st = "out"
        <4>1. nextTimed = x /\ x # new /\ x # old
          BY <1>3, <3>1
        <4>2. evt[x].st = "out"
          BY Zenon, <4>1, EvtFacts
        <4> QED
          BY <4>1, <4>2
      <3> QED
        BY <3>1
    <2>2. /\ replyEvt' # None => evt'[replyEvt'].st # "free" /\ evt'[replyEvt'].kind = "reply"
          /\ breakEvt' # None => evt'[breakEvt'].st # "free" /\ evt'[breakEvt'].kind = "break"
          /\ dumpEvt' # None => evt'[dumpEvt'].st # "free" /\ evt'[dumpEvt'].kind = "dump"
      BY EvtFacts DEF TimerPointer, Live
    <2> QED
      BY <2>1, <2>2 DEF HandlesLive, Live
  <1>6. OwnTimers'
    <2>1. ASSUME NEW x \in Evt
          PROVE  /\ evt'[x].kind # "user" => evt'[x].crit = FALSE
                 /\ evt'[x].kind \in {"reply", "dump"} => evt'[x].q = "mono"
      <3>1. evt'[x] = IF x = new THEN r ELSE IF x = old THEN FreeEvt ELSE evt[x]
        BY <2>1
      <3>2. FreeEvt.kind = "user"
        BY EvtFacts
      <3>3. /\ evt[x].kind # "user" => evt[x].crit = FALSE
            /\ evt[x].kind \in {"reply", "dump"} => evt[x].q = "mono"
        BY Zenon, <2>1, EvtFacts
      <3> QED
        BY <3>1, <3>2, <3>3
    <2>2. nextTimed' \in Evt => evt'[nextTimed'].q = "virt"
      BY <1>3, EvtFacts
    <2> QED
      BY Zenon, <2>1, <2>2 DEF OwnTimers
  <1> QED
    BY <1>2, <1>4, <1>5, <1>6 DEF Inv

\* The events after a timer was removed (old) and another one added (new).
LEMMA Rearmed ==
  ASSUME evt \in [Evt -> EvtType], FreeEvt \in EvtType,
         NEW old \in Evt \cup {None}, NEW new \in Evt \cup {None}, NEW r \in EvtType,
         LET cleared == IF old = None THEN evt ELSE [evt EXCEPT ![old] = FreeEvt]
         IN \/ new = None /\ evt' = cleared
            \/ new # None /\ cleared[new].st = "free" /\ evt' = [cleared EXCEPT ![new] = r]
  PROVE  /\ \A x \in Evt : evt'[x] = IF x = new THEN r ELSE IF x = old THEN FreeEvt ELSE evt[x]
         /\ new # None => evt[new].st = "free" \/ new = old
  <1> DEFINE cleared == IF old = None THEN evt ELSE [evt EXCEPT ![old] = FreeEvt]
  <1> USE SchedAssumption
  <1>1. /\ cleared \in [Evt -> EvtType]
        /\ \A x \in Evt : cleared[x] = IF x = old THEN FreeEvt ELSE evt[x]
    OBVIOUS
  <1>2. \/ new = None /\ evt' = cleared
        \/ new # None /\ cleared[new].st = "free" /\ evt' = [cleared EXCEPT ![new] = r]
    OBVIOUS
  <1> HIDE DEF cleared
  <1> QED
    BY <1>1, <1>2

\* The commands of the debugger keep the invariant.
LEMMA DebugInv == Inv /\ Debug => Inv'
  <1> SUFFICES ASSUME Inv, Debug PROVE Inv'
    OBVIOUS
  <1>t. TypeOK /\ TypeOK'
    BY DebugTypes DEF Inv
  <1> USE SchedAssumption
  <1>0. run = "client" /\ UNCHANGED <<loopVars, critCount, nextFd, dbgState>>
    BY Zenon DEF Debug, CmdRun, CmdStop, CmdNext, CmdDump, CmdBreak, Command, dbgVars
  <1>1. CASE ~Intact
    BY <1>0, <1>1, <1>t, Wrecked DEF Intact, loopVars
  <1>2. ASSUME Intact, CmdStop \/ \E n \in 1..MaxSteps : CmdNext(n) PROVE Inv'
    <2>1. /\ UNCHANGED <<evt, nextTimed, replyEvt, breakEvt, dumpEvt>>
          /\ dbgStep' = dbgStep \/ dbgStep' = TRUE
      BY <1>2 DEF CmdStop, CmdNext
    <2>2. Control' /\ Halted'
      BY <1>0, <2>1, Zenon DEF Inv, Control, Halted, Intact, loopVars
    <2> QED
      BY <1>0, <1>2, <1>t, <2>1, <2>2, Frame DEF loopVars
  <1>3. ASSUME Intact, CmdRun PROVE Inv'
    <2>1. nextTimed' = IF nextTimed = breakEvt /\ breakEvt # None THEN NullEvt ELSE nextTimed
      BY <1>3 DEF CmdRun
    <2>2. Control' /\ Halted'
      <3>1. dbgStep' = TRUE
        BY <1>3 DEF CmdRun
      <3>2. (nextTimed' = None) <=> (nextTimed = None)
        BY <2>1
      <3> QED
        BY <1>0, <3>1, <3>2 DEF Inv, Control, Halted, Intact, loopVars
    <2>3. PICK delay \in Nat :
            LET cleared == IF breakEvt = None THEN evt ELSE [evt EXCEPT ![breakEvt] = FreeEvt]
            IN \/ breakEvt' = None /\ evt' = cleared
               \/ /\ breakEvt' # None /\ cleared[breakEvt'].st = "free"
                  /\ evt' = [cleared EXCEPT ![breakEvt'] = BreakEvt(delay)]
      BY <1>3 DEF CmdRun
    <2> DEFINE r == BreakEvt(delay)
    <2>4. r \in EvtType /\ r.st = "queued" /\ r.in = 0 /\ r.crit = FALSE /\ r.kind = "break"
      BY <1>3, EvtFacts, NewFields DEF BreakEvt
    <2>5. breakEvt \in Evt \cup {None} /\ breakEvt' \in Evt \cup {None}
      BY <1>t DEF TypeOK
    <2>6. /\ \A x \in Evt : evt'[x] = IF x = breakEvt' THEN r
                                      ELSE IF x = breakEvt THEN FreeEvt ELSE evt[x]
          /\ breakEvt' # None => evt[breakEvt'].st = "free" \/ breakEvt' = breakEvt
      BY <1>3, <2>3, <2>4, <2>5, EvtFacts, Rearmed
    <2> HIDE DEF r
    <2>7. breakEvt # None => evt[breakEvt].kind # "user" /\ run # breakEvt
      BY <1>0, <1>3, EvtFacts
    <2>8. /\ TimerPointer(breakEvt, breakEvt', replyEvt, replyEvt', r, "reply")
          /\ TimerPointer(breakEvt, breakEvt', breakEvt, breakEvt', r, "break")
          /\ TimerPointer(breakEvt, breakEvt', dumpEvt, dumpEvt', r, "dump")
      BY <1>3, <2>4, <2>6, EvtFacts DEF TimerPointer, CmdRun, Live
    <2>9. UNCHANGED <<critCount, run>> /\ (r.kind \in {"reply", "dump"} => r.q = "mono")
      BY <1>0, <2>4 DEF loopVars
    <2>10. Swapped(breakEvt, breakEvt', r)
      BY Zenon, <2>1, <2>4, <2>5, <2>6, <2>7, <2>8, <2>9 DEF Swapped
    <2> QED
      BY <1>3, <1>t, <2>2, <2>10, Swap
  <1>4. ASSUME Intact, CmdDump PROVE Inv'
    <2>1. nextTimed' = nextTimed /\ (nextTimed # dumpEvt \/ dumpEvt = None)
      BY Zenon, <1>4, EvtFacts DEF CmdDump
    <2>2. Control' /\ Halted'
      <3>1. dbgStep' = dbgStep
        BY <1>4 DEF CmdDump
      <3> QED
        BY <1>0, <2>1, <3>1 DEF Inv, Control, Halted, Intact, loopVars
    <2>3. PICK delay \in Nat :
            LET cleared == IF dumpEvt = None THEN evt ELSE [evt EXCEPT ![dumpEvt] = FreeEvt]
            IN \/ dumpEvt' = None /\ evt' = cleared
               \/ /\ dumpEvt' # None /\ cleared[dumpEvt'].st = "free"
                  /\ evt' = [cleared EXCEPT ![dumpEvt'] = MonoEvt(delay, "dump")]
      BY <1>4 DEF CmdDump
    <2> DEFINE r == MonoEvt(delay, "dump")
    <2>4. /\ r \in EvtType /\ r.st = "queued" /\ r.in = 0 /\ r.crit = FALSE
          /\ r.kind = "dump" /\ r.q = "mono"
      BY Zenon, <1>4, EvtFacts, NewFields DEF MonoEvt
    <2>5. dumpEvt \in Evt \cup {None} /\ dumpEvt' \in Evt \cup {None}
      BY <1>t DEF TypeOK
    <2>6. /\ \A x \in Evt : evt'[x] = IF x = dumpEvt' THEN r
                                      ELSE IF x = dumpEvt THEN FreeEvt ELSE evt[x]
          /\ dumpEvt' # None => evt[dumpEvt'].st = "free" \/ dumpEvt' = dumpEvt
      BY <1>4, <2>3, <2>4, <2>5, EvtFacts, Rearmed
    <2> HIDE DEF r
    <2>7. dumpEvt # None => evt[dumpEvt].kind # "user" /\ run # dumpEvt
      BY <1>0, <1>4, EvtFacts
    <2>8. /\ TimerPointer(dumpEvt, dumpEvt', replyEvt, replyEvt', r, "reply")
          /\ TimerPointer(dumpEvt, dumpEvt', breakEvt, breakEvt', r, "break")
          /\ TimerPointer(dumpEvt, dumpEvt', dumpEvt, dumpEvt', r, "dump")
      BY <1>4, <2>4, <2>6, EvtFacts DEF TimerPointer, CmdDump, Live
    <2>9. UNCHANGED <<critCount, run>> /\ (r.kind \in {"reply", "dump"} => r.q = "mono")
      BY <1>0, <2>4 DEF loopVars
    <2>10. Swapped(dumpEvt, dumpEvt', r)
      BY Zenon, <2>1, <2>4, <2>5, <2>6, <2>7, <2>8, <2>9 DEF Swapped
    <2> QED
      BY <1>4, <1>t, <2>2, <2>10, Swap
  <1>5. ASSUME Intact, NEW e \in Evt, NEW b \in BOOLEAN, CmdBreak(e, b) PROVE Inv'
    <2> DEFINE r == WithBrk(evt[e], b)
    <2>1. evt' = [evt EXCEPT ![e] = r] /\ evt[e].st = "queued" /\ UNCHANGED dbgVars
      BY <1>5 DEF CmdBreak, Queued
    <2>2. Control' /\ Halted'
      BY <1>0, <2>1 DEF Inv, Control, Halted, Intact, loopVars, dbgVars
    <2>3. evt[e] \in EvtType
      BY <1>5, EvtFacts
    <2>4. /\ r \in EvtType /\ r.st = evt[e].st /\ r.q = evt[e].q
          /\ r.crit = evt[e].crit /\ r.kind = evt[e].kind /\ r.in = evt[e].in
      <3>1. WithBrk(evt[e], b) \in EvtType
        BY <2>3, FlagFields, Zenon
      <3>2. LET w == WithBrk(evt[e], b)
            IN w.st = evt[e].st /\ w.q = evt[e].q /\ w.kind = evt[e].kind
               /\ w.in = evt[e].in /\ w.crit = evt[e].crit
        BY <2>3, SMT DEF WithBrk, EvtType
      <3> QED
        BY <3>1, <3>2
    <2> HIDE DEF r
    <2>5. critCount' = critCount + (IF r.st # "free" /\ r.crit = TRUE THEN 1 ELSE 0)
                         - (IF Live(e) /\ evt[e].crit = TRUE THEN 1 ELSE 0)
      BY <1>0, <1>t, <2>4 DEF TypeOK, Live
    <2>6. /\ Pointer(replyEvt, replyEvt', e, r, "reply")
          /\ Pointer(breakEvt, breakEvt', e, r, "break")
          /\ Pointer(dumpEvt, dumpEvt', e, r, "dump")
      BY <1>5, <2>1, <2>4, EvtFacts DEF Pointer, dbgVars, Live
    <2>7. /\ r.st = "out" <=> e \in {run', nextTimed'}
          /\ r.in # 0 <=> run' = e
          /\ \A x \in Evt \ {e} : /\ x \in {run', nextTimed'} <=> x \in {run, nextTimed}
                                  /\ run' = x <=> run = x
          /\ nextTimed' \in Evt => nextTimed' = nextTimed /\ nextTimed' # e
      <3>1. run' = run /\ nextTimed' = nextTimed
        BY <1>0, <2>1 DEF loopVars, dbgVars
      <3>2. /\ evt[e].st = "out" <=> e \in {run, nextTimed}
            /\ evt[e].in # 0 <=> run = e
            /\ nextTimed = e => evt[e].q = "virt"
        BY Zenon, <1>5, EvtFacts
      <3>3. nextTimed # e /\ run # e
        BY <2>1, <3>2
      <3> QED
        BY Zenon, <2>4, <3>1, <3>2, <3>3
    <2>8. (r.kind # "user" => r.crit = FALSE) /\ (r.kind \in {"reply", "dump"} => r.q = "mono")
      BY Zenon, <1>5, <2>4, EvtFacts
    <2> QED
      BY Zenon, <1>5, <1>t, <2>1, <2>2, <2>4, <2>5, <2>6, <2>7, <2>8, Replace
  <1> QED
    BY <1>1, <1>2, <1>3, <1>4, <1>5 DEF Debug
=============================================================================
