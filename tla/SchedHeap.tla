------------------------------ MODULE SchedHeap ------------------------------
(***************************************************************************)
(* The event loop of module Sched with the real queue in it: hp is         *)
(* ctx->queue, the binary heap of module Heap, whose priorities are the    *)
(* nextAwake fields of the events.  Every action is the action of Sched    *)
(* together with the ps_pqueue_ calls the function makes, and the loop     *)
(* takes the root of the heap for the next event.  The debugger, and with  *)
(* it dbg_queue, stays off.                                                *)
(***************************************************************************)
EXTENDS Sched, TLC

CONSTANTS Step,       \* allocation granularity of the queue
          Postpone,   \* whether an update may move an event to a later time
          TiedRemoval \* whether an event may be removed while another one has
                      \* the same time: ps_pqueue_remove then may call bubble_up
                      \* on a slot it has given up, and lose the other one

ASSUME HeapAssumption ==
  /\ Debugger = {} /\ Step \in Nat \ {0, 1}
  /\ Postpone \in BOOLEAN /\ TiedRemoval \in BOOLEAN

VARIABLE hp

INSTANCE Heap

\* get_pri
At == [e \in Evt |-> evt[e].at]

HeapInit == Init /\ hp = ps_pqueue_init(Evt)

Root == ps_pqueue_peek(hp)
RootDue == Root # None /\ At[Root] <= now

\* EVT_sched_add_with_timestep makes the same call.
Add(e, delay) ==
  /\ EVT_sched_add(e, delay)
  /\ hp' = ps_pqueue_insert(hp, At', e)

Remove(e) ==
  /\ EVT_sched_remove(e)
  /\ TiedRemoval \/ \A x \in Queued("virt") \ {e} : At[x] # At[e]
  /\ hp' = IF evt[e].in # 0 THEN hp ELSE Gone(ps_pqueue_remove(hp, At, e), e)

\* nextAwake is written before ps_pqueue_change_priority reads it, so the old
\* priority it compares with is already the new one.
Update(e, delay) ==
  /\ EVT_sched_update(e, delay) \/ EVT_sched_update_partial_credit(e, delay)
  /\ Postpone \/ evt[e].in # 0 \/ At'[e] <= At[e]
  /\ hp' = IF evt[e].in # 0 THEN hp
           ELSE ps_pqueue_change_priority(hp, At'[e], At', e)

Dispatch(e) ==
  /\ e = Root /\ DispatchTimed(e)
  /\ hp' = Gone(ps_pqueue_pop(hp, At), e)

NoneDue == (timePaused \/ ~RootDue) /\ TimedDone /\ UNCHANGED hp

Wait ==
  /\ \/ ~timePaused /\ RootDue /\ Block("timeout")
     \/ \E r \in {"ready"} \cup Errors : Block(r)
  /\ UNCHANGED hp

\* Mutant: the event is queued again before its next time is stored.
Finish_Early(keep) ==
  /\ Return(keep)
  /\ hp' = IF keep THEN ps_pqueue_insert(hp, At, run) ELSE hp

Finish(keep) ==
  /\ Return(keep)
  /\ hp' = IF keep THEN ps_pqueue_insert(hp, At', run) ELSE hp

FreeQueue ==
  /\ Free
  /\ hp' = IF pc' = "gone" THEN ps_pqueue_init(Evt) ELSE hp

\* What does not touch the queue.  Nothing reads the clock of dbg_queue.
Rest ==
  /\ \/ \E e \in Evt, c \in BOOLEAN : EVT_sched_set_critical(e, c)
     \/ \E d \in Dfr : EVT_defer_add(d) \/ EVT_defer_cancel(d)
     \/ EVT_exit_loop \/ Start \/ LoopStep \/ MonoDone
     \/ Tick /\ UNCHANGED mono
  /\ UNCHANGED hp

HeapNext ==
  \/ \E e \in Evt, delay \in Delays : Add(e, delay) \/ Update(e, delay)
  \/ \E e \in Evt : Remove(e) \/ Dispatch(e)
  \/ NoneDue \/ Wait \/ FreeQueue \/ Rest
  \/ \E keep \in BOOLEAN : Finish(keep)

HeapSpec == HeapInit /\ [][HeapNext]_<<vars, hp>>

\* For TLC: nothing tells two events apart but their times.
EvtSymmetry == Permutations(Evt)
-----------------------------------------------------------------------------
\* The loop on the real queue is the loop of Sched: every callback it starts is
\* that of an event none is before, and it goes to sleep or moves on only when
\* no queued event is due (priorityQueue.h: peek is the highest-ranking item).
ImplementsSched == Spec
=============================================================================
