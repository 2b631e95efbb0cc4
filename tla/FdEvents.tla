------------------------------ MODULE FdEvents ------------------------------
(***************************************************************************)
(* The file-descriptor half of src/events.c: the registry of EventCB       *)
(* entries that EVT_fd_add, EVT_fd_remove and EVT_fd_force_remove change,  *)
(* the descriptor sets derived from it, and the part of the event loop     *)
(* that visits the descriptors select found ready.  Callbacks may change   *)
(* the registry while the loop walks it, and a debugger may hold an fd     *)
(* event and run it later by a single step.                                *)
(*                                                                         *)
(* An entry is identified by its descriptor.  What the loop keeps across a *)
(* callback are pointers: the link it came through (cursor: the entry      *)
(* before the current one in its bucket, None for the bucket itself) and   *)
(* the held entry.  A pointer to a freed entry is Dangling, and using it   *)
(* ends in "undefined".                                                    *)
(***************************************************************************)
EXTENDS Integers, Sequences, FiniteSets, SequencesExt, FiniteSetsExt

CONSTANTS Fd,        \* the descriptors
          EventMax,  \* EVENT_MAX, the number of event types
          HashSize,  \* ctx->hashSize
          None, Dangling,
          Api,       \* what callbacks and the debugger do
          Tuned      \* bound: the descriptors whose flags change and which
                     \* the debugger holds

Actions == {"add", "remove", "force", "critical", "pause", "hold", "badfd",
            "remove_before", \* remove the entry before the current one
            "remove_held",   \* remove the entry the debugger holds
            "step_remove"}   \* end the registration of a stepped callback

ASSUME FdAssumption ==
  /\ Fd \subseteq Nat /\ IsFiniteSet(Fd) /\ None \notin Fd /\ Dangling \notin Fd
  /\ None # Dangling /\ EventMax \in Nat \ {0} /\ HashSize \in Nat \ {0}
  /\ Api \subseteq Actions /\ Tuned \subseteq Fd

Event == 0..(EventMax - 1)
hash(f) == f % HashSize

VARIABLES ctx,        \* the registry (see Init)
          pc,         \* "idle": outside the fd phase; "fd", "step", "undefined"
          run,        \* None, or <<f, e>>: the callback that runs
          cursor,     \* the entry whose next field evtCurr points to
          held,       \* None, Dangling, or <<f, e>>: next_fd_event
          ready,      \* the sets select returned
          retval, maxArg, startFd, startEvent, fd, event  \* the loop's locals

loop == <<ready, retval, maxArg, startFd, startEvent, fd, event>>
vars == <<ctx, pc, run, cursor, held, loop>>

NoneReady == [e \in Event |-> {}]
NoEnt == [reg |-> {}, in |-> [e \in Event |-> 0], crit |-> TRUE,
          pausable |-> TRUE, brk |-> FALSE]

\* ent[f].reg is the set of event types with a callback; in is inCallback; brk
\* is breakpoint, which is always set for all event types together.
Init ==
  /\ ctx = [bucket |-> [b \in 0..(HashSize - 1) |-> <<>>],
            ent |-> [f \in Fd |-> NoEnt],
            eventSet |-> [e \in Event |-> {}], blockedSet |-> [e \in Event |-> {}],
            eventCnt |-> [e \in Event |-> 0],
            maxFds |-> [e \in Event |-> 0], maxFd |-> 0, critCount |-> 0]
  /\ pc = "idle" /\ run = None /\ cursor = None /\ held = None
  /\ ready = NoneReady /\ retval = 0 /\ maxArg = 1
  /\ startFd = 0 /\ startEvent = 0 /\ fd = 0 /\ event = 0

Linked(f) == Contains(ctx.bucket[hash(f)], f)
InCallback(f, e) == ctx.ent[f].in[e] # 0
-----------------------------------------------------------------------------
(* The registry.                                                           *)

\* Mutant: the first event type is left out.
Highest_Partial(m) == Max({m[e] : e \in Event \ {0}} \cup {0})

Highest(m) == Max({m[e] : e \in Event})

Raised(m, f) == IF f > m THEN f ELSE m

Cleared(c, f, e) ==
  [c EXCEPT !.eventCnt[e] = @ - 1, !.ent[f].reg = @ \ {e},
            !.eventSet[e] = @ \ {f}, !.blockedSet[e] = @ \ {f}]

\* The registry c after event e of entry f has been removed from it, and the
\* entry with it when that was its last one.
EVT_remove_internal(c, f, e) ==
  LET d == Cleared(c, f, e)
      left == d.eventCnt[e] > 0
      maxFds == IF f # c.maxFds[e] THEN c.maxFds
                ELSE [c.maxFds EXCEPT ![e] = IF left THEN Max(d.eventSet[e] \cup {0}) ELSE 0]
      last == d.ent[f].reg = {}
  IN IF e \notin c.ent[f].reg THEN c
     ELSE [d EXCEPT !.maxFds = maxFds,
                    !.maxFd = IF f = c.maxFds[e] /\ left THEN Highest(maxFds) ELSE @,
                    !.bucket[hash(f)] = IF last THEN Remove(@, f) ELSE @,
                    !.ent[f] = IF last THEN NoEnt ELSE @,
                    !.critCount = IF last /\ c.ent[f].crit THEN @ - 1 ELSE @]

\* Pointers to an entry that ctx' no longer has.
Freed == {f \in Fd : Linked(f) /\ ~Linked(f)'}
LoseHeld == held' = IF held \in Freed \X Event THEN Dangling ELSE held
Lose == LoseHeld /\ cursor' = IF cursor \in Freed THEN Dangling ELSE cursor

\* User code runs in the callback of an fd, or elsewhere between two fd phases.
UserCode == pc = "idle" \/ run # None

\* Removing the last event of an entry the loop points at is a call of its own.
MayFree(f, e) ==
  ctx.ent[f].reg = {e} => /\ cursor = f => "remove_before" \in Api
                          /\ held \in {f} \X Event => "remove_held" \in Api

\* The entry is found or appended to its bucket; new entries are critical.
EVT_fd_add(f, e) ==
  /\ UserCode /\ "add" \in Api
  /\ LET r == ctx.ent[f]
         in == r.in[e] # 0
         maxFds == [ctx.maxFds EXCEPT ![e] = IF in THEN @ ELSE Raised(@, f)]
     IN ctx' = [ctx EXCEPT
          !.bucket[hash(f)] = IF Linked(f) THEN @ ELSE Append(@, f),
          !.critCount = IF Linked(f) THEN @ ELSE @ + 1,
          !.eventCnt[e] = IF e \in r.reg THEN @ ELSE @ + 1,
          !.ent[f].reg = @ \cup {e}, !.ent[f].in[e] = IF in THEN 2 ELSE 0,
          !.eventSet[e] = IF in THEN @ ELSE @ \cup {f},
          !.blockedSet[e] = IF in \/ (r.pausable /\ r.brk) THEN @ ELSE @ \cup {f},
          !.maxFds = maxFds, !.maxFd = IF in THEN @ ELSE Highest(maxFds)]
  /\ UNCHANGED <<pc, run, cursor, held, loop>>

\* Ignored in the callback of that very event.
EVT_fd_remove(f, e) ==
  /\ UserCode /\ "remove" \in Api /\ Linked(f) /\ MayFree(f, e)
  /\ ctx' = IF InCallback(f, e) THEN ctx ELSE EVT_remove_internal(ctx, f, e)
  /\ Lose
  /\ UNCHANGED <<pc, run, loop>>

\* There it is remembered until the callback returns.
EVT_fd_force_remove(f, e) ==
  /\ UserCode /\ "force" \in Api /\ Linked(f) /\ MayFree(f, e)
  /\ ctx' = IF InCallback(f, e) THEN [ctx EXCEPT !.ent[f].in[e] = 3]
            ELSE EVT_remove_internal(ctx, f, e)
  /\ Lose
  /\ UNCHANGED <<pc, run, loop>>

EVT_fd_set_critical(f, c) ==
  /\ UserCode /\ "critical" \in Api /\ f \in Tuned /\ Linked(f)
  /\ ctx' = [ctx EXCEPT !.ent[f].crit = c,
               !.critCount = @ + (IF c THEN 1 ELSE 0) - (IF ctx.ent[f].crit THEN 1 ELSE 0)]
  /\ UNCHANGED <<pc, run, cursor, held, loop>>

\* evt_fd_set_pausable and evt_fd_set_paused.
SetPaused(f, pausable, brk) ==
  /\ UserCode /\ "pause" \in Api /\ f \in Tuned /\ Linked(f)
  /\ ctx' = [ctx EXCEPT !.ent[f].pausable = pausable, !.ent[f].brk = brk,
       !.blockedSet = [e \in Event |-> IF e \in ctx.ent[f].reg /\ ~(pausable /\ brk)
                                       THEN @[e] \cup {f} ELSE @[e] \ {f}]]
  /\ UNCHANGED <<pc, run, cursor, held, loop>>

evt_fd_set_pausable(f, p) == p # ctx.ent[f].pausable /\ SetPaused(f, p, ctx.ent[f].brk)
evt_fd_set_paused(f, b) == b # ctx.ent[f].brk /\ SetPaused(f, ctx.ent[f].pausable, b)

\* The entries of the descriptors that turned out to be closed are removed.
EVT_clean_fdsets(B) ==
  /\ pc = "idle" /\ "badfd" \in Api /\ B # {}
  /\ \A f \in B : /\ \E e \in Event : f \in ctx.eventSet[e]
                  /\ held \in {f} \X Event => "remove_held" \in Api
  /\ LET slots == {<<f, e>> : f \in B, e \in Event}
         before(x, y) == x[1] < y[1] \/ (x[1] = y[1] /\ x[2] < y[2])
     IN ctx' = FoldLeft(LAMBDA c, s : EVT_remove_internal(c, s[1], s[2]), ctx,
                        SetToSortSeq(slots, before))
  /\ Lose
  /\ UNCHANGED <<pc, run, loop>>
-----------------------------------------------------------------------------
(* The loop.                                                               *)

\* select returns with descriptors of the watched sets that are below maxFd + 1.
Select(R, paused) ==
  /\ pc = "idle" /\ R # NoneReady
  /\ held # None => paused
  /\ \A e \in Event : R[e] \subseteq {f \in IF paused THEN ctx.blockedSet[e] ELSE ctx.eventSet[e] :
                                        f <= ctx.maxFd}
  /\ pc' = "fd" /\ ready' = R
  /\ retval' = Cardinality({<<f, e>> \in Fd \X Event : f \in R[e]})
  /\ maxArg' = ctx.maxFd + 1
  /\ startFd' = (startFd + 1) % maxArg' /\ fd' = startFd' /\ event' = startEvent
  /\ UNCHANGED <<ctx, run, cursor, held, startEvent>>

\* Mutant: a walk that stops one descriptor early.
Advance_Short(n) ==
  /\ retval' = n
  /\ IF n > 0 /\ (fd + 2) % maxArg # startFd
     THEN fd' = (fd + 1) % maxArg /\ UNCHANGED <<pc, event, startEvent, ready, maxArg>>
     ELSE pc' = "idle" /\ fd' = 0 /\ event' = 0 /\ ready' = NoneReady /\ maxArg' = 1
          /\ UNCHANGED startEvent
  /\ UNCHANGED startFd

\* The ends of the two nested loops, with n ready descriptors left.  The locals
\* are not used again after the outer one.
Advance(n) ==
  LET fd1 == (fd + 1) % maxArg
      event1 == (event + 1) % EventMax
  IN /\ retval' = n
     /\ IF n > 0 /\ fd1 # startFd
        THEN fd' = fd1 /\ UNCHANGED <<pc, event, startEvent>>
        ELSE IF n > 0 /\ event1 # startEvent
        THEN fd' = startFd /\ event' = event1 /\ UNCHANGED <<pc, startEvent>>
        ELSE pc' = "idle" /\ startEvent' = (startEvent + 1) % EventMax /\ fd' = 0 /\ event' = 0
     /\ ready' = IF pc' = "idle" THEN NoneReady ELSE ready
     /\ maxArg' = IF pc' = "idle" THEN 1 ELSE maxArg
     /\ UNCHANGED startFd

\* evt_process_fd_event up to the callback, for the link at cursor c.
Begin(f, e, c) ==
  /\ run' = <<f, e>> /\ cursor' = c
  /\ ctx' = [ctx EXCEPT !.ent[f].in[e] = 1]

Predecessor(f) ==
  LET b == ctx.bucket[hash(f)] IN IF b[1] = f THEN None ELSE b[SelectInSeq(b, LAMBDA x : x = f) - 1]

\* A descriptor that is not ready, or whose entry or callback is gone.
Skip ==
  /\ pc = "fd" /\ run = None
  /\ fd \in ready[event] => event \notin ctx.ent[fd].reg
  /\ Advance(IF fd \in ready[event] THEN retval - 1 ELSE retval)
  /\ UNCHANGED <<ctx, run, cursor, held>>

Dispatch ==
  /\ pc = "fd" /\ run = None /\ fd \in ready[event] /\ event \in ctx.ent[fd].reg
  /\ Begin(fd, event, Predecessor(fd))
  /\ retval' = retval - 1
  /\ UNCHANGED <<pc, held, ready, maxArg, startFd, startEvent, fd, event>>

\* A breakpoint: the rest of the descriptors are left for the next iteration.
Hold ==
  /\ pc = "fd" /\ run = None /\ "hold" \in Api /\ fd \in Tuned
  /\ fd \in ready[event] /\ Linked(fd) /\ ctx.ent[fd].pausable
  /\ held' = <<fd, event>> /\ pc' = "idle"
  /\ retval' = 0 /\ fd' = 0 /\ event' = 0 /\ ready' = NoneReady /\ maxArg' = 1
  /\ UNCHANGED <<ctx, run, cursor, startFd, startEvent>>

\* The callback returns.  Its registration ends when it asked for that and was
\* not renewed meanwhile, or when it was removed by force.
Ends(f, e, keep) == ctx.ent[f].in[e] = 3 \/ (~keep /\ ctx.ent[f].in[e] = 1)
Returned(f, e, keep) ==
  LET c == [ctx EXCEPT !.ent[f].in[e] = 0]
  IN IF Ends(f, e, keep) THEN EVT_remove_internal(c, f, e) ELSE c

Return(keep) ==
  /\ pc = "fd" /\ run # None
  /\ Ends(run[1], run[2], keep) => MayFree(run[1], run[2])
  /\ run' = None /\ cursor' = None
  /\ IF cursor = Dangling THEN pc' = "undefined" /\ UNCHANGED <<ctx, held, loop>>
     ELSE /\ ctx' = Returned(run[1], run[2], keep)
          /\ LoseHeld
          /\ Advance(retval)

\* The debugger's single step of the held event.
Step ==
  /\ pc = "idle" /\ held # None
  /\ IF held = Dangling
     THEN pc' = "undefined" /\ UNCHANGED <<ctx, run, cursor, held>>
     ELSE IF held[2] \in ctx.ent[held[1]].reg
     THEN Begin(held[1], held[2], None) /\ pc' = "step" /\ UNCHANGED held
     ELSE held' = None /\ UNCHANGED <<ctx, pc, run, cursor>>
  /\ UNCHANGED loop

\* The link that is passed to EVT_remove_internal is next_fd_event, not the one
\* of the bucket, which keeps pointing to the entry if that is freed.
StepReturn(keep) ==
  /\ pc = "step" /\ run' = None /\ held' = None /\ cursor' = None
  /\ LET f == run[1]
         e == run[2]
     IN IF Ends(f, e, keep) /\ ctx.ent[f].reg = {e}
        THEN "step_remove" \in Api /\ pc' = "undefined" /\ UNCHANGED ctx
        ELSE ctx' = Returned(f, e, keep) /\ pc' = "idle"
  /\ UNCHANGED loop

Next ==
  \/ \E f \in Fd, e \in Event :
       EVT_fd_add(f, e) \/ EVT_fd_remove(f, e) \/ EVT_fd_force_remove(f, e)
  \/ \E f \in Fd, b \in BOOLEAN : \/ EVT_fd_set_critical(f, b)
                                  \/ evt_fd_set_pausable(f, b) \/ evt_fd_set_paused(f, b)
  \/ \E B \in SUBSET Fd : EVT_clean_fdsets(B)
  \/ \E R \in [Event -> SUBSET Fd] : \E paused \in {"hold" \in Api, FALSE} : Select(R, paused)
  \/ Skip \/ Dispatch \/ Hold \/ Step
  \/ \E keep \in BOOLEAN : Return(keep) \/ StepReturn(keep)

Spec == Init /\ [][Next]_vars
-----------------------------------------------------------------------------

\* An entry exists exactly while it has a callback for some event type, and
\* the sets select watches, the counts that decide whether it gets them,
\* critical_fd_count and maxFd, which tells select how far to look, agree with
\* the entries.
RegistryExact ==
  pc # "undefined" =>
    /\ \A f \in Fd : Linked(f) <=> ctx.ent[f].reg # {}
    /\ \A b \in DOMAIN ctx.bucket : IsInjective(ctx.bucket[b])
    /\ \A e \in Event :
         /\ ctx.eventSet[e] = {f \in Fd : e \in ctx.ent[f].reg}
         /\ ctx.blockedSet[e] = {f \in ctx.eventSet[e] :
                                   ~(ctx.ent[f].pausable /\ ctx.ent[f].brk)}
         /\ ctx.eventCnt[e] = Cardinality(ctx.eventSet[e])
         /\ \A f \in ctx.eventSet[e] : f <= ctx.maxFd
    /\ ctx.critCount = Cardinality({f \in Fd : Linked(f) /\ ctx.ent[f].crit})

\* The rotating walk visits every descriptor that select found ready, unless
\* the debugger stops it: an fd phase never ends with one left over.
AllReadyVisited ==
  [][pc = "fd" /\ pc' = "idle" /\ UNCHANGED held => retval' = 0]_vars
=============================================================================
