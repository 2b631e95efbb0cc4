-------------------------------- MODULE Gpio --------------------------------
(***************************************************************************)
(* The one-time interrupts of src/events.c (EVT_add_ppod_deployment_cb,    *)
(* EVT_add_pending_reboot_cb and their removal): a device whose descriptor *)
(* is registered with the loop by the first callback that is added, and    *)
(* the callbacks, called once when the device reads 'Y' and at once when   *)
(* it already has.  The two interrupts are alike; this is one of them.     *)
(***************************************************************************)
EXTENDS Integers, Sequences, FiniteSetsExt, SequencesExt

CONSTANTS Callback,  \* pairs of a callback and its argument
          MaxAdds,   \* bound on the calls that add a callback
          Faults     \* "open": open fails, "memory": EVT_fd_add fails

VARIABLES fd,        \* intr->fd: "none" (0 or -1) or "open"
          tripped,   \* intr->tripped
          callbacks, \* intr->callbacks: the numbers of the calls, last first
          added,     \* the callback of every call that succeeded
          removed,   \* the calls whose callback was removed before its turn
          called,    \* the calls whose callback was called, in order
          walking    \* whether trip_gpio_intr_callback runs

vars == <<fd, tripped, callbacks, added, removed, called, walking>>

Init ==
  /\ fd = "none" /\ tripped = FALSE /\ callbacks = <<>>
  /\ added = <<>> /\ removed = {} /\ called = <<>> /\ walking = FALSE

\* setup_gpio_intr leaves the descriptor d and the list l: nothing is done once
\* the interrupt has tripped or is open, else the list is emptied.
setup_gpio_intr(d, l) ==
  IF tripped \/ fd = "open" THEN d = fd /\ l = callbacks
  ELSE \/ d = "open" /\ l = <<>>
       \/ d = "none" /\ l = <<>> /\ "memory" \in Faults

OpenFails == "open" \in Faults /\ ~tripped /\ fd = "none"

\* The open fails, and the caller is told so.
AddRefused ==
  /\ OpenFails /\ callbacks' = <<>>
  /\ UNCHANGED <<fd, tripped, added, removed, called, walking>>

\* Mutant: a callback added after the interrupt waits for it.
add_gpio_intr_callback_Waits(call, l) == callbacks' = <<call>> \o l /\ UNCHANGED called

\* add_gpio_intr_callback: called at once when the interrupt is over.
add_gpio_intr_callback(call, l) ==
  IF tripped THEN called' = Append(called, call) /\ callbacks' = l
  ELSE callbacks' = <<call>> \o l /\ UNCHANGED called

EVT_add_cb(cb) ==
  /\ Len(added) < MaxAdds
  /\ \E d \in {"none", "open"}, l \in {callbacks, <<>>} :
       /\ setup_gpio_intr(d, l) /\ fd' = d
       /\ add_gpio_intr_callback(Len(added) + 1, l)
  /\ added' = Append(added, cb)
  /\ UNCHANGED <<tripped, removed, walking>>

\* remove_gpio_intr_callback: every node of the callback.
EVT_remove_cb(cb) ==
  /\ callbacks' = SelectSeq(callbacks, LAMBDA c : added[c] # cb)
  /\ removed' = removed \cup {c \in ToSet(callbacks) : added[c] = cb}
  /\ UNCHANGED <<fd, tripped, added, called, walking>>

\* trip_gpio_intr_callback: a read of anything else than 'Y' changes nothing.
Trips ==
  /\ fd = "open" /\ ~tripped
  /\ tripped' = TRUE /\ fd' = "none" /\ walking' = TRUE
  /\ UNCHANGED <<callbacks, added, removed, called>>

\* The walk takes a node off the list before it is called, so that callbacks
\* may add and remove others.
Calls ==
  /\ walking
  /\ IF callbacks = <<>> THEN walking' = FALSE /\ UNCHANGED <<callbacks, called>>
     ELSE /\ called' = Append(called, Head(callbacks)) /\ callbacks' = Tail(callbacks)
          /\ UNCHANGED walking
  /\ UNCHANGED <<fd, tripped, added, removed>>

Next ==
  \/ AddRefused \/ Trips \/ Calls
  \/ \E cb \in Callback : EVT_add_cb(cb) \/ EVT_remove_cb(cb)

Spec == Init /\ [][Next]_vars
-----------------------------------------------------------------------------
\* Everyone who asked is told of the interrupt exactly once: not before it, and
\* by the end of the walk at the latest, whether the callback was added before,
\* during or after it, and whoever else was added or removed by then.
EachToldOnce ==
  /\ IsInjective(called) /\ (called # <<>> => tripped)
  /\ removed \cap ToSet(called) = {}
  /\ tripped /\ ~walking => DOMAIN added = ToSet(called) \cup removed
=============================================================================
