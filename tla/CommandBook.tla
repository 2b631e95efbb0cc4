----------------------------- MODULE CommandBook -----------------------------
(***************************************************************************)
(* What registration and look-up of commands promise: one description for  *)
(* each number, the first to come or the last that overrides it, and for   *)
(* each description the handler set last.                                  *)
(***************************************************************************)
CONSTANTS Info, Number, NULL, Handler,
          number(_)    \* the command number of a description

VARIABLES book,      \* the description of each number that has one
          hand,      \* the handler of each description
          found      \* the last command looked up, and its description

Init == book = [n \in {} |-> NULL] /\ hand = [i \in Info |-> NULL] /\ found = <<NULL, NULL>>

Listed(n) == n \in DOMAIN book

Register(i, override) ==
  /\ book' = IF Listed(number(i)) /\ ~override THEN book
             ELSE [n \in DOMAIN book \cup {number(i)} |-> IF n = number(i) THEN i ELSE book[n]]
  /\ UNCHANGED <<hand, found>>

SetHandler(n, h) == Listed(n) /\ hand' = [hand EXCEPT ![book[n]] = h] /\ UNCHANGED <<book, found>>

LookUp(n) == found' = <<n, IF Listed(n) THEN book[n] ELSE NULL>> /\ UNCHANGED <<book, hand>>

Next ==
  \/ \E i \in Info, override \in BOOLEAN : Register(i, override)
  \/ \E n \in Number : LookUp(n) \/ \E h \in Handler : SetHandler(n, h)

Spec == Init /\ [][Next]_<<book, hand, found>>
==============================================================================
