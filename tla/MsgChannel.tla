----------------------------- MODULE MsgChannel -----------------------------
(***************************************************************************)
(* What the message server of zmqlite.c promises the event debugger: a     *)
(* link to each peer that carries the peer's messages in the order sent,   *)
(* each delivered at most once and only while the link is up, and reports  *)
(* that reach every peer whose link is up, the newly connected included.   *)
(***************************************************************************)
EXTENDS Naturals, Sequences

CONSTANTS Peer, Message, Report

VARIABLES link,    \* the peers whose link is up
          sent,    \* what each peer has sent since it called
          inbox,   \* what has been delivered of it
          outbox   \* the reports each peer has been sent

channel == <<link, sent, inbox, outbox>>

Blank == [p \in Peer |-> <<>>]

Init == link = {} /\ sent = Blank /\ inbox = Blank /\ outbox = Blank

\* A report goes to all the peers in up, or to none.
Reported(up) ==
  \/ UNCHANGED outbox
  \/ \E r \in Report : outbox' = [p \in Peer |-> IF p \in up THEN Append(outbox[p], r) ELSE outbox[p]]

Send(p) ==
  /\ \E m \in Message : sent' = [sent EXCEPT ![p] = Append(@, m)]
  /\ UNCHANGED <<link, inbox, outbox>>

Up(p) == p \notin link /\ link' = link \cup {p} /\ Reported(link') /\ UNCHANGED <<sent, inbox>>

Deliver(p) ==
  /\ p \in link /\ Len(inbox[p]) < Len(sent[p])
  /\ inbox' = [inbox EXCEPT ![p] = Append(@, sent[p][Len(@) + 1])]
  /\ Reported(link) /\ UNCHANGED <<link, sent>>

\* Links go down with everything that was on them.
Down(P) ==
  LET Emptied(box) == [p \in Peer |-> IF p \in P THEN <<>> ELSE box[p]]
  IN /\ link' = link \ P
     /\ sent' = Emptied(sent) /\ inbox' = Emptied(inbox) /\ outbox' = Emptied(outbox)

Next ==
  \/ Reported(link) /\ UNCHANGED <<link, sent, inbox>>
  \/ \E p \in Peer : Send(p) \/ Up(p) \/ Deliver(p)
  \/ \E P \in SUBSET Peer : Down(P)

Spec == Init /\ [][Next]_channel
=============================================================================
