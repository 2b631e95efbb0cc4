----------------------------- MODULE WriteQueue -----------------------------
(***************************************************************************)
(* PROC_nonblocking_write of proclib.c: one list of pending writes for all *)
(* descriptors, and a write event for each descriptor that has one.        *)
(* Pieces of data are numbered in the order in which they are queued; 0 is *)
(* a node without data.                                                    *)
(***************************************************************************)
EXTENDS Naturals, Sequences, FiniteSets

CONSTANTS Fd,
          MaxWrites,  \* bound on the pieces queued
          Options     \* the memory options callers use

VARIABLES writeListHead,  \* the list, as a sequence
          registered,     \* the descriptors with a write event
          asked,          \* for each descriptor, what the application queued
          written         \* and what has been handed to write

writeVars == <<writeListHead, registered, asked, written>>

WriteInit ==
  /\ writeListHead = <<>> /\ registered = {}
  /\ asked = [fd \in Fd |-> <<>>] /\ written = [fd \in Fd |-> <<>>]

For(list, fd) == SelectSeq(list, LAMBDA node : node.fd = fd)
Data(nodes) == [i \in DOMAIN nodes |-> nodes[i].data]
Queued == Len(writeListHead) + Cardinality({<<fd, i>> \in Fd \X (1..MaxWrites) : i <= Len(written[fd])})

\* Only COPY_DATA_TO_WRITE stores the data in the node.
Node(fd, data, option) == [fd |-> fd, data |-> IF option = "copy" THEN data ELSE 0]

WritePending(list, fd) == For(list, fd) # <<>>

Enqueued(node) == Append(writeListHead, node)

PROC_nonblocking_write_callback(fd, option) ==
  /\ Queued < MaxWrites
  /\ writeListHead' = Enqueued(Node(fd, Queued + 1, option))
  /\ registered' = IF WritePending(writeListHead, fd) THEN registered ELSE registered \cup {fd}
  /\ asked' = [asked EXCEPT ![fd] = Append(@, Queued + 1)]
  /\ UNCHANGED written

FirstFor(list, fd) == CHOOSE i \in DOMAIN list : list[i].fd = fd /\ \A j \in 1..i - 1 : list[j].fd # fd
Unlinked(list, i) == SubSeq(list, 1, i - 1) \o SubSeq(list, i + 1, Len(list))

\* The first node for the descriptor is written and freed.  The callback that
\* writes may queue another piece, for g, while the node is still on the list.
write_event_callback(fd, g, option) ==
  /\ fd \in registered
  /\ IF For(writeListHead, fd) = <<>> THEN registered' = registered \ {fd} /\ UNCHANGED <<writeListHead, asked, written>>
     ELSE LET i == FirstFor(writeListHead, fd)
              more == g \in Fd /\ Queued < MaxWrites
              list == IF more THEN Append(writeListHead, Node(g, Queued + 1, option)) ELSE writeListHead
              added == IF more /\ ~WritePending(writeListHead, g) THEN {g} ELSE {}
          IN /\ writeListHead' = Unlinked(list, i)
             /\ registered' = (registered \cup added) \ (IF For(writeListHead', fd) = <<>> THEN {fd} ELSE {})
             /\ asked' = IF more THEN [asked EXCEPT ![g] = Append(@, Queued + 1)] ELSE asked
             /\ written' = [written EXCEPT ![fd] = Append(@, writeListHead[i].data)]

WriteNext ==
  \/ \E fd \in Fd, option \in Options : PROC_nonblocking_write_callback(fd, option)
  \/ \E fd \in Fd, option \in Options : \E g \in Fd \cup {0} : write_event_callback(fd, g, option)
-----------------------------------------------------------------------------
=============================================================================
