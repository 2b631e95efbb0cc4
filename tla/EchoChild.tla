------------------------------ MODULE EchoChild ------------------------------
(***************************************************************************)
(* A process and a child that copies its stdin to its stdout: the pieces   *)
(* queued with PROC_nonblocking_write for the child's stdin, each a number *)
(* of one byte, come back through the child's stdout and the read buffer.  *)
(* Descriptor In is the child's stdin; the others lead elsewhere.          *)
(***************************************************************************)
EXTENDS WriteQueue, ReadBuffer

CONSTANT In

VARIABLE echoed   \* how much of its stdin the child has copied

vars == <<writeVars, readVars, echoed>>

Init == WriteInit /\ ReadInit /\ echoed = 0

Writes == WriteNext /\ UNCHANGED <<readVars, echoed>>
Reads == (child_read_data \/ ReadFails) /\ UNCHANGED <<writeVars, echoed>>

Copies ==
  /\ ~closed /\ echoed < Len(written[In])
  /\ pipe' = Append(pipe, written[In][echoed + 1]) /\ echoed' = echoed + 1
  /\ UNCHANGED <<writeVars, closed, buff, buffCap, alloc, open, got, lost, failed>>

Exits ==
  /\ ~closed /\ closed' = TRUE
  /\ UNCHANGED <<writeVars, pipe, buff, buffCap, alloc, open, got, lost, failed, echoed>>

Next == Writes \/ Reads \/ Copies \/ Exits

Spec == Init /\ [][Next]_vars
-----------------------------------------------------------------------------
\* Through queue, pipe and buffer nothing is duplicated or reordered, and as
\* long as the callback keeps up nothing is lost: what it has been given,
\* followed by what is on the way, is what was queued.
EndToEnd ==
  lost = 0 => got \o buff \o pipe \o From(written[In], echoed)
                \o Data(For(writeListHead, In)) = asked[In]
=============================================================================
