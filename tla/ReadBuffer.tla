----------------------------- MODULE ReadBuffer -----------------------------
(***************************************************************************)
(* child_read_data and drain_buffer of proclib.c: the buffer between a     *)
(* child's output stream and the application's callback.  It grows from    *)
(* READ_BUFF_MIN to READ_BUFF_MAX; the callback takes part of the data,    *)
(* all of it, or the buffer itself.  Bytes are numbered.                   *)
(***************************************************************************)
EXTENDS Naturals, Sequences

CONSTANTS READ_BUFF_MIN, READ_BUFF_MAX

VARIABLES pipe,      \* the bytes in the pipe
          closed,    \* the child's end of the pipe is closed
          buff, buffCap,
          alloc,     \* buff is not NULL
          open,      \* the parent's end is open and read
          got,       \* the bytes the callback has taken
          lost,      \* the number of bytes thrown away
          failed     \* the assertion failed

readVars == <<pipe, closed, buff, buffCap, alloc, open, got, lost, failed>>

ReadInit ==
  /\ pipe = <<>> /\ closed = FALSE /\ open = TRUE
  /\ buff = <<>> /\ buffCap = 0 /\ alloc = FALSE
  /\ got = <<>> /\ lost = 0 /\ failed = FALSE

From(s, n) == SubSeq(s, n + 1, Len(s))

\* What a buffer can be like after drain_buffer: the callback has taken the
\* first bytes, in one or several calls, or everything with the buffer.
drain_buffer(b) ==
  {[b EXCEPT !.buff = From(@, n), !.got = @ \o SubSeq(b.buff, 1, n)] : n \in 0..Len(b.buff)}
    \cup (IF b.buff = <<>> THEN {}
          ELSE {[b EXCEPT !.buff = <<>>, !.got = @ \o b.buff, !.cap = 0, !.alloc = FALSE]})

Current == [buff |-> buff, cap |-> buffCap, alloc |-> alloc, got |-> got, lost |-> lost]

Full(b) == b.cap >= READ_BUFF_MAX

\* A buffer that is still full after the callback's last chance is emptied.
Dropped(b) ==
  IF Len(b.buff) >= b.cap THEN [b EXCEPT !.buff = <<>>, !.lost = @ + Len(b.buff)] ELSE b

Grown(b) ==
  IF ~b.alloc THEN [b EXCEPT !.buff = <<>>, !.cap = READ_BUFF_MIN, !.alloc = TRUE]
  ELSE IF Len(b.buff) >= b.cap /\ b.cap < READ_BUFF_MAX
       THEN [b EXCEPT !.cap = IF 2 * @ > READ_BUFF_MAX THEN READ_BUFF_MAX ELSE 2 * @]
       ELSE b

\* The buffers the read may find.
Roomy ==
  IF Len(buff) < buffCap THEN {Current}
  ELSE {Grown(b) : b \in IF Full(Current) THEN {Dropped(d) : d \in drain_buffer(Current)} ELSE {Current}}

Store(b) ==
  /\ buff' = b.buff /\ buffCap' = b.cap /\ alloc' = b.alloc /\ got' = b.got /\ lost' = b.lost

\* Mutant: the bytes replace what is in the buffer.
Taken_Over(b, n) == [b EXCEPT !.buff = SubSeq(pipe, 1, n)]

Taken(b, n) == [b EXCEPT !.buff = @ \o SubSeq(pipe, 1, n)]

Least(m, n) == IF m < n THEN m ELSE n

\* The end of the stream: what the callback leaves is thrown away.
AtEnd(b) ==
  {[d EXCEPT !.buff = <<>>, !.cap = 0, !.alloc = FALSE, !.lost = @ + Len(d.buff)] : d \in drain_buffer(b)}

child_read_data ==
  /\ open /\ ~failed /\ (pipe # <<>> \/ closed)
  /\ \E b \in Roomy :
       IF Len(b.buff) >= b.cap THEN failed' = TRUE /\ UNCHANGED <<pipe, buff, buffCap, alloc, open, got, lost>>
       ELSE /\ UNCHANGED failed
            /\ IF pipe = <<>> THEN open' = FALSE /\ UNCHANGED pipe /\ \E d \in AtEnd(b) : Store(d)
               ELSE LET n == Least(Len(pipe), b.cap - Len(b.buff))
                    IN /\ pipe' = From(pipe, n) /\ UNCHANGED open
                       /\ \E d \in drain_buffer(Taken(b, n)) : Store(d)
  /\ UNCHANGED closed

\* The read fails: the stream is closed with what is in the buffer.
ReadFails ==
  /\ open /\ ~failed /\ open' = FALSE
  /\ \E b \in Roomy : Store([b EXCEPT !.buff = <<>>, !.cap = 0, !.alloc = FALSE, !.lost = @ + Len(b.buff)])
  /\ UNCHANGED <<pipe, closed, failed>>
-----------------------------------------------------------------------------
=============================================================================
