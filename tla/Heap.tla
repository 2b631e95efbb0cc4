-------------------------------- MODULE Heap --------------------------------
(***************************************************************************)
(* The binary heap of src/priorityQueue.c as operators on a heap value     *)
(*                                                                         *)
(*    h = [d, size, avail, pos]                                            *)
(*                                                                         *)
(* d     the array q->d, slots 1 .. avail-1 (element 0 is never used);     *)
(*       what an operation leaves in the slots at and beyond size is never *)
(*       read by a later one, and is forgotten when the operation ends;    *)
(* size  q->size, one more than the number of entries;                     *)
(* avail q->avail, the number of slots allocated;                          *)
(* pos   the position every entry stores through the setpos callback,      *)
(*       Out standing for SIZE_MAX.                                        *)
(*                                                                         *)
(* pri maps an entry to its priority (the nextAwake of an event).  The     *)
(* comparison is cmp_pri of src/events.c, next >= curr, so the root is the *)
(* entry with the least time.  A loop that moves entries along a path of   *)
(* the tree is written as the path it follows and the function it leaves.  *)
(***************************************************************************)
EXTENDS Integers, FiniteSets

CONSTANTS None, \* an array slot that was never written
          Step  \* n+1 of ps_pqueue_init: the allocation granularity, at least 2

Out == 0   \* SIZE_MAX, the position of an entry that is in no queue

parent(i) == i \div 2
left(i) == 2 * i

\* events.c cmp_pri: the time `next' is not before the time `curr'.
cmppri(next, curr) == next >= curr

\* i and its ancestors, the positions bubble_up can visit.
Ancestors(i) == {j \in 1..i : \E k \in 0..i : i \div (2^k) = j}

\* Writing entry d[i] of every i of a set also stores i in the entry.
SetPos(pos, d, I) ==
  [e \in DOMAIN pos |-> IF \E i \in I : d[i] = e
                        THEN CHOOSE i \in I : d[i] = e ELSE pos[e]]

ps_pqueue_init(Entries) ==
  [d |-> [i \in 1..(Step - 1) |-> None], size |-> 1, avail |-> Step,
   pos |-> [e \in Entries |-> Out]]

\* The entries that count: positions 1 .. size-1.
Entries(h) == {h.d[i] : i \in 1..(h.size - 1)}

\* Slots at and beyond size are overwritten before they are read again.
Forget(h) == [h EXCEPT !.d = [i \in DOMAIN h.d |->
                                IF i < h.size THEN h.d[i] ELSE None]]

\* Every ancestor that is not before the moving entry moves one level down.
bubble_up(h, pri, i) ==
  LET moving == h.d[i]
      passed(p) == cmppri(pri[h.d[p]], pri[moving])
      top == CHOOSE t \in Ancestors(i) :
               /\ \A p \in Ancestors(i) : t <= p /\ p < i => passed(p)
               /\ t > 1 => ~passed(parent(t))
      moved == {p \in Ancestors(i) : p > top}
      d == [p \in DOMAIN h.d |-> IF p = top THEN moving
                                 ELSE IF p \in moved THEN h.d[parent(p)]
                                 ELSE h.d[p]]
  IN [h EXCEPT !.d = d, !.pos = SetPos(h.pos, d, moved \cup {top})]

\* The child to compare with, 0 when there is none; the right one on a tie.
maxchild(h, pri, i) ==
  IF left(i) >= h.size THEN 0
  ELSE IF /\ left(i) + 1 < h.size
          /\ cmppri(pri[h.d[left(i)]], pri[h.d[left(i) + 1]])
       THEN left(i) + 1 ELSE left(i)

\* The moving entry sinks while it is not before the chosen child.
percolate_down(h, pri, i) ==
  LET moving == h.d[i]
      Sink[p \in 1..h.size] ==
        LET c == maxchild(h, pri, p)
        IN IF c # 0 /\ cmppri(pri[moving], pri[h.d[c]]) THEN Sink[c] ELSE p
      bottom == Sink[i]
      path == {p \in Ancestors(bottom) : p >= i}
      d == [p \in DOMAIN h.d |->
              IF p = bottom THEN moving
              ELSE IF p \in path
                   THEN h.d[CHOOSE c \in path : parent(c) = p]
              ELSE h.d[p]]
  IN [h EXCEPT !.d = d, !.pos = SetPos(h.pos, d, path)]

\* Grow by `Step' slots when full, put the entry in the last slot, bubble up.
ps_pqueue_insert(h, pri, e) ==
  LET avail == IF h.size >= h.avail THEN h.size + Step ELSE h.avail
      d == [i \in 1..(avail - 1) |->
              IF i = h.size THEN e
              ELSE IF i \in DOMAIN h.d THEN h.d[i] ELSE None]
  IN bubble_up([h EXCEPT !.d = d, !.size = @ + 1, !.avail = avail],
               pri, h.size)

\* `old' is what getpri returned before setpri stored the new priority in pri.
ps_pqueue_change_priority(h, old, pri, e) ==
  IF cmppri(old, pri[e]) THEN bubble_up(h, pri, h.pos[e])
                         ELSE percolate_down(h, pri, h.pos[e])

\* The last entry replaces the removed one and moves whichever way its
\* priority asks for; the removed entry's own position is not touched here.
ps_pqueue_remove(h, pri, e) ==
  LET posn == h.pos[e]
      last == h.d[h.size - 1]
      h1 == [h EXCEPT !.d[posn] = last, !.size = @ - 1]
  IN Forget(IF cmppri(pri[e], pri[last]) THEN bubble_up(h1, pri, posn)
                                         ELSE percolate_down(h1, pri, posn))

\* events.c sets pos to SIZE_MAX when an entry has left the queue.
Gone(h, e) == [h EXCEPT !.pos[e] = Out]

ps_pqueue_peek(h) == IF h.size = 1 THEN None ELSE h.d[1]

\* The heap after the root has been taken; ps_pqueue_peek is what is returned.
ps_pqueue_pop(h, pri) ==
  Forget(percolate_down([h EXCEPT !.d[1] = h.d[h.size - 1], !.size = @ - 1],
                        pri, 1))
=============================================================================
