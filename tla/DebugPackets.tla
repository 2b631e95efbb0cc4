---------------------------- MODULE DebugPackets ----------------------------
(***************************************************************************)
(* The packets of the event debugger (docs/debugger.md).  A process writes *)
(* its state report piece by piece into a growing buffer (events.c), and   *)
(* the client (proctest.cpp) parses it with json.hpp.  A client writes a   *)
(* command with json.hpp, and the process finds its members with json.c.   *)
(*                                                                         *)
(* The pieces of a report are tokens of module JsonText; a time is a       *)
(* number of microseconds, printed as seconds with six decimals.           *)
(***************************************************************************)
EXTENDS JsonText, JsonProps

CONSTANTS Contexts,   \* what a process may have to report
          Orders,     \* the commands of clients: functions from names to values
          Asked,      \* the names of the members the process looks for
          Alloc,      \* the first size of an IPCBuffer, in tokens
          NULL

VARIABLES ctx,      \* what the process reports
          order,    \* what the client asks for
          packet,   \* the packet on its way, NULL without one
          heard     \* what its receiver makes of it, NULL before

packetVars == <<ctx, order, packet, heard>>
-----------------------------------------------------------------------------
(* The report.  An event: id and at; an entry of a descriptor: id, name,   *)
(* open (whether /proc/self/fd has it), calls (its handlers) and paused.   *)
(* One member stands for the others that are printed in the same way.      *)

Sign(t) == <<Token(t, <<"null">>, 0)>>
Num(n) == <<Token("number", <<"int", n>>, 0)>>
Str(s) == <<Token("value_string", <<"string", s>>, 0)>>
json_bool(b) == <<Token("literal", <<"bool", b>>, 0)>>
Decimals(n) == [i \in 1..6 |-> 48 + ((n \div 10^(6 - i)) % 10)]
Printed(t) == dump_integer(t \div 1000000) \o <<46>> \o Decimals(t % 1000000)
Time(t) == <<scan_number(IF t < 0 THEN <<45>> \o Printed(-t) ELSE Printed(t), 1)>>
Pair(name, tokens) == Str(name) \o Sign("name_separator") \o tokens
PairThen(name, tokens) == Pair(name, tokens) \o Sign("value_separator")

\* Mutant: the text that did not fit is not printed again.
ipc_printf_buffer_Once(b, piece) ==
  IF Len(piece) < b.alloc - Len(b.data) THEN [b EXCEPT !.data = @ \o piece]
  ELSE [b EXCEPT !.data = @ \o SubSeq(piece, 1, b.alloc - Len(b.data) - 1), !.alloc = 2 * @]

\* The buffer doubles until the piece and its terminator fit.
Doublings(alloc, need) == CHOOSE k \in 0..10 : need < alloc * 2^k /\ \A j \in 0..k - 1 : need >= alloc * 2^j
ipc_printf_buffer(b, piece) ==
  [data |-> b.data \o piece, alloc |-> b.alloc * 2^Doublings(b.alloc, Len(b.data) + Len(piece))]
Pieces(b, pieces) == FoldLeft(LAMBDA x, p : ipc_printf_buffer(x, p), b, pieces)
Separator(first) == IF first THEN <<>> ELSE Sign("value_separator")

edbg_report_timed_event(e, now, first) ==
  <<Separator(first),
    Sign("begin_object") \o PairThen("id", Num(e.id)),
    Pair("time_remaining", Time(e.at - now)) \o Sign("end_object")>>

\* The event that is held comes before those of the queue.
TimedEvents(c) == (IF c.nextTimed = NULL THEN <<>> ELSE <<c.nextTimed>>) \o c.queue
edbg_report_timed_events(c) ==
  <<Str("timed_events") \o Sign("name_separator") \o Sign("begin_array")>>
    \o FlattenSeq([i \in DOMAIN TimedEvents(c) |-> edbg_report_timed_event(TimedEvents(c)[i], c.now, i = 1)])
    \o <<Sign("end_array") \o Sign("value_separator")>>

\* A descriptor that has been closed is left out without a word.
edbg_report_fd_event(d, first) ==
  IF ~d.open THEN <<>>
  ELSE <<Separator(first),
         Sign("begin_object") \o PairThen("id", Num(d.id))>>
         \o [i \in DOMAIN d.calls |-> PairThen(d.calls[i], Str(d.name))]
         \o <<Pair("read_breakpoint", json_bool(d.paused)) \o Sign("end_object")>>
edbg_report_fd_events(c) ==
  <<Str("fd_events") \o Sign("name_separator") \o Sign("begin_array")>>
    \o FlattenSeq([i \in DOMAIN c.fds |-> edbg_report_fd_event(c.fds[i], i = 1)])
    \o <<Sign("end_array") \o Sign("value_separator")>>

next_step(c) ==
  LET step(type, id) == <<PairThen("next_step", Sign("begin_object") \o PairThen("type", Str(type)) \o Pair("id", Num(id)) \o Sign("end_object"))>>
  IN IF ~c.stopped THEN <<>>
     ELSE IF c.nextTimed # NULL THEN step("Timed Event", c.nextTimed.id)
     ELSE IF c.nextFd # NULL THEN step("FD Event", c.nextFd.id) ELSE <<>>

PROC_debugger_state(c) == <<PairThen("process_name", Str(c.name))>>

\* Counters first, under the names the lists have after them.
edbg_report_state(c, full) ==
  <<Sign("begin_object") \o PairThen("dbg_state", Str(IF c.stopped THEN "stopped" ELSE "running"))
      \o PairThen("timed_events", Num(c.timedCount)) \o PairThen("fd_events", Num(c.fdCount))>>
    \o PROC_debugger_state(c) \o next_step(c)
    \o (IF full THEN edbg_report_timed_events(c) \o edbg_report_fd_events(c) ELSE <<>>)
    \o <<Pair("current_time", Time(c.now)) \o Sign("end_object")>>

EmptyBuffer == [data |-> <<>>, alloc |-> Alloc]

Report(full) ==
  /\ ctx # NULL /\ packet = NULL
  /\ packet' = <<full, Pieces(EmptyBuffer, edbg_report_state(ctx, full)).data \o Sign("end_of_input")>>
  /\ UNCHANGED <<ctx, order, heard>>

\* The client's SetState.
SetState ==
  /\ ctx # NULL /\ packet # NULL /\ heard = NULL
  /\ heard' = ParseTokens(packet[2])
  /\ UNCHANGED <<ctx, order, packet>>
-----------------------------------------------------------------------------
(* The commands.  Clients write their texts by hand (proctest.h) or with a *)
(* JSON library; dump stands for both.                                     *)

SendCmd(pretty) ==
  /\ order # NULL /\ packet = NULL
  /\ packet' = dump(<<"object", order>>, pretty, FALSE, "strict", 0)
  /\ UNCHANGED <<ctx, order, heard>>

\* What edbg_client_msg finds for the names it looks for.
edbg_client_msg ==
  /\ order # NULL /\ packet # NULL /\ heard = NULL
  /\ \E found \in {json_iterate_props(packet)} :
       heard' = [name \in Asked |-> json_get_string_prop(found, name)]
  /\ UNCHANGED <<ctx, order, packet>>

PacketInit ==
  /\ \/ ctx \in Contexts /\ order = NULL
     \/ ctx = NULL /\ order \in Orders
  /\ packet = NULL /\ heard = NULL

PacketNext ==
  \/ \E full \in BOOLEAN : Report(full)
  \/ SetState
  \/ \E pretty \in BOOLEAN : SendCmd(pretty)
  \/ edbg_client_msg
-----------------------------------------------------------------------------
\* What the list of a report tells of the events: their numbers and times.
Told(array, name) == [i \in DOMAIN array |-> array[i][2][name]]
Micros(v) == (IF v[2] THEN -1 ELSE 1) * Value(v[3]) * 10^(v[4] + 6)
Open(c) == SelectSeq(c.fds, LAMBDA d : d.open)

\* A state report reads as the state it was made from: a full one lists every
\* timed event and every open descriptor in place of their counters, and the
\* next step, which only a stopped process has, is one of those it lists.  That
\* takes an open descriptor at the front of the list (edbg_report_fd_event).
ReportRead ==
  ctx # NULL /\ heard # NULL /\ (packet[1] /\ ctx.fds # <<>> => ctx.fds[1].open) =>
    /\ heard.ok
    /\ LET doc == heard.val[2]
           timed == Told(doc["timed_events"][2], "id")
           fds == Told(doc["fd_events"][2], "id")
       IN /\ doc["dbg_state"] = <<"string", IF ctx.stopped THEN "stopped" ELSE "running">>
          /\ Micros(doc["current_time"]) = ctx.now
          /\ IF ~packet[1] THEN doc["timed_events"] = <<"int", ctx.timedCount>>
             ELSE /\ timed = [i \in DOMAIN TimedEvents(ctx) |-> <<"int", TimedEvents(ctx)[i].id>>]
                  /\ fds = [i \in DOMAIN Open(ctx) |-> <<"int", Open(ctx)[i].id>>]
                  /\ \A i \in DOMAIN timed :
                       Micros(doc["timed_events"][2][i][2]["time_remaining"]) = TimedEvents(ctx)[i].at - ctx.now
                  /\ "next_step" \in DOMAIN doc =>
                       /\ ctx.stopped
                       /\ \E i \in 1..Len(timed \o fds) : (timed \o fds)[i] = doc["next_step"][2]["id"]

\* The process understands a client's command as it was meant, whatever
\* characters other than quotes and backslashes the texts in it have, however
\* it is laid out and whichever of its members are left out.
CommandRead ==
  order # NULL /\ heard # NULL =>
    \A name \in Asked :
      CASE name \notin DOMAIN order -> heard[name] = <<"none">>
        [] order[name][1] = "string" -> heard[name] = <<"found", order[name][2]>>
        [] order[name][1] = "int" -> json_get_int_prop(heard[name]) = <<"found", order[name][2]>>

\* What the debugger and its client write is read as it was meant, reports and
\* commands.
PacketsRead == ReportRead /\ CommandRead
=============================================================================
