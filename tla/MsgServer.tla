----------------------------- MODULE MsgServer -----------------------------
(***************************************************************************)
(* The message server of zmqlite.c, the buffers of ipc.c it reads into and *)
(* the callbacks the event debugger gives it (events.c).                   *)
(*                                                                         *)
(* A peer connects, sends the three parts of the ZMTP greeting and then    *)
(* frames; reads return any part of what has arrived.  Bytes are numbers   *)
(* below Radix.  The greeting's parts have 2, 1 and 2 bytes here (10, 1    *)
(* and 53 in the code), a long length 2 (8 in the code), and a byte Radix  *)
(* values (256 in the code): the flags 1, 2 and 4 fit in it.               *)
(***************************************************************************)
EXTENDS Naturals, Sequences, SequencesExt

CONSTANTS Peer, NULL,
          Message,      \* the payloads peers send, sequences of bytes
          Forms,        \* the frames they use: <<long, command>>
          DumpNow,      \* the messages edbg_client_msg answers with a report
          Periodic,     \* and those that start periodic reports
          Flaws,        \* where greetings have a wrong byte, 0 for nowhere
          SignedChar,   \* char is signed in this build
          ReadSize,     \* the most a read returns (2048 in the code)
          InitialAlloc, \* the first size of a buffer (1024 in the code)
          MaxCalls,     \* bound on the connections peers make
          MaxFrames,    \* bound on the frames of a connection
          MaxReports    \* bound on the reports

Radix == 8
LongDigits == 2
ZMQ_LONG_SIZE == 2
ZMQ_COMMAND == 4
ZMQ_SIGNATURE_DATA == <<7, 1>>
ZMQ_VERS_DATA == <<3>>
ZMQ_AUTH_DATA == <<0, 5>>
Greeting == ZMQ_SIGNATURE_DATA \o ZMQ_VERS_DATA \o ZMQ_AUTH_DATA

VARIABLES calls,       \* the number of connections made
          peer,        \* "away", "calling" (not accepted), "on" or "gone"
          wire,        \* the bytes the server has yet to read
          frames,      \* the number of frames a peer has sent on its connection
          posted,      \* and the messages in them
          heard,       \* what the server has written to it
          clients,     \* server->clients, as a sequence of peers
          clientCount,
          client,      \* the ZMQLClient of each accepted peer
          registered,  \* the peers whose socket has a read event
          delivered,   \* the messages msgCb has been given from each peer
          reports,     \* the number of reports made
          dump_evt,    \* the debugger's periodic report is scheduled
          active,      \* the client being processed and the bytes consumed
          up           \* the server exists

peers == <<calls, peer, wire, frames, posted>>
server == <<heard, clients, clientCount, client, registered, delivered, reports, dump_evt, active, up>>
vars == <<peers, server>>

Closed == [state |-> "none", data |-> <<>>, alloc |-> 0, closeFlag |-> FALSE]

Init ==
  /\ calls = 0 /\ peer = [p \in Peer |-> "away"] /\ wire = [p \in Peer |-> <<>>]
  /\ frames = [p \in Peer |-> 0] /\ posted = [p \in Peer |-> <<>>] /\ heard = [p \in Peer |-> <<>>]
  /\ clients = <<>> /\ clientCount = 0 /\ client = [p \in Peer |-> Closed]
  /\ registered = {} /\ delivered = [p \in Peer |-> <<>>]
  /\ reports = 0 /\ dump_evt = FALSE /\ active = NULL /\ up = TRUE
-----------------------------------------------------------------------------
(* The peers (external): any program that speaks the protocol, or not.     *)

\* The length in one byte, or after ZMQ_LONG_SIZE in several, highest first.
Frame(m, long, command) ==
  LET flags == (IF long THEN ZMQ_LONG_SIZE ELSE 0) + (IF command THEN ZMQ_COMMAND ELSE 0)
      length == IF long THEN <<Len(m) \div Radix, Len(m) % Radix>> ELSE <<Len(m)>>
  IN <<flags>> \o length \o m

\* A peer calls and greets, with a wrong byte or without.
Calls(p, wrong) ==
  /\ peer[p] = "away" /\ calls < MaxCalls /\ up
  /\ calls' = calls + 1 /\ peer' = [peer EXCEPT ![p] = "calling"]
  /\ wire' = [wire EXCEPT ![p] = IF wrong = 0 THEN Greeting ELSE [Greeting EXCEPT ![wrong] = 6]]
  /\ UNCHANGED <<frames, posted, server>>

Sends(p, m, long, command) ==
  /\ peer[p] \in {"calling", "on"} /\ frames[p] < MaxFrames
  /\ frames' = [frames EXCEPT ![p] = @ + 1]
  /\ wire' = [wire EXCEPT ![p] = @ \o Frame(m, long, command)]
  /\ posted' = IF command THEN posted ELSE [posted EXCEPT ![p] = Append(@, m)]
  /\ UNCHANGED <<calls, peer, server>>

HangsUp(p) == peer[p] = "on" /\ peer' = [peer EXCEPT ![p] = "gone"] /\ UNCHANGED <<calls, wire, frames, posted, server>>
-----------------------------------------------------------------------------
(* The server's side of a connection.                                      *)

Idle == up /\ active = NULL

Written(h, p, what) == [h EXCEPT ![p] = Append(@, <<what, 0>>)]

zmql_accept_cb(p) ==
  /\ Idle /\ peer[p] = "calling"
  /\ peer' = [peer EXCEPT ![p] = "on"]
  /\ clients' = <<p>> \o clients /\ clientCount' = clientCount + 1
  /\ client' = [client EXCEPT ![p] = [Closed EXCEPT !.state = "SIGNATURE"]]
  /\ registered' = registered \cup {p} /\ heard' = Written(heard, p, "signature")
  /\ UNCHANGED <<calls, wire, frames, posted, delivered, reports, dump_evt, active, up>>

\* zmql_broadcast_buffer: only clients past the handshake are written to.
Broadcast(h, c, r) ==
  [p \in Peer |-> IF p \in ToSet(clients) /\ c[p].state = "DATA" THEN Append(h[p], <<"report", r>>) ELSE h[p]]

\* edbg_report_state: a report to all, when there is a client at all.
edbg_report_state(h, c) ==
  IF clientCount = 0 THEN UNCHANGED <<heard, reports>> /\ h = heard
  ELSE heard' = Broadcast(h, c, reports + 1) /\ reports' = reports + 1

\* The size the buffer has after ipc_append_buffer.
Grown(alloc, used, len) ==
  LET doubled[a \in Nat] == IF len >= a - used THEN doubled[2 * a] ELSE a IN doubled[alloc]

ipc_append_buffer(b, bytes) ==
  [b EXCEPT !.data = @ \o bytes,
            !.alloc = Grown(IF @ = 0 THEN InitialAlloc ELSE @, Len(b.data), Len(bytes))]

\* zmql_client_read_cb up to ipc_process_buffer: some of the bytes are read.
zmql_client_read_cb(p) ==
  /\ Idle /\ p \in registered /\ wire[p] # <<>>
  /\ \E n \in 1..Len(wire[p]) :
       /\ n <= ReadSize /\ wire' = [wire EXCEPT ![p] = SubSeq(@, n + 1, Len(@))]
       /\ client' = [client EXCEPT ![p] = ipc_append_buffer([@ EXCEPT !.closeFlag = FALSE], SubSeq(wire[p], 1, n))]
  /\ active' = [client |-> p, consumed |-> 0]
  /\ UNCHANGED <<calls, peer, frames, posted, heard, clients, clientCount, registered, delivered, reports, dump_evt, up>>

Complete(data, offset, length) == Len(data) >= offset + length

\* payloadLen = data[1]: a signed char of 128 or more (half the values) becomes
\* a length that no buffer has.
ShortLength(byte) == IF SignedChar /\ byte >= Radix \div 2 THEN Radix ^ (LongDigits + 1) ELSE byte

HasFlag(flags, bit) == (flags \div bit) % 2 = 1

\* zmql_client_process in state ZMQL_DATA: the bytes of the first frame, and
\* its payload unless it is a command; 0 bytes when it is not complete.
Unframed(data) ==
  IF data = <<>> THEN [used |-> 0, message |-> NULL]
  ELSE LET long == HasFlag(data[1], ZMQ_LONG_SIZE)
           offset == IF long THEN 1 + LongDigits ELSE 2
           length == IF long THEN data[2] * Radix + data[3] ELSE ShortLength(data[2])
       IN IF Len(data) < offset \/ ~Complete(data, offset, length) THEN [used |-> 0, message |-> NULL]
          ELSE [used |-> offset + length,
                message |-> IF HasFlag(data[1], ZMQ_COMMAND) THEN NULL
                            ELSE <<SubSeq(data, offset + 1, offset + length)>>]

\* The parts of the greeting, what answers them and the state that follows.
Part(state) ==
  CASE state = "SIGNATURE" -> [data |-> ZMQ_SIGNATURE_DATA, answer |-> "version", then |-> "VERS1"]
    [] state = "VERS1" -> [data |-> ZMQ_VERS_DATA, answer |-> "auth", then |-> "AUTH"]
    [] state = "AUTH" -> [data |-> ZMQ_AUTH_DATA, answer |-> "ready", then |-> "DATA"]

\* Mutant: the connected peer gets the report before the end of the handshake.
Greeted_Reported(p, part) ==
  LET c == [client EXCEPT ![p].state = part.then]
  IN /\ client' = c
     /\ IF part.then # "DATA" THEN heard' = Written(heard, p, part.answer) /\ UNCHANGED reports
        ELSE /\ heard' = Written(Broadcast(heard, c, reports + 1), p, part.answer)
             /\ reports' = reports + 1

\* The answer is written; connectCb, edbg_debugger_connect, reports the state.
Greeted(p, part) ==
  LET c == [client EXCEPT ![p].state = part.then]
  IN /\ client' = c
     /\ IF part.then # "DATA" THEN heard' = Written(heard, p, part.answer) /\ UNCHANGED reports
        ELSE edbg_report_state(Written(heard, p, part.answer), c)

\* msgCb, edbg_client_msg, as far as it reports.
edbg_client_msg(m) ==
  /\ IF m \in DumpNow THEN edbg_report_state(heard, client) ELSE UNCHANGED <<heard, reports>>
  /\ dump_evt' = (dump_evt \/ m \in Periodic)

\* One call of zmql_client_process from the loop of ipc_process_buffer.
zmql_client_process ==
  /\ up /\ active # NULL
  /\ LET p == active.client
         data == SubSeq(client[p].data, active.consumed + 1, Len(client[p].data))
     IN IF client[p].state # "DATA"
        THEN LET part == Part(client[p].state)
             IN /\ Len(data) >= Len(part.data) /\ SubSeq(data, 1, Len(part.data)) = part.data
                /\ Greeted(p, part) /\ active' = [active EXCEPT !.consumed = @ + Len(part.data)]
                /\ UNCHANGED <<delivered, dump_evt>>
        ELSE LET frame == Unframed(data)
             IN /\ frame.used > 0 /\ active' = [active EXCEPT !.consumed = @ + frame.used]
                /\ UNCHANGED client
                /\ IF frame.message = NULL THEN UNCHANGED <<delivered, heard, reports, dump_evt>>
                   ELSE /\ delivered' = [delivered EXCEPT ![p] = Append(@, frame.message[1])]
                        /\ edbg_client_msg(frame.message[1])
  /\ UNCHANGED <<peers, clients, clientCount, registered, up>>

\* A part of the greeting is there and wrong.
Refused(state, data) ==
  state # "DATA" /\ Len(data) >= Len(Part(state).data) /\ SubSeq(data, 1, Len(Part(state).data)) # Part(state).data

\* Mutant: the callback is called once for each read.
NothingToDo_Once(state, data) == active.consumed > 0

\* zmql_client_process returns 0.
NothingToDo(state, data) ==
  IF state = "DATA" THEN Unframed(data).used = 0
  ELSE Len(data) < Len(Part(state).data) \/ Refused(state, data)

\* zmql_destroy_client for the peers in P: out of the list, its socket closed.
\* disconnectCb, edbg_debugger_disconnect, is called before clientCount is
\* decremented and so never finds it 0: the periodic report stays.
zmql_destroy_client(P) ==
  /\ clients' = SelectSeq(clients, LAMBDA p : p \notin P)
  /\ clientCount' = clientCount - Len(SelectSeq(clients, LAMBDA p : p \in P))
  /\ client' = [p \in Peer |-> IF p \in P THEN Closed ELSE client[p]]
  /\ registered' = registered \ P
  /\ peer' = [p \in Peer |-> IF p \in P THEN "away" ELSE peer[p]]
  /\ wire' = [p \in Peer |-> IF p \in P THEN <<>> ELSE wire[p]]
  /\ posted' = [p \in Peer |-> IF p \in P THEN <<>> ELSE posted[p]]
  /\ frames' = [p \in Peer |-> IF p \in P THEN 0 ELSE frames[p]]
  /\ heard' = [p \in Peer |-> IF p \in P THEN <<>> ELSE heard[p]]
  /\ delivered' = [p \in Peer |-> IF p \in P THEN <<>> ELSE delivered[p]]
  /\ UNCHANGED <<calls, reports, dump_evt>>

\* The end of ipc_process_buffer.
Compacted(b, consumed) == [b EXCEPT !.data = SubSeq(@, consumed + 1, Len(@))]

\* The loop of ipc_process_buffer ends; the buffer is compacted, and the client
\* destroyed when the callback has asked for it.
ipc_process_buffer ==
  /\ up /\ active # NULL
  /\ LET p == active.client
         data == SubSeq(client[p].data, active.consumed + 1, Len(client[p].data))
     IN /\ NothingToDo(client[p].state, data)
        /\ IF Refused(client[p].state, data) THEN zmql_destroy_client({p})
           ELSE /\ client' = [client EXCEPT ![p] = Compacted(@, active.consumed)]
                /\ UNCHANGED <<peers, heard, clients, clientCount, registered, delivered, reports, dump_evt>>
  /\ active' = NULL /\ UNCHANGED up

\* The peer has hung up and everything is read, or the read fails.
ReadEnds(p) ==
  /\ Idle /\ p \in registered /\ peer[p] = "gone"
  /\ zmql_destroy_client({p}) /\ UNCHANGED <<active, up>>

\* edbg_dump_cb, and the reports of the event loop.
edbg_dump_cb ==
  /\ Idle /\ reports < MaxReports /\ dump_evt
  /\ edbg_report_state(heard, client)
  /\ UNCHANGED <<peers, clients, clientCount, client, registered, delivered, dump_evt, active, up>>

zmql_destroy_tcp_server ==
  /\ Idle /\ up' = FALSE /\ active' = NULL /\ zmql_destroy_client(ToSet(clients))

Next ==
  \/ \E p \in Peer :
       \/ \E wrong \in Flaws : Calls(p, wrong)
       \/ \E m \in Message, form \in Forms : Sends(p, m, form[1], form[2])
       \/ HangsUp(p) \/ zmql_accept_cb(p) \/ zmql_client_read_cb(p) \/ ReadEnds(p)
  \/ zmql_client_process \/ ipc_process_buffer \/ edbg_dump_cb \/ zmql_destroy_tcp_server

Spec == Init /\ [][Next]_vars
-----------------------------------------------------------------------------
InData == {p \in Peer : client[p].state = "DATA"}

Channel == INSTANCE MsgChannel WITH
  Report <- {"report"} \X (1..MaxReports + MaxCalls * (1 + MaxFrames)),
  link <- InData, sent <- posted, inbox <- delivered,
  outbox <- [p \in Peer |-> IF p \notin InData THEN <<>> ELSE SubSeq(heard[p], 5, Len(heard[p]))]

\* However TCP cuts up what the peers send, and whoever connects, breaks the
\* handshake or hangs up meanwhile, the server (zmqlite.c with the buffers of
\* ipc.c) is the channel the debugger relies on: messages in order, once each
\* and with their own payload, reports to exactly the connected peers.
ImplementsChannel == Channel!Spec

\* The head of the buffer is a whole frame, whatever build decodes it.
WholeFrame(data) ==
  /\ data # <<>>
  /\ LET long == HasFlag(data[1], ZMQ_LONG_SIZE)
         offset == IF long THEN 1 + LongDigits ELSE 2
     IN Len(data) >= offset /\ Len(data) >= offset + (IF long THEN data[2] * Radix + data[3] ELSE data[2])

\* Nothing is left behind: between callbacks no buffer starts with a whole
\* frame, which would wait for bytes of the next one (ipc_process_buffer loops
\* "until the callback indicates there is nothing else that can be
\* processed"), except a short frame whose length is negative as a char; and
\* list, count, buffers and read events belong to the same clients.
NothingLeftBehind ==
  active = NULL =>
    /\ registered = ToSet(clients) /\ clientCount = Len(clients)
    /\ \A p \in Peer :
         /\ p \in registered <=> client[p].state # "none"
         /\ client[p].data # <<>> => Len(client[p].data) < client[p].alloc
         /\ client[p].state = "DATA" /\ WholeFrame(client[p].data) =>
              SignedChar /\ ~HasFlag(client[p].data[1], ZMQ_LONG_SIZE) /\ client[p].data[2] >= Radix \div 2
=============================================================================
