------------------------------ MODULE Dispatch ------------------------------
(***************************************************************************)
(* The receiving side of commands (cmd.c): descriptions of XDR commands in *)
(* a hash table, their handlers, the table of the older one-byte commands, *)
(* cmd_handler_cb, and the command every process answers itself, a request *)
(* for data, filled in by the populators of the types asked for (xdr.c).   *)
(*                                                                         *)
(* A packet is a record of what cmd_handler_cb tells apart.  The answers   *)
(* are those of libproc; what the application's handlers send is theirs.   *)
(***************************************************************************)
EXTENDS HashTable

CONSTANTS Info,          \* CMD_XDRCommandInfo structures with a number
          Types,         \* those without, which only name types
          Number,        \* command numbers
          DATA_REQ,      \* IPC_CMDS_DATA_REQ
          Legacy,        \* one-byte commands
          STATUS,        \* CMD_STATUS_REQUEST
          Type,          \* the types of structures
          HEARTBEAT,     \* IPC_TYPES_HEARTBEAT
          populate(_),   \* def->populate: what the populator of a type gives, or NULL
          Requests,      \* the requests for data, sequences of types
          MaxReqs,       \* the longest that is answered (1024 in the code)
          MaxPackets     \* bound on the packets received

VARIABLES xdrCommandHash,
          handler,         \* cmd->handler
          xdrDatareqList,
          cmds,            \* the one-byte table: who is called, and whether protected
          beats,           \* the heartbeat counters
          packets,         \* the number of packets received
          packet,          \* the last one
          looked,          \* the last number looked up and the description found
          called,          \* the handler it was given to
          answers          \* what libproc has answered to it

tables == <<xdrCommandHash, handler, xdrDatareqList, cmds>>
vars == <<tables, beats, packets, packet, looked, called, answers>>

Handlers == {"datareq", "app"}
\* The parameters of a command are a request for data or of another type.
Packets ==
  [kind : {"command"}, number : Number, params : {"datareq"}, reqs : Requests]
    \cup [kind : {"command"}, number : Number, params : {"other"}, reqs : {<<>>}]
    \cup [kind : {"response", "undecodable"}] \cup [kind : {"legacy"}, byte : Legacy]
Xdr == {p \in Packets : p.kind # "legacy"}

Init ==
  /\ xdrCommandHash = HASH_create_table /\ handler = [i \in Info |-> NULL] /\ xdrDatareqList = <<>>
  /\ cmds = [b \in Legacy |-> NULL]
  /\ beats = [commands |-> 0, responses |-> 0, heartbeats |-> 0]
  /\ packets = 0 /\ packet = NULL /\ looked = <<NULL, NULL>> /\ called = NULL /\ answers = <<>>
-----------------------------------------------------------------------------
(* Registration.                                                           *)

Running == \A b \in Legacy : cmds[b] # NULL

CMD_register_command(i, override) ==
  /\ xdrCommandHash' =
       IF HASH_find_key(xdrCommandHash, keyForData(i)) # NULL /\ ~override THEN xdrCommandHash
       ELSE HASH_add_data(HASH_remove_key(xdrCommandHash, keyForData(i)), i)
  /\ UNCHANGED <<handler, xdrDatareqList, cmds, beats, packets, packet, looked, called, answers>>

RegisterTypes(i) ==
  /\ Len(xdrDatareqList) < 1 /\ xdrDatareqList' = <<i>> \o xdrDatareqList
  /\ UNCHANGED <<xdrCommandHash, handler, cmds, beats, packets, packet, looked, called, answers>>

CMD_xdr_cmd_by_number(n) == HASH_find_key(xdrCommandHash, n)

\* "Missing XDR description for command": nothing is set then.
SetXdrHandler(n, h) ==
  handler' = IF CMD_xdr_cmd_by_number(n) = NULL THEN handler
             ELSE [handler EXCEPT ![CMD_xdr_cmd_by_number(n)] = h]

\* The handler of data requests is set, and the one-byte table is filled.
cmd_handler_init ==
  /\ ~Running
  /\ SetXdrHandler(DATA_REQ, "datareq")
  /\ cmds' = [b \in Legacy |-> [cb |-> IF b = STATUS THEN "status" ELSE "invalid", prot |-> FALSE]]
  /\ UNCHANGED <<xdrCommandHash, xdrDatareqList, beats, packets, packet, looked, called, answers>>

CMD_set_xdr_cmd_handler(n) ==
  /\ SetXdrHandler(n, "app")
  /\ UNCHANGED <<xdrCommandHash, xdrDatareqList, cmds, beats, packets, packet, looked, called, answers>>

CMD_set_cmd_handler(b, protected) ==
  /\ Running
  /\ cmds' = [cmds EXCEPT ![b] = [cb |-> "app", prot |-> protected]]
  /\ UNCHANGED <<xdrCommandHash, handler, xdrDatareqList, beats, packets, packet, looked, called, answers>>
-----------------------------------------------------------------------------
(* Data requests.                                                          *)

\* data_req_populate_cb, when not for a direct response: the structure stored
\* in the response, none when the populator gives no data ("nothing").
Stored(type) ==
  CASE populate(type) = "data" -> <<[type |-> type, error |-> FALSE]>>
    [] populate(type) = "error" -> <<[type |-> type, error |-> TRUE]>>
    [] OTHER -> <<>>

Answer(result, structs) == [result |-> result, structs |-> structs]

\* Mutant: the direct response is followed by the response at the end.
DataAnswers_Both(reqs) ==
  LET structs == FlattenSeq([i \in DOMAIN reqs |-> Stored(reqs[i])])
  IN (IF Len(reqs) = 1 /\ Stored(reqs[1]) # <<>> THEN <<Answer("success", structs)>> ELSE <<>>)
       \o <<Answer("array", structs)>>

\* The loop of cmd_handle_data_req.  A single type with a populator is answered
\* from the populator's callback and not at the end.
DataAnswers(reqs) ==
  IF Len(reqs) = 1 /\ populate(reqs[1]) # NULL
  THEN CASE populate(reqs[1]) = "data" -> <<Answer("success", Stored(reqs[1]))>>
         [] populate(reqs[1]) = "error" -> <<Answer("error", <<>>)>>
         [] OTHER -> <<>>
  ELSE <<Answer("array", FlattenSeq([i \in DOMAIN reqs |-> Stored(reqs[i])]))>>

cmd_handle_data_req(p) ==
  IF p.params # "datareq" THEN <<Answer("wrong type", <<>>)>>
  ELSE IF p.reqs = <<>> \/ Len(p.reqs) > MaxReqs THEN <<Answer("void", <<>>)>>
  ELSE DataAnswers(p.reqs)
-----------------------------------------------------------------------------
(* cmd_handler_cb.                                                         *)

Count(what) == beats' = [beats EXCEPT ![what] = @ + 1]

\* heartbeat_populator counts the heartbeats it is asked for.
CountRequest(p, who) ==
  beats' = [beats EXCEPT !.commands = @ + 1,
                         !.heartbeats = IF who = "datareq" /\ Len(p.reqs) <= MaxReqs
                                        THEN @ + Len(SelectSeq(p.reqs, LAMBDA t : t = HEARTBEAT)) ELSE @]

\* A command without a description is not answered.
GivenTo(info, p) ==
  /\ called' = IF info = NULL THEN NULL ELSE handler[info]
  /\ answers' = CASE info = NULL -> <<>>
                  [] info # NULL /\ handler[info] = NULL -> <<Answer("unsupported", <<>>)>>
                  [] info # NULL /\ handler[info] = "datareq" -> cmd_handle_data_req(p)
                  [] OTHER -> <<>>

cmd_handler_cb(p) ==
  /\ Running /\ packets < MaxPackets /\ packets' = packets + 1 /\ packet' = p
  /\ \/ /\ p.kind = "response" /\ Count("responses") /\ called' = "response" /\ answers' = <<>>
        /\ UNCHANGED looked
     \/ /\ p.kind = "undecodable" /\ Count("commands") /\ called' = NULL /\ answers' = <<>>
        /\ UNCHANGED looked
     \/ /\ p.kind = "command"
        /\ LET info == CMD_xdr_cmd_by_number(p.number) IN looked' = <<p.number, info>> /\ GivenTo(info, p)
        /\ CountRequest(p, called')
     \/ /\ p.kind = "legacy" /\ Count("commands") /\ UNCHANGED looked
        /\ called' = IF cmds[p.byte].prot THEN NULL ELSE cmds[p.byte].cb
        /\ answers' = IF called' = "status" THEN <<Answer("status", <<>>)>> ELSE <<>>
  /\ UNCHANGED tables

\* socket_read fails: -1 is a large size_t, and what the buffer holds besides
\* data[0] = 0 is not initialized.
ReadFails == \E p \in Xdr : cmd_handler_cb(p)

Next ==
  \/ cmd_handler_init
  \/ \E i \in Info, override \in BOOLEAN : CMD_register_command(i, override)
  \/ \E i \in Types : RegisterTypes(i)
  \/ \E n \in Number : CMD_set_xdr_cmd_handler(n)
  \/ \E b \in Legacy, protected \in BOOLEAN : CMD_set_cmd_handler(b, protected)
  \/ \E p \in Packets : cmd_handler_cb(p)
  \/ ReadFails

Spec == Init /\ [][Next]_vars
-----------------------------------------------------------------------------
Entry(n) == CMD_xdr_cmd_by_number(n)

Book == INSTANCE CommandBook WITH
  Handler <- Handlers, number <- keyForData, hand <- handler, found <- looked,
  book <- [n \in {m \in Number : Entry(m) # NULL} |-> Entry(n)]

\* Descriptions that share a bucket, are registered again or override each other
\* in any order leave the table a book with one entry for each number: a
\* command is given to exactly the description registered for it.
ImplementsBook == Book!Spec

\* One answer at most, whatever was asked: a request for data of several types
\* is answered once, with what the populators gave in the order asked, and the
\* heartbeats sent are the heartbeats counted; a command that is described is
\* answered unless the application handles it or the populator of the only type
\* asked for gives nothing.
AnsweredOnce ==
  /\ Len(answers) <= 1
  /\ packet # NULL /\ packet.kind = "command" /\ answers = <<>> =>
       looked[2] = NULL \/ called = "app" \/ Len(packet.reqs) = 1
  /\ \A i \in DOMAIN answers :
       answers[i].result = "array" =>
         /\ \A j \in DOMAIN answers[i].structs :
              \E k \in DOMAIN packet.reqs : k >= j /\ packet.reqs[k] = answers[i].structs[j].type
         /\ \A k \in DOMAIN packet.reqs :
              populate(packet.reqs[k]) \in {"data", "error"} =>
                \E j \in DOMAIN answers[i].structs : answers[i].structs[j].type = packet.reqs[k]
  /\ packets = 1 => beats.heartbeats = Len(SelectSeq(FlattenSeq([i \in DOMAIN answers |-> answers[i].structs]),
                                                     LAMBDA t : t.type = HEARTBEAT))
=============================================================================
