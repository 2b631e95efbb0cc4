------------------------------ MODULE MCClients ------------------------------
(***************************************************************************)
(* Clients of the event loop for TLC: pseudo threads, the buffers between  *)
(* a process and its child, the callbacks of a pin, multicast groups, or   *)
(* the commands a process receives.  They share nothing but the loop, so   *)
(* that a behaviour is of one of them.                                     *)
(***************************************************************************)
EXTENDS PseudoThreads, Integers, TLC

CONSTANTS Fd, In, MaxWrites, Options, READ_BUFF_MIN, READ_BUFF_MAX,
          Callback, MaxAdds, Faults,
          Group, CmdNum, Command, NULL, MaxNodes, MaxSockets,
          hashSize, Info, Types, Number, DATA_REQ, Legacy, STATUS, Type, HEARTBEAT,
          MaxReqs, MaxPackets

VARIABLES part,   \* what the behaviour is of
          writeListHead, registered, asked, written,
          pipe, closed, buff, buffCap, alloc, open, got, lost, broken, echoed,
          pin, tripped, callbacks, added, removed, called, walking,
          mcast, cmds, node, socket, sockets, events, member, walk, calls,
          xdrCommandHash, handler, xdrDatareqList, table, beats, packets, packet, looked,
          given, answers

echoVars == <<writeListHead, registered, asked, written,
              pipe, closed, buff, buffCap, alloc, open, got, lost, broken, echoed>>
pinVars == <<pin, tripped, callbacks, added, removed, called, walking>>
groupVars == <<mcast, cmds, node, socket, sockets, events, member, walk, calls>>
tableVars ==
  <<xdrCommandHash, handler, xdrDatareqList, table, beats, packets, packet, looked, given, answers>>

Echo == INSTANCE EchoChild WITH failed <- broken
Pin == INSTANCE Gpio WITH fd <- pin
Groups == INSTANCE Multicast WITH open <- sockets

Nums == {-1, 1}

Key(i) == IF i \in {"data", "data2"} THEN 1 ELSE 3

Populators(t) ==
  CASE t \in {"heartbeat", "fine"} -> "data" [] t = "failing" -> "error" [] t = "mute" -> "nothing" [] OTHER -> NULL

\* One type, several of them, and one more than is answered.
Asked ==
  {<<t>> : t \in Type}
    \cup {<<>>, <<"fine", "mute">>, <<"unknown", "failing">>, <<"mute", "unknown">>,
          <<"fine", "mute", "heartbeat">>, <<"heartbeat", "heartbeat", "fine", "fine">>}

Table == INSTANCE Dispatch WITH cmds <- table, called <- given,
                                keyForData <- Key, populate <- Populators, Requests <- Asked

ClientsInit ==
  /\ part \in {"threads", "echo", "pin", "groups", "table"}
  /\ Init /\ Echo!Init /\ Pin!Init /\ Groups!Init /\ Table!Init

ClientsNext ==
  /\ UNCHANGED part
  /\ \/ part = "threads" /\ Next /\ UNCHANGED <<echoVars, pinVars, groupVars, tableVars>>
     \/ part = "echo" /\ Echo!Next /\ UNCHANGED <<vars, pinVars, groupVars, tableVars>>
     \/ part = "pin" /\ Pin!Next /\ UNCHANGED <<vars, echoVars, groupVars, tableVars>>
     \/ part = "groups" /\ Groups!Next /\ UNCHANGED <<vars, echoVars, pinVars, tableVars>>
     \/ part = "table" /\ Table!Next /\ UNCHANGED <<vars, echoVars, pinVars, groupVars>>

ClientsSpec == ClientsInit /\ [][ClientsNext]_<<part, vars, echoVars, pinVars, groupVars, tableVars>>

\* Through queue, pipe and buffer nothing is duplicated or reordered.
EndToEnd == Echo!EndToEnd

\* Every callback added for a pin is told once of the interrupt.
EachToldOnce == Pin!EachToldOnce

\* The process is a member of the groups it has handlers for, and of no other.
GroupsJoined == Groups!GroupsJoined

\* A packet is given once to each handler that matches, also when handlers
\* come and go meanwhile.
EachCalledOnce == Groups!EachCalledOnce

\* The hash table of commands is a book of descriptions by number.
ImplementsBook == Table!ImplementsBook

\* A request is answered once, by whoever it was given to.
AnsweredOnce == Table!AnsweredOnce

ClientSymmetry == Permutations(Thread) \cup Permutations(Group)
=============================================================================
