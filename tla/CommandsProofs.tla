---------------------------- MODULE CommandsProofs ----------------------------
(***************************************************************************)
(* A command's callback is called once at most, and with the answer to its *)
(* own command, for any hosts, number of commands and number of restarts.  *)
(***************************************************************************)
EXTENDS Commands, TLAPS

Entry == [id : 0..RefRange - 1, host : Host, cb_type : CbType, cmd : Cmd]

Types ==
  /\ net \subseteq Packet /\ parked \in [Node -> Packet \cup {None}]
  /\ next_cmd_ref \in 0..RefRange - 1 /\ sent \in 0..MaxCommands /\ epoch \in Nat
  /\ resp \subseteq Entry /\ to_evt \subseteq Cmd /\ born \in [Cmd -> Nat]
  /\ DOMAIN calls = Cmd

\* An entry on the list, and a command not yet sent, has not been called; a timer
\* belongs to an entry on the list, so that none fires for one that is freed.
Uncalled ==
  /\ \A c \in Cmd : Len(calls[c]) \in {0, 1}
  /\ \A c \in Cmd : sent < c \/ Listed(c) => calls[c] = <<>>
  /\ \A c \in to_evt : Listed(c)
  /\ \A e \in resp : e.cmd <= sent

CalledInv == Types /\ Uncalled

\* The number of a command that may still be sent.
LEMMA CmdTypes == sent \in 0..MaxCommands /\ sent < MaxCommands => sent + 1 \in Cmd /\ Self \in Node
  BY CommandsAssumption DEF Cmd, Node

\* Before the first command no callback was called.
LEMMA InitCalled == Init => CalledInv
  <1> SUFFICES ASSUME Init PROVE CalledInv
    OBVIOUS
  <1>1. Types
    BY CommandsAssumption DEF Init, Types
  <1>2. Uncalled
    BY DEF Init, Uncalled, Listed
  <1> QED BY <1>1, <1>2 DEF CalledInv

\* Sending a packet keeps the types, whatever becomes of it.
LEMMA SendTypes ==
  ASSUME NEW n \in Node, NEW p \in Packet, proc_cmd_sockaddr_raw_internal(n, p),
         net \subseteq Packet, parked \in [Node -> Packet \cup {None}]
  PROVE  net' \subseteq Packet /\ parked' \in [Node -> Packet \cup {None}]
  BY DEF proc_cmd_sockaddr_raw_internal

\* IPC_command puts the newest command on the list, which has not been called.
LEMMA CalledCommand ==
  ASSUME CalledInv, NEW h \in Host, NEW type \in CbType \cup {"none"}, NEW timeout, IPC_command(h, type, timeout)
  PROVE  CalledInv'
  <1>1. /\ sent + 1 \in Cmd /\ Self \in Node /\ sent' = sent + 1 /\ sent' \in 0..MaxCommands
        /\ sent \in Nat /\ next_cmd_ref \in 0..RefRange - 1 /\ UNCHANGED <<epoch, calls>>
    BY CmdTypes, CommandsAssumption DEF IPC_command, CalledInv, Types
  <1>2. next_cmd_ref' \in 0..RefRange - 1
    BY CommandsAssumption DEF IPC_command, NextRef, CalledInv, Types
  <1>3. born' \in [Cmd -> Nat]
    BY <1>1 DEF IPC_command, CalledInv, Types
  <1> DEFINE p == [kind |-> "cmd", ref |-> next_cmd_ref, host |-> h, cmd |-> sent']
             new == [id |-> next_cmd_ref, host |-> h, cb_type |-> type, cmd |-> sent']
  <1>4. p \in Packet
    BY <1>1 DEF Packet
  <1>5. net' \subseteq Packet /\ parked' \in [Node -> Packet \cup {None}]
    <2>1. proc_cmd_sockaddr_raw_internal(Self, p)
      BY DEF IPC_command
    <2> HIDE DEF p
    <2> QED BY <1>1, <1>4, <2>1, SendTypes DEF CalledInv, Types
  <1>6. CASE type = "none"
    <2>1. UNCHANGED <<resp, to_evt>>
      BY <1>6 DEF IPC_command
    <2>2. Types'
      BY <1>1, <1>2, <1>3, <1>5, <2>1 DEF CalledInv, Types
    <2>3. Uncalled'
      BY <1>1, <2>1 DEF CalledInv, Types, Uncalled, Listed, Cmd, Entry
    <2> QED BY <2>2, <2>3 DEF CalledInv
  <1>7. CASE type # "none"
    <2>1. resp' = resp \cup {new} /\ to_evt' \in {to_evt, to_evt \cup {sent'}}
      BY <1>7 DEF IPC_command, CMD_add_response_cb
    <2>2. new \in Entry
      BY <1>1, <1>7 DEF Entry, CbType
    <2>3. Types'
      BY <1>1, <1>2, <1>3, <1>5, <2>1, <2>2 DEF CalledInv, Types
    <2>4. new.cmd = sent + 1
      BY <1>1
    <2> HIDE DEF new
    <2>5. \A c \in Cmd : Listed(c)' => Listed(c) \/ c = sent + 1
      BY <2>1, <2>4 DEF Listed
    <2>6. \A c \in Cmd : Listed(c) \/ c = sent + 1 => Listed(c)'
      BY <2>1, <2>4 DEF Listed
    <2>7. \A e \in resp' : e.cmd <= sent'
      BY <1>1, <2>1, <2>4 DEF CalledInv, Types, Uncalled, Entry, Cmd
    <2>8. \A c \in Cmd : sent' < c \/ Listed(c)' => calls[c] = <<>>
      BY <1>1, <2>5 DEF CalledInv, Types, Uncalled, Cmd
    <2>9. \A c \in to_evt' : Listed(c)'
      BY <1>1, <2>1, <2>6 DEF CalledInv, Types, Uncalled
    <2> QED BY <1>1, <2>3, <2>7, <2>8, <2>9 DEF CalledInv, Uncalled
  <1> QED BY <1>6, <1>7

\* An entry is taken off the list with its timer, and its callback is called, or
\* it is not when the body cannot be decoded.
LEMMA CalledBack ==
  ASSUME CalledInv, NEW c \in Cmd, Listed(c), NEW how, Call(c, how) \/ UNCHANGED calls,
         resp' = Without(c), to_evt' = to_evt \ {c},
         UNCHANGED <<next_cmd_ref, sent, epoch, born>>,
         net' \subseteq Packet, parked' \in [Node -> Packet \cup {None}]
  PROVE  /\ CalledInv' /\ calls[c] = <<>>
         /\ calls' = calls \/ calls'[c] = <<how>>
         /\ \A d \in Cmd \ {c} : calls'[d] = calls[d]
  <1>1. calls[c] = <<>> /\ DOMAIN calls = Cmd
    BY DEF CalledInv, Uncalled, Types
  <1>2. DOMAIN calls' = Cmd /\ \A d \in Cmd \ {c} : calls'[d] = calls[d]
    BY <1>1 DEF Call
  <1>3. calls' = calls \/ calls'[c] = <<how>>
    BY <1>1 DEF Call
  <1>4. Len(calls'[c]) \in {0, 1}
    <2>1. CASE calls' = calls
      BY <1>1, <2>1
    <2>2. CASE calls'[c] = <<how>>
      <3>1. Len(<<how>>) = 1
        OBVIOUS
      <3> QED BY <2>2, <3>1
    <2> QED BY <1>3, <2>1, <2>2
  <1>5. \A d \in Cmd : Listed(d)' <=> Listed(d) /\ d # c
    BY DEF Listed, Without
  <1>6. Types'
    BY <1>2 DEF CalledInv, Types, Without
  <1>7. ASSUME NEW d \in Cmd PROVE Len(calls'[d]) \in {0, 1} /\ (sent' < d \/ Listed(d)' => calls'[d] = <<>>)
    <2>1. CASE d = c
      <3>1. c <= sent
        BY DEF CalledInv, Uncalled, Listed
      <3>2. ~(sent < c)
        BY <3>1 DEF CalledInv, Types, Cmd
      <3> QED BY <1>4, <1>5, <2>1, <3>2
    <2>2. CASE d # c
      BY <1>2, <1>5, <2>2 DEF CalledInv, Uncalled
    <2> QED BY <2>1, <2>2
  <1>8. \A d \in to_evt' : Listed(d)'
    BY <1>5 DEF CalledInv, Types, Uncalled
  <1>9. \A e \in resp' : e.cmd <= sent'
    BY DEF CalledInv, Uncalled, Without
  <1> QED BY <1>1, <1>2, <1>3, <1>6, <1>7, <1>8, <1>9 DEF CalledInv, Uncalled

\* Only the network and the packets that wait for a socket change.
LEMMA CalledFrame ==
  ASSUME CalledInv, net' \subseteq Packet, parked' \in [Node -> Packet \cup {None}],
         UNCHANGED <<next_cmd_ref, resp, to_evt, sent, epoch, calls, born>>
  PROVE  CalledInv'
  BY DEF CalledInv, Types, Uncalled, Listed

\* What a host answers is a packet.
LEMMA ServeTypes ==
  ASSUME net \subseteq Packet, parked \in [Node -> Packet \cup {None}], NEW p \in net, NEW again, Serve(p, again)
  PROVE  net' \subseteq Packet /\ parked' \in [Node -> Packet \cup {None}]
  <1>1. p.host \in Node /\ \A kind \in {"good", "bad"} : [p EXCEPT !.kind = kind] \in Packet
    BY DEF Packet, Node
  <1> QED BY <1>1 DEF Serve

\* What a response does to the list, the timers and the calls.
LEMMA ResponseCases ==
  ASSUME CalledInv, NEW p \in net, NEW again, cmd_handle_xdr_response(p, again)
  PROVE  /\ net' \subseteq Packet /\ UNCHANGED parked
         /\ UNCHANGED <<next_cmd_ref, sent, epoch, born>>
         /\ \/ UNCHANGED <<resp, to_evt, calls>>
            \/ \E e \in resp : /\ Matches(e, p) /\ e.cmd \in Cmd /\ Listed(e.cmd)
                               /\ Call(e.cmd, [timeout |-> FALSE, of |-> p.cmd]) \/ UNCHANGED calls
                               /\ resp' = Without(e.cmd) /\ to_evt' = to_evt \ {e.cmd}
  <1>1. net' \subseteq Packet /\ UNCHANGED <<parked, next_cmd_ref, sent, epoch, born>>
    BY DEF cmd_handle_xdr_response, CalledInv, Types
  <1>2. CASE Found(p) = {} /\ UNCHANGED <<resp, to_evt, calls>>
    BY <1>1, <1>2
  <1>3. ASSUME NEW e \in First(Found(p)), resp' = Without(e.cmd), to_evt' = to_evt \ {e.cmd},
               Call(e.cmd, [timeout |-> FALSE, of |-> p.cmd]) \/ UNCHANGED calls
        PROVE  \E f \in resp : /\ Matches(f, p) /\ f.cmd \in Cmd /\ Listed(f.cmd)
                               /\ Call(f.cmd, [timeout |-> FALSE, of |-> p.cmd]) \/ UNCHANGED calls
                               /\ resp' = Without(f.cmd) /\ to_evt' = to_evt \ {f.cmd}
    <2>1. e \in resp /\ Matches(e, p) /\ e.cmd \in Cmd /\ Listed(e.cmd)
      BY DEF First, Found, CalledInv, Types, Entry, Listed
    <2> QED BY <1>3, <2>1, Zenon
  <1> QED BY <1>1, <1>2, <1>3, Zenon DEF cmd_handle_xdr_response

\* Every step keeps calls to one for each command.
LEMMA CalledStep == CalledInv /\ [Next]_vars => CalledInv'
  <1> SUFFICES ASSUME CalledInv, [Next]_vars PROVE CalledInv'
    OBVIOUS
  <1>1. net \subseteq Packet /\ parked \in [Node -> Packet \cup {None}]
    BY DEF CalledInv, Types
  <1>2. CASE UNCHANGED vars
    BY <1>1, <1>2, CalledFrame DEF vars
  <1>3. ASSUME NEW n \in Node, socket_write_cb(n) PROVE CalledInv'
    <2>1. net' \subseteq Packet /\ parked' \in [Node -> Packet \cup {None}]
      BY <1>1, <1>3 DEF socket_write_cb
    <2> QED BY <1>3, <2>1, CalledFrame DEF socket_write_cb
  <1>4. ASSUME NEW p \in net, NEW again, Serve(p, again) PROVE CalledInv'
    <2>1. net' \subseteq Packet /\ parked' \in [Node -> Packet \cup {None}]
      BY <1>1, <1>4, ServeTypes
    <2> QED BY <1>4, <2>1, CalledFrame DEF Serve
  <1>5. ASSUME NEW p \in net, NEW again, cmd_handle_xdr_response(p, again) PROVE CalledInv'
    <2>1. net' \subseteq Packet /\ parked' \in [Node -> Packet \cup {None}] /\ UNCHANGED <<next_cmd_ref, sent, epoch, born>>
      BY <1>1, <1>5, ResponseCases
    <2>2. CASE UNCHANGED <<resp, to_evt, calls>>
      BY <2>1, <2>2, CalledFrame
    <2>3. CASE ~UNCHANGED <<resp, to_evt, calls>>
      <3>1. PICK e \in resp : /\ e.cmd \in Cmd /\ Listed(e.cmd)
                              /\ Call(e.cmd, [timeout |-> FALSE, of |-> p.cmd]) \/ UNCHANGED calls
                              /\ resp' = Without(e.cmd) /\ to_evt' = to_evt \ {e.cmd}
        BY <1>5, <2>3, ResponseCases, Zenon
      <3> QED BY <2>1, <3>1, CalledBack
    <2> QED BY <2>2, <2>3
  <1>6. ASSUME NEW p \in net, Lose(p) PROVE CalledInv'
    BY <1>1, <1>6, CalledFrame DEF Lose
  <1>7. ASSUME NEW c \in to_evt, response_timeout_cb(c) PROVE CalledInv'
    <2>1. c \in Cmd /\ Listed(c)
      BY DEF CalledInv, Types, Uncalled
    <2> QED BY <1>1, <1>7, <2>1, CalledBack DEF response_timeout_cb
  <1>8. CASE Restart
    <2>1. Types'
      <3>1. 1 % RefRange \in 0..RefRange - 1
        BY CommandsAssumption
      <3>2. parked' \in [Node -> Packet \cup {None}]
        BY <1>1, <1>8 DEF Restart
      <3>3. resp' = {} /\ to_evt' = {} /\ epoch' = epoch + 1 /\ next_cmd_ref' = 1 % RefRange
            /\ UNCHANGED <<net, sent, calls, born>>
        BY <1>8 DEF Restart
      <3> QED BY <3>1, <3>2, <3>3 DEF CalledInv, Types
    <2>2. Uncalled'
      BY <1>8 DEF CalledInv, Uncalled, Restart, Listed
    <2> QED BY <2>1, <2>2 DEF CalledInv
  <1> QED BY <1>2, <1>3, <1>4, <1>5, <1>6, <1>7, <1>8, CalledCommand, Zenon DEF Next

\* However responses are lost, repeated, reordered or late, a command's callback
\* is called at most once, and not after its entry is freed.
THEOREM CallbackOnce == Spec => []CalledOnce
  <1>1. CalledInv => CalledOnce
    <2> SUFFICES ASSUME CalledInv, NEW c \in Cmd PROVE Len(calls[c]) + (IF Listed(c) THEN 1 ELSE 0) <= 1
      BY DEF CalledOnce
    <2>1. CASE Listed(c)
      <3>1. calls[c] = <<>>
        BY <2>1 DEF CalledInv, Uncalled
      <3> QED BY <2>1, <3>1
    <2>2. CASE ~Listed(c)
      <3>1. PICK n \in {0, 1} : n = Len(calls[c])
        BY Zenon DEF CalledInv, Uncalled
      <3>2. (IF Listed(c) THEN 1 ELSE 0) = 0
        BY <2>2
      <3>3. n + 0 <= 1
        OBVIOUS
      <3> QED BY <3>1, <3>2, <3>3, Zenon
    <2> QED BY <2>1, <2>2
  <1>2. CalledInv /\ [Next]_vars => CalledInv'
    BY CalledStep
  <1> QED BY <1>1, <1>2, InitCalled, PTL DEF Spec

-----------------------------------------------------------------------------
(* Own answers.  References are not used again in one run of the process   *)
(* as long as there are more of them than commands: then the difference of *)
(* a command's number and its reference is the same for all commands of    *)
(* the run, also for the next one.                                         *)

Enough == MaxCommands + 1 < RefRange

Labelled(cmd, ref) == cmd <= sent /\ (born[cmd] = epoch => ref + sent + 1 = cmd + next_cmd_ref)

\* An answer is to a command that was sent: its epoch does not change any more.
Own(c, of) == of \in Cmd /\ of <= sent /\ (of = c \/ born[of] < born[c])

OwnInv ==
  /\ \A c \in Cmd : born[c] <= epoch
  /\ next_cmd_ref <= sent + 1
  /\ \A p \in net : Labelled(p.cmd, p.ref)
  /\ \A n \in Node : parked[n] # None => Labelled(parked[n].cmd, parked[n].ref)
  /\ \A e \in resp : born[e.cmd] = epoch /\ Labelled(e.cmd, e.id)
  /\ \A c \in Cmd : \A i \in DOMAIN calls[c] : Own(c, calls[c][i].of)

\* Before the first command there is no packet and no entry.
LEMMA InitOwn == Init => OwnInv
  <1> SUFFICES ASSUME Init PROVE OwnInv
    OBVIOUS
  <1>1. 1 % RefRange <= 1
    BY CommandsAssumption
  <1>2. \A c \in Cmd : \A i \in DOMAIN calls[c] : FALSE
    BY DEF Init
  <1> QED BY <1>1, <1>2 DEF Init, OwnInv

\* Packets and entries keep their labels, and what a new one has fits them.
LEMMA OwnCommand ==
  ASSUME Enough, CalledInv, OwnInv, NEW h \in Host, NEW type \in CbType \cup {"none"}, NEW timeout, IPC_command(h, type, timeout)
  PROVE  OwnInv'
  <1>1. /\ sent \in Nat /\ sent' = sent + 1 /\ sent' \in Cmd /\ next_cmd_ref \in Nat /\ epoch \in Nat
        /\ UNCHANGED <<epoch, calls>>
    BY CmdTypes, CommandsAssumption DEF IPC_command, CalledInv, Types
  <1>2. next_cmd_ref' = next_cmd_ref + 1
    <2>1. next_cmd_ref + 1 \in 0..RefRange - 1
      BY <1>1, CommandsAssumption DEF Enough, OwnInv, Cmd
    <2> QED BY <2>1, CommandsAssumption DEF IPC_command, NextRef
  <1>3. born'[sent'] = epoch /\ \A c \in Cmd : c <= sent => born'[c] = born[c]
    BY <1>1 DEF IPC_command, CalledInv, Types
  <1>4. \A c \in Cmd : born'[c] <= epoch
    BY <1>1 DEF IPC_command, CalledInv, Types, OwnInv
  <1>5. ASSUME NEW c \in Cmd, NEW ref \in Nat, Labelled(c, ref) PROVE Labelled(c, ref)' /\ born'[c] = born[c]
    BY <1>1, <1>2, <1>3, <1>5 DEF Labelled, Cmd
  <1>6. ASSUME NEW c \in Cmd, NEW ref \in Nat, c = sent', ref = next_cmd_ref PROVE Labelled(c, ref)'
    BY <1>1, <1>2, <1>6 DEF Labelled
  <1> DEFINE q == [kind |-> "cmd", ref |-> next_cmd_ref, host |-> h, cmd |-> sent']
             new == [id |-> next_cmd_ref, host |-> h, cb_type |-> type, cmd |-> sent']
  <1>7. q.cmd = sent' /\ q.ref = next_cmd_ref /\ new.cmd = sent' /\ new.id = next_cmd_ref
    OBVIOUS
  <1>8. /\ net' \subseteq net \cup {q}
        /\ \A n \in Node : parked'[n] = parked[n] \/ parked'[n] = q
        /\ resp' \subseteq resp \cup {new}
    <2>1. resp' \subseteq resp \cup {new}
      BY DEF IPC_command, CMD_add_response_cb
    <2>2. proc_cmd_sockaddr_raw_internal(Self, q)
      BY DEF IPC_command
    <2> HIDE DEF q, new
    <2> QED BY <2>1, <2>2 DEF proc_cmd_sockaddr_raw_internal, CalledInv, Types
  <1> HIDE DEF q, new
  <1>9. ASSUME NEW p \in net' PROVE Labelled(p.cmd, p.ref)'
    <2>1. CASE p \in net
      <3>1. p.cmd \in Cmd /\ p.ref \in Nat /\ Labelled(p.cmd, p.ref)
        BY <2>1 DEF OwnInv, CalledInv, Types, Packet
      <3> QED BY <3>1, <1>5
    <2>2. CASE p = q
      BY <1>1, <1>6, <1>7, <2>2
    <2> QED BY <1>8, <2>1, <2>2
  <1>10. ASSUME NEW n \in Node, parked'[n] # None PROVE Labelled(parked[n].cmd, parked[n].ref)'
    <2>1. CASE parked'[n] = parked[n]
      <3>1. parked[n].cmd \in Cmd /\ parked[n].ref \in Nat /\ Labelled(parked[n].cmd, parked[n].ref)
        BY <1>10, <2>1 DEF OwnInv, CalledInv, Types, Packet
      <3>2. PICK c \in Cmd, ref \in Nat : c = parked[n].cmd /\ ref = parked[n].ref
        BY <3>1
      <3>3. Labelled(c, ref)'
        BY <1>5, <3>1, <3>2
      <3> QED BY <2>1, <3>2, <3>3
    <2>2. CASE parked'[n] = q
      <3>1. PICK c \in Cmd, ref \in Nat : c = sent' /\ ref = next_cmd_ref
        BY <1>1
      <3>2. Labelled(c, ref)' /\ parked'[n].cmd = c /\ parked'[n].ref = ref
        BY <1>6, <1>7, <2>2, <3>1
      <3> QED BY <3>2
    <2> QED BY <1>8, <2>1, <2>2
  <1>11. ASSUME NEW e \in resp' PROVE born'[e.cmd] = epoch' /\ Labelled(e.cmd, e.id)'
    <2>1. CASE e \in resp
      <3>1. e.cmd \in Cmd /\ e.id \in Nat /\ Labelled(e.cmd, e.id) /\ born[e.cmd] = epoch
        BY <2>1 DEF OwnInv, CalledInv, Types, Entry
      <3> QED BY <1>1, <3>1, <1>5
    <2>2. CASE e = new
      BY <1>1, <1>3, <1>6, <1>7, <2>2
    <2> QED BY <1>8, <2>1, <2>2
  <1>12. ASSUME NEW c \in Cmd, NEW i \in DOMAIN calls[c] PROVE Own(c, calls[c][i].of)'
    <2>1. Own(c, calls[c][i].of)
      BY DEF OwnInv
    <2>2. c <= sent
      BY <1>1 DEF CalledInv, Uncalled, Cmd
    <2>3. calls'[c][i].of = calls[c][i].of
      BY <1>1
    <2> QED BY <1>1, <1>3, <2>1, <2>2, <2>3 DEF Own, Cmd
  <1>13. \A c \in Cmd : \A i \in DOMAIN calls'[c] : Own(c, calls[c][i].of)'
    BY <1>1, <1>12
  <1> QED BY <1>1, <1>2, <1>4, <1>9, <1>10, <1>11, <1>13 DEF OwnInv

\* Packets only move or are lost.
LEMMA OwnFrame ==
  ASSUME OwnInv, UNCHANGED <<next_cmd_ref, resp, to_evt, sent, epoch, calls, born>>,
         \A p \in net' : Labelled(p.cmd, p.ref),
         \A n \in Node : parked'[n] # None => Labelled(parked'[n].cmd, parked'[n].ref)
  PROVE  OwnInv'
  BY DEF OwnInv, Labelled, Own

\* The entry a response finds is of this run of the process: if the response is,
\* too, they are of one command.
LEMMA OwnBack ==
  ASSUME CalledInv, OwnInv, NEW c \in Cmd, Listed(c), NEW timeout, NEW of \in Cmd, Own(c, of),
         Call(c, [timeout |-> timeout, of |-> of]) \/ UNCHANGED calls,
         resp' = Without(c), to_evt' = to_evt \ {c},
         UNCHANGED <<next_cmd_ref, sent, epoch, born, parked>>, net' \subseteq net
  PROVE  OwnInv'
  <1> DEFINE how == [timeout |-> timeout, of |-> of]
  <1>1. how.of = of
    OBVIOUS
  <1>2. Call(c, how) \/ UNCHANGED calls
    OBVIOUS
  <1> HIDE DEF how
  <1>3. /\ calls[c] = <<>> /\ (calls' = calls \/ calls'[c] = <<how>>)
        /\ \A d \in Cmd \ {c} : calls'[d] = calls[d]
    BY <1>2, CalledBack DEF CalledInv, Types
  <1>4. ASSUME NEW d \in Cmd, NEW i \in DOMAIN calls'[d] PROVE Own(d, calls[d][i].of)'
    <2>1. CASE calls'[d] = calls[d]
      BY <1>4, <2>1 DEF OwnInv, Own
    <2>2. CASE calls'[d] # calls[d]
      <3>1. d = c /\ calls'[d] = <<how>>
        BY <1>3, <2>2
      <3>2. i = 1
        BY <3>1
      <3>3. calls'[d][i].of = of
        BY <1>1, <3>1, <3>2
      <3> QED BY <3>1, <3>3 DEF Own
    <2> QED BY <2>1, <2>2
  <1> QED BY <1>4 DEF OwnInv, Labelled, Without

\* A response goes to the command it answers, or to one of a later run with
\* its reference.
LEMMA OwnResponse ==
  ASSUME CalledInv, OwnInv, NEW p \in net, NEW again, cmd_handle_xdr_response(p, again)
  PROVE  OwnInv'
  <1>1. net' \subseteq net /\ UNCHANGED <<parked, next_cmd_ref, sent, epoch, born>>
    BY DEF cmd_handle_xdr_response
  <1>2. CASE UNCHANGED <<resp, to_evt, calls>>
    BY <1>1, <1>2, OwnFrame DEF OwnInv
  <1>3. CASE ~UNCHANGED <<resp, to_evt, calls>>
    <2>1. PICK e \in resp : /\ Matches(e, p) /\ e.cmd \in Cmd /\ Listed(e.cmd)
                            /\ Call(e.cmd, [timeout |-> FALSE, of |-> p.cmd]) \/ UNCHANGED calls
                            /\ resp' = Without(e.cmd) /\ to_evt' = to_evt \ {e.cmd}
      BY <1>3, ResponseCases, Zenon
    <2>2. e.id = p.ref /\ e.id \in Nat
      BY <2>1 DEF Matches, CalledInv, Types, Entry
    <2>3. /\ p.cmd \in Cmd /\ Labelled(p.cmd, p.ref) /\ Labelled(e.cmd, e.id) /\ born[e.cmd] = epoch
          /\ born[p.cmd] <= epoch
      BY DEF CalledInv, Types, Packet, OwnInv
    <2>4. Own(e.cmd, p.cmd)
      <3>1. CASE born[p.cmd] = epoch
        <4>1. p.cmd = e.cmd
          BY <2>1, <2>2, <2>3, <3>1 DEF Labelled, CalledInv, Types, Cmd
        <4> QED BY <2>3, <4>1 DEF Own, Labelled
      <3>2. CASE born[p.cmd] # epoch
        <4>1. born[p.cmd] < born[e.cmd]
          BY <2>3, <3>2 DEF CalledInv, Types
        <4> QED BY <2>3, <4>1 DEF Own, Labelled
      <3> QED BY <3>1, <3>2
    <2> QED BY <1>1, <2>1, <2>3, <2>4, OwnBack
  <1> QED BY <1>2, <1>3

\* Every step keeps references apart within a run of the process.
LEMMA OwnStep == Enough /\ CalledInv /\ OwnInv /\ [Next]_vars => OwnInv'
  <1> SUFFICES ASSUME Enough, CalledInv, OwnInv, [Next]_vars PROVE OwnInv'
    OBVIOUS
  <1>1. /\ \A p \in net : Labelled(p.cmd, p.ref)
        /\ \A n \in Node : parked[n] # None => Labelled(parked[n].cmd, parked[n].ref)
        /\ net \subseteq Packet /\ parked \in [Node -> Packet \cup {None}]
    BY DEF OwnInv, CalledInv, Types
  <1>2. CASE UNCHANGED vars
    BY <1>1, <1>2, OwnFrame DEF vars
  <1>3. ASSUME NEW n \in Node, socket_write_cb(n) PROVE OwnInv'
    BY <1>1, <1>3, OwnFrame DEF socket_write_cb
  <1>4. ASSUME NEW p \in net, NEW again, Serve(p, again) PROVE OwnInv'
    <2>1. \A kind \in {"good", "bad"} : [p EXCEPT !.kind = kind].cmd = p.cmd /\ [p EXCEPT !.kind = kind].ref = p.ref
      BY <1>1 DEF Packet
    <2>2. PICK a : /\ a.cmd = p.cmd /\ a.ref = p.ref /\ net' \subseteq net \cup {a}
                   /\ \A n \in Node : parked'[n] = parked[n] \/ parked'[n] = a
      BY <1>1, <1>4, <2>1 DEF Serve
    <2>3. UNCHANGED <<next_cmd_ref, resp, to_evt, sent, epoch, calls, born>>
      BY <1>4 DEF Serve
    <2> QED BY <1>1, <2>2, <2>3, OwnFrame
  <1>5. ASSUME NEW p \in net, Lose(p) PROVE OwnInv'
    BY <1>1, <1>5, OwnFrame DEF Lose
  <1>6. ASSUME NEW c \in to_evt, response_timeout_cb(c) PROVE OwnInv'
    <2>1. c \in Cmd /\ Listed(c)
      BY DEF CalledInv, Types, Uncalled
    <2>2. Own(c, c)
      BY <2>1 DEF Own, CalledInv, Uncalled, Listed
    <2> QED BY <1>6, <2>1, <2>2, OwnBack DEF response_timeout_cb
  <1>7. CASE Restart
    <2>1. /\ epoch' = epoch + 1 /\ next_cmd_ref' = 1 % RefRange /\ resp' = {} /\ UNCHANGED <<net, sent, calls, born>>
          /\ \A n \in Node : parked'[n] = parked[n] \/ parked'[n] = None
      BY <1>1, <1>7 DEF Restart
    <2>2. \A c \in Cmd : born[c] \in Nat /\ born[c] <= epoch' /\ born[c] # epoch'
      BY <2>1 DEF OwnInv, CalledInv, Types
    <2>3. next_cmd_ref' <= sent' + 1
      <3>1. 1 % RefRange <= 1
        BY CommandsAssumption
      <3> QED BY <2>1, <3>1, CommandsAssumption DEF CalledInv, Types
    <2>4. ASSUME NEW p \in Packet, Labelled(p.cmd, p.ref) PROVE Labelled(p.cmd, p.ref)'
      BY <2>1, <2>2, <2>4 DEF Labelled, Packet
    <2>5. ASSUME NEW n \in Node, parked'[n] # None PROVE Labelled(parked[n].cmd, parked[n].ref)'
      <3>1. PICK p \in Packet : p = parked[n] /\ p = parked'[n] /\ Labelled(p.cmd, p.ref)
        BY <1>1, <2>1, <2>5
      <3>2. Labelled(p.cmd, p.ref)'
        BY <2>4, <3>1
      <3> QED BY <3>1, <3>2
    <2>6. \A c \in Cmd : \A i \in DOMAIN calls'[c] : Own(c, calls[c][i].of)'
      BY <2>1 DEF OwnInv, Own
    <2> QED BY <1>1, <2>1, <2>2, <2>3, <2>4, <2>5, <2>6 DEF OwnInv
  <1> QED BY <1>2, <1>3, <1>4, <1>5, <1>6, <1>7, OwnCommand, OwnResponse, Zenon DEF Next

\* When the references do not run out in one run of the process, a callback gets
\* the answer to its own command, or a late one to a command of an earlier run.
THEOREM CallbackOwn == ASSUME Enough PROVE Spec => []OwnAnswer
  <1>1. OwnInv => OwnAnswer
    BY DEF OwnInv, Own, OwnAnswer
  <1>2. CalledInv /\ OwnInv /\ [Next]_vars => CalledInv' /\ OwnInv'
    BY CalledStep, OwnStep
  <1> QED BY <1>1, <1>2, InitCalled, InitOwn, PTL DEF Spec
=============================================================================
