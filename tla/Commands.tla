------------------------------ MODULE Commands ------------------------------
(***************************************************************************)
(* Commands and their responses: ipc.c (IPC_command, IPC_response), cmd.c  *)
(* (cmd_handler_cb, the list of response callbacks and their timeouts) and *)
(* the sending of packets in proclib.c, between a process and the hosts it *)
(* sends commands to, over UDP: packets are lost, duplicated, reordered.   *)
(*                                                                         *)
(* A command is named by its number among all commands ever sent, which    *)
(* the code does not have: packets carry the reference next_cmd_ref, which *)
(* wraps and starts again with the process.  The list of responses has the *)
(* newest entry first, which is the order of those numbers, so a set will  *)
(* do for it.                                                              *)
(***************************************************************************)
EXTENDS Naturals, Sequences, FiniteSets

CONSTANTS Host,         \* the processes commands are sent to
          Self,         \* the process that sends them
          None,
          RefRange,     \* the number of references (2^32)
          MaxCommands, MaxRestarts

ASSUME CommandsAssumption ==
  /\ Self \notin Host /\ RefRange \in Nat \ {0} /\ MaxCommands \in Nat /\ MaxRestarts \in Nat

VARIABLES net,          \* the packets in transit
          parked,       \* each process' packet that waits for its socket
          next_cmd_ref,
          resp,         \* the entries of the list cmds->resp
          to_evt,       \* the entries whose timer is pending
          sent, epoch,  \* the number of commands and of restarts so far
          calls,        \* for each command, the calls of its callback
          born          \* the epoch in which each command was sent

vars == <<net, parked, next_cmd_ref, resp, to_evt, sent, epoch, calls, born>>

Cmd == 1..MaxCommands
Node == Host \cup {Self}
CbType == {"raw", "cooked"}

\* A command or a response; "bad" bodies cannot be decoded beyond the header.
Packet == [kind : {"cmd", "good", "bad"}, ref : 0..RefRange - 1, host : Host, cmd : Cmd]

Init ==
  /\ net = {} /\ parked = [n \in Node |-> None] /\ next_cmd_ref = 1 % RefRange
  /\ resp = {} /\ to_evt = {} /\ sent = 0 /\ epoch = 0
  /\ calls = [c \in Cmd |-> <<>>] /\ born = [c \in Cmd |-> 0]
-----------------------------------------------------------------------------
(* Sending.  A socket that would block has room for one packet to wait:    *)
(* the write handler of the descriptor, which the next one replaces.       *)

proc_cmd_sockaddr_raw_internal(n, p) ==
  \/ net' = net \cup {p} /\ UNCHANGED parked
  \/ parked' = [parked EXCEPT ![n] = p] /\ UNCHANGED net
  \/ UNCHANGED <<net, parked>>

\* A write that would block again keeps the handler.
socket_write_cb(n) ==
  /\ parked[n] # None
  /\ parked' = [parked EXCEPT ![n] = None]
  /\ net' \in {net, net \cup {parked[n]}}
  /\ UNCHANGED <<next_cmd_ref, resp, to_evt, sent, epoch, calls, born>>

NextRef(ref) == (ref + 1) % RefRange

CMD_add_response_cb(entry) == resp' = resp \cup {entry}

\* IPC_command with a callback of some type, or none, and maybe a timeout.
IPC_command(host, type, timeout) ==
  /\ sent < MaxCommands
  /\ sent' = sent + 1 /\ born' = [born EXCEPT ![sent'] = epoch]
  /\ next_cmd_ref' = NextRef(next_cmd_ref)
  /\ proc_cmd_sockaddr_raw_internal(Self,
       [kind |-> "cmd", ref |-> next_cmd_ref, host |-> host, cmd |-> sent'])
  /\ IF type = "none" THEN UNCHANGED <<resp, to_evt>>
     ELSE /\ CMD_add_response_cb([id |-> next_cmd_ref, host |-> host, cb_type |-> type, cmd |-> sent'])
          /\ to_evt' = IF timeout THEN to_evt \cup {sent'} ELSE to_evt
  /\ UNCHANGED <<epoch, calls>>
-----------------------------------------------------------------------------
(* A host receives a command.  Its handler answers, or does not: a data    *)
(* request for one item answers as often as the item's populator calls     *)
(* back, which is the command being served again.                          *)

Serve(p, again) ==
  /\ p \in net /\ p.kind = "cmd"
  /\ \E sending \in BOOLEAN, kind \in {"good", "bad"} :
       IF sending
       THEN LET answer == [p EXCEPT !.kind = kind]
            IN \/ net' = (IF again THEN net ELSE net \ {p}) \cup {answer} /\ UNCHANGED parked
               \/ /\ parked' = [parked EXCEPT ![p.host] = answer]
                  /\ net' = IF again THEN net ELSE net \ {p}
       ELSE net' = net \ {p} /\ UNCHANGED parked
  /\ UNCHANGED <<next_cmd_ref, resp, to_evt, sent, epoch, calls, born>>
-----------------------------------------------------------------------------
(* Responses and timeouts.                                                 *)

\* Mutant: the host alone is compared.
Matches_Host(entry, p) == entry.host = p.host

Matches(entry, p) == entry.id = p.ref /\ entry.host = p.host

Without(cmd) == {e \in resp : e.cmd # cmd}
Found(p) == {e \in resp : Matches(e, p)}
First(entries) == {e \in entries : \A other \in entries : other.cmd <= e.cmd}
Call(cmd, how) == calls' = [calls EXCEPT ![cmd] = Append(@, how)]

\* Mutant: the entry of a response that cannot be decoded stays on the list.
cmd_handle_xdr_response_Kept(p, again) ==
  /\ p \in net /\ p.kind \in {"good", "bad"}
  /\ net' = IF again THEN net ELSE net \ {p}
  /\ \/ Found(p) = {} /\ UNCHANGED <<resp, to_evt, calls>>
     \/ \E state \in First(Found(p)) :
          /\ to_evt' = to_evt \ {state.cmd}
          /\ IF state.cb_type = "raw" \/ p.kind = "good"
             THEN /\ Call(state.cmd, [timeout |-> FALSE, of |-> p.cmd])
                  /\ resp' = Without(state.cmd)
             ELSE UNCHANGED <<calls, resp>>
  /\ UNCHANGED <<parked, next_cmd_ref, sent, epoch, born>>

\* The newest entry that matches is taken off the list and called back; a
\* cooked callback is not called when the body cannot be decoded.
cmd_handle_xdr_response(p, again) ==
  /\ p \in net /\ p.kind \in {"good", "bad"}
  /\ net' = IF again THEN net ELSE net \ {p}
  /\ \/ Found(p) = {} /\ UNCHANGED <<resp, to_evt, calls>>
     \/ \E state \in First(Found(p)) :
          /\ resp' = Without(state.cmd)
          /\ to_evt' = to_evt \ {state.cmd}
          /\ IF state.cb_type = "raw" \/ p.kind = "good"
             THEN Call(state.cmd, [timeout |-> FALSE, of |-> p.cmd])
             ELSE UNCHANGED calls
  /\ UNCHANGED <<parked, next_cmd_ref, sent, epoch, born>>

\* Mutant: the entry stays on the list after its timeout.
response_timeout_cb_Listed(cmd) ==
  /\ cmd \in to_evt
  /\ to_evt' = to_evt \ {cmd} /\ Call(cmd, [timeout |-> TRUE, of |-> cmd])
  /\ UNCHANGED <<resp, net, parked, next_cmd_ref, sent, epoch, born>>

response_timeout_cb(cmd) ==
  /\ cmd \in to_evt
  /\ resp' = Without(cmd) /\ to_evt' = to_evt \ {cmd}
  /\ Call(cmd, [timeout |-> TRUE, of |-> cmd])
  /\ UNCHANGED <<net, parked, next_cmd_ref, sent, epoch, born>>
-----------------------------------------------------------------------------
(* The network, and the end and restart of the process.                    *)

Lose(p) ==
  /\ p \in net /\ net' = net \ {p}
  /\ UNCHANGED <<parked, next_cmd_ref, resp, to_evt, sent, epoch, calls, born>>

Restart ==
  /\ epoch < MaxRestarts /\ epoch' = epoch + 1
  /\ next_cmd_ref' = 1 % RefRange /\ resp' = {} /\ to_evt' = {}
  /\ parked' = [parked EXCEPT ![Self] = None]
  /\ UNCHANGED <<net, sent, calls, born>>
-----------------------------------------------------------------------------
Next ==
  \/ \E h \in Host, type \in CbType \cup {"none"}, timeout \in BOOLEAN : IPC_command(h, type, timeout)
  \/ \E n \in Node : socket_write_cb(n)
  \/ \E p \in net : \E again \in BOOLEAN : Serve(p, again) \/ cmd_handle_xdr_response(p, again)
  \/ \E p \in net : Lose(p)
  \/ \E cmd \in to_evt : response_timeout_cb(cmd)
  \/ Restart

Spec == Init /\ [][Next]_vars

\* The event loop runs a timer that is due.
FairSpec == Spec /\ WF_vars(\E cmd \in to_evt : response_timeout_cb(cmd))
-----------------------------------------------------------------------------
Listed(cmd) == \E e \in resp : e.cmd = cmd

\* With lost, repeated and late responses, timeouts, and answers that arrive
\* after the timeout, a command's callback is called at most once, and never
\* after its entry has been freed.
CalledOnce == \A c \in Cmd : Len(calls[c]) + (IF Listed(c) THEN 1 ELSE 0) <= 1

\* A callback gets the response to its own command from the host it was sent
\* to, or, as references start again with the process, the late response to
\* a command of an earlier run of the process with the same reference.
OwnAnswer ==
  \A c \in Cmd : \A i \in DOMAIN calls[c] :
    calls[c][i].of = c \/ born[calls[c][i].of] < born[c]

\* A command with a timeout is not forgotten: as long as the process runs, its
\* entry leaves the list, whatever the network does.
TimedResolved == \A c \in Cmd : c \in to_evt ~> ~Listed(c)
=============================================================================
