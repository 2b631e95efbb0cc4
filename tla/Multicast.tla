----------------------------- MODULE Multicast -----------------------------
(***************************************************************************)
(* Handlers of multicast commands (cmd.c): a list of groups, each with a   *)
(* socket, a read event and a list of handlers, and the callback that      *)
(* walks the handlers for a packet while these set and remove others.      *)
(*                                                                         *)
(* A handler is a node; its identity is the order of its creation.  A      *)
(* callback removes no handler of the number it was called for: the walk   *)
(* reads the node again after the call.                                    *)
(***************************************************************************)
EXTENDS Integers, Sequences, SequencesExt, FiniteSets

CONSTANTS Group,       \* pairs of multicast address and port
          CmdNum,      \* the numbers handlers are for; a negative one means all
          Command,     \* the first bytes of packets
          NULL,
          MaxNodes,    \* bound on the handlers set
          MaxSockets   \* the sockets the process can open

VARIABLES mcast,    \* st->mcast: the groups, in the order of the list
          cmds,     \* state->cmds of each group: the nodes, the newest first
          node,     \* the number and group of each node set so far
          socket,   \* state->fd of each group, 0 for none
          open,     \* the sockets that are open
          events,   \* the read events: the group each socket's callback has
          member,   \* the sockets that have joined a group
          walk,     \* the packet being handled
          calls     \* the handlers it has been given to, in order

vars == <<mcast, cmds, node, socket, open, events, member, walk, calls>>

Init ==
  /\ mcast = <<>> /\ cmds = [g \in Group |-> <<>>] /\ node = <<>>
  /\ socket = [g \in Group |-> 0] /\ open = {} /\ events = [s \in {} |-> NULL] /\ member = {}
  /\ walk = NULL /\ calls = <<>>

Listed(g) == g \in ToSet(mcast)
NewNode == Len(node) + 1

\* The new handler is the head of the list of its group.
Added(g, num) ==
  /\ node' = Append(node, [num |-> num, group |-> g])
  /\ cmds' = [cmds EXCEPT ![g] = <<NewNode>> \o @]

\* The handler set for a group that has others, or for one that has none: a
\* socket is opened and joins.  When it cannot join it stays open.
cmd_set_multicast_handler(g, num) ==
  /\ Len(node) < MaxNodes
  /\ \/ Listed(g) /\ Added(g, num) /\ UNCHANGED <<mcast, socket, open, events, member>>
     \/ /\ ~Listed(g)
        /\ \E s \in 1..MaxSockets \ open :
             /\ \A t \in 1..s - 1 : t \in open
             /\ open' = open \cup {s}
             /\ \/ /\ member' = member \cup {<<s, g>>} /\ socket' = [socket EXCEPT ![g] = s]
                   /\ events' = [t \in DOMAIN events \cup {s} |-> IF t = s THEN g ELSE events[t]]
                   /\ mcast' = <<g>> \o mcast /\ Added(g, num)
                \/ UNCHANGED <<mcast, cmds, node, socket, events, member>>

\* Mutant: the group is dropped with its first handler.
Emptied_Early(g, kept) == Len(kept) < Len(cmds[g])

Emptied(g, kept) == kept = <<>>

\* The groups in G lose their socket, its event and its membership.
Dropped(G) ==
  /\ events' = [t \in {u \in DOMAIN events : \A g \in G : u # socket[g]} |-> events[t]]
  /\ member' = {m \in member : \A g \in G : m[1] # socket[g]}
  /\ open' = {s \in open : \A g \in G : s # socket[g]}
  /\ socket' = [g \in Group |-> IF g \in G THEN 0 ELSE socket[g]]
  /\ mcast' = SelectSeq(mcast, LAMBDA g : g \notin G)

cmd_remove_multicast_handler(g, num) ==
  /\ Listed(g)
  /\ LET kept == SelectSeq(cmds[g], LAMBDA n : node[n].num # num)
     IN /\ cmds' = [cmds EXCEPT ![g] = kept]
        /\ IF Emptied(g, kept) THEN Dropped({g}) ELSE UNCHANGED <<mcast, socket, open, events, member>>
  /\ UNCHANGED node

Idle == walk = NULL

Calls ==
  \/ \E g \in Group, num \in CmdNum : cmd_set_multicast_handler(g, num)
  \/ \E g \in Group, num \in CmdNum : cmd_remove_multicast_handler(g, num)

FromLoop == Idle /\ Calls /\ UNCHANGED <<walk, calls>>

\* cmd_cleanup_cb_state.
cmd_cleanup_cb_state ==
  /\ Idle /\ Dropped(ToSet(mcast)) /\ cmds' = [g \in Group |-> <<>>] /\ UNCHANGED <<node, walk, calls>>
-----------------------------------------------------------------------------
(* multicast_cmd_handler_cb.                                               *)

Matches(n, c) == node[n].num < 0 \/ node[n].num = c

\* A packet arrives, or the read fails: its length, -1, is a size_t that passes
\* for a packet, of the command 0 the buffer starts with.  The walk starts at the
\* head of the group's list.
Receives(s, c) ==
  /\ Idle /\ s \in DOMAIN events
  /\ walk' = [group |-> events[s], command |-> c, at |-> 1, before |-> cmds[events[s]]]
  /\ calls' = <<>> /\ UNCHANGED <<mcast, cmds, node, socket, open, events, member>>

Current == cmds[walk.group][walk.at]

\* Mutant: the place in the list is kept, and not the node.
Resumed_Place(n, list) == walk.at + 1

\* cmd = cmd->next: the place after the node n in what is now the list.
Resumed(n, list) == (CHOOSE i \in DOMAIN list : list[i] = n) + 1

\* A node that does not match is passed over; one that does is called, and its
\* callback may set a handler, or remove those of another number.
Steps ==
  /\ ~Idle /\ walk.at <= Len(cmds[walk.group])
  /\ LET n == Current
     IN \/ /\ ~Matches(n, walk.command) /\ walk' = [walk EXCEPT !.at = @ + 1]
           /\ UNCHANGED <<calls, mcast, cmds, node, socket, open, events, member>>
        \/ /\ Matches(n, walk.command) /\ calls' = Append(calls, n)
           /\ \/ UNCHANGED <<mcast, cmds, node, socket, open, events, member>>
              \/ \E g \in Group, num \in CmdNum :
                   cmd_set_multicast_handler(g, num)
                     \/ ((g # walk.group \/ num # node[n].num) /\ cmd_remove_multicast_handler(g, num))
           /\ walk' = [walk EXCEPT !.at = Resumed(n, cmds'[walk.group])]

Ends == ~Idle /\ walk.at > Len(cmds[walk.group]) /\ walk' = NULL
          /\ UNCHANGED <<calls, mcast, cmds, node, socket, open, events, member>>

Next ==
  \/ FromLoop \/ cmd_cleanup_cb_state \/ Steps \/ Ends
  \/ \E s \in 1..MaxSockets, c \in Command \cup {0} : Receives(s, c)

Spec == Init /\ [][Next]_vars
-----------------------------------------------------------------------------
\* Sockets, events, memberships and lists stay together through handlers that
\* are set and removed, from the loop or from inside a callback: a group is in
\* the list exactly while it has a handler, and then it has a socket of its own
\* that has joined it and whose event leads to it.
GroupsJoined ==
  /\ \A g \in Group : (cmds[g] # <<>>) <=> Listed(g)
  /\ DOMAIN events = {socket[g] : g \in ToSet(mcast)} /\ DOMAIN events \subseteq open
  /\ \A g \in ToSet(mcast) : events[socket[g]] = g /\ <<socket[g], g>> \in member
  /\ Cardinality(member) = Len(mcast)

\* A packet is given to every handler that matches it and stays registered, once
\* each, in the order of the list, whatever the callbacks set or remove
\* meanwhile; those set meanwhile wait for the next one.
EachCalledOnce ==
  [][walk # NULL /\ walk' = NULL =>
       LET stayed == SelectSeq(walk.before, LAMBDA n : Matches(n, walk.command) /\ n \in ToSet(cmds[walk.group]))
       IN SelectSeq(calls, LAMBDA n : n \in ToSet(cmds[walk.group])) = stayed]_vars
=============================================================================
