------------------------------ MODULE XdrLink ------------------------------
(***************************************************************************)
(* Messages between two processes: a command or a response is encoded      *)
(* (ipc.c), once more when the buffer was too small, sent as one datagram, *)
(* and decoded, or iterated over as it is, by the process it is for        *)
(* (cmd.c).  The dictionaries that messages hold are filled meanwhile.     *)
(***************************************************************************)
EXTENDS Xdr

CONSTANTS COMMAND, RESPONSE, OPAQUE_STRUCT_ARR, VOID,  \* type numbers
          Parameter,   \* the unions commands are sent with
          Answer,      \* the sequences of unions responses are made of
          BuffLen,     \* the first buffer: 1024 in the code
          OpaqueLen,   \* that of CMD_struct_to_opaque_struct: 256 in the code
          Keys, Values,
          MaxEntries,  \* bound on a dictionary's entries
          NULL

VARIABLES sent,     \* the message: the type and the fields of the structure
          wire,     \* the datagram, or NULL when none was sent
          crashed,  \* the encoder has written through the null pointer
          got,      \* what the receiver has made of it, or NULL
          table     \* a dictionary

link == <<sent, wire, crashed, got>>
vars == <<link, table>>

Init == sent = NULL /\ wire = NULL /\ crashed = FALSE /\ got = NULL /\ table = NewDict
-----------------------------------------------------------------------------
\* Mutant: the second attempt has the first one's room.
SecondRoom_Same(first) == BuffLen

SecondRoom(first) == first.used

\* IPC_command_internal and IPC_response: what is sent, after at most two
\* attempts to encode it.
Attempted(first, type, v) ==
  IF first.crash \/ first.res >= 0 \/ first.used <= BuffLen THEN first
  ELSE StructEncoder(type, v, TRUE, SecondRoom(first))
Transmitted(type, v) == Attempted(StructEncoder(type, v, TRUE, BuffLen), type, v)

Sends(type, v) ==
  /\ sent = NULL /\ sent' = [type |-> type, fields |-> v]
  /\ \E r \in {Transmitted(type, v)} :
       /\ crashed' = r.crash
       /\ wire' = IF r.crash \/ r.res < 0 THEN NULL ELSE r.out
  /\ UNCHANGED <<got, table>>

IPC_command_internal(p) == Sends(COMMAND, <<2, 1, p>>)

\* data_req_populate_cb and CMD_struct_to_opaque_struct: the structure as bytes,
\* none when it is refused.
Opaque(r) == [crash |-> r.crash, structs |-> IF r.res < 0 THEN <<>> ELSE <<<<Len(r.out), r.out>>>>]
Second(first, u) ==
  IF first.res >= 0 \/ first.crash \/ OpaqueLen >= first.used THEN first ELSE XDR_encode_union(u, TRUE, first.used + 16)
CMD_struct_to_opaque_struct(u) == Opaque(Second(XDR_encode_union(u, TRUE, OpaqueLen), u))

\* One structure is answered directly, several as an array of opaque ones.
OpaqueArray(structs) == [type |-> OPAQUE_STRUCT_ARR, data |-> <<Len(structs), structs>>]
Answered(a, o) ==
  IF Len(a) = 1 THEN <<1, 1, 0, a[1]>>
  ELSE <<1, 1, 0, OpaqueArray(FlattenSeq([i \in DOMAIN o |-> o[i].structs]))>>
IPC_response(a) ==
  \E o \in {[i \in DOMAIN a |-> CMD_struct_to_opaque_struct(a[i])]} :
    IF Len(a) # 1 /\ \E i \in DOMAIN a : o[i].crash
    THEN /\ sent = NULL /\ sent' = [type |-> RESPONSE, fields |-> <<1, 1, 0, OpaqueArray(<<>>)>>]
         /\ crashed' = TRUE /\ UNCHANGED <<wire, got, table>>
    ELSE Sends(RESPONSE, Answered(a, o))
-----------------------------------------------------------------------------
(* The receiver.                                                           *)

\* CMD_resolve_callback, and cmd_handler_cb for a command: the structure is
\* decoded, given to the callback or the handler, and freed.
Cooked ==
  /\ wire # NULL /\ got = NULL
  /\ \E d \in {StructDecoder(sent.type, wire)} :
        got' = [how |-> "cooked", ok |-> d.res >= 0, fields |-> d.val,
                kept |-> IF d.res < 0 THEN 0 ELSE d.blocks - XDR_struct_free_fields(sent.type, d.val)]
  /\ UNCHANGED <<sent, wire, crashed, table>>

\* CMD_iterate_structs: the structures the callback is called with, by type.
RECURSIVE CMD_iterate_structs(_)
CMD_iterate_structs(src) ==
  LET n == XDR_decode_int(uint32, src)
      count == XDR_decode_int(uint32, From(src, 4))
      single(s) == Decoded(4, IF s.res < 0 THEN <<>> ELSE <<[type |-> n.val, data |-> s.val]>>, 0)
      joined(done, len, inner) ==
        IF inner.res < 0 THEN Refused ELSE Decoded(done.used + 4 + len.val, done.val \o inner.val, 0)
      sized(done, len) ==
        IF len.res < 0 \/ done.used + 4 + len.val > Len(src) THEN Refused
        ELSE joined(done, len, CMD_iterate_structs(SubSeq(src, done.used + 5, done.used + 4 + len.val)))
      entry(done) ==
        IF done.res < 0 THEN Refused ELSE sized(done, XDR_decode_int(uint32, From(src, done.used)))
  IN IF n.res < 0 THEN Refused
     ELSE IF n.val # OPAQUE_STRUCT_ARR
     THEN IF n.val \notin DOMAIN Structs THEN Decoded(4, <<>>, 0) ELSE single(StructDecoder(n.val, From(src, 4)))
     ELSE IF count.res < 0 THEN Refused
     ELSE Fold(LAMBDA done, i : entry(done), Decoded(8, <<>>, 0), [i \in 1..count.val |-> i])

\* CMD_print_response: the header, then the structures.
Raw ==
  /\ wire # NULL /\ got = NULL /\ sent.type = RESPONSE
  /\ \E d \in {CMD_iterate_structs(From(wire, 12))} :
        got' = [how |-> "raw", ok |-> d.res >= 0, fields |-> d.val, kept |-> 0]
  /\ UNCHANGED <<sent, wire, crashed, table>>
-----------------------------------------------------------------------------
(* A dictionary on its own.                                                *)

Adds(k, v) == Cardinality({n.key : n \in ToSet(XDR_dict_iterate(table))}) < MaxEntries
                /\ table' = XDR_dict_add(table, k, v) /\ UNCHANGED link
Removes(k) == table' = XDR_dict_remove(table, k) /\ UNCHANGED link

Next ==
  \/ table = NewDict /\ (\/ \E p \in Parameter : IPC_command_internal(p)
                         \/ \E a \in Answer : IPC_response(a)
                         \/ Cooked \/ Raw)
  \/ sent = NULL /\ (\E k \in Keys : Removes(k) \/ \E v \in Values : Adds(k, v))
  \/ sent = NULL /\ table' = XDR_dict_remove_all(table) /\ UNCHANGED link

Spec == Init /\ [][Next]_vars
-----------------------------------------------------------------------------
(* Properties.                                                             *)

OnlyWords(type) ==
  ~Structs[type].bits => \A i \in DOMAIN Structs[type].fields :
                           LET t == Structs[type].fields[i].t
                           IN t.k = "int" \/ (t.k = "array" /\ t.of.k = "int")

\* What the message holds: the structures of a response, the parameters of a
\* command.
Held == IF sent.type = COMMAND THEN <<sent.fields[3]>>
        ELSE IF sent.fields[4].type # OPAQUE_STRUCT_ARR THEN <<sent.fields[4]>>
        ELSE [i \in DOMAIN sent.fields[4].data[2] |-> XDR_decode_union(sent.fields[4].data[2][i][2]).val]

\* A message is received as it was sent or not at all: fields are neither lost
\* nor shifted by padding, lengths, two's complement or a second attempt.  One
\* structure of words only, of any length, is always sent and received.
RoundTrip ==
  LET certain == Len(Held) = 1 /\ \A i \in DOMAIN Held : OnlyWords(Held[i].type)
  IN /\ got # NULL => (got.ok => got.fields = IF got.how = "raw" THEN Held ELSE sent.fields)
     /\ got # NULL => (certain => got.ok)
     /\ sent # NULL /\ wire = NULL => ~certain

\* Receiving a message keeps no memory: all that was allocated for a structure
\* that could be decoded is freed.
AllFreed == got # NULL => got.kept = 0

\* "Sort keys in collision buckets to ensure identical output order": two
\* dictionaries of the same entries are written alike, however they were filled.
SameOutputOrder ==
  LET entries == ToSet(XDR_dict_iterate(table))
  IN /\ table.length = Len(XDR_dict_iterate(table))
     /\ \A order \in SetToSeqs(entries) :
          Fold(LAMBDA t, n : XDR_dict_add(t, n.key, n.data), NewDict, order) = table

\* "code that automatically encodes it and decodes it for transmission": a
\* message that was sent can be decoded.
DecodesWhatItEncodes == got # NULL => got.ok
=============================================================================
