------------------------------- MODULE MCData -------------------------------
(***************************************************************************)
(* What a process writes to be read by itself or by another, for TLC: the  *)
(* critical state on its disk, messages of words of four digits in base 4, *)
(* JSON documents, the packets of the event debugger, or the files it is   *)
(* configured by.  A behaviour is of one of them.                          *)
(***************************************************************************)
EXTENDS CriticalState, CmdSchema, Sequences

CONSTANTS Radix, XDR_HASH_LEN, BuffLen, OpaqueLen, Keys, Values, MaxEntries, NULL,
          IntMax, Indent, Base, KeyLen, ValLen, Alloc

VARIABLES part,   \* what the behaviour is of
          sent, wire, crashed, received, table,
          doc, format, bytes, cut, back,
          ctx, order, packet, heard,
          tree, file, value, reg

linkVars == <<sent, wire, crashed, received, table>>
exchangeVars == <<doc, format, bytes, cut, back>>
packetVars == <<ctx, order, packet, heard>>
configVars == <<tree, file, value, reg>>

MCBucket(k) == 1 + (Head(k) % 2)
Dicts == INSTANCE Xdr WITH Structs <- IPC_structs, Bucket <- MCBucket

NOTE == 20
BITS == 21
DICTS == 22
REALS == 23
MCApp ==
  (NOTE :> Plain(<<Field(int32), Field(string_arr), Field(int64)>>))
    @@ (BITS :> Packed(<<Bits(uint32, 0, 3), Bits(int32, 3, 2), Bits(uint32, 5, 3)>>))
    @@ (DICTS :> Plain(<<Field(dict(int32)), Field(dict(struct(HEARTBEAT)))>>))
    @@ (REALS :> Plain(<<Field(float), Field(double), Field(int32), Counted(arr(float), 3)>>))
MCKeys == {<<1>>, <<1, 2>>, <<2>>, <<3>>, <<3, 1>>}

Un(type, data) == [type |-> type, data |-> data]
Str(n) == [k \in 1..n |-> 1 + (k % 3)]
Table(keys, v) == Dicts!Fold(LAMBDA t, k : Dicts!XDR_dict_add(t, k, v), Dicts!NewDict, keys)
Beat == {<<c, r, h>> : c \in {0, 1, 300}, r \in {0, 65535}, h \in {256}}

\* Every kind of field, at the lengths where padding and buffers begin to matter.
MCParameter ==
  {Un(VOID, <<>>)} \cup {Un(HEARTBEAT, b) : b \in Beat}
    \cup {Un(DATAREQ, <<n, [k \in 1..n |-> (k * 77) % 256]>>) : n \in 0..6}
    \cup {Un(BITS, <<a, b, c>>) : a \in {0, 5, 7}, b \in -2..1, c \in {0, 6}}
    \cup {Un(NOTE, <<a, Str(n), b>>) : a \in {-128, -1, 127}, n \in 0..9, b \in {-32768, 258}}
    \cup {Un(REALS, <<Str(4), Str(8), n, [k \in 1..n |-> Str(4)]>>) : n \in 0..3}
    \cup {Un(DICTS, <<Table(ks, -3), Table(ls, <<1, 2, 3>>)>>) : ks, ls \in {<<>>, <<<<2>>>>, <<<<3>>, <<1, 2>>>>}}
    \cup {Un(WD_PROC_NAME, <<Str(n)>>) : n \in 0..5}
    \cup {Un(WD_REG_INFO, <<Str(n), 200, b>>) : n \in {1, 8}, b \in 0..1}
Few == {Un(VOID, <<>>), Un(HEARTBEAT, <<300, 0, 1>>), Un(DATAREQ, <<2, <<9, 200>>>>), Un(BITS, <<5, -2, 6>>),
        Un(WD_PROC_NAME, <<Str(3)>>), Un(DICTS, <<Table(<<<<3>>, <<1>>>>, 5), Dicts!NewDict>>)}
MCAnswer == {<<u>> : u \in MCParameter} \cup {<<>>} \cup {<<u, w>> : u, w \in Few}

Link == INSTANCE XdrLink WITH Structs <- IPC_structs, Bucket <- MCBucket, got <- received,
                              Parameter <- MCParameter, Answer <- MCAnswer

Given == INSTANCE MCDocuments
Exchange == INSTANCE JsonExchange WITH Documents <- Given!MCDocuments, Invalid <- Given!MCInvalid, sent <- bytes
Packets == INSTANCE DebugPackets WITH Contexts <- Given!MCContexts, Orders <- Given!MCOrders, Asked <- Given!MCAsked

Configuration ==
  INSTANCE Config WITH Descriptions <- Given!MCDescriptions, Root <- "Root", PluginConfigs <- Given!MCPluginConfigs,
                       Sets <- Given!MCSets, Paths <- Given!MCPaths, Directories <- {"d1", "d2"},
                       Files <- Given!MCFiles, Trees <- Given!MCTrees, Noises <- Given!MCNoises, Cut <- Given!MCCut

DataInit ==
  /\ part \in {"disk", "link", "document", "packet", "config"} /\ Init /\ Link!Init
  /\ IF part = "document" THEN Exchange!ExchangeInit ELSE doc = NULL /\ format = NULL /\ bytes = NULL /\ cut = NULL /\ back = NULL
  /\ IF part = "packet" THEN Packets!PacketInit ELSE ctx = NULL /\ order = NULL /\ packet = NULL /\ heard = NULL
  /\ IF part = "config" THEN Configuration!ConfigInit ELSE tree = NULL /\ file = NULL /\ value = NULL /\ reg = NULL

DataNext ==
  /\ UNCHANGED part
  /\ \/ part = "disk" /\ Next /\ UNCHANGED <<linkVars, exchangeVars, packetVars, configVars>>
     \/ part = "link" /\ Link!Next /\ UNCHANGED <<vars, exchangeVars, packetVars, configVars>>
     \/ part = "document" /\ Exchange!ExchangeNext /\ UNCHANGED <<vars, linkVars, packetVars, configVars>>
     \/ part = "packet" /\ Packets!PacketNext /\ UNCHANGED <<vars, linkVars, exchangeVars, configVars>>
     \/ part = "config" /\ Configuration!ConfigNext /\ UNCHANGED <<vars, linkVars, exchangeVars, packetVars>>

DataSpec == DataInit /\ [][DataNext]_<<part, vars, linkVars, exchangeVars, packetVars, configVars>>

LinkSpec == part = "link" /\ DataSpec

\* A message is received as it was sent or not at all.
RoundTrip == Link!RoundTrip

\* Receiving a message keeps no memory.
AllFreed == Link!AllFreed

\* A document that arrives whole is read as it was written, and one that was
\* cut short is noticed.
ReadsBack == Exchange!ReadsBack

\* The event debugger and its client read what the other has written.
PacketsRead == Packets!PacketsRead

\* Dictionaries of the same entries are written alike.
SameOutputOrder == Link!SameOutputOrder

\* A configuration file is read as it is meant, whatever plugins are loaded.
ConfigExact == Configuration!ConfigExact

\* "code that automatically encodes it and decodes it for transmission": a
\* message that was sent can be decoded.
DecodesWhatItEncodes == Link!DecodesWhatItEncodes
=============================================================================
