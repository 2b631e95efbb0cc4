---------------------------- MODULE MCDocuments -----------------------------
(***************************************************************************)
(* Documents, strings, state reports, commands and configurations for TLC. *)
(***************************************************************************)
EXTENDS JsonText

CONSTANT NULL

\* Code points at the ends of the ranges that are written differently.
CodePoints == {0, 8, 31, 34, 65, 92, 127, 128, 2047, 2048, 55295, 57344, 65535, 65536, 1114111}
Long(n) == [i \in 1..n |-> 97]
Strings ==
  {<<>>} \cup {Utf8(a) : a \in CodePoints} \cup {Utf8(a) \o Utf8(b) : a, b \in {0, 34, 65, 2047, 65536}}
    \cup {Long(n) : n \in {23, 24, 31, 32}}

\* Numbers around those that take one byte more in base 150.
Numbers ==
  {0, 7, 10, 23, 24, 74, 75, 99, 100, 127, 128, 149, 150, 999, 11249, 11250, 12345, 22499, 22500,
   253124999, 253125000, 506249999, 506250000,
   -1, -10, -24, -25, -32, -33, -75, -76, -100, -150, -151, -11250, -11251, -22501, -253125000, -253125001, -524288}
Floats ==
  {<<"float", s, d, e>> : s \in BOOLEAN, d \in {<<1>>, <<1, 5>>, <<1, 2, 3>>},
                          e \in {-9, -6, -5, -4, -1, 0, 1, 12, 13, 14, 15, 16, 18}}
    \cup {<<"float", s, <<>>, 0>> : s \in BOOLEAN}
Atoms ==
  {<<"int", n>> : n \in Numbers} \cup Floats \cup {<<"string", s>> : s \in Strings}
    \cup {<<"null">>, <<"bool", TRUE>>, <<"bool", FALSE>>}

\* Containers of one or two elements, of elements of one type, and of many.
Small ==
  {<<"int", 3>>, <<"int", 200>>, <<"string", <<97>>>>, <<"array", <<>>>>, <<"object", NoMembers>>, <<"null">>,
   <<"bool", TRUE>>, <<"float", TRUE, <<1>>, 2>>}
Flat ==
  {<<"array", s>> : s \in UNION {[1..n -> Small] : n \in 1..2}}
    \cup {<<"object", f>> : f \in UNION {[K -> Small] : K \in {{<<>>}, {<<78, 98>>, <<97>>}}}}
    \cup {<<"array", <<a, a, b>>>> : a, b \in {<<"int", 3>>, <<"int", 200>>}}
Wide == {<<"array", [i \in 1..n |-> <<"null">>]>> : n \in {15, 16, 23, 24}}
Nested ==
  {<<"array", <<a, <<"int", 3>>>> >> : a \in Flat} \cup {<<"object", (<<97>> :> a)>> : a \in Flat}
    \cup {<<"array", <<a, a>>>> : a \in Flat}
MCDocuments == Atoms \cup Flat \cup Wide \cup Nested
MCInvalid ==
  {s \in UNION {[1..n -> {65, 128, 160, 195, 226, 237, 240}] : n \in 1..3} : dump_escaped(s, FALSE, "strict").thrown}
-----------------------------------------------------------------------------
(* What a process may have to report.                                      *)

Timed(i, at) == [id |-> i, at |-> at]
Descriptor(i, open, calls) == [id |-> 10 + i, name |-> "f", open |-> open, calls |-> calls, paused |-> open]
TimedSet == {Timed(1, 1500000), Timed(2, 7), Timed(3, 2000003)}
DescriptorSet ==
  {Descriptor(3, o, c) : o \in BOOLEAN, c \in {<<"read_handler">>, <<"read_handler", "write_handler">>}}
    \cup {Descriptor(4, o, <<"error_handler">>) : o \in BOOLEAN}
Lists(S) == {s \in UNION {[1..n -> S] : n \in 0..2} : \A i, j \in DOMAIN s : s[i].id = s[j].id => i = j}
Context(now, queue, timed, fds, fd) ==
  [stopped |-> timed # NULL \/ fd # NULL, now |-> now, queue |-> SelectSeq(queue, LAMBDA e : e # timed), nextTimed |-> timed,
   fds |-> fds, nextFd |-> fd, name |-> "p", timedCount |-> 5, fdCount |-> 6]
MCContexts ==
  {c \in {Context(n, q, h, f, x) : n \in {0, 1500000}, q \in Lists(TimedSet), h \in {NULL, Timed(1, 1500000)},
                                   f \in Lists(DescriptorSet), x \in {NULL, Descriptor(3, TRUE, <<"read_handler">>)}} :
     c.nextFd # NULL => \E i \in DOMAIN c.fds : c.fds[i] = c.nextFd}

\* Names and values with the characters that mean something to a parser.
MCAsked == {<<97>>, <<97, 98>>, <<44, 125>>}
Meant ==
  {<<"string", s>> : s \in {<<97>>, <<58>>, <<44, 123>>, <<125, 32>>, <<97, 98, 99>>, <<>>}}
    \cup {<<"int", n>> : n \in {0, 7, -1, 500, 100000}}
MCOrders == UNION {[K -> Meant] : K \in SUBSET MCAsked \ {{}}}
-----------------------------------------------------------------------------
(* Configurations: descriptions, two sets of plugins with their files, and *)
(* what may be written in a file.                                          *)

Option(lookup, arg, cb) == [lookup |-> lookup, arg |-> arg, cb |-> cb]
Setting == Option("none", "", "set")
MCDescriptions ==
  [d \in {"Root", "Sub", "Cube", "Sat", "Pre"} |->
    CASE d = "Root" -> ("__type_l1" :> Setting) @@
                       [n |-> Setting, l1 |-> Option("plugin_buffered", "rt", "copy"), o |-> Option("static", "Sub", "append"),
                        p |-> Option("plugin", "cube", "copy"), u |-> Option("list", ("a" :> "Sub"), "append")]
      [] d = "Sub" -> ("__type" :> Setting) @@ [n |-> Setting, l1 |-> Option("plugin_buffered", "rt", "append")]
      [] d = "Cube" -> [foo |-> Setting, l2 |-> Option("plugin_buffered", "cube", "append"), o |-> Option("static", "Sub", "copy")]
      [] d = "Sat" -> [foo |-> Setting]
      [] d = "Pre" -> ("__type" :> Setting) @@ [n |-> Setting]]

MCPluginConfigs ==
  (<<"rt", "c">> :> "Cube") @@ (<<"rt", "b">> :> "Pre") @@ (<<"cube", "s">> :> "Sat") @@ (<<"cube", "x">> :> "Sat")
MCSets == {"rt", "cube"}
MCPaths == [s \in MCSets |-> IF s = "rt" THEN <<"d1", "d0">> ELSE <<"d2", "d1">>]
Shared(dir, preload, set, plugin, init) == [dir |-> dir, preload |-> preload, set |-> set, plugin |-> plugin, init |-> init]
\* One file registers plugins of two sets; "x" is in none.
MCFiles ==
  <<Shared("d1", TRUE, "", "", <<<<"rt", "b">>>>), Shared("d2", TRUE, "", "", <<<<"rt", "b">>>>),
    Shared("d1", FALSE, "rt", "c", <<<<"rt", "c">>, <<"cube", "s">>>>), Shared("d2", FALSE, "cube", "s", <<<<"cube", "s">>>>)>>

Key(k, v) == <<"key", k, <<"text", v>>>>
Object(k, params, items) == <<"object", k, params, items>>
Inner == {<<>>, <<Key("foo", "1"), Key("n", "2")>>}
Deep == {<<Object("l2", params, i)>> : params \in {"s", "x"}, i \in Inner} \cup {<<Object("zz", "s", i)>> : i \in Inner}
Middle ==
  Inner \cup Deep \cup {a \o b : a \in Inner, b \in Deep} \cup {a \o b : a \in Deep, b \in Inner}
    \cup {<<Object("o", "s", <<Key("n", "3"), Object("l1", "b", <<>>)>>), Key("foo", "4")>>}
Outer ==
  {Object("l1", params, i) : params \in {"c", "b", "zz"}, i \in Middle}
    \cup {Object(k, params, i) : k \in {"o", "u"}, params \in {"a", "zz"}, i \in Inner}
    \cup {Object("p", "s", i) : i \in Inner}
    \cup {Object("o", "q", <<Object("l1", "c", i), Key("n", "5")>>) : i \in Middle}
MCTrees ==
  {<<x, Key("n", "6")>> : x \in Outer}
    \cup {<<x, Key("n", "6"), y>> : x \in Outer, y \in {Object("o", "q", <<Key("n", "7")>>), Object("l1", "b", <<Key("n", "8")>>)}}

\* A comment, a line that is too long, and at the end a line without newline.
Stray == [t |-> "key", name |-> "n", text |-> <<"text", "9">>]
MCNoises ==
  {<<>>, <<[line |-> NULL, skip |-> TRUE, newline |-> TRUE]>>,
   <<[line |-> NULL, skip |-> FALSE, newline |-> FALSE], [line |-> Stray, skip |-> FALSE, newline |-> TRUE]>>}
MCCut == <<[line |-> Stray, skip |-> FALSE, newline |-> FALSE]>>
=============================================================================
