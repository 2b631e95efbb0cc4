------------------------------- MODULE Config -------------------------------
(***************************************************************************)
(* src/config.c: a configuration file is parsed into the structures that   *)
(* descriptions of its objects ask for.  An object a plugin describes may  *)
(* be kept as text, and is parsed when the program asks for it, which is   *)
(* when its plugin is loaded (plugin.c).                                   *)
(*                                                                         *)
(* A description maps keys to records: lookup ("none" for a plain value),  *)
(* arg, and how the result is stored (cb).  A line is a record t, name,    *)
(* text; a piece of a file a record of a line, whether it is a comment or  *)
(* blank (skip), and whether the piece ends with its line (newline).       *)
(***************************************************************************)
EXTENDS Plugins, TLC

CONSTANTS Descriptions,   \* by name: functions from keys to records
          Root,           \* the description of the file
          PluginConfigs,  \* the description of each plugin of a set
          Trees,          \* what files may say: sequences of items
          Noises,         \* sequences of pieces that mean nothing
          Cut,            \* a piece of a line that is not complete
          NULL

VARIABLES tree,    \* what the file says
          file,    \* its pieces
          value,   \* what has become of it, NULL before
          reg      \* the plugins

configVars == <<tree, file, value, reg>>
-----------------------------------------------------------------------------
(* A parser: src, the pieces or the lines of a buffer that are left;       *)
(* replay; accum, the lines that are kept as text, NULL without; allow;    *)
(* reg; line, the one that was read; more, whether there was one.          *)

\* A piece without newline is skipped and so is the one after it.
RECURSIVE FileLine(_, _)
FileLine(c, skipFlag) ==
  IF c.src = <<>> THEN [c EXCEPT !.more = FALSE]
  ELSE LET piece == Head(c.src)
           rest == [c EXCEPT !.src = Tail(@)]
       IN IF ~piece.newline \/ skipFlag THEN FileLine(rest, ~skipFlag)
          ELSE IF piece.skip THEN FileLine(rest, FALSE) ELSE [rest EXCEPT !.line = piece.line]
NextLine(c) == IF c.replay THEN [c EXCEPT !.line = Head(c.src), !.src = Tail(@)] ELSE FileLine(c, FALSE)

Parser(src, replay, allow, r) ==
  [src |-> src, replay |-> replay, accum |-> NULL, allow |-> allow, reg |-> r, line |-> NULL, more |-> TRUE]
accumulate_line(c) == [c EXCEPT !.accum = Append(IF @ = NULL THEN <<>> ELSE @, c.line)]

\* CFG_MallocCB, and the callbacks that store a result in a structure.
New(keys) == <<"object", [k \in DOMAIN keys |-> IF keys[k].cb = "append" THEN <<"array", <<>>>> ELSE NULL]>>
Stored(data, keys, key, v) ==
  [data EXCEPT ![2][key] = IF keys[key].cb = "append" THEN <<"array", Append(@[2], v)>> ELSE v]

processKeyValueLine(c, keys, data) ==
  IF c.line.name \notin DOMAIN keys THEN data
  ELSE IF keys[c.line.name].lookup # "none" THEN data ELSE Stored(data, keys, c.line.name, c.line.text)

\* The lookup callbacks: CFG_static_obj, CFG_static_arr_obj, PL_objectlookup and
\* PL_objectlookup_w_buffer, which leaves the choice to buffer as it is.
NoChild(r) == [child |-> NULL, buffer |-> FALSE, reg |-> r]
Described(f, set, name, buffer) ==
  [child |-> IF f.found THEN PluginConfigs[set, name] ELSE NULL, buffer |-> buffer, reg |-> f.reg]
Lookup(key, params, allow, r) ==
  CASE key.lookup = "static" -> [NoChild(r) EXCEPT !.child = key.arg]
    [] key.lookup = "list" -> [NoChild(r) EXCEPT !.child = IF params \in DOMAIN key.arg THEN key.arg[params] ELSE NULL]
    [] key.lookup = "plugin" -> Described(find_plugin(r, key.arg, params, FALSE), key.arg, params, FALSE)
    [] key.lookup = "plugin_buffered" -> Described(find_plugin(r, key.arg, params, allow), key.arg, params, allow)

NoKeys == [k \in {} |-> NULL]
KeysOf(child) == IF child = NULL THEN NoKeys ELSE Descriptions[child]
\* The key of the enclosing description for the object, NULL without one.
ObjectKey(c, keys) ==
  IF c.accum # NULL \/ c.line.name \notin DOMAIN keys THEN NULL
  ELSE IF keys[c.line.name].lookup = "none" THEN NULL ELSE c.line.name
Found(c, keys, curr) == IF curr = NULL THEN NoChild(c.reg) ELSE Lookup(keys[curr], c.line.text, c.allow, c.reg)

\* A key that takes the parameters of an object.
Told(data, keys, key, params) == IF key \in DOMAIN keys THEN Stored(data, keys, key, <<"text", params>>) ELSE data

\* Mutant: the buffer is not taken from the parser when its object ends.
Buffered_Kept(r, key, child) ==
  IF child # NULL THEN [r EXCEPT !.data = <<"parsed", @>>] ELSE [c |-> r.c, data |-> <<"waiting", key, r.c.accum>>]

\* What is stored of an object that is buffered: it is parsed, or its lines.
Buffered(r, key, child) ==
  IF child # NULL THEN [r EXCEPT !.data = <<"parsed", @>>]
  ELSE [c |-> [r.c EXCEPT !.accum = NULL], data |-> <<"waiting", key, r.c.accum>>]

RECURSIVE ParseObject(_, _, _)
RECURSIVE Contents(_, _, _, _)
\* After an object in the object.
Nested(r, allow, name, child) == Contents([r.c EXCEPT !.allow = allow], name, child, r.data)
Kept(c) == IF c.accum # NULL THEN accumulate_line(c) ELSE c

\* The lines up to the end of the object of that name.
Line(c, name, child, data) ==
  IF ~c.more THEN [c |-> c, data |-> data]
  ELSE CASE c.line.t = "close" -> IF c.line.name = name THEN [c |-> Kept(c), data |-> data] ELSE Contents(Kept(c), name, child, data)
         [] c.line.t = "open" -> Nested(ParseObject([c EXCEPT !.allow = TRUE], KeysOf(child), data), c.allow, name, child)
         [] c.line.t = "key" ->
              Contents(Kept(c), name, child, IF c.accum # NULL THEN data ELSE processKeyValueLine(c, KeysOf(child), data))
Contents(c, name, child, data) == Line(NextLine(c), name, child, data)

Handed(r, curr, keys, parData) ==
  [c |-> r.c, data |-> IF curr # NULL THEN Stored(parData, keys, curr, r.data) ELSE parData]
Finished(r, f, curr, keys, parData) ==
  Handed(IF curr # NULL /\ f.buffer THEN Buffered(r, keys[curr], f.child) ELSE r, curr, keys, parData)
Begun(c, f, curr, keys, parData) ==
  LET d == [c EXCEPT !.reg = f.reg]
      kept == IF d.accum # NULL \/ (f.child = NULL /\ curr # NULL /\ f.buffer) THEN accumulate_line(d) ELSE d
      data == IF f.child = NULL THEN NULL ELSE Told(New(KeysOf(f.child)), KeysOf(f.child), "__type", c.line.text)
  IN Finished(Contents(kept, c.line.name, f.child, data), f, curr, keys,
              IF curr = NULL THEN parData ELSE Told(parData, keys, "__type_" \o curr, c.line.text))
Recognized(c, curr, keys, parData) == Begun(c, Found(c, keys, curr), curr, keys, parData)
ParseObject(c, keys, parData) == Recognized(c, ObjectKey(c, keys), keys, parData)

RECURSIVE ParseFile(_)
Item(c, data) ==
  IF ~c.more THEN [c |-> c, data |-> data]
  ELSE ParseFile(IF c.line.t = "open" THEN ParseObject(c, KeysOf(Root), data)
                 ELSE [c |-> c, data |-> processKeyValueLine(c, KeysOf(Root), data)])
ParseFile(r) == Item(NextLine(r.c), r.data)
CFG_parseFileAtPath(pieces, r) == ParseFile([c |-> Parser(pieces, FALSE, TRUE, r), data |-> New(KeysOf(Root))])

\* CFG_cfg_for_object_buffer: the lines once more, with a description that has
\* the key of the object only; this time the plugin is loaded.
Replayed(key, lines, r) ==
  LET name == Head(lines).name
  IN ParseObject(NextLine(Parser(lines, TRUE, FALSE, r)), name :> [key EXCEPT !.cb = "copy"], <<"object", name :> NULL>>)
CFG_cfg_for_object_buffer(v, r) ==
  LET p == Replayed(v[2], v[3], r) IN [v |-> <<"parsed", p.data[2][Head(v[3]).name]>>, reg |-> p.c.reg]

\* All that can be made of v by resolving one object that is waiting in it.
RECURSIVE Resolutions(_, _)
Resolutions(v, r) ==
  CASE v = NULL -> {}
    [] v # NULL /\ v[1] \in {"object", "array"} ->
         UNION {{[v |-> [v EXCEPT ![2][k] = x.v], reg |-> x.reg] : x \in Resolutions(v[2][k], r)} : k \in DOMAIN v[2]}
    [] v # NULL /\ v[1] = "parsed" -> {[v |-> <<"parsed", x.v>>, reg |-> x.reg] : x \in Resolutions(v[2], r)}
    [] v # NULL /\ v[1] = "waiting" -> {CFG_cfg_for_object_buffer(v, r)}
    [] v # NULL /\ v[1] = "text" -> {}
-----------------------------------------------------------------------------
(* A file: the lines of a tree, somewhere in them pieces without meaning,  *)
(* perhaps at the end a line that is not complete.                         *)

RECURSIVE Lines(_)
ItemLines(item) ==
  IF item[1] = "key" THEN <<[t |-> "key", name |-> item[2], text |-> item[3]]>>
  ELSE <<[t |-> "open", name |-> item[2], text |-> item[3]]>> \o Lines(item[4])
         \o <<[t |-> "close", name |-> item[2], text |-> <<>>]>>
Lines(items) == FlattenSeq([i \in DOMAIN items |-> ItemLines(items[i])])
Piece(line) == [line |-> line, skip |-> FALSE, newline |-> TRUE]
FilesOf(items) ==
  LET pieces == [i \in DOMAIN Lines(items) |-> Piece(Lines(items)[i])]
  IN {SubSeq(pieces, 1, k) \o noise \o SubSeq(pieces, k + 1, Len(pieces)) \o end :
        k \in 0..Len(pieces), noise \in Noises, end \in {<<>>, Cut}}

ConfigInit == tree \in Trees /\ file \in FilesOf(tree) /\ value = NULL /\ reg = NoPlugins

CFG_parseFile ==
  /\ value = NULL
  /\ \E r \in {CFG_parseFileAtPath(file, reg)} : value' = r.data /\ reg' = r.c.reg
  /\ UNCHANGED <<tree, file>>

\* The program asks for an object that has been kept as text.
Resolve ==
  /\ value # NULL
  /\ \E x \in Resolutions(value, reg) : value' = x.v /\ reg' = x.reg
  /\ UNCHANGED <<tree, file>>

\* PL_create_object, and PL_preload_plugins, at any time.
PL_create_object(set, name) ==
  /\ reg' = find_plugin(reg, set, name, FALSE).reg
  /\ UNCHANGED <<tree, file, value>>
PL_preload(set) ==
  /\ reg' = PL_preload_plugins(reg, set)
  /\ UNCHANGED <<tree, file, value>>

ConfigNext ==
  \/ CFG_parseFile
  \/ Resolve
  \/ \E p \in DOMAIN PluginConfigs : PL_create_object(p[1], p[2])
  \/ \E set \in Sets : PL_preload(set)
-----------------------------------------------------------------------------
(* What a file means: its tree, object by object, nothing put off.         *)

Available(set, name) == find_plugin(NoPlugins, set, name, FALSE).found
ChildFor(key, params) ==
  CASE key.lookup = "static" -> key.arg
    [] key.lookup = "list" -> IF params \in DOMAIN key.arg THEN key.arg[params] ELSE NULL
    [] OTHER -> IF Available(key.arg, params) THEN PluginConfigs[key.arg, params] ELSE NULL
RECURSIVE Meaning(_, _, _)
Meant(item, key) ==
  LET child == ChildFor(key, item[3])
      v == IF child = NULL THEN NULL ELSE Meaning(item[4], KeysOf(child), Told(New(KeysOf(child)), KeysOf(child), "__type", item[3]))
  IN IF key.lookup = "plugin_buffered" THEN <<"deferred", item, v>> ELSE v
With(data, keys, item) ==
  IF item[2] \notin DOMAIN keys \/ (item[1] = "key") # (keys[item[2]].lookup = "none") THEN data
  ELSE IF item[1] = "key" THEN Stored(data, keys, item[2], item[3])
  ELSE Stored(Told(data, keys, "__type_" \o item[2], item[3]), keys, item[2], Meant(item, keys[item[2]]))
Meaning(items, keys, data) == FoldLeft(LAMBDA d, item : With(d, keys, item), data, items)

\* v is what m says, or the lines of it.
RECURSIVE Agrees(_, _)
Agrees(v, m) ==
  IF m = NULL \/ v = NULL THEN m = NULL /\ v = NULL
  ELSE CASE m[1] = "text" -> v = m
         [] m[1] \in {"object", "array"} ->
              v[1] = m[1] /\ DOMAIN v[2] = DOMAIN m[2] /\ \A k \in DOMAIN m[2] : Agrees(v[2][k], m[2][k])
         [] m[1] = "deferred" ->
              CASE v[1] = "waiting" -> v[3] = ItemLines(m[2]) [] v[1] = "parsed" -> Agrees(v[2], m[3]) [] OTHER -> FALSE

\* Parsing a file, with whatever plugins are loaded before, between and after,
\* gives what the file says: every object is parsed, now or when the program
\* asks for it, with its own lines only, into its place; comments, lines that
\* are too long or not complete and options nobody described change nothing.
ConfigExact == value # NULL => Agrees(value, Meaning(tree, KeysOf(Root), New(KeysOf(Root))))
=============================================================================
