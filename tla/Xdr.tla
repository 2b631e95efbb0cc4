-------------------------------- MODULE Xdr --------------------------------
(***************************************************************************)
(* The encoders and decoders of XDR structures (xdr.c): what they write,   *)
(* the length they report, and how they end when the room is too small.    *)
(*                                                                         *)
(* A byte is a digit in base Radix, so that a 32 bit word has four digits  *)
(* and wraps at Radix^4.  Floats are opaque: their bytes are copied.  A    *)
(* type says how a field is encoded and freed; a structure is the sequence *)
(* of its fields, an array or a byte array takes its length from another   *)
(* field (len_offset), a union is a type number with the structure that    *)
(* is registered for it, a dictionary is a table of buckets.  Structures   *)
(* are elements of arrays, dictionaries and unions; the values of a        *)
(* dictionary are no strings or byte arrays.                               *)
(***************************************************************************)
EXTENDS XdrTypes, Integers, Sequences, SequencesExt, FiniteSets

CONSTANTS Radix,         \* 256 in the code
          Structs,       \* structHash: the registered structures, by type number
          XDR_HASH_LEN,
          Bucket(_)      \* XDR_dict_bucket: the bucket of a key

Word == Radix^4
Fold(op(_, _), base, s) == LET f[i \in 0..Len(s)] == IF i = 0 THEN base ELSE op(f[i - 1], s[i]) IN f[Len(s)]
Padding(n) == (4 - (n % 4)) % 4
Zeros(n) == [i \in 1..n |-> 0]
\* size_t: a difference below zero is larger than any length.
Huge == 1000000
Less(a, b) == IF a >= b THEN a - b ELSE Huge

\* Digits of the number of w words, the most significant first; a negative
\* number is its two's complement.
Digits(v, w) == LET u == v % Word^w IN [i \in 1..4 * w |-> (u \div Radix^(4 * w - i)) % Radix]
Number(s) == Fold(LAMBDA n, d : n * Radix + d, 0, s)
Signed(u, bits) == IF 2 * u >= bits THEN u - bits ELSE u
-----------------------------------------------------------------------------
(* Dictionaries.                                                           *)

NewDict == [length |-> 0, node |-> [b \in 1..XDR_HASH_LEN |-> <<>>]]

XDR_dict_lookup_node(table, key) == {i \in DOMAIN table.node[Bucket(key)] : table.node[Bucket(key)][i].key = key}

\* strcmp of two different keys.
RECURSIVE Before(_, _)
Before(a, b) ==
  IF a = <<>> \/ b = <<>> THEN a = <<>> ELSE Head(a) < Head(b) \/ (Head(a) = Head(b) /\ Before(Tail(a), Tail(b)))

\* Mutant: the new node is put at the end of the bucket.
Place_Last(bucket, key) == Len(bucket) + 1

\* The first node whose key is larger.
Place(bucket, key) ==
  LET larger == {i \in DOMAIN bucket : Before(key, bucket[i].key)}
  IN IF larger = {} THEN Len(bucket) + 1 ELSE CHOOSE i \in larger : \A j \in larger : i <= j

XDR_dict_add(table, key, value) ==
  IF XDR_dict_lookup_node(table, key) # {} THEN table
  ELSE [length |-> table.length + 1,
        node |-> [table.node EXCEPT ![Bucket(key)] = InsertAt(@, Place(@, key), [key |-> key, data |-> value])]]

XDR_dict_remove(table, key) ==
  LET at == XDR_dict_lookup_node(table, key)
  IN IF at = {} THEN table
     ELSE [length |-> table.length - 1,
           node |-> [table.node EXCEPT ![Bucket(key)] = RemoveAt(@, CHOOSE i \in at : TRUE)]]

XDR_dict_remove_all(table) == NewDict

\* The nodes in the order XDR_dict_iterate meets them.
XDR_dict_iterate(table) == FlattenSeq(table.node)

-----------------------------------------------------------------------------
(* Encoders: dst says whether there is a buffer, max is the room in it.    *)

\* crash: the encoder writes through the null pointer, or asserts.
Result(res, used, out) == [res |-> res, used |-> used, out |-> out, crash |-> FALSE]
Crashed == [res |-> -1, used |-> 0, out |-> <<>>, crash |-> TRUE]

XDR_encode_int(t, v, dst, max) ==
  LET size == 4 * t.words
  IN IF ~dst THEN Result(0, size, <<>>)
     ELSE IF max < size THEN Result(IF t.words = 1 THEN -2 ELSE -1, size, <<>>)
     ELSE Result(0, size, Digits(v, t.words))

\* Neither checks for a buffer.
XDR_encode_opaque(t, v, dst, max) ==
  IF max < t.size THEN Result(-1, t.size, <<>>) ELSE IF ~dst THEN Crashed ELSE Result(0, t.size, v)

\* The length without a buffer is encoded without one: the string is then
\* written after the null pointer, unless it is empty.
XDR_encode_string_array(v, dst, max) ==
  LET size == 4 + Len(v) + Padding(Len(v))
  IN IF dst /\ max < 4 THEN Result(-2, size, <<>>)
     ELSE IF max < size THEN Result(-2, size, <<>>)
     ELSE IF ~dst THEN IF v = <<>> THEN Result(0, size, <<>>) ELSE Crashed
     ELSE Result(0, size, Digits(Len(v), 1) \o v \o Zeros(Padding(Len(v))))

\* byte_len + padding >= max, in the encoder and in the decoder.
Short(size, max) == size >= max

XDR_encode_byte_array(v, len, dst, max) ==
  LET size == len + Padding(len)
  IN IF ~dst \/ Short(size, max) THEN Result(-1, size, <<>>)
     ELSE Result(0, size, SubSeq(v, 1, len) \o Zeros(Padding(len)))

RECURSIVE Encode(_, _, _, _, _)

\* One more element, field or entry, after what has been encoded: without a
\* buffer once one has failed.
Writes(done) == done.dst /\ done.res >= 0
Joined(done, r) == [res |-> IF Writes(done) THEN r.res ELSE done.res, used |-> done.used + r.used,
                    out |-> done.out \o r.out, crash |-> r.crash, dst |-> done.dst]
Then(done, next(_, _), max) == IF done.crash THEN done ELSE Joined(done, next(Writes(done), max))

Start(dst) == [res |-> 0, used |-> 0, out |-> <<>>, crash |-> FALSE, dst |-> dst]

\* Doubles in an array are encoded as floats: the first half of their bytes.
Element(t) == IF t = double THEN float ELSE t
ElementValue(t, x) == IF t = double THEN SubSeq(x, 1, 4) ELSE x

XDR_array_encoder(t, v, len, dst, max) ==
  Fold(LAMBDA done, i : Then(done, LAMBDA d, m : Encode(Element(t), ElementValue(t, v[i]), 0, d, m),
                                 Less(max, done.used)),
           Start(dst), [i \in 1..len |-> i])

\* The fields that are only measured are measured with all of the room.
XDR_struct_encoder(fields, v, dst, max) ==
  Fold(LAMBDA done, i :
             Then(done, LAMBDA d, m : Encode(fields[i].t, v[i], IF fields[i].len = 0 THEN 0 ELSE v[fields[i].len], d, m),
                  IF Writes(done) THEN max - done.used ELSE max),
           Start(dst), [i \in DOMAIN fields |-> i])

\* Each field in its bits of the word.
XDR_bitfield_struct_encoder(fields, v, dst, max) ==
  LET placed(i) == (v[i] % 2^fields[i].n) * 2^fields[i].at
  IN XDR_encode_int(uint32, Fold(LAMBDA n, i : n + placed(i), 0, [i \in DOMAIN fields |-> i]), dst, max)

StructEncoder(type, v, dst, max) ==
  LET def == Structs[type]
  IN IF def.bits THEN XDR_bitfield_struct_encoder(def.fields, v, dst, max)
     ELSE XDR_struct_encoder(def.fields, v, dst, max)

\* The type number r, then the structure s.
Tagged(r, s) ==
  IF s.crash THEN Crashed
  ELSE Result(IF r.res < 0 \/ s.res < 0 THEN -1 ELSE 0, r.used + s.used, r.out \o s.out)
Labelled(r, v, writes, max) ==
  IF v.type \notin DOMAIN Structs THEN Result(-1, r.used, <<>>)
  ELSE Tagged(r, StructEncoder(v.type, v.data, writes, IF writes THEN max - r.used ELSE max))
XDR_encode_union(v, dst, max) ==
  LET r == XDR_encode_int(uint32, v.type, dst, max) IN Labelled(r, v, dst /\ r.res >= 0, max)

\* The length, then keys and values.  To measure a key is an assertion; without
\* a buffer the entries are written after the null pointer.
XDR_dictionary_encoder(t, table, dst, max) ==
  LET valued(keyed, n) == Then(keyed, LAMBDA d, m : Encode(t, n.data, 0, d, m), max - keyed.used)
      entry(done, n) ==
        IF ~Writes(done) THEN Crashed @@ [dst |-> dst]
        ELSE valued(Then(done, LAMBDA d, m : XDR_encode_string_array(n.key, d, m), max - done.used), n)
  IN Fold(LAMBDA done, n : IF done.crash THEN done ELSE entry(done, n),
          XDR_encode_int(uint32, table.length, dst, max) @@ [dst |-> dst], XDR_dict_iterate(table))

Encode(t, v, len, dst, max) ==
  CASE t.k = "int" -> XDR_encode_int(t, v, dst, max)
    [] t.k = "opaque" -> XDR_encode_opaque(t, v, dst, max)
    [] t.k = "string" -> XDR_encode_string_array(v, dst, max)
    [] t.k = "bytes" -> XDR_encode_byte_array(v, len, dst, max)
    [] t.k = "array" -> XDR_array_encoder(t.of, v, len, dst, max)
    [] t.k = "struct" -> StructEncoder(t.type, v, dst, max)
    [] t.k = "union" -> XDR_encode_union(v, dst, max)
    [] t.k = "dict" -> XDR_dictionary_encoder(t.of, v, dst, max)
-----------------------------------------------------------------------------
(* Decoders of the bytes src, all of them: max is their number.  blocks    *)
(* counts the blocks of memory that are allocated.                         *)

Decoded(used, val, blocks) == [res |-> 0, used |-> used, val |-> val, blocks |-> blocks]
Refused == [res |-> -1, used |-> 0, val |-> <<>>, blocks |-> 0]
From(src, used) == SubSeq(src, used + 1, Len(src))

XDR_decode_int(t, src) ==
  LET size == 4 * t.words
      u == Number(SubSeq(src, 1, size))
  IN IF Len(src) < size THEN Refused ELSE Decoded(size, IF t.signed THEN Signed(u, Word^t.words) ELSE u, 0)

XDR_decode_opaque(t, src) == IF Len(src) < t.size THEN Refused ELSE Decoded(t.size, SubSeq(src, 1, t.size), 0)

XDR_decode_string_array(src) ==
  LET n == XDR_decode_int(uint32, src)
      size == 4 + n.val + Padding(n.val)
  IN IF n.res < 0 THEN Refused ELSE IF size > Len(src) THEN Refused
     ELSE Decoded(size, SubSeq(src, 5, 4 + n.val), 1)

XDR_decode_byte_array(src, len) ==
  IF len < 0 THEN Refused ELSE IF Short(len + Padding(len), Len(src)) THEN Refused
  ELSE Decoded(len + Padding(len), SubSeq(src, 1, len), 1)

RECURSIVE Decode(_, _, _)

\* What is decoded next, after what has been, unless something was refused.
Appended(done, r) ==
  IF r.res < 0 THEN Refused ELSE Decoded(done.used + r.used, Append(done.val, r.val), done.blocks + r.blocks)
After(done, next(_)) == IF done.res < 0 THEN done ELSE Appended(done, next(done.used))

\* A negative length is more memory than there is.
XDR_array_decoder(t, src, len) ==
  IF len < 0 THEN Refused
  ELSE Fold(LAMBDA done, i : After(done, LAMBDA used : Decode(t, From(src, used), 0)),
                Decoded(0, <<>>, 1), [i \in 1..len |-> i])

XDR_struct_decoder(fields, src) ==
  Fold(LAMBDA done, f : After(done, LAMBDA used : Decode(f.t, From(src, used), IF f.len = 0 THEN 0 ELSE done.val[f.len])),
           Decoded(0, <<>>, 0), fields)

XDR_bitfield_struct_decoder(fields, src) ==
  LET w == XDR_decode_int(uint32, src)
      bits(f) == (w.val \div 2^f.at) % 2^f.n
  IN IF w.res < 0 THEN Refused
     ELSE Decoded(w.used, [i \in DOMAIN fields |-> IF fields[i].t.signed THEN Signed(bits(fields[i]), 2^fields[i].n)
                                                   ELSE bits(fields[i])], 0)

StructDecoder(type, src) ==
  IF Structs[type].bits THEN XDR_bitfield_struct_decoder(Structs[type].fields, src)
  ELSE XDR_struct_decoder(Structs[type].fields, src)

OfType(n, s) ==
  IF s.res < 0 THEN Refused ELSE Decoded(n.used + s.used, [type |-> n.val, data |-> s.val], 1 + s.blocks)
XDR_decode_union(src) ==
  LET n == XDR_decode_int(uint32, src)
  IN IF n.res < 0 THEN Refused ELSE IF n.val \notin DOMAIN Structs THEN Refused
     ELSE OfType(n, StructDecoder(n.val, From(src, n.used)))

\* Each entry has a node and, unless its decoder allocates it, a value.
XDR_dictionary_decoder(t, src) ==
  LET n == XDR_decode_int(uint32, src)
      added(done, key, value) ==
        IF value.res < 0 THEN Refused
        ELSE Decoded(done.used + key.used + value.used, XDR_dict_add(done.val, key.val, value.val),
                     done.blocks + 2 + value.blocks)
      valued(done, key) ==
        IF key.res < 0 THEN Refused ELSE added(done, key, Decode(t, From(src, done.used + key.used), 0))
      entry(done) ==
        IF done.res < 0 THEN done ELSE valued(done, XDR_decode_string_array(From(src, done.used)))
  IN IF n.res < 0 THEN Refused
     ELSE Fold(LAMBDA done, i : entry(done), Decoded(4, NewDict, 0), [i \in 1..n.val |-> i])

Decode(t, src, len) ==
  CASE t.k = "int" -> XDR_decode_int(t, src)
    [] t.k = "opaque" -> XDR_decode_opaque(t, src)
    [] t.k = "string" -> XDR_decode_string_array(src)
    [] t.k = "bytes" -> XDR_decode_byte_array(src, len)
    [] t.k = "array" -> XDR_array_decoder(t.of, src, len)
    [] t.k = "struct" -> StructDecoder(t.type, src)
    [] t.k = "union" -> XDR_decode_union(src)
    [] t.k = "dict" -> XDR_dictionary_decoder(t.of, src)
-----------------------------------------------------------------------------
(* Deallocators: the blocks that are freed of a decoded value.             *)

SumOver(n, f(_)) == Fold(LAMBDA s, i : s + f(i), 0, [i \in 1..n |-> i])

RECURSIVE Freed(_, _)

\* Mutant: the loop ends at the first field that has nothing to free.
XDR_struct_free_fields_Break(type, v) ==
  IF Structs[type].bits THEN 0 ELSE IF Structs[type].fields = <<>> THEN 0
  ELSE Freed(Structs[type].fields[1].t, v[1])

XDR_struct_free_fields(type, v) ==
  IF Structs[type].bits THEN 0
  ELSE SumOver(Len(Structs[type].fields), LAMBDA i : Freed(Structs[type].fields[i].t, v[i]))

\* XDR_struct_free_deallocator, through XDR_union_field_deallocator and
\* XDR_free_union.
XDR_free_union(v) == 1 + XDR_struct_free_fields(v.type, v.data)

\* The field_dealloc of each type; that of an array or a dictionary leaves alone
\* what its elements have allocated.
Freed(t, v) ==
  CASE t.k \in {"string", "bytes", "array"} -> 1
    [] t.k = "union" -> XDR_free_union(v)
    [] t.k = "dict" -> 2 * v.length
    [] OTHER -> 0
=============================================================================
