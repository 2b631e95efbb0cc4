---------------------------- MODULE JsonExchange ----------------------------
(***************************************************************************)
(* The binary formats of a document (json.hpp, binary_writer and           *)
(* binary_reader): CBOR, MessagePack, UBJSON and BSON, and a document that *)
(* is sent in one of these formats or as text.  Values are those of module *)
(* JsonText.                                                               *)
(*                                                                         *)
(* A type marker is one of 256 bytes.  A byte of a number is a digit in    *)
(* base Base, 256 in the code, so that numbers of every width are within   *)
(* reach.  The eight bytes of a double only have to tell doubles apart.    *)
(* Half and single precision floats, which are read but never written, are *)
(* left out.                                                               *)
(***************************************************************************)
EXTENDS JsonText

CONSTANT Base    \* even, between 128 and 256

\* The largest unsigned and signed numbers of a width (1, 2 or 4 bytes).
UMax(w) == Base^w - 1
IMax(w) == Base^w \div 2 - 1
Fits(n, w) == -1 - IMax(w) <= n /\ n <= IMax(w)
Open == -1     \* std::size_t(-1), the length of a container that ends with a marker
-----------------------------------------------------------------------------
(* The writer.                                                             *)

\* The k-th digit of n >= 0; the numbers of a model have five at most.
NumberDigit(n, k) == IF k > 4 THEN 0 ELSE (n \div Base^k) % Base
Places(n, w) ==
  [i \in 1..w |-> IF n >= 0 THEN NumberDigit(n, w - i) ELSE Base - 1 - NumberDigit(-1 - n, w - i)]

write_number(n, w, little) == IF little THEN Reverse(Places(n, w)) ELSE Places(n, w)

\* A double: sign, number of digits, three digits, exponent.
Double(v) ==
  <<IF v[2] THEN 1 ELSE 0, Len(v[3])>> \o [i \in 1..3 |-> IF i <= Len(v[3]) THEN v[3][i] ELSE 0] \o <<v[4] + 64, 0, 0>>
Undouble(b) == <<"float", b[1] = 1, SubSeq(b, 3, 2 + b[2]), b[6] - 64>>

\* Every element, or every key and element, of a container, as write puts it.
Contents(v, write(_)) ==
  IF v[1] = "array" THEN FlattenSeq([i \in DOMAIN v[2] |-> write(v[2][i])])
  ELSE FlattenSeq([i \in DOMAIN SortedKeys(v[2]) |->
                     write(<<"string", SortedKeys(v[2])[i]>>) \o write(v[2][SortedKeys(v[2])[i]])])
Size(v) == IF v[1] = "object" THEN Cardinality(DOMAIN v[2]) ELSE Len(v[2])

\* A number after a marker of that kind, which holds it when it is small.
cbor_head(major, n) ==
  IF n <= 23 THEN <<major * 32 + n>>
  ELSE IF n <= UMax(1) THEN <<major * 32 + 24>> \o write_number(n, 1, FALSE)
  ELSE IF n <= UMax(2) THEN <<major * 32 + 25>> \o write_number(n, 2, FALSE)
  ELSE IF n <= UMax(4) THEN <<major * 32 + 26>> \o write_number(n, 4, FALSE)
  ELSE <<major * 32 + 27>> \o write_number(n, 8, FALSE)
RECURSIVE write_cbor(_)
write_cbor(v) ==
  CASE v[1] = "null" -> <<246>>
    [] v[1] = "bool" -> IF v[2] THEN <<245>> ELSE <<244>>
    [] v[1] = "int" -> IF v[2] >= 0 THEN cbor_head(0, v[2]) ELSE cbor_head(1, -1 - v[2])
    [] v[1] = "float" -> <<251>> \o Double(v)
    [] v[1] = "string" -> cbor_head(3, Len(v[2])) \o v[2]
    [] OTHER -> cbor_head(IF v[1] = "array" THEN 4 ELSE 5, Size(v)) \o Contents(v, write_cbor)

\* What another program may write: containers and strings of open length.
RECURSIVE stream_cbor(_)
stream_cbor(v) ==
  CASE v[1] = "string" -> <<127>> \o FlattenSeq([i \in DOMAIN v[2] |-> <<97, v[2][i]>>]) \o <<255>>
    [] v[1] \in {"array", "object"} -> <<IF v[1] = "array" THEN 159 ELSE 191>> \o Contents(v, stream_cbor) \o <<255>>
    [] OTHER -> write_cbor(v)

msgpack_integer(n) ==
  IF n >= 0
  THEN IF n < 128 THEN <<n>>
       ELSE IF n <= UMax(1) THEN <<204>> \o write_number(n, 1, FALSE)
       ELSE IF n <= UMax(2) THEN <<205>> \o write_number(n, 2, FALSE)
       ELSE IF n <= UMax(4) THEN <<206>> \o write_number(n, 4, FALSE)
       ELSE <<207>> \o write_number(n, 8, FALSE)
  ELSE IF n >= -32 THEN <<256 + n>>
       ELSE IF Fits(n, 1) THEN <<208>> \o write_number(n, 1, FALSE)
       ELSE IF Fits(n, 2) THEN <<209>> \o write_number(n, 2, FALSE)
       ELSE IF Fits(n, 4) THEN <<210>> \o write_number(n, 4, FALSE)
       ELSE <<211>> \o write_number(n, 8, FALSE)
msgpack_string(n) ==
  IF n <= 31 THEN <<160 + n>>
  ELSE IF n <= UMax(1) THEN <<217>> \o write_number(n, 1, FALSE)
  ELSE IF n <= UMax(2) THEN <<218>> \o write_number(n, 2, FALSE) ELSE <<219>> \o write_number(n, 4, FALSE)
msgpack_head(array, n) ==
  IF n <= 15 THEN <<(IF array THEN 144 ELSE 128) + n>>
  ELSE IF n <= UMax(2) THEN <<IF array THEN 220 ELSE 222>> \o write_number(n, 2, FALSE)
  ELSE <<IF array THEN 221 ELSE 223>> \o write_number(n, 4, FALSE)
RECURSIVE write_msgpack(_)
write_msgpack(v) ==
  CASE v[1] = "null" -> <<192>>
    [] v[1] = "bool" -> IF v[2] THEN <<195>> ELSE <<194>>
    [] v[1] = "int" -> msgpack_integer(v[2])
    [] v[1] = "float" -> <<203>> \o Double(v)
    [] v[1] = "string" -> msgpack_string(Len(v[2])) \o v[2]
    [] OTHER -> msgpack_head(v[1] = "array", Size(v)) \o Contents(v, write_msgpack)

\* Markers of UBJSON are letters: i U I l L for numbers by their width.
Width(c) == CASE c \in {105, 85} -> 1 [] c = 73 -> 2 [] c = 108 -> 4 [] c = 76 -> 8 [] OTHER -> 0
integer_prefix(n) ==
  IF Fits(n, 1) THEN 105 ELSE IF 0 <= n /\ n <= UMax(1) THEN 85 ELSE IF Fits(n, 2) THEN 73
  ELSE IF Fits(n, 4) THEN 108 ELSE 76
write_number_with_ubjson_prefix(n, prefix) ==
  (IF prefix THEN <<integer_prefix(n)>> ELSE <<>>) \o write_number(n, Width(integer_prefix(n)), FALSE)
ubjson_prefix(v) ==
  CASE v[1] = "null" -> 90 [] v[1] = "bool" -> (IF v[2] THEN 84 ELSE 70) [] v[1] = "int" -> integer_prefix(v[2])
    [] v[1] = "float" -> 68 [] v[1] = "string" -> 83 [] v[1] = "array" -> 91 [] v[1] = "object" -> 123
Elements(v) == {v[2][k] : k \in DOMAIN v[2]}

\* Mutant: a common type is assumed when the first two elements have it.
same_prefix_Two(v) == \A i, j \in DOMAIN v[2] : v[1] = "array" /\ i <= 2 /\ j <= 2 => ubjson_prefix(v[2][i]) = ubjson_prefix(v[2][j])

same_prefix(v) == Cardinality({ubjson_prefix(x) : x \in Elements(v)}) = 1
Typed(v, use_type) == use_type /\ Size(v) > 0 /\ same_prefix(v)
ubjson_string(bytes) == write_number_with_ubjson_prefix(Len(bytes), TRUE) \o bytes
RECURSIVE write_ubjson(_, _, _, _)
write_ubjson(v, use_count, use_type, add_prefix) ==
  LET element(x) == write_ubjson(x, use_count, use_type, ~Typed(v, use_type))
      member(k) == ubjson_string(k) \o element(v[2][k])
      contents == IF v[1] = "array" THEN FlattenSeq([i \in DOMAIN v[2] |-> element(v[2][i])])
                  ELSE FlattenSeq([i \in DOMAIN SortedKeys(v[2]) |-> member(SortedKeys(v[2])[i])])
  IN (IF add_prefix /\ v[1] # "int" THEN <<ubjson_prefix(v)>> ELSE <<>>)
       \o CASE v[1] \in {"null", "bool"} -> <<>>
            [] v[1] = "int" -> write_number_with_ubjson_prefix(v[2], add_prefix)
            [] v[1] = "float" -> Double(v)
            [] v[1] = "string" -> ubjson_string(v[2])
            [] OTHER -> (IF Typed(v, use_type) THEN <<36, ubjson_prefix(CHOOSE x \in Elements(v) : TRUE)>> ELSE <<>>)
                          \o (IF use_count THEN <<35>> \o write_number_with_ubjson_prefix(Size(v), TRUE) ELSE <<>>)
                          \o contents
                          \o (IF use_count THEN <<>> ELSE IF v[1] = "array" THEN <<93>> ELSE <<125>>)

\* Numbers of BSON are little endian; its strings and names end with a zero.
bson_width(n) == IF Fits(n, 4) THEN 4 ELSE 8
bson_name(i) == dump_integer(i - 1)
RECURSIVE calc_bson_element_size(_, _)
calc_bson_object_size(v) ==
  4 + FoldLeft(LAMBDA n, k : n + calc_bson_element_size(IF v[1] = "array" THEN bson_name(k) ELSE k, v[2][k]), 0,
               IF v[1] = "array" THEN [i \in DOMAIN v[2] |-> i] ELSE SortedKeys(v[2])) + 1
calc_bson_element_size(name, v) ==
  1 + Len(name) + 1 +
    CASE v[1] \in {"array", "object"} -> calc_bson_object_size(v)
      [] v[1] = "bool" -> 1 [] v[1] = "float" -> 8 [] v[1] = "int" -> bson_width(v[2])
      [] v[1] = "string" -> 4 + Len(v[2]) + 1 [] v[1] = "null" -> 0
write_bson_entry_header(name, type) == <<type>> \o name \o <<0>>
RECURSIVE write_bson_element(_, _)
write_bson_object(v) ==
  write_number(calc_bson_object_size(v), 4, TRUE)
    \o (IF v[1] = "array" THEN FlattenSeq([i \in DOMAIN v[2] |-> write_bson_element(bson_name(i), v[2][i])])
        ELSE FlattenSeq([i \in DOMAIN SortedKeys(v[2]) |-> write_bson_element(SortedKeys(v[2])[i], v[2][SortedKeys(v[2])[i]])]))
    \o <<0>>
write_bson_element(name, v) ==
  CASE v[1] = "object" -> write_bson_entry_header(name, 3) \o write_bson_object(v)
    [] v[1] = "array" -> write_bson_entry_header(name, 4) \o write_bson_object(v)
    [] v[1] = "bool" -> write_bson_entry_header(name, 8) \o <<IF v[2] THEN 1 ELSE 0>>
    [] v[1] = "float" -> write_bson_entry_header(name, 1) \o Reverse(Double(v))
    [] v[1] = "int" -> write_bson_entry_header(name, IF bson_width(v[2]) = 4 THEN 16 ELSE 18) \o write_number(v[2], bson_width(v[2]), TRUE)
    [] v[1] = "string" -> write_bson_entry_header(name, 2) \o write_number(Len(v[2]) + 1, 4, TRUE) \o v[2] \o <<0>>
    [] v[1] = "null" -> write_bson_entry_header(name, 10)
-----------------------------------------------------------------------------
(* The readers (binary_reader).  What is read from a position of the bytes *)
(* is a value and the position after it, or a failure: every error of the  *)
(* reader throws.                                                          *)

Failure == [ok |-> FALSE, val |-> 0, next |-> 0]
Result(val, next) == [ok |-> TRUE, val |-> val, next |-> next]
\* The bytes from p on, all n of them.
Bytes(s, p, n) == IF p + n - 1 > Len(s) THEN Failure ELSE Result(SubSeq(s, p, p + n - 1), p + n)
Mapped(r, f(_)) == IF r.ok THEN [r EXCEPT !.val = f(@)] ELSE r
As(kind, r) == IF r.ok THEN [r EXCEPT !.val = <<kind, @>>] ELSE r
With(r, read(_, _)) == IF r.ok THEN read(r.val, r.next) ELSE r

\* The number of those digits, the first one first.
RECURSIVE Unsigned(_)
Unsigned(b) == IF b = <<>> THEN 0 ELSE Unsigned(Front(b)) * Base + Last(b)
Signed(b) == IF b[1] < Base \div 2 THEN Unsigned(b) ELSE -1 - Unsigned([i \in DOMAIN b |-> Base - 1 - b[i]])
get_number(s, p, w, signed, little) ==
  Mapped(Bytes(s, p, w), LAMBDA b : LET d == IF little THEN Reverse(b) ELSE b IN IF signed THEN Signed(d) ELSE Unsigned(d))
get_double(s, p, little) == Mapped(Bytes(s, p, 8), LAMBDA b : Undouble(IF little THEN Reverse(b) ELSE b))
get_string(s, p, n) == IF n <= 0 THEN Result(<<>>, p) ELSE Bytes(s, p, n)

\* The position of the next byte that is not a no-op of UBJSON.
RECURSIVE get_ignore_noop(_, _)
get_ignore_noop(s, p) == IF Character(s, p) = 78 THEN get_ignore_noop(s, p + 1) ELSE p

RECURSIVE parse_cbor_internal(_, _)
RECURSIVE parse_msgpack_internal(_, _)
RECURSIVE get_ubjson_value(_, _, _)
RECURSIVE parse_bson_element_internal(_, _, _)
-----------------------------------------------------------------------------
(* The loops over the contents of a container: from r, which holds what    *)
(* has been read of it, left more, or up to the marker of its end.  What   *)
(* an item is depends on the format and on the type of the container.      *)

RECURSIVE Item(_, _, _, _)
RECURSIVE Items(_, _, _, _, _)
End == [kind \in {"cbor", "cbor pair", "cbor chunk", "msgpack", "msgpack pair", "ubjson", "ubjson pair", "bson pair"} |->
          CASE kind \in {"cbor", "cbor pair", "cbor chunk"} -> 255 [] kind = "ubjson" -> 93 [] kind = "ubjson pair" -> 125 [] OTHER -> 0]
Added(r, item) == IF item.ok THEN Result(Append(r.val, item.val), item.next) ELSE item
Items(kind, type, s, r, left) ==
  IF ~r.ok \/ left = 0 THEN r
  ELSE IF left = Open /\ Character(s, r.next) = End[kind] THEN Result(r.val, r.next + 1)
  ELSE Items(kind, type, s, Added(r, Item(kind, type, s, r.next)), IF left = Open THEN Open ELSE left - 1)
get_array(kind, type, s, p, n) == As("array", Items(kind, type, s, Result(<<>>, p), n))
\* The pairs of keys and values become an object; a later pair replaces an earlier.
Assembled(pairs) == FoldLeft(LAMBDA object, pair : Member(object, pair[1], pair[2]), NoMembers, pairs)
Pair(key, value) == IF value.ok THEN [value EXCEPT !.val = <<key, @>>] ELSE value
get_object(kind, type, s, p, n) == As("object", Mapped(Items(kind, type, s, Result(<<>>, p), n), Assembled))
-----------------------------------------------------------------------------
(* CBOR.                                                                   *)

\* The number the marker at p goes with.
cbor_argument(s, p) ==
  LET low == s[p] % 32
  IN IF low <= 23 THEN Result(low, p + 1)
     ELSE IF low <= 27 THEN get_number(s, p + 1, 2^(low - 24), FALSE, FALSE) ELSE Failure
RECURSIVE get_cbor_string(_, _)
cbor_chunks(s, p) == Mapped(Items("cbor chunk", 0, s, Result(<<>>, p), Open), FlattenSeq)
get_cbor_string(s, p) ==
  IF Character(s, p) = 127 THEN cbor_chunks(s, p + 1)
  ELSE IF Character(s, p) \in 96..123 THEN With(cbor_argument(s, p), LAMBDA n, q : get_string(s, q, n)) ELSE Failure
cbor_pair(s, p) == With(get_cbor_string(s, p), LAMBDA key, q : Pair(key, parse_cbor_internal(s, q)))
get_cbor_array(s, p, n) == get_array("cbor", 0, s, p, n)
get_cbor_object(s, p, n) == get_object("cbor pair", 0, s, p, n)
cbor_unsigned(s, p) == As("int", cbor_argument(s, p))
cbor_negative(s, p) == As("int", Mapped(cbor_argument(s, p), LAMBDA n : -1 - n))
cbor_array(s, p) == IF s[p] = 159 THEN get_cbor_array(s, p + 1, Open) ELSE With(cbor_argument(s, p), LAMBDA n, q : get_cbor_array(s, q, n))
cbor_map(s, p) == IF s[p] = 191 THEN get_cbor_object(s, p + 1, Open) ELSE With(cbor_argument(s, p), LAMBDA n, q : get_cbor_object(s, q, n))
parse_cbor_internal(s, p) ==
  LET c == Character(s, p)
  IN CASE c \in 0..27 -> cbor_unsigned(s, p)
       [] c \in 32..59 -> cbor_negative(s, p)
       [] c \in 96..123 \cup {127} -> As("string", get_cbor_string(s, p))
       [] c \in 128..155 \cup {159} -> cbor_array(s, p)
       [] c \in 160..187 \cup {191} -> cbor_map(s, p)
       [] c \in {244, 245} -> Result(<<"bool", c = 245>>, p + 1)
       [] c = 246 -> Result(<<"null">>, p + 1)
       [] c = 251 -> get_double(s, p + 1, FALSE)
       [] OTHER -> Failure
-----------------------------------------------------------------------------
(* MessagePack.                                                            *)

get_msgpack_string(s, p) ==
  LET c == Character(s, p)
  IN IF c \in 160..191 THEN get_string(s, p + 1, c % 32)
     ELSE IF c \in 217..219 THEN With(get_number(s, p + 1, 2^(c - 217), FALSE, FALSE), LAMBDA n, q : get_string(s, q, n))
     ELSE Failure
msgpack_pair(s, p) == With(get_msgpack_string(s, p), LAMBDA key, q : Pair(key, parse_msgpack_internal(s, q)))
get_msgpack_array(s, p, n) == get_array("msgpack", 0, s, p, n)
get_msgpack_object(s, p, n) == get_object("msgpack pair", 0, s, p, n)
fixint(c, p) == Result(<<"int", IF c < 128 THEN c ELSE c - 256>>, p + 1)
msgpack_number(s, p) ==
  As("int", get_number(s, p + 1, 2^((s[p] - 204) % 4), s[p] >= 208, FALSE))
msgpack_array(s, p) ==
  IF s[p] <= 159 THEN get_msgpack_array(s, p + 1, s[p] % 16)
  ELSE With(get_number(s, p + 1, 2 * (s[p] - 219), FALSE, FALSE), LAMBDA n, q : get_msgpack_array(s, q, n))
msgpack_map(s, p) ==
  IF s[p] <= 143 THEN get_msgpack_object(s, p + 1, s[p] % 16)
  ELSE With(get_number(s, p + 1, 2 * (s[p] - 221), FALSE, FALSE), LAMBDA n, q : get_msgpack_object(s, q, n))
parse_msgpack_internal(s, p) ==
  LET c == Character(s, p)
  IN CASE c \in 0..127 \cup 224..255 -> fixint(c, p)
       [] c \in 128..143 \cup {222, 223} -> msgpack_map(s, p)
       [] c \in 144..159 \cup {220, 221} -> msgpack_array(s, p)
       [] c \in 160..191 \cup 217..219 -> As("string", get_msgpack_string(s, p))
       [] c = 192 -> Result(<<"null">>, p + 1)
       [] c \in {194, 195} -> Result(<<"bool", c = 195>>, p + 1)
       [] c = 203 -> get_double(s, p + 1, FALSE)
       [] c \in 204..211 -> msgpack_number(s, p)
       [] OTHER -> Failure
-----------------------------------------------------------------------------
(* UBJSON.                                                                 *)

\* A number after the marker at p.
ubjson_length(s, p) ==
  IF Width(Character(s, p)) = 0 THEN Failure ELSE get_number(s, p + 1, Width(s[p]), s[p] # 85, FALSE)
get_ubjson_string(s, p) == With(ubjson_length(s, p), LAMBDA n, q : get_string(s, q, n))
get_ubjson_size_value(s, p) == ubjson_length(s, get_ignore_noop(s, p))
parse_ubjson_internal(s, p) ==
  LET q == get_ignore_noop(s, p) IN get_ubjson_value(s, Character(s, q), q + 1)

\* The size, Open without one, and the type, 0 without one, of a container.
Untyped(r) == Mapped(r, LAMBDA n : <<n, 0>>)
get_ubjson_size_type(s, p) ==
  LET q == get_ignore_noop(s, p)
      h == get_ignore_noop(s, q + 2)
  IN IF Character(s, q) = 36
     THEN IF Character(s, q + 1) = eof \/ Character(s, h) # 35 THEN Failure
          ELSE Mapped(get_ubjson_size_value(s, h + 1), LAMBDA n : <<n, s[q + 1]>>)
     ELSE IF Character(s, q) = 35 THEN Untyped(get_ubjson_size_value(s, q + 1)) ELSE Result(<<Open, 0>>, q)

\* A value of a container of that type; where it has none and no size, the
\* no-ops after the value are skipped.
Skipped(s, r) == IF r.ok THEN [r EXCEPT !.next = get_ignore_noop(s, r.next)] ELSE r
ubjson_element(type, s, p) ==
  IF type = 0 THEN parse_ubjson_internal(s, p)
  ELSE IF type = Open THEN Skipped(s, parse_ubjson_internal(s, p)) ELSE get_ubjson_value(s, type, p)
ubjson_pair(type, s, p) == With(get_ubjson_string(s, p), LAMBDA key, q : Pair(key, ubjson_element(type, s, q)))
get_ubjson_array(s, p, size, type) ==
  IF size # Open /\ type = 78 THEN Result(<<"array", <<>>>>, p)
  ELSE get_array("ubjson", IF size = Open THEN Open ELSE type, s, p, size)
get_ubjson_object(s, p, size, type) == get_object("ubjson pair", IF size = Open THEN Open ELSE type, s, p, size)
get_ubjson_value(s, prefix, p) ==
  CASE prefix \in {84, 70} -> Result(<<"bool", prefix = 84>>, p)
    [] prefix = 90 -> Result(<<"null">>, p)
    [] Width(prefix) > 0 -> As("int", get_number(s, p, Width(prefix), prefix # 85, FALSE))
    [] prefix = 68 -> get_double(s, p, FALSE)
    [] prefix = 67 -> IF Character(s, p) \in 0..127 THEN Result(<<"string", <<s[p]>>>>, p + 1) ELSE Failure
    [] prefix = 83 -> As("string", get_ubjson_string(s, p))
    [] prefix = 91 -> With(get_ubjson_size_type(s, p), LAMBDA st, q : get_ubjson_array(s, q, st[1], st[2]))
    [] prefix = 123 -> With(get_ubjson_size_type(s, p), LAMBDA st, q : get_ubjson_object(s, q, st[1], st[2]))
    [] OTHER -> Failure
-----------------------------------------------------------------------------
(* BSON.  The size of a document is read and not used.                     *)

RECURSIVE get_bson_cstr(_, _, _)
get_bson_cstr(s, p, q) ==
  IF Character(s, q) = eof THEN Failure ELSE IF s[q] = 0 THEN Result(SubSeq(s, p, q - 1), q + 1) ELSE get_bson_cstr(s, p, q + 1)
get_bson_string(s, p, n) ==
  IF n < 1 THEN Failure ELSE With(get_string(s, p, n - 1), LAMBDA b, q : IF Character(s, q) = eof THEN Failure ELSE Result(b, q + 1))
bson_pair(s, p) ==
  IF Character(s, p) = eof THEN Failure
  ELSE With(get_bson_cstr(s, p + 1, p + 1), LAMBDA key, q : Pair(key, parse_bson_element_internal(s, s[p], q)))
parse_bson_element_list(s, p) == Items("bson pair", 0, s, Result(<<>>, p), Open)
Unnamed(pairs) == [i \in DOMAIN pairs |-> pairs[i][2]]
parse_bson_array(s, p) ==
  With(get_number(s, p, 4, TRUE, TRUE), LAMBDA size, q : As("array", Mapped(parse_bson_element_list(s, q), Unnamed)))
parse_bson_internal(s, p) ==
  With(get_number(s, p, 4, TRUE, TRUE), LAMBDA size, q : As("object", Mapped(parse_bson_element_list(s, q), Assembled)))
parse_bson_element_internal(s, type, p) ==
  CASE type = 1 -> get_double(s, p, TRUE)
    [] type = 2 -> As("string", With(get_number(s, p, 4, TRUE, TRUE), LAMBDA n, q : get_bson_string(s, q, n)))
    [] type = 3 -> parse_bson_internal(s, p)
    [] type = 4 -> parse_bson_array(s, p)
    [] type = 8 -> Result(<<"bool", Character(s, p) # 0>>, p + 1)
    [] type = 10 -> Result(<<"null">>, p)
    [] type \in {16, 18} -> As("int", get_number(s, p, IF type = 16 THEN 4 ELSE 8, TRUE, TRUE))
    [] OTHER -> Failure
Item(kind, type, s, p) ==
  CASE kind = "cbor" -> parse_cbor_internal(s, p)
    [] kind = "cbor pair" -> cbor_pair(s, p)
    [] kind = "cbor chunk" -> get_cbor_string(s, p)
    [] kind = "msgpack" -> parse_msgpack_internal(s, p)
    [] kind = "msgpack pair" -> msgpack_pair(s, p)
    [] kind = "ubjson" -> ubjson_element(type, s, p)
    [] kind = "ubjson pair" -> ubjson_pair(type, s, p)
    [] kind = "bson pair" -> bson_pair(s, p)
-----------------------------------------------------------------------------
\* Nothing may follow the value.
Strict(s, r, noop) ==
  IF ~r.ok THEN r ELSE IF Character(s, IF noop THEN get_ignore_noop(s, r.next) ELSE r.next) = eof THEN r ELSE Failure
binary_sax_parse(format, s) ==
  CASE format \in {"cbor", "cbor_stream"} -> Strict(s, parse_cbor_internal(s, 1), FALSE)
    [] format = "msgpack" -> Strict(s, parse_msgpack_internal(s, 1), FALSE)
    [] format \in {"ubjson", "ubjson_size", "ubjson_type"} -> Strict(s, parse_ubjson_internal(s, 1), TRUE)
    [] format = "bson" -> Strict(s, parse_bson_internal(s, 1), FALSE)
-----------------------------------------------------------------------------
(* A document on its way from one program to another: written in one of    *)
(* the formats of json.hpp, perhaps cut short, and read.                   *)

CONSTANTS Documents,   \* the documents that are sent
          Invalid,     \* strings that are not UTF-8
          NULL

VARIABLES doc, format, sent, cut, back
exchangeVars == <<doc, format, sent, cut, back>>

Texts == {"text", "pretty", "ascii"}
Binaries == {"cbor", "cbor_stream", "msgpack", "ubjson", "ubjson_size", "ubjson_type", "bson"}

ExchangeInit ==
  /\ doc \in Documents \cup {<<"string", s>> : s \in Invalid}
  /\ format = NULL /\ sent = NULL /\ cut = FALSE /\ back = NULL

Writable(f) == f = "bson" => doc[1] = "object"
Written(f) ==
  CASE f = "text" -> dump(doc, FALSE, FALSE, "strict", 0)
    [] f = "pretty" -> dump(doc, TRUE, FALSE, "strict", 0)
    [] f = "ascii" -> dump(doc, FALSE, TRUE, "strict", 0)
    [] f = "cbor" -> write_cbor(doc)
    [] f = "cbor_stream" -> stream_cbor(doc)
    [] f = "msgpack" -> write_msgpack(doc)
    [] f = "ubjson" -> write_ubjson(doc, FALSE, FALSE, TRUE)
    [] f = "ubjson_size" -> write_ubjson(doc, TRUE, FALSE, TRUE)
    [] f = "ubjson_type" -> write_ubjson(doc, TRUE, TRUE, TRUE)
    [] f = "bson" -> write_bson_object(doc)

\* to_cbor and the others, and dump; BSON takes objects only.
Write(f) ==
  /\ format = NULL /\ (doc[1] = "string" => doc[2] \notin Invalid)
  /\ Writable(f)
  /\ format' = f /\ sent' = Written(f)
  /\ UNCHANGED <<doc, cut, back>>

\* dump of a string that is not UTF-8: the error handler decides.
Repair(ascii, handler) ==
  /\ format = NULL /\ doc[1] = "string" /\ doc[2] \in Invalid
  /\ \E r \in {dump_escaped(doc[2], ascii, handler)} :
       /\ ~r.thrown
       /\ format' = handler /\ sent' = <<Quote>> \o r.out \o <<Quote>>
  /\ UNCHANGED <<doc, cut, back>>

\* The connection ends before the n-th byte.
Cut(n) ==
  /\ format \in Texts \cup Binaries /\ ~cut /\ back = NULL
  /\ sent' = SubSeq(sent, 1, n - 1) /\ cut' = TRUE
  /\ UNCHANGED <<doc, format, back>>

\* parse, from_cbor and the others.
ReadBack ==
  /\ format # NULL /\ back = NULL
  /\ back' = IF format \in Binaries THEN binary_sax_parse(format, sent) ELSE parse(sent)
  /\ UNCHANGED <<doc, format, sent, cut>>

ExchangeNext ==
  \/ \E f \in Texts \cup Binaries : Write(f)
  \/ \E ascii \in BOOLEAN, handler \in {"strict", "ignore", "replace"} : Repair(ascii, handler)
  \/ format # NULL /\ \E n \in 1..Len(sent) : Cut(n)
  \/ ReadBack
-----------------------------------------------------------------------------
\* A document that arrives whole is read as it was written, and one that was
\* cut short is noticed, except that a number in a text may lose digits; a
\* string the error handler has repaired is still read.
ReadsBack ==
  back # NULL =>
    IF cut THEN back.ok => format \in Texts /\ doc[1] \in {"int", "float"}
    ELSE back.ok /\ (format \in Texts \cup Binaries => back.val = doc)
=============================================================================
