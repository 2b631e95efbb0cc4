------------------------------ MODULE JsonText ------------------------------
(***************************************************************************)
(* JSON text as the test programs write and read it (json.hpp): the        *)
(* serializer, the lexer and the parser that builds the document.          *)
(*                                                                         *)
(* A text is a sequence of bytes.  A value is a tuple that begins with its *)
(* kind; the number kinds that compare equal in the code are one, "int".   *)
(* A "float" is the shortest decimal that reads back as it, a sign, digits *)
(* and the exponent of ten they are multiplied with: to find it (grisu2)   *)
(* and to read it back (strtod) are taken to be right.                     *)
(***************************************************************************)
EXTENDS Integers, Sequences, SequencesExt, FiniteSets, TLC

CONSTANTS IntMax,   \* the largest unsigned number: 2^64 - 1 in the code
          Indent    \* the step of a pretty print

eof == -1
Character(s, p) == IF p \in DOMAIN s THEN s[p] ELSE eof
Quote == 34
Backslash == 92
Digit == 48..57
White == {32, 9, 10, 13}
Zeroes(n) == [i \in 1..n |-> 48]
-----------------------------------------------------------------------------
(* The serializer.                                                         *)

\* The class of a byte and the automaton of decode: 0 accepts, 1 rejects.
ByteType(b) ==
  CASE b < 128 -> 0 [] b \in 128..143 -> 1 [] b \in 144..159 -> 9 [] b \in 160..191 -> 7
    [] b \in {192, 193} -> 8 [] b \in 194..223 -> 2 [] b = 224 -> 10 [] b = 237 -> 4
    [] b \in 225..239 \ {237} -> 3 [] b = 240 -> 11 [] b \in 241..243 -> 6 [] b = 244 -> 5 [] b > 244 -> 8
First == <<0, 1, 2, 3, 5, 8, 7, 1, 1, 1, 4, 6>>
Later == [s \in 2..8 |-> CASE s = 2 -> <<{1, 7, 9}, 0>> [] s = 3 -> <<{1, 7, 9}, 2>> [] s = 4 -> <<{7}, 2>>
                           [] s = 5 -> <<{1, 9}, 2>> [] s = 6 -> <<{7, 9}, 3>> [] s = 7 -> <<{1, 7, 9}, 3>>
                           [] s = 8 -> <<{1}, 3>>]
decode(state, codep, byte) ==
  [state |-> IF state = 0 THEN First[ByteType(byte) + 1]
             ELSE IF state # 1 /\ ByteType(byte) \in Later[state][1] THEN Later[state][2] ELSE 1,
   codep |-> IF state # 0 THEN codep * 64 + (byte % 64) ELSE IF ByteType(byte) > 8 THEN 0 ELSE byte % 2^(8 - ByteType(byte))]

Hex(d) == IF d < 10 THEN 48 + d ELSE 87 + d
Unicode(n) == <<Backslash, 117, Hex(n \div 4096), Hex((n \div 256) % 16), Hex((n \div 16) % 16), Hex(n % 16)>>
ShortEscape == [c \in {8, 9, 10, 12, 13, Quote, Backslash} |->
                  CASE c = 8 -> 98 [] c = 9 -> 116 [] c = 10 -> 110 [] c = 12 -> 102 [] c = 13 -> 114 [] OTHER -> c]

Surrogates(cp) == Unicode(55232 + (cp \div 1024)) \o Unicode(56320 + (cp % 1024))

\* What the accepting byte of a code point adds to the buffer.
Accepted(cp, byte, ascii) ==
  IF cp \in DOMAIN ShortEscape THEN <<Backslash, ShortEscape[cp]>>
  ELSE IF cp <= 31 \/ (ascii /\ cp >= 127) THEN IF cp <= 65535 THEN Unicode(cp) ELSE Surrogates(cp)
  ELSE <<byte>>
Replacement(ascii) == IF ascii THEN Unicode(65533) ELSE <<239, 191, 189>>

\* b: the decoder, the bytes written, how many of them belong to whole code
\* points, how many bytes of an unfinished one were read, and whether it threw.
Byte(b, d, byte, ascii, handler) ==
  CASE d.state = 0 ->
         LET out == b.out \o Accepted(d.codep, byte, ascii)
         IN [b EXCEPT !.state = 0, !.codep = d.codep, !.out = out, !.kept = Len(out), !.undumped = 0, !.i = @ + 1]
    [] d.state = 1 ->
         IF handler = "strict" THEN [b EXCEPT !.thrown = TRUE]
         ELSE LET out == SubSeq(b.out, 1, b.kept) \o IF handler = "replace" THEN Replacement(ascii) ELSE <<>>
              IN [b EXCEPT !.state = 0, !.out = out, !.kept = Len(out), !.undumped = 0,
                           !.i = IF b.undumped > 0 THEN @ ELSE @ + 1]
    [] OTHER -> [b EXCEPT !.state = d.state, !.codep = d.codep, !.undumped = @ + 1, !.i = @ + 1,
                          !.out = IF ascii THEN @ ELSE Append(@, byte)]
Finished(b, ascii, handler) ==
  IF b.state = 0 THEN b ELSE IF handler = "strict" THEN [b EXCEPT !.thrown = TRUE]
  ELSE [b EXCEPT !.out = SubSeq(@, 1, b.kept) \o IF handler = "replace" THEN Replacement(ascii) ELSE <<>>]

RECURSIVE Escape(_, _, _, _)
Escape(b, s, ascii, handler) ==
  IF b.thrown THEN b ELSE IF b.i > Len(s) THEN Finished(b, ascii, handler)
  ELSE Escape(Byte(b, decode(b.state, b.codep, s[b.i]), s[b.i], ascii, handler), s, ascii, handler)
dump_escaped(s, ascii, handler) ==
  Escape([state |-> 0, codep |-> 0, out |-> <<>>, kept |-> 0, undumped |-> 0, i |-> 1, thrown |-> FALSE], s, ascii, handler)

\* Two digits at a time, from the end.
RECURSIVE Pairs(_, _)
Pairs(n, out) ==
  IF n >= 100 THEN Pairs(n \div 100, <<48 + ((n \div 10) % 10), 48 + (n % 10)>> \o out)
  ELSE IF n >= 10 THEN <<48 + (n \div 10), 48 + (n % 10)>> \o out ELSE <<48 + n>> \o out
dump_integer(n) == IF n < 0 THEN <<45>> \o Pairs(-n, <<>>) ELSE Pairs(n, <<>>)

append_exponent(e) ==
  LET k == IF e < 0 THEN -e ELSE e
  IN <<IF e < 0 THEN 45 ELSE 43>> \o IF k < 10 THEN <<48, 48 + k>> ELSE Pairs(k, <<>>)

SmallestFixed == -4
LargestFixed == 15

\* The digits, the decimal point before the (n+1)st of them.
format_buffer(digits, exponent) ==
  LET k == Len(digits)
      n == k + exponent
      text == [i \in 1..k |-> 48 + digits[i]]
  IN IF k <= n /\ n <= LargestFixed THEN text \o Zeroes(n - k) \o <<46, 48>>
     ELSE IF 0 < n /\ n <= LargestFixed THEN SubSeq(text, 1, n) \o <<46>> \o SubSeq(text, n + 1, k)
     ELSE IF SmallestFixed < n /\ n <= 0 THEN <<48, 46>> \o Zeroes(-n) \o text
     ELSE <<text[1]>> \o (IF k = 1 THEN <<>> ELSE <<46>> \o Tail(text)) \o <<101>> \o append_exponent(n - 1)
dump_float(negative, digits, exponent) ==
  (IF negative THEN <<45>> ELSE <<>>) \o IF digits = <<>> THEN <<48, 46, 48>> ELSE format_buffer(digits, exponent)

\* The order of the keys of an object (std::map).
RECURSIVE Smaller(_, _)
Smaller(a, b) == b # <<>> /\ (a = <<>> \/ Head(a) < Head(b) \/ (Head(a) = Head(b) /\ Smaller(Tail(a), Tail(b))))
SortedKeys(object) == SetToSortSeq(DOMAIN object, Smaller)

\* The elements, with commas and, in a pretty print, each on a line of its own.
Newline(pretty, indent) == IF pretty THEN <<10>> \o [i \in 1..indent |-> 32] ELSE <<>>
Listed(open, elements, close, pretty, indent) ==
  IF elements = <<>> THEN <<open, close>>
  ELSE <<open>> \o FlattenSeq([i \in DOMAIN elements |->
                      (IF i = 1 THEN <<>> ELSE <<44>>) \o Newline(pretty, indent + Indent) \o elements[i]])
         \o Newline(pretty, indent) \o <<close>>
Quoted(s, ascii, handler) == <<Quote>> \o dump_escaped(s, ascii, handler).out \o <<Quote>>

RECURSIVE dump(_, _, _, _, _)
dump(v, pretty, ascii, handler, indent) ==
  CASE v[1] = "null" -> <<110, 117, 108, 108>>
    [] v[1] = "bool" -> IF v[2] THEN <<116, 114, 117, 101>> ELSE <<102, 97, 108, 115, 101>>
    [] v[1] = "int" -> dump_integer(v[2])
    [] v[1] = "float" -> dump_float(v[2], v[3], v[4])
    [] v[1] = "string" -> Quoted(v[2], ascii, handler)
    [] v[1] \in {"array", "object"} ->
         LET keys == IF v[1] = "array" THEN [i \in DOMAIN v[2] |-> i] ELSE SortedKeys(v[2])
             label(k) == IF v[1] = "array" THEN <<>>
                         ELSE Quoted(k, ascii, handler) \o (IF pretty THEN <<58, 32>> ELSE <<58>>)
             element(k) == label(k) \o dump(v[2][k], pretty, ascii, handler, indent + Indent)
         IN Listed(IF v[1] = "array" THEN 91 ELSE 123, [i \in DOMAIN keys |-> element(keys[i])],
                   IF v[1] = "array" THEN 93 ELSE 125, pretty, indent)
-----------------------------------------------------------------------------
(* The lexer: the token at a position of the text, its value, and the      *)
(* position after it.                                                      *)

Token(t, val, next) == [t |-> t, val |-> val, next |-> next]
Bad == Token("parse_error", <<"null">>, 0)

HexValue(c) == CASE c \in 48..57 -> c - 48 [] c \in 65..70 -> c - 55 [] c \in 97..102 -> c - 87 [] OTHER -> -1
\* The number of the four digits from p on, or -1.
get_codepoint(s, p) ==
  IF \E i \in 0..3 : HexValue(Character(s, p + i)) = -1 THEN -1
  ELSE HexValue(s[p]) * 4096 + HexValue(s[p + 1]) * 256 + HexValue(s[p + 2]) * 16 + HexValue(s[p + 3])

Utf8(cp) ==
  IF cp < 128 THEN <<cp>>
  ELSE IF cp <= 2047 THEN <<192 + (cp \div 64), 128 + (cp % 64)>>
  ELSE IF cp <= 65535 THEN <<224 + (cp \div 4096), 128 + ((cp \div 64) % 64), 128 + (cp % 64)>>
  ELSE <<240 + (cp \div 262144), 128 + ((cp \div 4096) % 64), 128 + ((cp \div 64) % 64), 128 + (cp % 64)>>

\* The escape whose digits begin at p: the bytes it stands for and the position
\* after it, or no position.
UnicodeEscape(s, p) ==
  LET one == get_codepoint(s, p)
      two == IF Character(s, p + 4) = Backslash /\ Character(s, p + 5) = 117 THEN get_codepoint(s, p + 6) ELSE -1
  IN IF one = -1 \/ one \in 56320..57343 THEN [bytes |-> <<>>, next |-> 0]
     ELSE IF one \notin 55296..56319 THEN [bytes |-> Utf8(one), next |-> p + 4]
     ELSE IF two \notin 56320..57343 THEN [bytes |-> <<>>, next |-> 0]
     ELSE [bytes |-> Utf8(one * 1024 + two - 56613888), next |-> p + 10]
Unescaped == [c \in {Quote, Backslash, 47, 98, 102, 110, 114, 116} |->
                CASE c = 98 -> 8 [] c = 102 -> 12 [] c = 110 -> 10 [] c = 114 -> 13 [] c = 116 -> 9 [] OTHER -> c]

Tails == 128..191
\* The ranges of the bytes that must follow the first of a character.
Followers(c) ==
  CASE c \in 194..223 -> <<Tails>>
    [] c = 224 -> <<160..191, Tails>> [] c \in 225..239 \ {237} -> <<Tails, Tails>> [] c = 237 -> <<128..159, Tails>>
    [] c = 240 -> <<144..191, Tails, Tails>> [] c \in 241..243 -> <<Tails, Tails, Tails>>
    [] c = 244 -> <<128..143, Tails, Tails>> [] OTHER -> <<>>
next_byte_in_range(s, p, ranges) == \A i \in DOMAIN ranges : Character(s, p + i) \in ranges[i]

Control == 0..31
Plain == 32..127

\* From p on, after the opening quote and what is in the buffer.
RECURSIVE scan_string(_, _, _)
Escaped(s, e, buffer) == IF e.next = 0 THEN Bad ELSE scan_string(s, e.next, buffer \o e.bytes)
scan_string(s, p, buffer) ==
  LET c == Character(s, p)
      e == Character(s, p + 1)
      ranges == Followers(c)
  IN IF c = Quote THEN Token("value_string", <<"string", buffer>>, p + 1)
     ELSE IF c = Backslash
     THEN IF e = 117 THEN Escaped(s, UnicodeEscape(s, p + 2), buffer)
          ELSE IF e \in DOMAIN Unescaped THEN scan_string(s, p + 2, Append(buffer, Unescaped[e])) ELSE Bad
     ELSE IF c \in Plain THEN scan_string(s, p + 1, Append(buffer, c))
     ELSE IF c \in Control \/ ranges = <<>> \/ ~next_byte_in_range(s, p, ranges) THEN Bad
     ELSE scan_string(s, p + 1 + Len(ranges), buffer \o SubSeq(s, p, p + Len(ranges)))

\* The automaton of scan_number: the integer, then the rest of a number.
OnDigit(c, zero, other) == IF c = 48 THEN zero ELSE IF c \in Digit THEN other ELSE "none"
Or(a, b) == IF a = "none" THEN b ELSE a
Fraction(c) == IF c = 46 THEN "decimal1" ELSE IF c \in {69, 101} THEN "exponent" ELSE "done"
IntegerPart(state, c) ==
  CASE state = "init" -> IF c = 45 THEN "minus" ELSE OnDigit(c, "zero", "any1")
    [] state = "minus" -> Or(OnDigit(c, "zero", "any1"), "error")
    [] state = "zero" -> Fraction(c)
    [] state = "any1" -> Or(OnDigit(c, "any1", "any1"), Fraction(c))
FractionPart(state, c) ==
  CASE state = "decimal1" -> Or(OnDigit(c, "decimal2", "decimal2"), "error")
    [] state = "decimal2" -> Or(OnDigit(c, "decimal2", "decimal2"), IF c \in {69, 101} THEN "exponent" ELSE "done")
    [] state = "exponent" -> IF c \in {43, 45} THEN "sign" ELSE Or(OnDigit(c, "any2", "any2"), "error")
    [] state = "sign" -> Or(OnDigit(c, "any2", "any2"), "error")
    [] state = "any2" -> Or(OnDigit(c, "any2", "any2"), "done")
NumberState(state, c) == IF state \in {"init", "minus", "zero", "any1"} THEN IntegerPart(state, c) ELSE FractionPart(state, c)

\* The states the number from p on goes through, up to done or error.
RECURSIVE NumberStates(_, _, _)
NumberStates(s, p, states) ==
  IF Last(states) \in {"done", "error"} THEN states
  ELSE NumberStates(s, p + 1, Append(states, NumberState(Last(states), Character(s, p))))

\* strtoull and strtoll, which stop at the largest number.
Value(digits) ==
  LET f[i \in 0..Len(digits)] ==
        IF i = 0 THEN 0 ELSE IF f[i - 1] > IntMax \div 10 THEN IntMax + 1 ELSE f[i - 1] * 10 + digits[i]
  IN f[Len(digits)]
Trimmed(digits) ==
  LET used == {i \in DOMAIN digits : digits[i] # 0}
      first == CHOOSE i \in used : \A j \in used : i <= j
      last == CHOOSE i \in used : \A j \in used : j <= i
  IN IF used = {} THEN [digits |-> <<>>, shift |-> 0]
     ELSE [digits |-> SubSeq(digits, first, last), shift |-> Len(digits) - last]

\* The number of the characters text with those states.
Number(text, states) ==
  LET of(set) == [i \in DOMAIN SelectSeq([j \in DOMAIN text |-> j], LAMBDA j : states[j + 1] \in set) |->
                    text[SelectSeq([j \in DOMAIN text |-> j], LAMBDA j : states[j + 1] \in set)[i]] - 48]
      whole == of({"zero", "any1"})
      part == of({"decimal2"})
      power == (IF \E i \in DOMAIN text : text[i] = 45 /\ states[i + 1] = "sign" THEN -1 ELSE 1) * Value(of({"any2"}))
      sign == IF text[1] = 45 THEN -1 ELSE 1
      limit == IF sign = -1 THEN (IntMax + 1) \div 2 ELSE IntMax
      float(t) == <<"float", sign = -1, t.digits, IF t.digits = <<>> THEN 0 ELSE power - Len(part) + t.shift>>
  IN IF (\A i \in DOMAIN states : states[i] \notin {"decimal1", "exponent"}) /\ Value(whole) <= limit
     THEN <<"int", sign * Value(whole)>> ELSE float(Trimmed(whole \o part))
Numeral(s, p, states) ==
  IF Last(states) = "error" THEN Bad
  ELSE LET n == Len(states) - 2
       IN Token("number", Number(SubSeq(s, p, p + n - 1), states), p + n)
scan_number(s, p) == Numeral(s, p, NumberStates(s, p, <<"init">>))

scan_literal(s, p, text, val) ==
  IF \A i \in DOMAIN text : Character(s, p + i - 1) = text[i] THEN Token("literal", val, p + Len(text)) ELSE Bad

\* The byte order mark may stand at the beginning of the text.
skip_bom(s) == IF Character(s, 1) # 239 THEN 1 ELSE IF Character(s, 2) = 187 /\ Character(s, 3) = 191 THEN 4 ELSE 0

Structural == [c \in {91, 93, 123, 125, 58, 44} |->
                 CASE c = 91 -> "begin_array" [] c = 93 -> "end_array" [] c = 123 -> "begin_object"
                   [] c = 125 -> "end_object" [] c = 58 -> "name_separator" [] c = 44 -> "value_separator"]
RECURSIVE scan(_, _)
scan(s, p) ==
  LET c == Character(s, p)
  IN IF c \in White THEN scan(s, p + 1)
     ELSE IF c \in DOMAIN Structural THEN Token(Structural[c], <<"null">>, p + 1)
     ELSE IF c = 116 THEN scan_literal(s, p, <<116, 114, 117, 101>>, <<"bool", TRUE>>)
     ELSE IF c = 102 THEN scan_literal(s, p, <<102, 97, 108, 115, 101>>, <<"bool", FALSE>>)
     ELSE IF c = 110 THEN scan_literal(s, p, <<110, 117, 108, 108>>, <<"null">>)
     ELSE IF c = Quote THEN scan_string(s, p + 1, <<>>)
     ELSE IF c = 45 \/ c \in Digit THEN scan_number(s, p)
     ELSE IF c \in {0, eof} THEN Token("end_of_input", <<"null">>, p + 1)
     ELSE Bad

\* All tokens of a text, up to its end or the first that is bad.
RECURSIVE TokensFrom(_, _, _)
Lexed(s, token, tokens) ==
  IF token.t \in {"end_of_input", "parse_error"} THEN Append(tokens, token)
  ELSE TokensFrom(s, token.next, Append(tokens, token))
TokensFrom(s, p, tokens) == Lexed(s, scan(s, p), tokens)
Tokens(s) == IF skip_bom(s) = 0 THEN <<Bad>> ELSE TokensFrom(s, skip_bom(s), <<>>)
-----------------------------------------------------------------------------
(* The parser: states, the containers that are open, with what has been    *)
(* read of each; i is the last token.                                      *)

Failed == [ok |-> FALSE, val |-> <<"null">>, i |-> 0]
NoMembers == [k \in {} |-> <<"null">>]
Frame(array, val, key) == [array |-> array, val |-> val, key |-> key]
Is(tokens, i, t) == tokens[i].t = t
Finite(v) == v[1] = "float" => Len(v[3]) + v[4] <= 309

\* The element key refers to is overwritten.
Member(object, key, v) == (key :> v) @@ object

\* handle_value: the innermost container with one value more.
handle_value(frame, v) ==
  IF frame.array THEN [frame EXCEPT !.val = Append(@, v)] ELSE [frame EXCEPT !.val = Member(@, frame.key, v)]
Closed(frame) == <<IF frame.array THEN "array" ELSE "object", frame.val>>

RECURSIVE Parse(_, _, _)
\* A member's name and the separator, from token i on, then its value.
Named(tokens, i, states, frame) ==
  IF ~Is(tokens, i, "value_string") THEN Failed
  ELSE IF ~Is(tokens, i + 1, "name_separator") THEN Failed
  ELSE Parse(tokens, i + 2, Append(states, [frame EXCEPT !.key = tokens[i].val[2]]))

\* The value v was read up to token i.
RECURSIVE Read(_, _, _, _)
Evaluated(tokens, i, outer, frame) ==
  IF Is(tokens, i + 1, "value_separator")
  THEN IF frame.array THEN Parse(tokens, i + 2, Append(outer, frame)) ELSE Named(tokens, i + 2, outer, frame)
  ELSE IF Is(tokens, i + 1, IF frame.array THEN "end_array" ELSE "end_object") THEN Read(tokens, i + 1, outer, Closed(frame))
  ELSE Failed
Read(tokens, i, states, v) ==
  IF states = <<>> THEN [ok |-> TRUE, val |-> v, i |-> i]
  ELSE Evaluated(tokens, i, Front(states), handle_value(Last(states), v))

Parse(tokens, i, states) ==
  CASE Is(tokens, i, "begin_object") ->
         IF Is(tokens, i + 1, "end_object") THEN Read(tokens, i + 1, states, <<"object", NoMembers>>)
         ELSE Named(tokens, i + 1, states, Frame(FALSE, NoMembers, <<>>))
    [] Is(tokens, i, "begin_array") ->
         IF Is(tokens, i + 1, "end_array") THEN Read(tokens, i + 1, states, <<"array", <<>>>>)
         ELSE Parse(tokens, i + 1, Append(states, Frame(TRUE, <<>>, <<>>)))
    [] tokens[i].t \in {"number", "literal", "value_string"} ->
         IF Finite(tokens[i].val) THEN Read(tokens, i, states, tokens[i].val) ELSE Failed
    [] OTHER -> Failed

\* json::parse: the whole text is one value.
Whole(tokens, r) == IF ~r.ok THEN Failed ELSE IF Is(tokens, r.i + 1, "end_of_input") THEN r ELSE Failed
ParseTokens(tokens) == Whole(tokens, Parse(tokens, 1, <<>>))
parse(s) == ParseTokens(Tokens(s))
=============================================================================
