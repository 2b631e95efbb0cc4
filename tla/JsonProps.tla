------------------------------ MODULE JsonProps ------------------------------
(***************************************************************************)
(* src/json.c: the members of a flat object, found in its text without     *)
(* building a document.  A text is a sequence of bytes, a member's value   *)
(* the bytes between its quotes or, without quotes, up to its end.         *)
(***************************************************************************)
EXTENDS Integers, Sequences

CONSTANTS KeyLen, ValLen   \* the sizes of key[] and val[]
LOCAL INSTANCE SequencesExt

\* What is copied into a buffer of n bytes.
Fitting(bytes, n) == IF Len(bytes) >= n THEN SubSeq(bytes, 1, n - 1) ELSE bytes
\* A quoted value begins at its quote and ends at the other.
json_setup_cb(text, key, from, to) ==
  <<Fitting(SubSeq(text, key[1] + 1, key[2] - 1), KeyLen),
    Fitting(IF text[from] = 34 THEN SubSeq(text, from + 1, to - 1) ELSE SubSeq(text, from, to), ValLen)>>

Start == [mode |-> "START_OBJ", key |-> <<0, 0>>, val |-> 0, found |-> <<>>, err |-> "PARSE_GOOD"]
Quoting(p) == p.mode \in {"KEY_QUOTED_ACCUM", "VAL_QUOTED_ACCUM"}
To(p, mode) == [p EXCEPT !.mode = mode]
Stray(p, err) == IF Quoting(p) THEN p ELSE [p EXCEPT !.err = err]
Reported(p, text, to) == [p EXCEPT !.mode = "END_PROP", !.found = Append(@, json_setup_cb(text, p.key, p.val, to))]
\* A value without quotes ends before i.
Ended(p, text, i) == IF p.mode = "VAL_ACCUM" THEN Reported(p, text, i - 1) ELSE p

Brace(p) == IF p.mode \in {"START_PROP", "END_PROP"} THEN To(p, "END_JSON") ELSE Stray(p, "PARSE_STRAY_END_OBJ")
Comma(p) == IF p.mode = "END_PROP" THEN To(p, "START_PROP") ELSE p
QuoteAt(p, text, i) ==
  CASE p.mode = "START_PROP" -> [p EXCEPT !.mode = "KEY_QUOTED_ACCUM", !.key = <<i, 0>>, !.val = 0]
    [] p.mode = "KEY_QUOTED_ACCUM" -> [p EXCEPT !.mode = "KVP_SEP", !.key[2] = i]
    [] p.mode = "START_VAL" -> [p EXCEPT !.mode = "VAL_QUOTED_ACCUM", !.val = i]
    [] p.mode = "VAL_QUOTED_ACCUM" -> Reported(p, text, i)
    [] OTHER -> [p EXCEPT !.err = "PARSE_STRAY_QUOTE"]

\* One character of json_iterate_props, which ends at the first error.
Consumed(p, text, i) ==
  CASE p.err # "PARSE_GOOD" -> p
    [] text[i] \in {32, 9, 13, 10} -> Ended(p, text, i)
    [] text[i] = 123 -> IF p.mode = "START_OBJ" THEN To(p, "START_PROP") ELSE Stray(p, "PARSE_STRAY_OBJ")
    [] text[i] = 125 -> Brace(Ended(p, text, i))
    [] text[i] = 34 -> QuoteAt(p, text, i)
    [] text[i] = 44 -> Comma(Ended(p, text, i))
    [] text[i] = 58 -> IF p.mode = "KVP_SEP" THEN To(p, "START_VAL") ELSE Stray(p, "PARSE_STRAY_COLIN")
    [] OTHER -> IF p.mode = "START_VAL" THEN [p EXCEPT !.mode = "VAL_ACCUM", !.val = i] ELSE p

Result(p) ==
  IF p.err # "PARSE_GOOD" \/ p.mode = "END_JSON" THEN p
  ELSE [p EXCEPT !.err = IF p.mode = "START_OBJ" THEN "PARSE_NO_ROOT_OBJ" ELSE "PARSE_UNKNOWN_ERR"]
json_iterate_props(text) ==
  LET f[i \in 0..Len(text)] == IF i = 0 THEN Start ELSE Consumed(f[i - 1], text, i)
  IN Result(f[Len(text)])

\* The last member with the name is the one that is returned.
Matching(found, prop) == SelectSeq(found, LAMBDA m : m[1] = prop)
\* p is what json_iterate_props makes of the text.
json_get_string_prop(p, prop) ==
  IF p.err # "PARSE_GOOD" THEN <<p.err>>
  ELSE IF Matching(p.found, prop) = <<>> THEN <<"none">> ELSE <<"found", Last(Matching(p.found, prop))[2]>>

\* atol: the digits up to the first other character.
Shifted(r, byte) == IF r.on /\ byte \in 48..57 THEN [r EXCEPT !.n = @ * 10 + byte - 48] ELSE [r EXCEPT !.on = FALSE]
Digits(bytes) ==
  LET f[i \in 0..Len(bytes)] == IF i = 0 THEN [n |-> 0, on |-> TRUE] ELSE Shifted(f[i - 1], bytes[i])
  IN f[Len(bytes)].n
atol(bytes) == IF bytes # <<>> /\ bytes[1] = 45 THEN -Digits(Tail(bytes)) ELSE Digits(bytes)
\* r is what json_get_string_prop finds.
json_get_int_prop(r) == IF r[1] = "found" THEN <<"found", atol(r[2])>> ELSE r
=============================================================================
