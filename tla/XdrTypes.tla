------------------------------ MODULE XdrTypes ------------------------------
(***************************************************************************)
(* How the fields of a structure are described: the types of xdr.c with    *)
(* the functions of each (xdr_int32_functions and so on, told apart by     *)
(* what they do), and struct XDR_FieldDefinition of xdr.h.                 *)
(***************************************************************************)
int32 == [k |-> "int", words |-> 1, signed |-> TRUE]
uint32 == [k |-> "int", words |-> 1, signed |-> FALSE]
int64 == [k |-> "int", words |-> 2, signed |-> TRUE]
uint64 == [k |-> "int", words |-> 2, signed |-> FALSE]
float == [k |-> "opaque", size |-> 4]
double == [k |-> "opaque", size |-> 8]
string_arr == [k |-> "string"]
byte_arr == [k |-> "bytes"]
union == [k |-> "union"]
arr(t) == [k |-> "array", of |-> t]
dict(t) == [k |-> "dict", of |-> t]
struct(type) == [k |-> "struct", type |-> type]

Field(t) == [t |-> t, len |-> 0]
Counted(t, i) == [t |-> t, len |-> i]        \* its length is the field i
Bits(t, at, n) == [t |-> t, at |-> at, n |-> n]

Plain(fields) == [bits |-> FALSE, fields |-> fields]
Packed(fields) == [bits |-> TRUE, fields |-> fields]
=============================================================================
