----------------------------- MODULE Parameters ------------------------------
(***************************************************************************)
(* COM_STMT_EXECUTE: how the client binds parameters and query attributes, *)
(* and how the library's own server finds the values again.  That server   *)
(* does not know how many parameters its statement has and looks for the   *)
(* list of types instead.                                                  *)
(*                                                                         *)
(* A value is a record of a kind and its bytes as they go on the wire.     *)
(***************************************************************************)
EXTENDS Rows

Kinds == {"null", "bool", "int", "uint", "double", "string", "buffer"}

\* bound_type: type and flag.
BoundType(value) ==
  CASE value.kind = "null"   -> <<6, 0>>     \* NULL_TYPE
    [] value.kind = "bool"   -> <<1, 0>>     \* TINY
    [] value.kind = "int"    -> <<8, 0>>     \* LONGLONG
    [] value.kind = "uint"   -> <<8, 128>>
    [] value.kind = "double" -> <<5, 0>>     \* DOUBLE
    [] value.kind = "string" -> <<253, 0>>   \* VAR_STRING
    [] value.kind = "buffer" -> <<252, 0>>   \* BLOB

\* append_bound_value; NULLs are in the bitmap alone.
BoundValue(value) ==
  IF value.kind \in {"string", "buffer"} THEN LenEncBytes(value.bytes) ELSE value.bytes

\* build_stmt_execute_payload after the command byte: id, flags, iteration count, and, if
\* there are parameters, their NULLs, a byte 1, their types and their values.  Query
\* attributes come last, and where they may be used every type is followed by a name.
ExecutePayload(values, attributes, use_query_attributes) ==
  LET all == values \o [i \in DOMAIN attributes |-> attributes[i].value]
      name(i) == IF i <= Len(values) THEN <<>> ELSE attributes[i - Len(values)].name
      nulls == {i - 1 : i \in {j \in DOMAIN all : all[j].kind = "null"}}
  IN  <<0, 0, 0, 0>> \o <<IF use_query_attributes THEN 8 ELSE 0>> \o <<1, 0, 0, 0>>
      \o (IF use_query_attributes THEN LenEnc(Len(all)) ELSE <<>>)
      \o IF all = <<>> THEN <<>>
         ELSE Bitmap(nulls, (Len(all) + 7) \div 8) \o <<1>>
              \o FlattenSeq([i \in DOMAIN all |-> BoundType(all[i])
                   \o IF use_query_attributes THEN LenEncBytes(name(i)) ELSE <<>>])
              \o FlattenSeq([i \in DOMAIN all |->
                   IF all[i].kind = "null" THEN <<>> ELSE BoundValue(all[i])])

-----------------------------------------------------------------------------
(* The library's server.                                                   *)

\* is_server_execute_supported_type
SupportedType(type) == type \in {1, 2, 3, 4, 5, 6, 8, 15, 245, 253, 254}

\* read_server_execute_value: the value with its type.
Width(type) == CASE type = 1 -> 1 [] type = 2 -> 2 [] type \in {3, 4} -> 4 [] type \in {5, 8} -> 8
ServerValue(payload, at, type) ==
  CASE type = 6 -> [value |-> <<type, <<>> >>, next |-> at]
    [] type \in {1, 2, 3, 4, 5, 8} ->
         [value |-> <<type, Slice(payload, at, Width(type))>>, next |-> at + Width(type)]
    [] OTHER ->
         LET text == ReadLenEncBytes(payload, at) IN
         [value |-> <<type, IF text.value = Null THEN <<>> ELSE text.value[1]>>, next |-> text.next]

\* Mutant of IsTypeAt: any byte is taken for a type.
AnyTypeAt(payload, at) == at + 1 <= Len(payload) /\ payload[at + 1] = 0

\* Two bytes that may be a type and its flag.
IsTypeAt(payload, at) ==
  at + 1 <= Len(payload) /\ SupportedType(payload[at]) /\ payload[at + 1] = 0

\* parse_server_statement_execute_payload: the types follow the first byte 1 that one of them
\* can follow, they end where the bytes cannot be one, and the values follow them.  A read
\* past the end, which throws, leaves no values.
ServerParameters(payload) ==
  LET start == {i \in 10..Len(payload) : payload[i] = 1 /\ IsTypeAt(payload, i + 1)}
      first == Min(start) + 1
      ends == CHOOSE n \in 0..Len(payload) :
                ~IsTypeAt(payload, first + 2 * n) /\ \A m \in 0..(n - 1) : IsTypeAt(payload, first + 2 * m)
      types == [i \in 1..ends |-> payload[first + 2 * (i - 1)]]
      read == Columns(types, first + 2 * ends, LAMBDA i, at : ServerValue(payload, at, types[i]))
  IN IF start = {} \/ read.next > Len(payload) + 1 THEN <<>> ELSE read.row
=============================================================================
