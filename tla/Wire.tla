-------------------------------- MODULE Wire ---------------------------------
(***************************************************************************)
(* What the library writes and what it reads, put together: for packets,   *)
(* result rows, statement parameters and row events of a binlog, the one   *)
(* is the inverse of the other.  An input grows step by step, so that the  *)
(* states are the inputs up to a size.                                     *)
(***************************************************************************)
EXTENDS Framing, Parameters, BinlogRows

CONSTANTS
  Lengths,      \* lengths of payloads
  Fields,       \* columns of a result: field and value
  Values,       \* values of parameters and attributes
  MaxPayloads, MaxFields, MaxValues, MaxColumns,  \* bounds on the sizes of the inputs
  Extras        \* inputs that the code does not cope with

\* Lengths of values are below 2^31 here.
MaxLength == 2147483647
IsValue(bytes) == bytes \in Seq(Nat) /\ Len(bytes) <= MaxLength

\* A tiny value has one byte, and a number that is bound as a parameter eight.
ASSUME WireAssumption ==
  /\ Lengths \subseteq Nat
  /\ \A f \in Fields :
       /\ f.field \in {"tiny", "string"}
       /\ f.value # Null => \E bytes \in {f.value[1]} :
            f.value = <<bytes>> /\ IsValue(bytes) /\ (f.field = "tiny" => Len(bytes) = 1)
  /\ \A v \in Values :
       /\ v.kind \in Kinds /\ IsValue(v.bytes)
       /\ v.kind \notin {"string", "buffer"} =>
            Len(v.bytes) = IF v.kind = "null" THEN 0 ELSE IF v.kind = "bool" THEN 1 ELSE 8
  /\ {MaxPayloads, MaxFields, MaxValues, MaxColumns} \subseteq Nat
  /\ Extras \subseteq {"full_chunk", "lookalike"}

VARIABLES
  what,   \* what the input is: payloads, fields of a row, parameters or columns of a table
  input
vars == <<what, input>>

Init == what \in {"payloads", "fields", "parameters", "columns"} /\ input = <<>>

AddPayload ==
  /\ what = "payloads" /\ Len(input) < MaxPayloads
  /\ \E length \in Lengths : input' = Append(input, [i \in 1..length |-> 10 * Len(input) + i])
  /\ UNCHANGED what
AddField ==
  /\ what = "fields" /\ Len(input) < MaxFields
  /\ \E field \in Fields : input' = Append(input, field)
  /\ UNCHANGED what
AddParameter ==
  /\ what = "parameters" /\ Len(input) < MaxValues
  /\ \E value \in Values : input' = Append(input, value)
  /\ UNCHANGED what

\* A column of a table and what two images of a row hold of it: no value, NULL, or a value.
\* Beyond the second column the images are alike and have it.
ColumnType(i) == <<"tiny", "varchar", "blob", "varchar">>[(i % 4) + 1]
ColumnMetadata(i) == <<0, 255, 2, 256>>[(i % 4) + 1]
Absent == "absent"
AddColumn ==
  /\ what = "columns" /\ Len(input) < MaxColumns
  /\ \E before \in {"null", "value"} \cup (IF Len(input) < 2 THEN {Absent} ELSE {}) :
       \E after \in IF Len(input) < 2 THEN {Absent, "null", "value"} ELSE {before} :
         input' = Append(input, [before |-> before, after |-> after])
  /\ UNCHANGED what

Next == AddPayload \/ AddField \/ AddParameter \/ AddColumn
Spec == Init /\ [][Next]_vars

-----------------------------------------------------------------------------
(* Packets.                                                                *)

\* The packets of a payload: an empty one follows a full one (external, the protocol).
Count(payload) == Len(payload) \div MaxPacket + 1

\* The ids at which the payloads of one answer begin, and the id after them.
FirstIds(first) ==
  LET id[i \in 0..Len(input)] == IF i = 0 THEN first ELSE (id[i - 1] + Count(input[i])) % IdMod IN id

\* What a reader of compressed packets makes of a stream: the packets, and itself after them.
ReadNext(all, packet) ==
  [read |-> Append(all.read, <<packet.id, packet.payload>>), reader |-> packet.reader]
ReadAll(chunks) ==
  LET all[i \in 0..Len(input)] ==
        IF i = 0 THEN [read |-> <<>>, reader |-> Reader(chunks)]
        ELSE LET before == all[i - 1] IN ReadNext(before, ReadCompressed(before.reader)) IN
  all[Len(input)]

\* The packets of the i-th payload are those of the client too, and are read back.
WrittenAlike(i, packets, id) ==
  /\ ClientPackets(input[i], id) = packets
  /\ ReadPacket(packets, 1) = [id |-> id, payload |-> input[i], next |-> Len(packets) + 1]
  /\ \/ PacketCount(Len(input[i])) = Count(input[i])
     \/ Len(input[i]) % MaxPacket = 0 /\ "full_chunk" \notin Extras

\* All payloads have been read, and every byte.
ReadWhole(all, ids) ==
  /\ all.read = [i \in DOMAIN input |-> <<ids[i], input[i]>>]
  /\ all.reader.chunks = <<>>
  /\ all.reader.offset = Len(all.reader.buffer)

\* One answer, whose first packet has a given id.
ReadBack(ids, packets, first) ==
  /\ \A i \in DOMAIN input : WrittenAlike(i, packets[i], ids[i])
  /\ \A size \in 1..(2 * HeaderLength + 1) :
       ReadWhole(ReadAll(Chunks(FlattenSeq(packets), first, size)), ids)

\* Client and server cut a payload into the same packets, and it is read back whole, with a
\* full last packet too and when the ids wrap (write_packet, append_packet_bytes).  However
\* a peer cuts the stream into chunks, the compressed reader finds the same packets and
\* leaves no byte (read_normal_packet_from_compressed_stream).  The chunks of a LOCAL INFILE
\* upload follow each other without a gap in the ids (normal_packet_count_for_payload), but
\* for those that fill their packets to the last byte, which are counted once too often and
\* left to Extras.
FramesAgree ==
  what = "payloads" =>
    \A first \in {0, IdMod - 1} :
      LET ids == [i \in DOMAIN input |-> FirstIds(first)[i - 1]] IN
      ReadBack(ids, [i \in DOMAIN input |-> ServerPackets(input[i], ids[i])], first)

-----------------------------------------------------------------------------
(* Rows.                                                                   *)

\* A row is read as it was built, wherever its NULLs are, also by a server application that
\* leaves trailing ones out, and no row is taken for the end of the rows or for an error
\* (build_text_row_payload, build_binary_row_payload and their parsers).
RowsAgree ==
  what = "fields" =>
    LET fields == [i \in DOMAIN input |-> input[i].field]
        row == [i \in DOMAIN input |-> input[i].value]
        count == CHOOSE n \in 0..Len(row) :
                   (n > 0 => row[n] # Null) /\ \A i \in (n + 1)..Len(row) : row[i] = Null
        short == SubSeq(row, 1, count) IN
    /\ ParsedTextRow(TextRow(short, fields), fields) = row
    /\ ParsedBinaryRow(BinaryRow(short, fields), fields) = row
    /\ \A payload \in {TextRow(row, fields), BinaryRow(row, fields)} : ~IsEof(payload) /\ ~IsErr(payload)

-----------------------------------------------------------------------------
(* Parameters.                                                             *)

\* How a server that knows how many parameters there are reads them (external): the NULLs,
\* then types, with names where announced, then values.
ProtocolTypes(payload, start, count, named) ==
  Columns([i \in 1..count |-> i], start, LAMBDA i, at :
    [value |-> <<payload[at], payload[at + 1]>>,
     next |-> IF named THEN ReadLenEncBytes(payload, at + 2).next ELSE at + 2])
ProtocolValue(payload, at, type) ==
  IF type[1] \in {252, 253} THEN ReadLenEncBytes(payload, at)
  ELSE [value |-> <<Slice(payload, at, Width(type[1]))>>, next |-> at + Width(type[1])]
ProtocolParameters(payload, count, named) ==
  LET start == IF named THEN 10 + Len(LenEnc(count)) ELSE 10
      bitmap == Slice(payload, start, (count + 7) \div 8)
      types == ProtocolTypes(payload, start + Len(bitmap) + 1, count, named)
  IN Columns(types.row, types.next, LAMBDA i, at :
       LET value == IF HasBit(bitmap, i - 1) THEN [value |-> Null, next |-> at]
                    ELSE ProtocolValue(payload, at, types.row[i]) IN
       [value |-> <<types.row[i], value.value>>, next |-> value.next])

\* The library's server knows the kinds of Supported, and tells the values from the types if
\* they do not begin like one, and there are too few of them for a NULL bitmap that does.
Supported == {"null", "bool", "int", "double", "string"}
Begin(values) == FlattenSeq([i \in DOMAIN values |-> BoundValue(values[i])])
Clear(values) ==
  /\ \A i \in DOMAIN values : values[i].kind \in Supported
  /\ Len(values) <= 16
  /\ \/ "lookalike" \in Extras
     \/ Len(Begin(values)) > 1 => ~(SupportedType(Begin(values)[1]) /\ Begin(values)[2] = 0)

\* What the client binds is read back by a server that counts its parameters, with query
\* attributes or without, and by the library's own server, which guesses them, as long as
\* the values do not look like types (build_stmt_execute_payload,
\* parse_server_statement_execute_payload).
ParametersAgree ==
  what = "parameters" =>
    LET bound(values) == [i \in DOMAIN values |->
          <<BoundType(values[i]), IF values[i].kind = "null" THEN Null ELSE <<values[i].bytes>> >>]
        named == [i \in DOMAIN input |-> [name |-> <<97>>, value |-> input[i]]] IN
    /\ \A n \in 0..Len(input), use \in BOOLEAN :
         (n > 0 => use) /\ input # <<>> =>
           LET values == SubSeq(input, n + 1, Len(input))  attributes == SubSeq(named, 1, n) IN
           ProtocolParameters(ExecutePayload(values, attributes, use), Len(input), use).row
             = bound(values) \o bound(SubSeq(input, 1, n))
    /\ Clear(input) =>
         ServerParameters(ExecutePayload(input, <<>>, FALSE))
           = [i \in DOMAIN input |-> <<BoundType(input[i])[1], input[i].bytes>>]

-----------------------------------------------------------------------------
(* Rows of a binlog.                                                       *)

\* How a MySQL server writes them (external): metadata, images of rows, and values.
WrittenMetadata(i) ==
  LittleEndian(ColumnMetadata(i), MetadataWidth(ColumnType(i)))
ColumnValue(i) == IF ColumnType(i) = "tiny" THEN <<i>> ELSE [k \in 1..(i % 3) |-> i]
LengthBytes(i) == IF ColumnType(i) = "varchar" THEN IF ColumnMetadata(i) > 255 THEN 2 ELSE 1
                  ELSE ColumnMetadata(i)
WrittenValue(i) ==
  IF ColumnType(i) = "tiny" THEN ColumnValue(i)
  ELSE LittleEndian(Len(ColumnValue(i)), LengthBytes(i)) \o ColumnValue(i)
Present(image) == {i \in DOMAIN image : image[i] # Absent}
PresentBefore(image, i) == Cardinality({j \in Present(image) : j < i})
WrittenRow(image) ==
  LET nulls == {PresentBefore(image, i) : i \in {j \in DOMAIN image : image[j] = "null"}} IN
  Bitmap(nulls, BitmapBytes(Cardinality(Present(image))))
    \o FlattenSeq([i \in DOMAIN image |-> IF image[i] = "value" THEN WrittenValue(i) ELSE <<>>])
WrittenBitmap(image) == Bitmap({i - 1 : i \in Present(image)}, BitmapBytes(Len(image)))

\* A row event of two equal rows is taken apart into the values written, before and after,
\* for columns that are absent and NULLs at any place, by the table map that came last for
\* its table; of a table never announced nothing is made up (parse_table_map_event_body,
\* parse_rows_event_body, read_binlog_row_values).
BinlogRowsAgree ==
  what = "columns" =>
    LET before == [i \in DOMAIN input |-> input[i].before]
        after == [i \in DOMAIN input |-> input[i].after]
        values(image) == [i \in DOMAIN image |-> IF image[i] = "value" THEN <<ColumnValue(i)>> ELSE Null]
        tables == AfterTableMap(AfterTableMap(<<>>, [table_id |-> 1, types |-> <<"blob">>, metadata |-> <<4>>]),
                    [table_id |-> 1, types |-> [i \in DOMAIN input |-> ColumnType(i)],
                     metadata |-> FlattenSeq([i \in DOMAIN input |-> WrittenMetadata(i)])])
        event(kind, id, row, image) ==
          [kind |-> kind, table_id |-> id, rows |-> row \o row,
           present |-> WrittenBitmap(image), present_after |-> WrittenBitmap(after)]
        twice(change) == <<change, change>>
    IN  Present(before) # {} /\ Present(after) # {} =>
          /\ RowChanges(tables, event("write", 1, WrittenRow(after), after)) = twice(<< <<>>, values(after)>>)
          /\ RowChanges(tables, event("delete", 1, WrittenRow(before), before)) = twice(<<values(before), <<>> >>)
          /\ RowChanges(tables, event("update", 1, WrittenRow(before) \o WrittenRow(after), before))
               = twice(<<values(before), values(after)>>)
          /\ RowChanges(tables, event("write", 2, WrittenRow(after), after)) = <<>>
=============================================================================
