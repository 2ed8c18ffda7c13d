----------------------------- MODULE BinlogRows ------------------------------
(***************************************************************************)
(* Row events of a binlog: the parser remembers the tables that table map  *)
(* events announce and takes the rows of later events apart by their       *)
(* column types, with a bitmap of the columns that are present and, for    *)
(* each row, one of the NULLs among these.                                 *)
(*                                                                         *)
(* A column is tiny (one byte), varchar (its metadata, the greatest        *)
(* length, decides on a length of one byte or two) or blob (its metadata   *)
(* is the width of the length).                                            *)
(***************************************************************************)
EXTENDS Rows

\* parse_table_map_column_metadata: bytes of metadata per type.
MetadataWidth(type) == IF type = "varchar" THEN 2 ELSE IF type = "blob" THEN 1 ELSE 0

\* parse_table_map_metadata
Metadata(types, bytes) ==
  Columns(types, 1, LAMBDA i, at :
    [value |-> Integer(bytes, at, MetadataWidth(types[i])), next |-> at + MetadataWidth(types[i])]).row

\* parse_table_map_event_body: what the parser knows of the tables afterwards.
AfterTableMap(tables, event) ==
  [id \in DOMAIN tables \cup {event.table_id} |->
     IF id = event.table_id THEN [types |-> event.types, metadata |-> Metadata(event.types, event.metadata)]
     ELSE tables[id]]

\* bitmap_byte_length, bitmap_set_count
BitmapBytes(count) == (count + 7) \div 8
SetCount(bitmap, count) == Cardinality({i \in 0..(count - 1) : HasBit(bitmap, i)})

\* read_binlog_row_value
ReadBinlogValue(bytes, at, type, metadata) ==
  LET width == IF type = "varchar" THEN IF metadata > 255 THEN 2 ELSE 1
               ELSE IF metadata = 0 THEN 1 ELSE metadata
      length == Integer(bytes, at, width) IN
  IF type = "tiny" THEN [value |-> <<Slice(bytes, at, 1)>>, next |-> at + 1]
  ELSE [value |-> <<Slice(bytes, at + width, length)>>, next |-> at + width + length]

\* Mutant of RowValues: the NULLs are looked up by the number of the column.
RowValuesByColumn(bytes, start, table, present) ==
  LET nulls == BitmapBytes(Len(table.types)) IN
  Columns(table.types, start + nulls, LAMBDA i, at :
    IF ~HasBit(present, i - 1) \/ HasBit(Slice(bytes, start, nulls), i - 1)
    THEN [value |-> Null, next |-> at]
    ELSE ReadBinlogValue(bytes, at, table.types[i], table.metadata[i]))

\* read_binlog_row_values: absent columns are NULL, and the NULLs are numbered among the
\* columns that are present.
RowValues(bytes, start, table, present) ==
  LET nulls == BitmapBytes(SetCount(present, Len(table.types))) IN
  Columns(table.types, start + nulls, LAMBDA i, at :
    IF ~HasBit(present, i - 1) \/ HasBit(Slice(bytes, start, nulls), SetCount(present, i - 1))
    THEN [value |-> Null, next |-> at]
    ELSE ReadBinlogValue(bytes, at, table.types[i], table.metadata[i]))

\* parse_rows_event_body: a row at a position, before and after, and the rows up to the end
\* of an event whose table is known (no row is without a byte); an event of another table
\* has none.
RowChange(table, event, at) ==
  LET Image(has, present, from) ==
        IF has THEN RowValues(event.rows, from, table, present) ELSE [row |-> <<>>, next |-> from]
      before == Image(event.kind # "write", event.present, at)
      after == Image(event.kind # "delete",
                     IF event.kind = "update" THEN event.present_after ELSE event.present, before.next)
  IN [rows |-> <<before.row, after.row>>, next |-> after.next]
RowChanges(tables, event) ==
  LET read[k \in 0..Len(event.rows)] ==
        IF k = 0 THEN [changes |-> <<>>, next |-> 1]
        ELSE LET last == read[k - 1]
                 change == RowChange(tables[event.table_id], event, last.next) IN
             IF last.next > Len(event.rows) THEN last
             ELSE [changes |-> Append(last.changes, change.rows), next |-> change.next]
  IN IF event.table_id \in DOMAIN tables THEN read[Len(event.rows)].changes ELSE <<>>
=============================================================================
