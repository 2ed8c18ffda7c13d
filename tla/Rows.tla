-------------------------------- MODULE Rows ---------------------------------
(***************************************************************************)
(* Result rows as bytes: how the server side of the library builds them    *)
(* and how the client parses them, in the text and in the binary protocol. *)
(* A value is Null or <<bytes>>; a column is of one byte (tiny) or of a    *)
(* length that goes before the value (string).                             *)
(***************************************************************************)
EXTENDS Integers, Sequences, SequencesExt

Null == <<>>

\* PacketCursor: a byte, and so many bytes from a position on.  It throws past the end, where
\* there are 0 bytes here that nobody wrote.
ByteAt(bytes, at) == IF at <= Len(bytes) THEN bytes[at] ELSE 0
Slice(bytes, at, length) == SubSeq(bytes, at, Min({at + length - 1, Len(bytes)}))

\* Mutant of LenEnc: the marker of NULL is taken for a length.
LenEncInclusive(n) == IF n <= 251 THEN <<n>> ELSE <<252, n % 256, n \div 256>>

\* append_lenenc_int: an integer in 1, 3, 4 or 9 bytes.  Numbers here are below 2^32.
Weight == <<1, 256, 65536, 16777216>>
LittleEndian(n, width) == [i \in 1..width |-> IF i > 4 THEN 0 ELSE (n \div Weight[i]) % 256]
LenEnc(n) ==
  IF n < 251 THEN <<n>>
  ELSE IF n < Weight[3] THEN <<252>> \o LittleEndian(n, 2)
  ELSE IF n < Weight[4] THEN <<253>> \o LittleEndian(n, 3)
  ELSE <<254>> \o LittleEndian(n, 8)
LenEncBytes(bytes) == LenEnc(Len(bytes)) \o bytes

\* read_lenenc_int at a position: the integer, and the position after it.
Integer(bytes, at, width) ==
  LET digit(i) == IF i <= width THEN ByteAt(bytes, at + i - 1) ELSE 0 IN
  digit(1) + 256 * (digit(2) + 256 * (digit(3) + 256 * digit(4)))
ReadLenEnc(bytes, at) ==
  LET first == ByteAt(bytes, at)
      width == IF first = 252 THEN 2 ELSE IF first = 253 THEN 3 ELSE 8 IN
  IF first < 251 THEN [value |-> first, next |-> at + 1]
  ELSE [value |-> Integer(bytes, at + 1, width), next |-> at + 1 + width]

\* read_lenenc_view: 251 is no length, but NULL.
ReadLenEncBytes(bytes, at) ==
  LET length == ReadLenEnc(bytes, at) IN
  IF ByteAt(bytes, at) = 251 THEN [value |-> Null, next |-> at + 1]
  ELSE [value |-> <<Slice(bytes, length.next, length.value)>>, next |-> length.next + length.value]

\* Bitmaps: bit i of a sequence of bytes, counted from 0, and the bytes in which bits are set.
Mask == <<1, 2, 4, 8, 16, 32, 64, 128>>
HasBit(bytes, i) == (ByteAt(bytes, i \div 8 + 1) \div Mask[(i % 8) + 1]) % 2 = 1
Bitmap(bits, length) ==
  [k \in 1..length |->
     LET bit(j) == IF 8 * (k - 1) + j - 1 \in bits THEN Mask[j] ELSE 0 IN
     bit(1) + bit(2) + bit(3) + bit(4) + bit(5) + bit(6) + bit(7) + bit(8)]

-----------------------------------------------------------------------------
(* The server's rows.  A row that is too short is filled up with NULL.     *)

Item(row, i) == IF i <= Len(row) THEN row[i] ELSE Null

\* build_text_row_payload
TextRow(row, fields) ==
  FlattenSeq([i \in DOMAIN fields |->
    IF Item(row, i) = Null THEN <<251>> ELSE LenEncBytes(Item(row, i)[1])])

\* append_binary_result_value
BinaryValue(value, field) == IF field = "tiny" THEN value ELSE LenEncBytes(value)

\* build_binary_row_payload: the bits of the NULLs start at the third.
BitmapLength(count) == (count + 7 + 2) \div 8
BinaryRow(row, fields) ==
  LET nulls == {i \in DOMAIN fields : Item(row, i) = Null} IN
  <<0>> \o Bitmap({i + 1 : i \in nulls}, BitmapLength(Len(fields)))
        \o FlattenSeq([i \in DOMAIN fields |->
             IF i \in nulls THEN <<>> ELSE BinaryValue(Item(row, i)[1], fields[i])])

-----------------------------------------------------------------------------
(* The client's.                                                           *)

\* is_eof_packet, is_err_packet
IsEof(payload) == Len(payload) \in 1..8 /\ payload[1] = 254
IsErr(payload) == payload # <<>> /\ payload[1] = 255

\* A parser goes from column to column: the values, and where the next byte is.
Columns(fields, start, Read(_, _)) ==
  LET after[i \in 0..Len(fields)] ==
        IF i = 0 THEN [row |-> <<>>, next |-> start]
        ELSE LET before == after[i - 1]
                 column == Read(i, before.next)
             IN  [row |-> Append(before.row, column.value), next |-> column.next]
  IN after[Len(fields)]

\* parse_text_row, parse_text_row_view
ParsedTextRow(payload, fields) ==
  Columns(fields, 1, LAMBDA i, at : ReadLenEncBytes(payload, at)).row

\* parse_binary_value
ReadBinaryValue(payload, at, field) ==
  IF field = "tiny" THEN [value |-> <<Slice(payload, at, 1)>>, next |-> at + 1] ELSE ReadLenEncBytes(payload, at)

\* parse_binary_row
ParsedBinaryRow(payload, fields) ==
  LET bitmap == Slice(payload, 2, BitmapLength(Len(fields))) IN
  Columns(fields, 2 + BitmapLength(Len(fields)), LAMBDA i, at :
    IF HasBit(bitmap, i + 1) THEN [value |-> Null, next |-> at]
    ELSE ReadBinaryValue(payload, at, fields[i])).row
=============================================================================
