----------------------------- MODULE WireProofs -----------------------------
(***************************************************************************)
(* What is written is read back: for values of every length and rows of    *)
(* every number of columns, and for payloads of every length and number,   *)
(* in packets and in chunks of any size.                                   *)
(***************************************************************************)
EXTENDS Wire, FramingProofs, FunctionTheorems, FiniteSetTheorems

-----------------------------------------------------------------------------
(***************************************************************************)
(* Integers and strings.                                                   *)
(***************************************************************************)

LEMMA Weights ==
  /\ Weight[1] = 1 /\ Weight[2] = 256 /\ \A i \in 1..4 : Weight[i] \in Nat \ {0}
  /\ Weight[3] \in Nat /\ Weight[4] \in Nat /\ Weight[3] > 256 /\ Weight[4] > Weight[3]
  BY SMT DEF Weight

\* A number from its bytes.
LEMMA Digits ==
  ASSUME NEW n \in Nat, n <= MaxLength
  PROVE  LET digit(i) == (n \div Weight[i]) % 256 IN
         /\ n < 256 => n = digit(1)
         /\ n < Weight[3] => n = digit(1) + 256 * digit(2)
         /\ n < Weight[4] => n = digit(1) + 256 * (digit(2) + 256 * digit(3))
         /\ n = digit(1) + 256 * (digit(2) + 256 * (digit(3) + 256 * digit(4)))
  BY SMT DEF Weight, MaxLength

LEMMA LittleEndianHeld ==
  ASSUME NEW stream \in Seq(Nat), NEW at \in Nat \ {0}, NEW n \in Nat, n <= MaxLength,
         NEW width \in {1, 2, 3, 4, 8},
         width = 1 => n < 256, width = 2 => n < Weight[3], width = 3 => n < Weight[4],
         Holds(stream, at, LittleEndian(n, width))
  PROVE  Integer(stream, at, width) = n
  <1> DEFINE digits == LittleEndian(n, width)
             byte(i) == ByteAt(stream, at + i - 1)
             digit(i) == (n \div Weight[i]) % 256
             of(i) == IF i <= width THEN byte(i) ELSE 0
  <1>1. Len(digits) = width /\ \A i \in 1..width : digits[i] = IF i > 4 THEN 0 ELSE digit(i)
    BY DEF LittleEndian
  <1> HIDE DEF digits, digit
  <1>2. \A i \in 1..width : byte(i) = digits[i]
    BY <1>1 DEF Holds, ByteAt, digits
  <1> HIDE DEF byte
  <1>3. Integer(stream, at, width) = of(1) + 256 * (of(2) + 256 * (of(3) + 256 * of(4)))
    BY DEF Integer, byte
  <1>4. \A i \in 1..4 : digit(i) \in Int
    <2>1. ASSUME NEW i \in 1..4 PROVE n \div Weight[i] \in Int
      <3> DEFINE w == Weight[i]
      <3>1. w \in Nat \ {0}
        BY Weights
      <3> HIDE DEF w
      <3>2. n \div w \in Int
        BY <3>1, Division
      <3> QED
        BY <3>2 DEF w
    <2> QED
      BY <2>1 DEF digit
  <1>5. \A i \in 1..4 : of(i) = IF i <= width THEN digit(i) ELSE 0
    BY <1>1, <1>2
  <1>6. /\ n < 256 => n = digit(1)
        /\ n < Weight[3] => n = digit(1) + 256 * digit(2)
        /\ n < Weight[4] => n = digit(1) + 256 * (digit(2) + 256 * digit(3))
        /\ n = digit(1) + 256 * (digit(2) + 256 * (digit(3) + 256 * digit(4)))
    BY Digits DEF digit
  <1> HIDE DEF of
  <1>7. CASE width = 1
    BY <1>3, <1>4, <1>5, <1>6, <1>7
  <1>8. CASE width = 2
    BY <1>3, <1>4, <1>5, <1>6, <1>8
  <1>9. CASE width = 3
    BY <1>3, <1>4, <1>5, <1>6, <1>9
  <1>10. CASE width \in {4, 8}
    BY <1>3, <1>4, <1>5, <1>6, <1>10
  <1> QED
    BY <1>7, <1>8, <1>9, <1>10

LEMMA LittleEndianIsBytes ==
  ASSUME NEW n \in Nat, NEW width \in Nat
  PROVE  LittleEndian(n, width) \in Seq(Nat) /\ Len(LittleEndian(n, width)) = width
  <1>1. \A i \in 1..4 : Weight[i] \in Nat \ {0}
    BY Weights
  <1>2. ASSUME NEW i \in 1..width PROVE (IF i > 4 THEN 0 ELSE (n \div Weight[i]) % 256) \in Nat
    <2>1. CASE i > 4
      BY <2>1
    <2>2. CASE i <= 4
      <3>1. Weight[i] \in Nat \ {0}
        BY <1>1, <2>2
      <3>2. n \div Weight[i] \in Nat
        BY <3>1, Division
      <3> QED
        BY <2>2, <3>2
    <2> QED
      BY <2>1, <2>2
  <1> QED
    BY <1>2 DEF LittleEndian

LEMMA LenEncIsBytes ==
  ASSUME NEW n \in Nat, n <= MaxLength
  PROVE  /\ LenEnc(n) \in Seq(Nat) /\ LenEnc(n) # <<>>
         /\ LenEnc(n)[1] \in (0..250) \cup {252, 253, 254}
         /\ LenEnc(n)[1] = 254 => n > 8 /\ Len(LenEnc(n)) = 9
  <1>1. \A w \in {2, 3, 8} : LittleEndian(n, w) \in Seq(Nat) /\ Len(LittleEndian(n, w)) = w
    BY LittleEndianIsBytes
  <1>2. CASE n < 251
    BY <1>2 DEF LenEnc
  <1>3. CASE n >= 251 /\ n < Weight[3]
    <2>1. LenEnc(n) = <<252>> \o LittleEndian(n, 2)
      BY <1>3, Weights DEF LenEnc
    <2> QED
      BY <1>1, <2>1
  <1>4. CASE n >= Weight[3] /\ n < Weight[4]
    <2>1. LenEnc(n) = <<253>> \o LittleEndian(n, 3)
      BY <1>4, Weights DEF LenEnc
    <2> QED
      BY <1>1, <2>1
  <1>5. CASE n >= Weight[4]
    <2>1. LenEnc(n) = <<254>> \o LittleEndian(n, 8)
      BY <1>5, Weights DEF LenEnc
    <2>2. n > 8
      BY <1>5, Weights
    <2>3. LittleEndian(n, 8) \in Seq(Nat) /\ Len(LittleEndian(n, 8)) = 8 /\ 254 \in Nat
      BY <1>1
    <2>4. LenEnc(n) \in Seq(Nat) /\ LenEnc(n) # <<>> /\ LenEnc(n)[1] = 254 /\ Len(LenEnc(n)) = 9
      <3> DEFINE marker == 254
                 digits == LittleEndian(n, 8)
      <3>1. marker \in Nat /\ digits \in Seq(Nat) /\ Len(digits) = 8 /\ LenEnc(n) = <<marker>> \o digits
        BY <2>1, <2>3
      <3>2. marker = 254
        OBVIOUS
      <3> HIDE DEF marker, digits
      <3>3. /\ <<marker>> \o digits \in Seq(Nat) /\ Len(<<marker>> \o digits) = Len(digits) + 1
            /\ (<<marker>> \o digits)[1] = marker /\ <<marker>> \o digits # <<>>
        BY <3>1, HeadFirst
      <3> QED
        BY <3>1, <3>2, <3>3
    <2> QED
      BY <2>2, <2>4
  <1> QED
    BY <1>2, <1>3, <1>4, <1>5, Weights

\* read_lenenc_int reads what append_lenenc_int wrote, of each of the four lengths.
LEMMA LenEncHeld ==
  ASSUME NEW stream \in Seq(Nat), NEW at \in Nat \ {0}, NEW n \in Nat, n <= MaxLength,
         Holds(stream, at, LenEnc(n))
  PROVE  /\ ReadLenEnc(stream, at) = [value |-> n, next |-> at + Len(LenEnc(n))]
         /\ ByteAt(stream, at) # 251
  <1>1. CASE n < 251
    <2>1. LenEnc(n) = <<n>>
      BY <1>1 DEF LenEnc
    <2>2. ByteAt(stream, at) = n
      BY <2>1 DEF Holds, ByteAt
    <2> QED
      BY <1>1, <2>1, <2>2 DEF ReadLenEnc
  <1>2. ASSUME NEW marker \in {252, 253, 254}, NEW width \in {2, 3, 8}, n > 250,
               width = IF marker = 252 THEN 2 ELSE IF marker = 253 THEN 3 ELSE 8,
               width = 2 => n < Weight[3], width = 3 => n < Weight[4],
               LenEnc(n) = <<marker>> \o LittleEndian(n, width)
        PROVE  /\ ReadLenEnc(stream, at) = [value |-> n, next |-> at + Len(LenEnc(n))]
               /\ ByteAt(stream, at) # 251
    <2> DEFINE digits == LittleEndian(n, width)
    <2>1. digits \in Seq(Nat) /\ Len(digits) = width
      <3>1. width \in Nat
        OBVIOUS
      <3>2. LittleEndian(n, width) \in Seq(Nat) /\ Len(LittleEndian(n, width)) = width
        BY ONLY n \in Nat, <3>1, LittleEndianIsBytes
      <3> QED
        BY <3>2
    <2> HIDE DEF digits
    <2>2. <<marker>> \in Seq(Nat) /\ Len(<<marker>>) = 1 /\ LenEnc(n) = <<marker>> \o digits
      BY <1>2 DEF digits
    <2>3. at <= Len(stream) /\ stream[at] = marker /\ Holds(stream, at + 1, digits)
      BY <2>1, <2>2, HoldsHead
    <2>4. ByteAt(stream, at) = marker
      BY <2>3 DEF ByteAt
    <2>5. Integer(stream, at + 1, width) = n
      BY <1>2, <2>3, LittleEndianHeld DEF digits
    <2>6. Len(LenEnc(n)) = 1 + width
      BY <2>1, <2>2
    <2>7. ReadLenEnc(stream, at) = [value |-> Integer(stream, at + 1, width), next |-> at + 1 + width]
      <3>1. ByteAt(stream, at) >= 251
        BY <2>4
      <3>2. (IF marker = 252 THEN 2 ELSE IF marker = 253 THEN 3 ELSE 8) = width
        BY <1>2
      <3> QED
        BY <2>4, <3>1, <3>2 DEF ReadLenEnc
    <2> QED
      BY <1>2, <2>4, <2>5, <2>6, <2>7
  <1>3. CASE n >= 251 /\ n < Weight[3]
    <2>1. LenEnc(n) = <<252>> \o LittleEndian(n, 2)
      BY <1>3, Weights DEF LenEnc
    <2> QED
      BY <1>2, <1>3, <2>1, Weights
  <1>4. CASE n >= Weight[3] /\ n < Weight[4]
    <2>1. LenEnc(n) = <<253>> \o LittleEndian(n, 3)
      BY <1>4, Weights DEF LenEnc
    <2> QED
      BY <1>2, <1>4, <2>1, Weights
  <1>5. CASE n >= Weight[4]
    <2>1. LenEnc(n) = <<254>> \o LittleEndian(n, 8)
      BY <1>5, Weights DEF LenEnc
    <2> QED
      BY <1>2, <1>5, <2>1, Weights
  <1> QED
    BY <1>1, <1>3, <1>4, <1>5, Weights

LEMMA LenEncBytesIsBytes ==
  ASSUME NEW bytes, IsValue(bytes)
  PROVE  /\ LenEncBytes(bytes) \in Seq(Nat) /\ LenEncBytes(bytes) # <<>>
         /\ LenEncBytes(bytes)[1] \in (0..250) \cup {252, 253, 254}
         /\ LenEncBytes(bytes)[1] = 254 => Len(LenEncBytes(bytes)) > 8
  <1> DEFINE length == LenEnc(Len(bytes))
  <1>1. bytes \in Seq(Nat) /\ Len(bytes) \in Nat /\ Len(bytes) <= MaxLength
    BY DEF IsValue
  <1>2. /\ length \in Seq(Nat) /\ length # <<>> /\ length[1] \in (0..250) \cup {252, 253, 254}
        /\ length[1] = 254 => Len(length) = 9
    BY <1>1, LenEncIsBytes
  <1>3. LenEncBytes(bytes) = length \o bytes
    BY DEF LenEncBytes
  <1> HIDE DEF length
  <1>4. /\ length \o bytes \in Seq(Nat) /\ Len(length \o bytes) = Len(length) + Len(bytes)
        /\ (length \o bytes)[1] = length[1] /\ Len(length) > 0
    BY <1>1, <1>2
  <1>5. length \o bytes # <<>>
    BY <1>1, <1>4
  <1>6. ASSUME length[1] = 254 PROVE Len(length \o bytes) > 8
    <2>1. Len(length) = 9 /\ Len(bytes) \in Nat
      BY <1>1, <1>2, <1>6
    <2> QED
      BY <1>4, <2>1
  <1> QED
    BY <1>2, <1>3, <1>4, <1>5, <1>6

LEMMA SliceHeld ==
  ASSUME NEW stream \in Seq(Nat), NEW at \in Nat \ {0}, NEW bytes \in Seq(Nat), Holds(stream, at, bytes)
  PROVE  Slice(stream, at, Len(bytes)) = bytes
  <1> DEFINE n == Len(bytes)
             last == at + n - 1
  <1>1. last <= Len(stream) /\ last \in Int /\ Len(stream) \in Int
    BY DEF Holds
  <1>2. Min({last, Len(stream)}) = last
    <2> HIDE DEF last
    <2> QED
      BY <1>1, MinOfTwo
  <1>3. Slice(stream, at, n) = SubSeq(stream, at, last)
    BY <1>2 DEF Slice
  <1>4. SubSeq(stream, at, last) = bytes
    BY HoldsCut
  <1> QED
    BY <1>3, <1>4

LEMMA LenEncBytesHeld ==
  ASSUME NEW stream \in Seq(Nat), NEW at \in Nat \ {0}, NEW bytes, IsValue(bytes),
         Holds(stream, at, LenEncBytes(bytes))
  PROVE  ReadLenEncBytes(stream, at) = [value |-> <<bytes>>, next |-> at + Len(LenEncBytes(bytes))]
  <1> DEFINE n == Len(bytes)
             length == LenEnc(n)
             from == at + Len(length)
  <1>1. bytes \in Seq(Nat) /\ n \in Nat /\ n <= MaxLength
    BY DEF IsValue
  <1>2. length \in Seq(Nat)
    BY <1>1, LenEncIsBytes
  <1>3. LenEncBytes(bytes) = length \o bytes
    BY DEF LenEncBytes
  <1> HIDE DEF length
  <1>4. Len(LenEncBytes(bytes)) = Len(length) + n /\ Len(length) \in Nat
    BY <1>1, <1>2, <1>3
  <1>5. Holds(stream, at, length) /\ Holds(stream, from, bytes)
    BY <1>1, <1>2, <1>3, HoldsParts
  <1>6. ReadLenEnc(stream, at) = [value |-> n, next |-> from] /\ ByteAt(stream, at) # 251
    BY <1>1, <1>5, LenEncHeld DEF length
  <1>7. Slice(stream, from, n) = bytes
    <2>1. from \in Nat \ {0}
      BY <1>4
    <2> HIDE DEF from
    <2> QED
      BY <1>1, <1>5, <2>1, SliceHeld
  <1>8. ReadLenEncBytes(stream, at) = [value |-> <<Slice(stream, from, n)>>, next |-> from + n]
    BY <1>6 DEF ReadLenEncBytes
  <1> QED
    BY <1>1, <1>4, <1>7, <1>8

-----------------------------------------------------------------------------
(***************************************************************************)
(* Bitmaps.                                                                *)
(***************************************************************************)

LEMMA Bits ==
  ASSUME NEW c1 \in {0, 1}, NEW c2 \in {0, 1}, NEW c3 \in {0, 1}, NEW c4 \in {0, 1},
         NEW c5 \in {0, 1}, NEW c6 \in {0, 1}, NEW c7 \in {0, 1}, NEW c8 \in {0, 1}
  PROVE  LET byte == c1 + 2 * c2 + 4 * c3 + 8 * c4 + 16 * c5 + 32 * c6 + 64 * c7 + 128 * c8 IN
         /\ (byte \div 1) % 2 = c1 /\ (byte \div 2) % 2 = c2
         /\ (byte \div 4) % 2 = c3 /\ (byte \div 8) % 2 = c4
         /\ (byte \div 16) % 2 = c5 /\ (byte \div 32) % 2 = c6
         /\ (byte \div 64) % 2 = c7 /\ (byte \div 128) % 2 = c8
  BY SMT

\* A bit is set if it has been put into the bitmap.
LEMMA BitmapRead ==
  ASSUME NEW bits, NEW length \in Nat, NEW i \in 0..(8 * length - 1)
  PROVE  HasBit(Bitmap(bits, length), i) <=> i \in bits
  <1> DEFINE q == i \div 8
             r == i % 8
             c(j) == IF 8 * q + j - 1 \in bits THEN 1 ELSE 0
             byte == c(1) + 2 * c(2) + 4 * c(3) + 8 * c(4) + 16 * c(5) + 32 * c(6) + 64 * c(7) + 128 * c(8)
  <1>1. q \in Nat /\ r \in 0..7 /\ i = 8 * q + r /\ q + 1 \in 1..length /\ q + 1 - 1 = q
    OBVIOUS
  <1> HIDE DEF q, r
  <1>2. \A j \in 1..8 : c(j) \in {0, 1}
    OBVIOUS
  <1>3. ByteAt(Bitmap(bits, length), q + 1) = byte
    <2> DEFINE b(j) == IF 8 * (q + 1 - 1) + j - 1 \in bits THEN Mask[j] ELSE 0
    <2>1. Bitmap(bits, length)[q + 1] = b(1) + b(2) + b(3) + b(4) + b(5) + b(6) + b(7) + b(8)
      BY <1>1 DEF Bitmap
    <2>2. /\ b(1) = c(1) /\ b(2) = 2 * c(2) /\ b(3) = 4 * c(3) /\ b(4) = 8 * c(4)
          /\ b(5) = 16 * c(5) /\ b(6) = 32 * c(6) /\ b(7) = 64 * c(7) /\ b(8) = 128 * c(8)
      BY <1>1 DEF Mask
    <2>3. Len(Bitmap(bits, length)) = length
      BY DEF Bitmap
    <2> HIDE DEF b, c
    <2>4. Bitmap(bits, length)[q + 1] = byte
      BY <2>1, <2>2
    <2> QED
      BY <1>1, <2>3, <2>4 DEF ByteAt
  <1>4. (byte \div Mask[r + 1]) % 2 = c(r + 1)
    <2>1. /\ (byte \div 1) % 2 = c(1) /\ (byte \div 2) % 2 = c(2)
          /\ (byte \div 4) % 2 = c(3) /\ (byte \div 8) % 2 = c(4)
          /\ (byte \div 16) % 2 = c(5) /\ (byte \div 32) % 2 = c(6)
          /\ (byte \div 64) % 2 = c(7) /\ (byte \div 128) % 2 = c(8)
      <3>1. /\ c(1) \in {0, 1} /\ c(2) \in {0, 1} /\ c(3) \in {0, 1} /\ c(4) \in {0, 1}
            /\ c(5) \in {0, 1} /\ c(6) \in {0, 1} /\ c(7) \in {0, 1} /\ c(8) \in {0, 1}
        OBVIOUS
      <3> HIDE DEF c
      <3> QED
        BY <3>1, Bits
    <2>2. r = 0 \/ r = 1 \/ r = 2 \/ r = 3 \/ r = 4 \/ r = 5 \/ r = 6 \/ r = 7
      BY <1>1
    <2>3. /\ Mask[1] = 1 /\ Mask[2] = 2 /\ Mask[3] = 4 /\ Mask[4] = 8
          /\ Mask[5] = 16 /\ Mask[6] = 32 /\ Mask[7] = 64 /\ Mask[8] = 128
      BY DEF Mask
    <2> HIDE DEF c, byte
    <2> QED
      BY <2>1, <2>2, <2>3
  <1>5. c(r + 1) = 1 <=> i \in bits
    BY <1>1
  <1> HIDE DEF c, byte
  <1>6. HasBit(Bitmap(bits, length), i) <=> (byte \div Mask[r + 1]) % 2 = 1
    BY <1>3 DEF HasBit, q, r
  <1> QED
    BY <1>4, <1>5, <1>6

-----------------------------------------------------------------------------
(***************************************************************************)
(* Rows.                                                                   *)
(***************************************************************************)

IsItem(value, field) ==
  /\ field \in {"tiny", "string"}
  /\ \/ value = Null
     \/ \E bytes : value = <<bytes>> /\ IsValue(bytes) /\ (field = "tiny" => Len(bytes) = 1)

IsRow(row, fields) ==
  /\ \E S : fields \in Seq(S)
  /\ \E S : row \in Seq(S)
  /\ Len(row) = Len(fields)
  /\ \A i \in 1..Len(row) : IsItem(row[i], fields[i])

\* A column of a row in the text protocol.
TextPiece(value) == IF value = Null THEN <<251>> ELSE LenEncBytes(value[1])

LEMMA TextPieceRead ==
  ASSUME NEW value, NEW field, IsItem(value, field)
  PROVE  /\ TextPiece(value) \in Seq(Nat) /\ TextPiece(value) # <<>>
         /\ TextPiece(value)[1] # 255 /\ (TextPiece(value)[1] = 254 => Len(TextPiece(value)) > 8)
         /\ \A stream \in Seq(Nat), at \in Nat \ {0} :
              Holds(stream, at, TextPiece(value)) =>
                ReadLenEncBytes(stream, at) = [value |-> value, next |-> at + Len(TextPiece(value))]
  <1>1. CASE value = Null
    <2>1. TextPiece(value) = <<251>>
      BY <1>1 DEF TextPiece
    <2>2. ASSUME NEW stream \in Seq(Nat), NEW at \in Nat \ {0}, Holds(stream, at, TextPiece(value))
          PROVE  ReadLenEncBytes(stream, at) = [value |-> value, next |-> at + Len(TextPiece(value))]
      <3>1. ByteAt(stream, at) = 251
        BY <2>1, <2>2 DEF Holds, ByteAt
      <3> QED
        BY <1>1, <2>1, <3>1 DEF ReadLenEncBytes
    <2> QED
      BY <2>1, <2>2
  <1>2. CASE value # Null
    <2>1. PICK bytes : value = <<bytes>> /\ IsValue(bytes)
      BY <1>2 DEF IsItem
    <2>2. TextPiece(value) = LenEncBytes(bytes)
      BY <1>2, <2>1 DEF TextPiece
    <2>3. /\ LenEncBytes(bytes) \in Seq(Nat) /\ LenEncBytes(bytes) # <<>>
          /\ LenEncBytes(bytes)[1] # 255 /\ (LenEncBytes(bytes)[1] = 254 => Len(LenEncBytes(bytes)) > 8)
      <3>1. /\ LenEncBytes(bytes) \in Seq(Nat) /\ LenEncBytes(bytes) # <<>>
            /\ LenEncBytes(bytes)[1] \in (0..250) \cup {252, 253, 254}
            /\ LenEncBytes(bytes)[1] = 254 => Len(LenEncBytes(bytes)) > 8
        BY <2>1, LenEncBytesIsBytes
      <3> DEFINE first == LenEncBytes(bytes)[1]
      <3>2. first \in (0..250) \cup {252, 253, 254}
        BY <3>1
      <3> HIDE DEF first
      <3>3. first # 255
        BY <3>2
      <3> QED
        BY <3>1, <3>3 DEF first
    <2>4. \A stream \in Seq(Nat), at \in Nat \ {0} :
            Holds(stream, at, LenEncBytes(bytes)) =>
              ReadLenEncBytes(stream, at) = [value |-> <<bytes>>, next |-> at + Len(LenEncBytes(bytes))]
      BY <2>1, LenEncBytesHeld
    <2> QED
      BY <2>1, <2>2, <2>3, <2>4
  <1> QED
    BY <1>1, <1>2

\* parse_text_row reads what build_text_row_payload built.
LEMMA TextRowRead ==
  ASSUME NEW row, NEW fields, IsRow(row, fields)
  PROVE  /\ ParsedTextRow(TextRow(row, fields), fields) = row
         /\ ~IsEof(TextRow(row, fields)) /\ ~IsErr(TextRow(row, fields))
  <1> DEFINE n == Len(fields)
             seqs == [i \in 1..n |-> TextPiece(row[i])]
             payload == TextRow(row, fields)
  <1>1. n \in Nat /\ DOMAIN fields = 1..n /\ Len(row) = n /\ \A i \in 1..n : IsItem(row[i], fields[i])
    BY DEF IsRow
  <1> HIDE DEF n
  <1>2. \A i \in 1..n : seqs[i] = TextPiece(row[i]) /\ TextPiece(row[i]) \in Seq(Nat)
    BY <1>1, TextPieceRead
  <1>3. seqs \in Seq(Seq(Nat)) /\ Len(seqs) = n
    BY <1>1, <1>2
  <1>4. payload = FlattenSeq(seqs)
    <2>1. [i \in DOMAIN fields |-> IF Item(row, i) = Null THEN <<251>> ELSE LenEncBytes(Item(row, i)[1])] = seqs
      BY <1>1 DEF Item, TextPiece
    <2> HIDE DEF seqs
    <2> QED
      BY <2>1 DEF TextRow
  <1> HIDE DEF seqs, payload
  <1>5. payload \in Seq(Nat) /\ Holds(payload, 1, payload)
    <2>1. \E f : Joins(f, seqs, Nat) /\ FlattenSeq(seqs) = f[Len(seqs)]
      BY <1>3, FlattenedExist
    <2>2. FlattenSeq(seqs) \in Seq(Nat)
      BY <1>3, <2>1, Flattened
    <2> QED
      BY <1>4, <2>2, HoldsItself
  <1>6. PICK place : Places(payload, 1, seqs, place)
    <2> DEFINE start == 1
    <2>1. start \in Nat \ {0} /\ Holds(payload, start, FlattenSeq(seqs))
      BY <1>4, <1>5
    <2> HIDE DEF start
    <2>2. \E place : Places(payload, start, seqs, place)
      BY <1>3, <1>5, <2>1, Placed
    <2> QED
      BY <2>2 DEF start
  <1>7. /\ place[0] = 1
        /\ \A i \in 1..n : /\ i - 1 \in 0..n /\ place[i - 1] \in Nat \ {0}
                           /\ place[i] = place[i - 1] + Len(seqs[i])
                           /\ Holds(payload, place[i - 1], seqs[i])
    BY <1>3, <1>6 DEF Places
  <1>9. ASSUME NEW i \in 1..n
        PROVE  ReadLenEncBytes(payload, place[i - 1]) = [value |-> row[i], next |-> place[i]]
    <2> DEFINE at == place[i - 1]
               piece == TextPiece(row[i])
    <2>1. at \in Nat \ {0} /\ Holds(payload, at, piece) /\ place[i] = at + Len(piece)
      BY <1>2, <1>7
    <2> HIDE DEF at
    <2>3. ReadLenEncBytes(payload, at) = [value |-> row[i], next |-> at + Len(piece)]
      BY <1>1, <1>5, <2>1, TextPieceRead
    <2> QED
      BY <2>1, <2>3 DEF at
  <1> DEFINE Read(i, at) == ReadLenEncBytes(payload, at)
             Runs(g) == g = [i \in 0..n |->
               IF i = 0 THEN [row |-> <<>>, next |-> 1]
               ELSE LET before == g[i - 1]
                        column == Read(i, before.next)
                    IN  [row |-> Append(before.row, column.value), next |-> column.next]]
             after == CHOOSE g : Runs(g)
             h == [i \in 0..n |-> [row |-> FirstOf(row, i), next |-> place[i]]]
  <1>10. ParsedTextRow(payload, fields) = after[n].row
    BY DEF ParsedTextRow, Columns, n
  <1>11. /\ h[0] = [row |-> <<>>, next |-> 1]
         /\ \A i \in 1..n : h[i] = [row |-> FirstOf(row, i), next |-> place[i]]
         /\ \A i \in 1..n : i # 0 /\ h[i - 1] = [row |-> FirstOf(row, i - 1), next |-> place[i - 1]]
    <2>1. FirstOf(row, 0) = <<>>
      BY DEF FirstOf
    <2>2. \A i \in 1..n : i - 1 \in 0..n
      BY <1>1
    <2> QED
      BY <1>1, <1>7, <2>1, <2>2
  <1>12. ASSUME NEW i \in 1..n
         PROVE  h[i] = [row |-> Append(h[i - 1].row, Read(i, h[i - 1].next).value),
                        next |-> Read(i, h[i - 1].next).next]
    <2>1. i \in Nat \ {0}
      BY <1>1
    <2>2. h[i - 1].row = FirstOf(row, i - 1) /\ h[i - 1].next = place[i - 1]
      <3>1. h[i - 1] = [row |-> FirstOf(row, i - 1), next |-> place[i - 1]]
        BY <1>11
      <3> HIDE DEF h
      <3> QED
        BY <3>1
    <2>3. Read(i, h[i - 1].next) = [value |-> row[i], next |-> place[i]]
      BY <1>9, <2>2
    <2> HIDE DEF h, Read
    <2>4. Append(h[i - 1].row, Read(i, h[i - 1].next).value) = FirstOf(row, i)
      <3>1. Append(FirstOf(row, i - 1), row[i]) = FirstOf(row, i)
        BY <2>1, FirstAppended
      <3>2. Read(i, h[i - 1].next).value = row[i]
        BY <2>3
      <3> QED
        BY <2>2, <3>1, <3>2
    <2>5. h[i] = [row |-> FirstOf(row, i), next |-> place[i]]
      BY <1>11
    <2>6. Read(i, h[i - 1].next).next = place[i]
      BY <2>3
    <2> QED
      BY <2>4, <2>5, <2>6
  <1>13. Runs(h)
    <2> DEFINE next == [i \in 0..n |->
                 IF i = 0 THEN [row |-> <<>>, next |-> 1]
                 ELSE [row |-> Append(h[i - 1].row, Read(i, h[i - 1].next).value),
                       next |-> Read(i, h[i - 1].next).next]]
    <2>1. h = [i \in 0..n |-> h[i]]
      OBVIOUS
    <2> HIDE DEF h, Read
    <2>2. \A i \in 0..n : h[i] = next[i]
      <3> TAKE i \in 0..n
      <3>1. CASE i = 0
        BY <1>11, <3>1
      <3>2. CASE i # 0
        <4>1. i \in 1..n
          BY <1>1, <3>2
        <4> QED
          BY <1>12, <3>2, <4>1
      <3> QED
        BY <3>1, <3>2
    <2>3. h = next
      BY <2>1, <2>2
    <2> QED
      BY <2>3
  <1>14. Runs(after)
    <2> HIDE DEF h, Runs
    <2> QED
      BY <1>13
  <1>15. after[n] = h[n]
    <2> HIDE DEF h, after, Read
    <2> DEFINE P == {i \in Nat : i <= n => after[i] = h[i]}
    <2>1. 0 \in P
      BY <1>1, <1>11, <1>14
    <2>2. ASSUME NEW k \in Nat, k < n, k \in P PROVE k + 1 \in P
      <3> DEFINE i == k + 1
      <3>1. i \in 1..n /\ i \in 0..n /\ i # 0 /\ i - 1 = k /\ after[k] = h[k]
        BY <1>1, <2>2
      <3> HIDE DEF i
      <3>2. after[i] = [row |-> Append(after[i - 1].row, Read(i, after[i - 1].next).value),
                        next |-> Read(i, after[i - 1].next).next]
        BY <1>14, <3>1
      <3>3. after[i] = h[i]
        BY <1>12, <3>1, <3>2
      <3> QED
        BY <3>1, <3>3 DEF i
    <2> HIDE DEF P
    <2>3. \A k \in 0..n : k \in P
      BY <1>1, <2>1, <2>2, InductionUpTo
    <2> QED
      BY <1>1, <2>3 DEF P
  <1>16. ParsedTextRow(payload, fields) = row
    <2>1. h[n].row = FirstOf(row, n)
      BY <1>1
    <2>2. FirstOf(row, n) = row
      BY <1>1, FirstAll DEF IsRow
    <2> HIDE DEF h, after
    <2> QED
      BY <1>10, <1>15, <2>1, <2>2
  <1>17. ~IsEof(payload) /\ ~IsErr(payload)
    <2>1. CASE n = 0
      <3>1. FlattenSeq(seqs) = seqs /\ seqs = <<>>
        BY <1>3, <2>1 DEF FlattenSeq
      <3> QED
        BY <1>4, <3>1 DEF IsEof, IsErr
    <2>2. CASE n # 0
      <3> DEFINE piece == TextPiece(row[1])
      <3>1. 1 \in 1..n /\ 1 - 1 = 0
        BY <1>1, <2>2
      <3>2. Holds(payload, place[0], seqs[1]) /\ seqs[1] = piece
        BY <1>2, <1>7, <3>1
      <3>3. piece \in Seq(Nat) /\ piece # <<>> /\ piece[1] # 255 /\ (piece[1] = 254 => Len(piece) > 8)
        BY <1>1, <3>1, TextPieceRead
      <3> HIDE DEF piece
      <3>4. Holds(payload, 1, piece)
        BY <1>7, <3>2
      <3>5. Len(piece) <= Len(payload) /\ payload[1] = piece[1]
        BY <1>5, <3>3, <3>4 DEF Holds
      <3>6. ASSUME payload[1] = 254 PROVE Len(payload) > 8
        <4>1. Len(piece) > 8 /\ Len(piece) \in Nat /\ Len(payload) \in Nat
          BY <1>5, <3>3, <3>5, <3>6
        <4> QED
          BY <3>5, <4>1
      <3>7. payload[1] # 255
        BY <3>3, <3>5
      <3>8. ~IsErr(payload)
        BY <3>7 DEF IsErr
      <3>9. ASSUME IsEof(payload) PROVE FALSE
        <4> DEFINE m == Len(payload)
        <4>1. payload[1] = 254
          BY <3>9 DEF IsEof
        <4>2. m > 8
          BY <3>6, <4>1
        <4>3. m \in 1..8
          BY <3>9 DEF IsEof
        <4> HIDE DEF m
        <4> QED
          BY <4>2, <4>3
      <3> QED
        BY <3>8, <3>9
    <2> QED
      BY <2>1, <2>2
  <1> QED
    BY <1>16, <1>17 DEF payload

\* A column of a row in the binary protocol.
BinaryPiece(value, field) == IF value = Null THEN <<>> ELSE BinaryValue(value[1], field)

LEMMA BinaryPieceRead ==
  ASSUME NEW value, NEW field, IsItem(value, field)
  PROVE  /\ BinaryPiece(value, field) \in Seq(Nat)
         /\ \A stream \in Seq(Nat), at \in Nat \ {0} :
              value # Null /\ Holds(stream, at, BinaryPiece(value, field)) =>
                ReadBinaryValue(stream, at, field)
                  = [value |-> value, next |-> at + Len(BinaryPiece(value, field))]
  <1>1. CASE value = Null
    BY <1>1 DEF BinaryPiece
  <1>2. CASE value # Null
    <2>1. PICK bytes : value = <<bytes>> /\ IsValue(bytes) /\ (field = "tiny" => Len(bytes) = 1)
      BY <1>2 DEF IsItem
    <2>2. BinaryPiece(value, field) = IF field = "tiny" THEN bytes ELSE LenEncBytes(bytes)
      BY <1>2, <2>1 DEF BinaryPiece, BinaryValue
    <2>3. bytes \in Seq(Nat) /\ LenEncBytes(bytes) \in Seq(Nat)
      BY <2>1, LenEncBytesIsBytes DEF IsValue
    <2>4. ASSUME NEW stream \in Seq(Nat), NEW at \in Nat \ {0}, field = "tiny", Holds(stream, at, bytes)
          PROVE  ReadBinaryValue(stream, at, field) = [value |-> <<bytes>>, next |-> at + 1]
      <3>1. Slice(stream, at, 1) = bytes
        BY <2>1, <2>3, <2>4, SliceHeld
      <3> QED
        BY <2>4, <3>1 DEF ReadBinaryValue
    <2>5. ASSUME NEW stream \in Seq(Nat), NEW at \in Nat \ {0}, field # "tiny",
                 Holds(stream, at, LenEncBytes(bytes))
          PROVE  ReadBinaryValue(stream, at, field) = [value |-> <<bytes>>, next |-> at + Len(LenEncBytes(bytes))]
      BY <2>1, <2>5, LenEncBytesHeld DEF ReadBinaryValue
    <2>6. CASE field = "tiny"
      BY <2>1, <2>2, <2>3, <2>4, <2>6
    <2>7. CASE field # "tiny"
      BY <2>1, <2>2, <2>3, <2>5, <2>7
    <2> QED
      BY <2>6, <2>7
  <1> QED
    BY <1>1, <1>2

\* The parts of a binary row: a byte 0, the bitmap of the NULLs, and the columns.
LEMMA BinaryRowParts ==
  ASSUME NEW payload \in Seq(Nat), NEW bitmap \in Seq(Nat), NEW values \in Seq(Nat),
         NEW zero, zero = 0, payload = <<zero>> \o bitmap \o values
  PROVE  /\ payload # <<>> /\ payload[1] = 0 /\ Slice(payload, 2, Len(bitmap)) = bitmap
         /\ 2 + Len(bitmap) \in Nat \ {0} /\ Holds(payload, 2 + Len(bitmap), values)
  <1> DEFINE one == 1
             head == <<zero>> \o bitmap
  <1>1. zero \in Nat /\ one \in Nat \ {0} /\ payload = head \o values /\ one = 1 /\ zero = 0
    OBVIOUS
  <1> HIDE DEF one
  <1>2. head \in Seq(Nat) /\ Len(head) = Len(bitmap) + 1 /\ Len(bitmap) \in Nat
    BY <1>1, HeadFirst
  <1>3. Holds(payload, one, head \o values)
    BY <1>1, HoldsItself
  <1>4. Holds(payload, one, head) /\ Holds(payload, one + Len(head), values)
    <2> HIDE DEF head
    <2> QED
      BY <1>1, <1>2, <1>3, HoldsParts
  <1>5. one <= Len(payload) /\ payload[one] = zero /\ Holds(payload, one + 1, bitmap)
    BY <1>1, <1>4, HoldsHead
  <1>6. one + 1 = 2 /\ one + Len(head) = 2 + Len(bitmap) /\ 2 + Len(bitmap) \in Nat \ {0}
    <2> HIDE DEF head
    <2> QED
      BY <1>1, <1>2
  <1>7. Slice(payload, one + 1, Len(bitmap)) = bitmap
    <2> DEFINE two == one + 1
    <2>1. two \in Nat \ {0}
      BY <1>1
    <2> HIDE DEF two
    <2>2. Holds(payload, two, bitmap)
      BY <1>5 DEF two
    <2>3. Slice(payload, two, Len(bitmap)) = bitmap
      BY <2>1, <2>2, SliceHeld
    <2> QED
      BY <2>3 DEF two
  <1>8. payload # <<>> /\ payload[1] = 0
    BY <1>1, <1>5
  <1>9. Slice(payload, 2, Len(bitmap)) = bitmap
    BY <1>6, <1>7
  <1>10. Holds(payload, 2 + Len(bitmap), values)
    <2> HIDE DEF head
    <2> QED
      BY <1>4, <1>6
  <1> QED
    BY <1>6, <1>8, <1>9, <1>10

LEMMA BitmapIsBytes ==
  ASSUME NEW bits, NEW length \in Nat
  PROVE  Bitmap(bits, length) \in Seq(Nat) /\ Len(Bitmap(bits, length)) = length
  <1> DEFINE bit(k, j) == IF 8 * (k - 1) + j - 1 \in bits THEN Mask[j] ELSE 0
  <1>1. \A j \in 1..8 : Mask[j] \in Nat
    BY DEF Mask
  <1>2. \A k \in 1..length : \A j \in 1..8 : bit(k, j) \in Nat
    BY <1>1
  <1>3. Bitmap(bits, length) = [k \in 1..length |->
          bit(k, 1) + bit(k, 2) + bit(k, 3) + bit(k, 4) + bit(k, 5) + bit(k, 6) + bit(k, 7) + bit(k, 8)]
    BY DEF Bitmap
  <1> HIDE DEF bit
  <1>4. \A k \in 1..length :
          bit(k, 1) + bit(k, 2) + bit(k, 3) + bit(k, 4) + bit(k, 5) + bit(k, 6) + bit(k, 7) + bit(k, 8) \in Nat
    BY <1>2
  <1> QED
    BY <1>3, <1>4

\* parse_binary_row reads what build_binary_row_payload built.
LEMMA BinaryRowRead ==
  ASSUME NEW row, NEW fields, IsRow(row, fields)
  PROVE  /\ ParsedBinaryRow(BinaryRow(row, fields), fields) = row
         /\ ~IsEof(BinaryRow(row, fields)) /\ ~IsErr(BinaryRow(row, fields))
  <1> DEFINE n == Len(fields)
             nulls == {i \in 1..n : row[i] = Null}
             seqs == [i \in 1..n |-> BinaryPiece(row[i], fields[i])]
             bitmap == Bitmap({i + 1 : i \in nulls}, BitmapLength(n))
             payload == BinaryRow(row, fields)
             start == 2 + BitmapLength(n)
  <1>1. n \in Nat /\ DOMAIN fields = 1..n /\ Len(row) = n /\ \A i \in 1..n : IsItem(row[i], fields[i])
    BY DEF IsRow
  <1>2. BitmapLength(n) \in Nat /\ 8 * BitmapLength(n) >= n + 2
    <2> HIDE DEF n
    <2> QED
      BY <1>1 DEF BitmapLength
  <1> HIDE DEF n
  <1>3. \A i \in 1..n : seqs[i] = BinaryPiece(row[i], fields[i]) /\ BinaryPiece(row[i], fields[i]) \in Seq(Nat)
    BY <1>1, BinaryPieceRead
  <1>4. seqs \in Seq(Seq(Nat)) /\ Len(seqs) = n
    BY <1>1, <1>3
  <1>5. payload = <<0>> \o bitmap \o FlattenSeq(seqs)
    <2>1. {i \in DOMAIN fields : Item(row, i) = Null} = nulls
      BY <1>1 DEF Item
    <2>2. [i \in DOMAIN fields |-> IF i \in nulls THEN <<>> ELSE BinaryValue(Item(row, i)[1], fields[i])] = seqs
      BY <1>1 DEF Item, BinaryPiece
    <2> HIDE DEF seqs, nulls
    <2> QED
      BY <2>1, <2>2 DEF BinaryRow, n
  <1>6. bitmap \in Seq(Nat) /\ Len(bitmap) = BitmapLength(n)
    BY <1>2, BitmapIsBytes
  <1> HIDE DEF seqs, payload, bitmap
  <1>7. FlattenSeq(seqs) \in Seq(Nat)
    <2>1. \E f : Joins(f, seqs, Nat) /\ FlattenSeq(seqs) = f[Len(seqs)]
      BY <1>4, FlattenedExist
    <2> QED
      BY <1>4, <2>1, Flattened
  <1>8. payload \in Seq(Nat)
    <2> DEFINE zero == 0
    <2>1. zero \in Nat /\ payload = <<zero>> \o bitmap \o FlattenSeq(seqs)
      BY <1>5
    <2> HIDE DEF zero
    <2>2. <<zero>> \o bitmap \in Seq(Nat)
      BY <1>6, <2>1, HeadFirst
    <2> QED
      BY <1>7, <2>1, <2>2, Concatenated
  <1>9. /\ payload # <<>> /\ payload[1] = 0 /\ Slice(payload, 2, BitmapLength(n)) = bitmap
        /\ start \in Nat \ {0} /\ Holds(payload, start, FlattenSeq(seqs))
    BY <1>5, <1>6, <1>7, <1>8, BinaryRowParts
  <1> HIDE DEF start
  <1>10a. PICK place : Places(payload, start, seqs, place)
    BY <1>4, <1>8, <1>9, Placed
  <1>7a. /\ place[0] = start
        /\ \A i \in 1..n : /\ i - 1 \in 0..n /\ place[i - 1] \in Nat \ {0}
                           /\ place[i] = place[i - 1] + Len(seqs[i])
                           /\ Holds(payload, place[i - 1], seqs[i])
    BY <1>4, <1>10a DEF Places
  <1> DEFINE Read(i, at) == IF HasBit(bitmap, i + 1) THEN [value |-> Null, next |-> at]
                            ELSE ReadBinaryValue(payload, at, fields[i])
  <1>12a. ASSUME NEW i \in 1..n
        PROVE  Read(i, place[i - 1]) = [value |-> row[i], next |-> place[i]]
    <2> DEFINE at == place[i - 1]
               piece == BinaryPiece(row[i], fields[i])
    <2>1. at \in Nat \ {0} /\ Holds(payload, at, piece) /\ place[i] = at + Len(piece)
      BY <1>3, <1>7a
    <2> HIDE DEF at
    <2>2. HasBit(bitmap, i + 1) <=> row[i] = Null
      <3>1. i + 1 \in 0..(8 * BitmapLength(n) - 1)
        BY <1>1, <1>2
      <3>2. HasBit(bitmap, i + 1) <=> i + 1 \in {j + 1 : j \in nulls}
        <4> HIDE DEF nulls
        <4> QED
          BY <1>2, <3>1, BitmapRead DEF bitmap
      <3>3. i + 1 \in {j + 1 : j \in nulls} <=> i \in nulls
        BY <1>1
      <3> QED
        BY <3>2, <3>3
    <2>3. CASE row[i] = Null
      <3>1. piece = <<>>
        BY <2>3 DEF BinaryPiece
      <3>2. place[i] = at
        BY <2>1, <3>1
      <3> QED
        BY <2>2, <2>3, <3>2 DEF at
    <2>4. CASE row[i] # Null
      <3>1. ReadBinaryValue(payload, at, fields[i]) = [value |-> row[i], next |-> at + Len(piece)]
        BY <1>1, <1>8, <2>1, <2>4, BinaryPieceRead
      <3> QED
        BY <2>1, <2>2, <2>4, <3>1 DEF at
    <2> QED
      BY <2>3, <2>4
  <1> DEFINE Runs(g) == g = [i \in 0..n |->
               IF i = 0 THEN [row |-> <<>>, next |-> start]
               ELSE LET before == g[i - 1]
                        column == Read(i, before.next)
                    IN  [row |-> Append(before.row, column.value), next |-> column.next]]
             after == CHOOSE g : Runs(g)
             h == [i \in 0..n |-> [row |-> FirstOf(row, i), next |-> place[i]]]
  <1>10. ParsedBinaryRow(payload, fields) = after[n].row
    <2> DEFINE m == Slice(payload, 2, BitmapLength(n))
    <2>1. m = bitmap
      BY <1>9
    <2> HIDE DEF m
    <2> QED
      BY <2>1 DEF ParsedBinaryRow, Columns, n, start, m
  <1>11. /\ h[0] = [row |-> <<>>, next |-> start]
         /\ \A i \in 1..n : h[i] = [row |-> FirstOf(row, i), next |-> place[i]]
         /\ \A i \in 1..n : i # 0 /\ h[i - 1] = [row |-> FirstOf(row, i - 1), next |-> place[i - 1]]
    <2>1. FirstOf(row, 0) = <<>>
      BY DEF FirstOf
    <2>2. \A i \in 1..n : i - 1 \in 0..n
      BY <1>1
    <2> QED
      BY <1>1, <1>7a, <2>1, <2>2
  <1>12. ASSUME NEW i \in 1..n
         PROVE  h[i] = [row |-> Append(h[i - 1].row, Read(i, h[i - 1].next).value),
                        next |-> Read(i, h[i - 1].next).next]
    <2>1. i \in Nat \ {0}
      BY <1>1
    <2>2. h[i - 1].row = FirstOf(row, i - 1) /\ h[i - 1].next = place[i - 1]
      <3>1. h[i - 1] = [row |-> FirstOf(row, i - 1), next |-> place[i - 1]]
        BY <1>11
      <3> HIDE DEF h
      <3> QED
        BY <3>1
    <2>3. Read(i, h[i - 1].next) = [value |-> row[i], next |-> place[i]]
      BY <1>12a, <2>2
    <2> HIDE DEF h, Read
    <2>4. Append(h[i - 1].row, Read(i, h[i - 1].next).value) = FirstOf(row, i)
      <3>1. Append(FirstOf(row, i - 1), row[i]) = FirstOf(row, i)
        BY <2>1, FirstAppended
      <3>2. Read(i, h[i - 1].next).value = row[i]
        BY <2>3
      <3> QED
        BY <2>2, <3>1, <3>2
    <2>5. h[i] = [row |-> FirstOf(row, i), next |-> place[i]]
      BY <1>11
    <2>6. Read(i, h[i - 1].next).next = place[i]
      BY <2>3
    <2> QED
      BY <2>4, <2>5, <2>6
  <1>13. Runs(h)
    <2> DEFINE next == [i \in 0..n |->
                 IF i = 0 THEN [row |-> <<>>, next |-> start]
                 ELSE [row |-> Append(h[i - 1].row, Read(i, h[i - 1].next).value),
                       next |-> Read(i, h[i - 1].next).next]]
    <2>1. h = [i \in 0..n |-> h[i]]
      OBVIOUS
    <2> HIDE DEF h, Read
    <2>2. \A i \in 0..n : h[i] = next[i]
      <3> TAKE i \in 0..n
      <3>1. CASE i = 0
        BY <1>11, <3>1
      <3>2. CASE i # 0
        <4>1. i \in 1..n
          BY <1>1, <3>2
        <4> QED
          BY <1>12, <3>2, <4>1
      <3> QED
        BY <3>1, <3>2
    <2>3. h = next
      BY <2>1, <2>2
    <2> QED
      BY <2>3
  <1>14. Runs(after)
    <2> HIDE DEF h, Runs
    <2> QED
      BY <1>13
  <1>15. after[n] = h[n]
    <2> HIDE DEF h, after, Read
    <2> DEFINE P == {i \in Nat : i <= n => after[i] = h[i]}
    <2>1. 0 \in P
      BY <1>1, <1>11, <1>14
    <2>2. ASSUME NEW k \in Nat, k < n, k \in P PROVE k + 1 \in P
      <3> DEFINE i == k + 1
      <3>1. i \in 1..n /\ i \in 0..n /\ i # 0 /\ i - 1 = k /\ after[k] = h[k]
        BY <1>1, <2>2
      <3> HIDE DEF i
      <3>2. after[i] = [row |-> Append(after[i - 1].row, Read(i, after[i - 1].next).value),
                        next |-> Read(i, after[i - 1].next).next]
        BY <1>14, <3>1
      <3>3. after[i] = h[i]
        BY <1>12, <3>1, <3>2
      <3> QED
        BY <3>1, <3>3 DEF i
    <2> HIDE DEF P
    <2>3. \A k \in 0..n : k \in P
      BY <1>1, <2>1, <2>2, InductionUpTo
    <2> QED
      BY <1>1, <2>3 DEF P
  <1>16. ParsedBinaryRow(payload, fields) = row
    <2>1. h[n].row = FirstOf(row, n)
      BY <1>1
    <2>2. FirstOf(row, n) = row
      BY <1>1, FirstAll DEF IsRow
    <2> HIDE DEF h, after
    <2> QED
      BY <1>10, <1>15, <2>1, <2>2
  <1>17. ~IsEof(payload) /\ ~IsErr(payload)
    BY <1>9 DEF IsEof, IsErr
  <1> QED
    BY <1>16, <1>17 DEF payload

\* What a server application leaves out are NULLs, and they are filled in again.
Shortened(row) ==
  LET count == CHOOSE n \in 0..Len(row) :
                 (n > 0 => row[n] # Null) /\ \A i \in (n + 1)..Len(row) : row[i] = Null
  IN  SubSeq(row, 1, count)

LEMMA ShortRow ==
  ASSUME NEW row, NEW fields, IsRow(row, fields), NEW short, short = Shortened(row)
  PROVE  TextRow(short, fields) = TextRow(row, fields) /\ BinaryRow(short, fields) = BinaryRow(row, fields)
  <1> DEFINE m == Len(row)
             EndsAt(n) == (n > 0 => row[n] # Null) /\ \A i \in (n + 1)..m : row[i] = Null
             count == CHOOSE n \in 0..m : EndsAt(n)
  <1>1. m \in Nat /\ DOMAIN fields = 1..m /\ Len(fields) = m
    BY DEF IsRow
  <1>2. PICK S : row \in Seq(S)
    BY DEF IsRow
  <1> HIDE DEF m
  <1>3. \E n \in 0..m : EndsAt(n)
    <2> DEFINE Q == {k \in Nat : k <= m => (\A i \in (m - k + 1)..m : row[i] = Null) \/ \E n \in 0..m : EndsAt(n)}
    <2>1. 0 \in Q
      BY <1>1
    <2>2. ASSUME NEW k \in Nat, k \in Q PROVE k + 1 \in Q
      <3> SUFFICES ASSUME k + 1 <= m, \A i \in (m - k + 1)..m : row[i] = Null
                   PROVE  (\A i \in (m - (k + 1) + 1)..m : row[i] = Null) \/ \E n \in 0..m : EndsAt(n)
        BY <1>1, <2>2
      <3> DEFINE j == m - k
      <3>1. j \in 1..m /\ m - (k + 1) + 1 = j /\ \A i \in (j + 1)..m : row[i] = Null
        BY <1>1
      <3> HIDE DEF j
      <3>2. CASE row[j] = Null
        <4>1. \A i \in j..m : i = j \/ i \in (j + 1)..m
          BY <1>1, <3>1
        <4> QED
          BY <3>1, <3>2, <4>1
      <3>3. CASE row[j] # Null
        <4>1. EndsAt(j) /\ j \in 0..m
          BY <1>1, <3>1, <3>3
        <4> QED
          BY <4>1
      <3> QED
        BY <3>2, <3>3
    <2>3. m \in Q
      <3> HIDE DEF Q
      <3> QED
        BY <1>1, <2>1, <2>2, Induction
    <2>4. CASE \A i \in (m - m + 1)..m : row[i] = Null
      <3>1. EndsAt(0)
        BY <1>1, <2>4
      <3> QED
        BY <1>1, <3>1
    <2> QED
      BY <1>1, <2>3, <2>4
  <1>4. count \in 0..m /\ \A i \in (count + 1)..m : row[i] = Null
    BY <1>3
  <1>5. short = SubSeq(row, 1, count)
    BY DEF m, Shortened
  <1> HIDE DEF count
  <1>6. \A i \in 1..m : Item(short, i) = Item(row, i)
    <2>1. Len(short) = count /\ \A i \in 1..count : short[i] = row[i]
      <3>1. count \in Nat /\ count <= Len(row) /\ Len(row) \in Nat
        BY <1>1, <1>4 DEF m
      <3>2. Len(SubSeq(row, 1, count)) = count
        BY <1>2, <3>1
      <3>3. \A i \in 1..count : SubSeq(row, 1, count)[i] = row[i]
        BY <1>2, <3>1
      <3> QED
        BY <1>5, <3>2, <3>3
    <2> TAKE i \in 1..m
    <2>2. CASE i <= count
      <3>1. i \in 1..count /\ i <= Len(short) /\ i <= Len(row)
        BY <1>1, <1>4, <2>1, <2>2 DEF m
      <3>2. short[i] = row[i]
        BY <2>1, <3>1
      <3> QED
        BY <3>1, <3>2 DEF Item
    <2>3. CASE i > count
      BY <1>1, <1>4, <2>1, <2>3 DEF Item, m
    <2> QED
      BY <1>1, <1>4, <2>2, <2>3
  <1>7. \A i \in DOMAIN fields : Item(short, i) = Item(row, i)
    BY <1>1, <1>6
  <1>8. TextRow(short, fields) = TextRow(row, fields)
    <2> DEFINE piece(r) == [i \in DOMAIN fields |-> IF Item(r, i) = Null THEN <<251>> ELSE LenEncBytes(Item(r, i)[1])]
    <2>1. piece(short) = piece(row)
      BY <1>7
    <2> HIDE DEF piece
    <2> QED
      BY <2>1 DEF TextRow, piece
  <1>9. BinaryRow(short, fields) = BinaryRow(row, fields)
    <2> DEFINE nulls(r) == {i \in DOMAIN fields : Item(r, i) = Null}
               piece(r) == [i \in DOMAIN fields |->
                              IF i \in nulls(r) THEN <<>> ELSE BinaryValue(Item(r, i)[1], fields[i])]
    <2>1. nulls(short) = nulls(row)
      BY <1>7
    <2>2. piece(short) = piece(row)
      BY <1>7, <2>1
    <2> HIDE DEF nulls, piece
    <2>3. \A r : BinaryRow(r, fields) =
             <<0>> \o Bitmap({i + 1 : i \in nulls(r)}, BitmapLength(Len(fields))) \o FlattenSeq(piece(r))
      BY DEF BinaryRow, nulls, piece
    <2> QED
      BY <2>1, <2>2, <2>3
  <1> QED
    BY <1>8, <1>9

FieldsInv == what = "fields" => input \in Seq(Fields)

LEMMA FieldsAreRow ==
  ASSUME input \in Seq(Fields)
  PROVE  IsRow([i \in DOMAIN input |-> input[i].value], [i \in DOMAIN input |-> input[i].field])
  <1> DEFINE row == [i \in DOMAIN input |-> input[i].value]
             fields == [i \in DOMAIN input |-> input[i].field]
             n == Len(input)
  <1>1. n \in Nat /\ DOMAIN input = 1..n /\ \A i \in 1..n : input[i] \in Fields
    OBVIOUS
  <1>2. row \in Seq({f.value : f \in Fields}) /\ fields \in Seq({f.field : f \in Fields})
    BY <1>1
  <1>3. Len(row) = n /\ Len(fields) = n
    BY <1>1
  <1>4. ASSUME NEW i \in 1..n PROVE IsItem(row[i], fields[i])
    <2> DEFINE f == input[i]
    <2>1. f \in Fields /\ row[i] = f.value /\ fields[i] = f.field
      BY <1>1
    <2> HIDE DEF f
    <2>2. /\ f.field \in {"tiny", "string"}
          /\ f.value # Null => \E bytes \in {f.value[1]} :
               f.value = <<bytes>> /\ IsValue(bytes) /\ (f.field = "tiny" => Len(bytes) = 1)
      BY <2>1, WireAssumption
    <2> QED
      BY <2>1, <2>2 DEF IsItem
  <1> HIDE DEF row, fields
  <1>5. IsRow(row, fields)
    BY <1>2, <1>3, <1>4 DEF IsRow
  <1> QED
    BY <1>5 DEF row, fields

LEMMA RowsRead ==
  ASSUME input \in Seq(Fields)
  PROVE  RowsAgree
  <1> DEFINE row == [i \in DOMAIN input |-> input[i].value]
             fields == [i \in DOMAIN input |-> input[i].field]
             count == CHOOSE n \in 0..Len(row) :
                        (n > 0 => row[n] # Null) /\ \A i \in (n + 1)..Len(row) : row[i] = Null
             short == SubSeq(row, 1, count)
  <1>1. IsRow(row, fields)
    BY FieldsAreRow
  <1>2. RowsAgree <=> (what = "fields" =>
          /\ ParsedTextRow(TextRow(short, fields), fields) = row
          /\ ParsedBinaryRow(BinaryRow(short, fields), fields) = row
          /\ \A payload \in {TextRow(row, fields), BinaryRow(row, fields)} : ~IsEof(payload) /\ ~IsErr(payload))
    BY DEF RowsAgree
  <1> HIDE DEF row, fields
  <1>3. TextRow(short, fields) = TextRow(row, fields) /\ BinaryRow(short, fields) = BinaryRow(row, fields)
    <2>1. short = Shortened(row)
      BY DEF Shortened
    <2> QED
      BY <1>1, <2>1, ShortRow
  <1>4. ParsedTextRow(TextRow(row, fields), fields) = row /\ ~IsEof(TextRow(row, fields)) /\ ~IsErr(TextRow(row, fields))
    BY <1>1, TextRowRead
  <1>5. /\ ParsedBinaryRow(BinaryRow(row, fields), fields) = row
        /\ ~IsEof(BinaryRow(row, fields)) /\ ~IsErr(BinaryRow(row, fields))
    BY <1>1, BinaryRowRead
  <1> HIDE DEF short
  <1> QED
    BY <1>2, <1>3, <1>4, <1>5

\* Rows of every number of columns, with values of every length below 2^31 and NULLs at any
\* place, are read as they were built in both protocols, and none looks like an end or an
\* error.
THEOREM WireRowsAgree == Spec => []RowsAgree
  <1>1. Init => FieldsInv
    BY DEF Init, FieldsInv
  <1>2. FieldsInv /\ [Next]_vars => FieldsInv'
    <2> SUFFICES ASSUME FieldsInv, [Next]_vars, what' = "fields" PROVE input' \in Seq(Fields)
      BY DEF FieldsInv
    <2>1. CASE AddField
      BY <2>1 DEF AddField, FieldsInv
    <2>2. CASE UNCHANGED vars
      BY <2>2 DEF vars, FieldsInv
    <2>3. CASE AddPayload \/ AddParameter \/ AddColumn
      BY <2>3 DEF AddPayload, AddParameter, AddColumn
    <2> QED
      BY <2>1, <2>2, <2>3 DEF Next
  <1>3. FieldsInv => RowsAgree
    BY RowsRead DEF FieldsInv, RowsAgree
  <1> QED
    BY <1>1, <1>2, <1>3, PTL DEF Spec

-----------------------------------------------------------------------------
(***************************************************************************)
(* Packets.                                                                *)
(***************************************************************************)

LEMMA Residue ==
  ASSUME NEW m \in Nat \ {0}, NEW x \in 0..(m - 1)
  PROVE  x % m = x
  <1> DEFINE q == 0
  <1>1. q \in Nat /\ m * q + x = x
    OBVIOUS
  <1> HIDE DEF q
  <1>2. (m * q + x) % m = x
    BY <1>1, Quotient
  <1> QED
    BY <1>1, <1>2

\* The ids that the payloads begin with are bytes.
LEMMA FirstIdsAre ==
  ASSUME input \in Seq(Seq(Nat)), NEW first \in 0..(IdMod - 1)
  PROVE  \A i \in 0..Len(input) : FirstIds(first)[i] \in 0..(IdMod - 1)
  <1> DEFINE n == Len(input)
             c == [i \in 1..n |-> Count(input[i])]
             id == CHOOSE f : f = [i \in 0..n |-> IF i = 0 THEN first ELSE (f[i - 1] + Count(input[i])) % IdMod]
             m == IdMod
  <1>1. m \in Nat \ {0} /\ MaxPacket \in Nat \ {0} /\ n \in Nat /\ first \in 0..(m - 1)
    BY FramingAssumption
  <1>2. \A i \in 1..n : Count(input[i]) \in Nat
    <2> TAKE i \in 1..n
    <2> DEFINE l == Len(input[i])
    <2>1. l \in Nat
      OBVIOUS
    <2> HIDE DEF l
    <2>2. l \div MaxPacket \in Nat
      BY <1>1, <2>1, Division
    <2> HIDE DEF n
    <2> QED
      BY <2>2 DEF Count, l
  <1>3. FirstIds(first) = id
    BY DEF FirstIds
  <1> HIDE DEF n, m
  <1>4. \A i \in 1..n : c[i] = Count(input[i])
    OBVIOUS
  <1> HIDE DEF c
  <1>13. PICK f : Round(f, n, m, c, first)
    BY <1>1, <1>2, <1>4, GoingRound
  <1>5. f \in [0..n -> 0..(m - 1)] /\ f[0] = first /\ \A i \in 1..n : f[i] = (f[i - 1] + c[i]) % m
    BY <1>13 DEF Round
  <1>6. \A i \in 0..n : f[i] = IF i = 0 THEN first ELSE (f[i - 1] + Count(input[i])) % m
    <2> TAKE i \in 0..n
    <2>1. CASE i = 0
      BY <1>5, <2>1
    <2>2. CASE i # 0
      <3>1. i \in 1..n
        BY <1>1, <2>2
      <3> QED
        BY <1>4, <1>5, <2>2, <3>1
    <2> QED
      BY <2>1, <2>2
  <1>7. f = [i \in 0..n |-> IF i = 0 THEN first ELSE (f[i - 1] + Count(input[i])) % m]
    <2>1. f = [i \in 0..n |-> f[i]]
      BY <1>5
    <2> QED
      BY <1>6, <2>1
  <1>8. id = [i \in 0..n |-> IF i = 0 THEN first ELSE (id[i - 1] + Count(input[i])) % m]
    BY <1>7 DEF m
  <1> HIDE DEF id
  <1>9. id[0] = first /\ \A i \in 1..n : id[i] = (id[i - 1] + Count(input[i])) % m
    BY <1>1, <1>8
  <1> DEFINE P == {k \in Nat : id[k] \in 0..(m - 1)}
  <1>10. 0 \in P
    BY <1>1, <1>9
  <1>11. ASSUME NEW k \in Nat, k < n, k \in P PROVE k + 1 \in P
    <2> DEFINE y == id[k] + Count(input[k + 1])
    <2>1. k + 1 \in 1..n /\ k + 1 - 1 = k /\ id[k] \in 0..(m - 1)
      BY <1>1, <1>11
    <2>2. id[k + 1] = y % m
      BY <1>9, <2>1
    <2>3. y \in Nat
      BY <1>1, <1>2, <2>1
    <2> HIDE DEF y
    <2>4. y % m \in 0..(m - 1)
      BY <1>1, <2>3, Division
    <2> QED
      BY <2>2, <2>4
  <1>12. \A k \in 0..n : k \in P
    <2> HIDE DEF P
    <2> QED
      BY <1>1, <1>10, <1>11, InductionUpTo
  <1> QED
    BY <1>3, <1>12 DEF n, m

\* No payload whose packets are counted once too often is looked at, as in the run.
CountsRight == "full_chunk" \notin Extras

\* A payload is written alike and read back.
LEMMA WrittenAlikeHeld ==
  ASSUME CountsRight, input \in Seq(Seq(Nat)), NEW i \in 1..Len(input), NEW id \in 0..(IdMod - 1)
  PROVE  WrittenAlike(i, ServerPackets(input[i], id), id)
  <1> DEFINE payload == input[i]
             l == Len(payload)
             q == l \div MaxPacket
             stream == Numbered(Bodies(payload), id)
             at == 1
  <1>1. payload \in Seq(Nat) /\ l \in Nat /\ id \in Nat /\ IdMod \in Nat \ {0} /\ id % IdMod = id
    <2>1. IdMod \in Nat \ {0}
      BY FramingAssumption
    <2>2. id \in Nat
      BY <2>1
    <2> DEFINE m == IdMod
    <2>3. m \in Nat \ {0} /\ id \in 0..(m - 1)
      BY <2>1
    <2> HIDE DEF m
    <2>4. id % m = id
      BY <2>3, Residue
    <2> QED
      BY <2>1, <2>2, <2>4 DEF m
  <1> HIDE DEF payload
  <1>2. ClientPackets(payload, id) = stream /\ ServerPackets(payload, id) = stream
    BY <1>1, WritersAlike
  <1>3. Bodies(payload) \in Seq(Seq(Nat))
    BY <1>1, BodiesAre
  <1>4. stream \in Seq(Nat)
    <2> DEFINE bodies == Bodies(payload)
               packets == [j \in DOMAIN bodies |-> Packet(id + j - 1, bodies[j])]
    <2>1. packets \in Seq(Seq(Nat)) /\ stream = FlattenSeq(packets)
      <3> HIDE DEF bodies
      <3> QED
        BY <1>1, <1>3, NumberedIs DEF bodies
    <2> HIDE DEF packets, stream
    <2>2. \E f : Joins(f, packets, Nat)
      BY <2>1, JoinsExist
    <2> QED
      BY <2>1, <2>2, Flattened
  <1> HIDE DEF stream
  <1>5. at \in Nat \ {0} /\ Holds(stream, at, stream)
    BY <1>4, HoldsItself
  <1> HIDE DEF at
  <1>6. PICK place : PayloadAt(stream, at, id, payload, place)
    BY <1>1, <1>4, <1>5, PayloadPlaced DEF stream
  <1>7. ReadPacket(stream, at) = [id |-> id % IdMod, payload |-> payload, next |-> place[Len(payload) \div MaxPacket + 1]]
    BY <1>1, <1>4, <1>5, <1>6, PayloadRead
  <1>8. place[q + 1] = at + Len(stream)
    BY <1>6 DEF PayloadAt, stream
  <1>9. ReadPacket(stream, 1) = [id |-> id, payload |-> payload, next |-> Len(stream) + 1]
    <2>1. at + Len(stream) = Len(stream) + 1
      BY <1>4 DEF at
    <2> QED
      BY <1>1, <1>7, <1>8, <2>1 DEF at
  <1>10. \/ PacketCount(l) = Count(payload)
         \/ l % MaxPacket = 0 /\ "full_chunk" \notin Extras
    <2>1. CASE l % MaxPacket = 0
      BY <2>1 DEF CountsRight
    <2>2. CASE l % MaxPacket # 0
      <3>1. q \in Nat
        BY <1>1, FramingAssumption, Division
      <3> HIDE DEF q
      <3>2. PacketCount(l) = q + 1 + 0 /\ Count(payload) = q + 1
        BY <2>2 DEF PacketCount, Count, q
      <3> QED
        BY <3>1, <3>2
    <2> QED
      BY <2>1, <2>2
  <1> QED
    BY <1>2, <1>9, <1>10 DEF WrittenAlike, payload

\* What is read of a stream one payload after the other.
ReadsAll(g, n, chunks) ==
  g = [i \in 0..n |-> IF i = 0 THEN [read |-> <<>>, reader |-> Reader(chunks)]
                      ELSE LET before == g[i - 1] IN ReadNext(before, ReadCompressed(before.reader))]

LEMMA ReadExists ==
  ASSUME NEW n \in Nat, NEW chunks
  PROVE  \E g : ReadsAll(g, n, chunks)
  <1> DEFINE base == [read |-> <<>>, reader |-> Reader(chunks)]
             next(before) == ReadNext(before, ReadCompressed(before.reader))
             step(f, i) == IF i = 0 THEN base ELSE next(f[i - 1])
             Runs(g, k) == g = [i \in 0..k |-> step(g, i)]
             P == {k \in Nat : \E g : Runs(g, k)}
  <1> HIDE DEF base, next
  <1>1. 0 \in P
    <2> DEFINE g == [i \in 0..0 |-> base]
    <2>1. \A i \in 0..0 : step(g, i) = base
      OBVIOUS
    <2> HIDE DEF step
    <2>2. g = [i \in 0..0 |-> step(g, i)]
      BY <2>1
    <2> QED
      BY <2>2
  <1>2. ASSUME NEW k \in Nat, k \in P PROVE k + 1 \in P
    <2>1. PICK g : Runs(g, k)
      BY <1>2
    <2> DEFINE last == next(g[k])
               h == [i \in 0..(k + 1) |-> IF i = k + 1 THEN last ELSE g[i]]
    <2>2. ASSUME NEW i \in 0..(k + 1) PROVE h[i] = step(h, i)
      <3>1. CASE i = k + 1
        <4>1. h[i] = last /\ i - 1 = k /\ i # 0
          BY <3>1
        <4>2. k \in 0..(k + 1) /\ k # k + 1
          OBVIOUS
        <4>3. h[k] = g[k]
          BY <4>2
        <4> HIDE DEF h
        <4> QED
          BY <4>1, <4>3
      <3>2. CASE i # k + 1
        <4>1. i \in 0..k
          BY <3>2
        <4>2. h[i] = g[i] /\ g[i] = step(g, i)
          BY <2>1, <3>2, <4>1
        <4>3. CASE i = 0
          BY <4>2, <4>3
        <4>4. CASE i # 0
          <5>1. i - 1 \in 0..(k + 1) /\ i - 1 # k + 1
            BY <4>1, <4>4
          <5>2. h[i - 1] = g[i - 1]
            BY <5>1
          <5> HIDE DEF h
          <5> QED
            BY <4>2, <4>4, <5>2
        <4> QED
          BY <4>3, <4>4
      <3> QED
        BY <3>1, <3>2
    <2>3. h = [i \in 0..(k + 1) |-> h[i]]
      OBVIOUS
    <2> HIDE DEF h
    <2>4. [i \in 0..(k + 1) |-> h[i]] = [i \in 0..(k + 1) |-> step(h, i)]
      <3> HIDE DEF step
      <3> QED
        BY <2>2
    <2>5. Runs(h, k + 1)
      BY <2>3, <2>4
    <2>6. k + 1 \in Nat
      OBVIOUS
    <2> HIDE DEF Runs
    <2> QED
      BY <2>5, <2>6
  <1>3. n \in P
    <2> HIDE DEF P
    <2> QED
      BY <1>1, <1>2, Induction
  <1> QED
    BY <1>3 DEF ReadsAll, next, base

\* The payloads of a stream are read, and nothing is left of it.
LEMMA ReadWholeHeld ==
  ASSUME input \in Seq(Seq(Nat)), NEW ids, \A i \in 1..Len(input) : ids[i] \in Nat /\ ids[i] % IdMod = ids[i],
         NEW packets \in Seq(Seq(Nat)), Len(packets) = Len(input),
         \A i \in 1..Len(input) : packets[i] = Numbered(Bodies(input[i]), ids[i]),
         NEW stream, stream = FlattenSeq(packets),
         NEW chunks, NEW pieces, NEW place, InChunks(stream, chunks, pieces, place)
  PROVE  ReadWhole(ReadAll(chunks), ids)
  <1> DEFINE n == Len(input)
             s == [i \in DOMAIN input |-> <<ids[i], input[i]>>]
             all == CHOOSE g : g = [i \in 0..n |-> IF i = 0 THEN [read |-> <<>>, reader |-> Reader(chunks)]
                      ELSE LET before == g[i - 1] IN ReadNext(before, ReadCompressed(before.reader))]
             Is(k, at) == /\ all[k].read = FirstOf(s, k)
                          /\ \E m : ReaderAt(all[k].reader, stream, chunks, place, m, at[k] - 1)
  <1>1. n \in Nat /\ DOMAIN input = 1..n /\ stream \in Seq(Nat) /\ \A i \in 1..n : input[i] \in Seq(Nat)
    BY DEF InChunks
  <1>2. PICK at : Places(stream, 1, packets, at)
    <2> DEFINE one == 1
    <2>1. one \in Nat \ {0} /\ Holds(stream, one, FlattenSeq(packets))
      <3>1. Holds(stream, 1, stream)
        BY <1>1, HoldsItself
      <3> QED
        BY <3>1
    <2> HIDE DEF one
    <2>2. \E at : Places(stream, one, packets, at)
      BY <1>1, <2>1, Placed
    <2> QED
      BY <2>2 DEF one
  <1>3. /\ at[0] = 1 /\ at[n] = 1 + Len(stream)
        /\ \A i \in 1..n : /\ at[i - 1] \in Nat \ {0} /\ at[i] = at[i - 1] + Len(packets[i])
                           /\ Holds(stream, at[i - 1], packets[i])
    BY <1>2 DEF Places
  <1>4. ReadAll(chunks) = all[n]
    BY DEF ReadAll
  <1>5. ReadsAll(all, n, chunks)
    <2>1. \E g : ReadsAll(g, n, chunks)
      <3> HIDE DEF n
      <3> QED
        BY <1>1, ReadExists
    <2> QED
      BY <2>1 DEF ReadsAll
  <1> HIDE DEF all, n, s
  <1>6. /\ all[0] = [read |-> <<>>, reader |-> Reader(chunks)]
        /\ \A i \in 1..n : all[i] = ReadNext(all[i - 1], ReadCompressed(all[i - 1].reader))
    <2>1. \A i \in 0..n : all[i] = IF i = 0 THEN [read |-> <<>>, reader |-> Reader(chunks)]
                                   ELSE ReadNext(all[i - 1], ReadCompressed(all[i - 1].reader))
      BY <1>5 DEF ReadsAll
    <2>2. 0 \in 0..n /\ \A i \in 1..n : i \in 0..n /\ i # 0
      BY <1>1
    <2> QED
      BY <2>1, <2>2
  <1> DEFINE P == {k \in Nat : Is(k, at)}
  <1>7. 0 \in P
    <2> DEFINE zero == 0
    <2>1. all[0].read = <<>> /\ all[0].reader = Reader(chunks)
      BY <1>6
    <2>2. FirstOf(s, 0) = <<>>
      BY DEF FirstOf
    <2>3. at[0] - 1 = 0
      BY <1>3
    <2>4. ReaderAt(Reader(chunks), stream, chunks, place, 0, 0)
      BY ReaderBegins
    <2>5. Is(0, at)
      BY <2>1, <2>2, <2>3, <2>4
    <2> HIDE DEF Is
    <2> QED
      BY <2>5
  <1>8. ASSUME NEW k \in Nat, k < n, k \in P PROVE k + 1 \in P
    <2> DEFINE i == k + 1
               payload == input[i]
               id == ids[i]
               p == at[k] - 1
               q == Len(payload) \div MaxPacket
               reader == all[k].reader
               x == ReadCompressed(reader)
    <2>1. i \in 1..n /\ i - 1 = k /\ i \in Nat \ {0}
      BY <1>1, <1>8
    <2>2. all[k].read = FirstOf(s, k) /\ \E m : ReaderAt(reader, stream, chunks, place, m, p)
      BY <1>8
    <2> HIDE DEF i
    <2>3. /\ all[i] = ReadNext(all[k], x) /\ at[k] \in Nat \ {0} /\ at[i] = at[k] + Len(packets[i])
          /\ Holds(stream, at[k], packets[i])
      BY <1>3, <1>6, <2>1
    <2>4. id \in Nat /\ id % IdMod = id /\ payload \in Seq(Nat) /\ packets[i] = Numbered(Bodies(payload), id)
      BY <1>1, <2>1 DEF n
    <2>5. p + 1 = at[k]
      <3> DEFINE y == at[k]
      <3>1. y \in Nat
        BY <2>3
      <3> HIDE DEF y
      <3>2. y - 1 + 1 = y
        BY <3>1
      <3> QED
        BY <3>2 DEF y
    <2> HIDE DEF p, payload, id, reader
    <2>6. PICK packet : PayloadAt(stream, p + 1, id, payload, packet)
      <3> DEFINE a == at[k]
      <3>1. a \in Nat \ {0} /\ Holds(stream, a, Numbered(Bodies(payload), id))
        BY <2>3, <2>4
      <3> HIDE DEF a
      <3>2. \E packet : PayloadAt(stream, a, id, payload, packet)
        BY <1>1, <2>4, <3>1, PayloadPlaced
      <3> QED
        BY <2>5, <3>2 DEF a
    <2>7. packet[q + 1] = at[i]
      <3>1. packet[q + 1] = p + 1 + Len(Numbered(Bodies(payload), id))
        BY <2>6 DEF PayloadAt
      <3> QED
        BY <2>3, <2>4, <2>5, <3>1
    <2>8. PICK m : ReaderAt(reader, stream, chunks, place, m, p)
      BY <2>2
    <2>9. x.id = id % IdMod /\ x.payload = payload
          /\ \E j : ReaderAt(x.reader, stream, chunks, place, j, packet[q + 1] - 1)
      BY <2>4, <2>6, <2>8, ReadCompressedAt
    <2> HIDE DEF x
    <2>10. all[i].read = Append(all[k].read, <<id, payload>>) /\ all[i].reader = x.reader
      <3>1. x.id = id /\ x.payload = payload
        BY <2>4, <2>9
      <3>2. all[i] = [read |-> Append(all[k].read, <<x.id, x.payload>>), reader |-> x.reader]
        BY <2>3 DEF ReadNext
      <3> QED
        BY <3>1, <3>2
    <2>11. s[i] = <<id, payload>>
      BY <1>1, <2>1 DEF s, id, payload
    <2>12. Append(FirstOf(s, i - 1), s[i]) = FirstOf(s, i)
      <3> HIDE DEF P, Is
      <3> QED
        BY <2>1, FirstAppended
    <2>13. all[i].read = FirstOf(s, i)
      BY <2>1, <2>2, <2>10, <2>11, <2>12
    <2>14. Is(i, at)
      BY <2>7, <2>9, <2>10, <2>13
    <2> HIDE DEF Is
    <2>15. k + 1 \in Nat
      OBVIOUS
    <2> QED
      BY <2>14, <2>15 DEF i
  <1>9. n \in P
    <2> HIDE DEF P
    <2>1. \A k \in 0..n : k \in P
      BY <1>1, <1>7, <1>8, InductionUpTo
    <2> QED
      BY <1>1, <2>1
  <1>10. all[n].read = s
    <2>1. all[n].read = FirstOf(s, n)
      BY <1>9
    <2>2. FirstOf(s, n) = [k \in 1..n |-> <<ids[k], input[k]>>]
      BY <1>1 DEF FirstOf, s
    <2> QED
      BY <1>1, <2>1, <2>2 DEF s
  <1>11. PICK m : ReaderAt(all[n].reader, stream, chunks, place, m, at[n] - 1)
    BY <1>9
  <1>12. at[n] - 1 = Len(stream)
    BY <1>1, <1>3
  <1>13. all[n].reader.chunks = <<>> /\ all[n].reader.offset = Len(all[n].reader.buffer)
    BY <1>11, <1>12, NothingLeft
  <1> QED
    BY <1>4, <1>10, <1>13 DEF ReadWhole, s

\* The ids of an answer, and its packets, one payload's after the other's.
AnswerIds(first) == [i \in DOMAIN input |-> FirstIds(first)[i - 1]]
AnswerPackets(first) == [i \in DOMAIN input |-> ServerPackets(input[i], AnswerIds(first)[i])]

LEMMA AnswerAre ==
  ASSUME input \in Seq(Seq(Nat)), NEW first \in 0..(IdMod - 1)
  PROVE  LET ids == AnswerIds(first)
             packets == AnswerPackets(first) IN
         /\ \A i \in 1..Len(input) : /\ ids[i] \in 0..(IdMod - 1) /\ ids[i] \in Nat /\ ids[i] % IdMod = ids[i]
                                     /\ packets[i] = ServerPackets(input[i], ids[i])
                                     /\ packets[i] = Numbered(Bodies(input[i]), ids[i])
         /\ packets \in Seq(Seq(Nat)) /\ Len(packets) = Len(input)
  <1> DEFINE n == Len(input)
             m == IdMod
             ids == [i \in DOMAIN input |-> FirstIds(first)[i - 1]]
             packets == [i \in DOMAIN input |-> ServerPackets(input[i], ids[i])]
  <1>1. n \in Nat /\ DOMAIN input = 1..n /\ m \in Nat \ {0} /\ \A i \in 1..n : input[i] \in Seq(Nat)
    BY FramingAssumption
  <1>2. \A i \in 1..n : ids[i] \in 0..(m - 1)
    <2>1. \A i \in 0..Len(input) : FirstIds(first)[i] \in 0..(IdMod - 1)
      BY FirstIdsAre
    <2> TAKE i \in 1..n
    <2>2. i - 1 \in 0..n /\ ids[i] = FirstIds(first)[i - 1]
      BY <1>1
    <2> QED
      BY <2>1, <2>2
  <1> HIDE DEF ids
  <1>3. \A i \in 1..n : ids[i] \in Nat /\ ids[i] % IdMod = ids[i]
    <2> TAKE i \in 1..n
    <2> DEFINE x == ids[i]
    <2>1. x \in 0..(m - 1)
      BY <1>2
    <2> HIDE DEF x, m
    <2>2. x % m = x
      BY <1>1, <2>1, Residue
    <2>3. x \in Nat
      BY <1>1, <2>1
    <2> QED
      BY <2>2, <2>3 DEF x, m
  <1>4. \A i \in 1..n : packets[i] = ServerPackets(input[i], ids[i])
    BY <1>1
  <1>5. \A i \in 1..n : packets[i] = Numbered(Bodies(input[i]), ids[i]) /\ packets[i] \in Seq(Nat)
    <2> TAKE i \in 1..n
    <2> DEFINE payload == input[i]
               id == ids[i]
               bodies == Bodies(payload)
               parts == [j \in DOMAIN bodies |-> Packet(id + j - 1, bodies[j])]
    <2>1. payload \in Seq(Nat) /\ id \in Nat /\ packets[i] = ServerPackets(payload, id)
      BY <1>1, <1>3, <1>4
    <2> HIDE DEF payload, id
    <2>2. packets[i] = Numbered(bodies, id)
      BY <2>1, WritersAlike
    <2>3. bodies \in Seq(Seq(Nat))
      BY <2>1, BodiesAre
    <2> HIDE DEF bodies
    <2>4. parts \in Seq(Seq(Nat)) /\ Numbered(bodies, id) = FlattenSeq(parts)
      BY <2>1, <2>3, NumberedIs
    <2> HIDE DEF parts
    <2>5. FlattenSeq(parts) \in Seq(Nat)
      BY <2>4, FlattenedExist, Flattened
    <2> HIDE DEF packets
    <2> QED
      BY <2>2, <2>4, <2>5 DEF bodies, payload, id
  <1>6. packets \in Seq(Seq(Nat)) /\ Len(packets) = Len(input)
    <2> DEFINE T == Seq(Nat)
    <2>1. \A i \in 1..n : ServerPackets(input[i], ids[i]) \in T
      BY <1>4, <1>5
    <2> HIDE DEF T
    <2>2. packets \in [1..n -> T]
      BY <1>1, <2>1
    <2> HIDE DEF packets, n
    <2>3. packets \in Seq(T) /\ Len(packets) = n
      BY <1>1, <2>2, FunctionIsSeq
    <2> QED
      BY <2>3 DEF T, n
  <1> QED
    BY <1>2, <1>3, <1>4, <1>5, <1>6 DEF AnswerIds, AnswerPackets, ids, m, n

LEMMA FramesRead ==
  ASSUME CountsRight, input \in Seq(Seq(Nat)), NEW first \in 0..(IdMod - 1)
  PROVE  ReadBack(AnswerIds(first), AnswerPackets(first), first)
  <1> DEFINE ids == AnswerIds(first)
             packets == AnswerPackets(first)
             stream == FlattenSeq(packets)
  <1>1. /\ \A i \in 1..Len(input) : /\ ids[i] \in 0..(IdMod - 1) /\ ids[i] \in Nat /\ ids[i] % IdMod = ids[i]
                                     /\ packets[i] = ServerPackets(input[i], ids[i])
                                     /\ packets[i] = Numbered(Bodies(input[i]), ids[i])
        /\ packets \in Seq(Seq(Nat)) /\ Len(packets) = Len(input)
    BY AnswerAre
  <1> HIDE DEF packets, ids
  <1>2. ASSUME NEW i \in DOMAIN input PROVE WrittenAlike(i, packets[i], ids[i])
    <2> DEFINE id == ids[i]
    <2>1. i \in 1..Len(input)
      OBVIOUS
    <2>2. id \in 0..(IdMod - 1) /\ packets[i] = ServerPackets(input[i], id)
      BY <1>1, <2>1
    <2> HIDE DEF id
    <2>3. WrittenAlike(i, ServerPackets(input[i], id), id)
      BY <2>1, <2>2, WrittenAlikeHeld
    <2> QED
      BY <2>2, <2>3 DEF id
  <1>3. stream \in Seq(Nat)
    BY <1>1, FlattenedExist, Flattened
  <1> HIDE DEF stream
  <1>4. ASSUME NEW size \in 1..(2 * HeaderLength + 1)
        PROVE  ReadWhole(ReadAll(Chunks(FlattenSeq(packets), first, size)), ids)
    <2> DEFINE chunks == Chunks(stream, first, size)
    <2>1. size \in Nat \ {0}
      OBVIOUS
    <2>2. PICK pieces, place : InChunks(stream, chunks, pieces, place)
      BY <1>3, <2>1, ChunksAre
    <2> HIDE DEF chunks
    <2>3. stream = FlattenSeq(packets)
      BY DEF stream
    <2>4. ReadWhole(ReadAll(chunks), ids)
      BY <1>1, <2>2, <2>3, ReadWholeHeld
    <2> QED
      BY <2>3, <2>4 DEF chunks
  <1> QED
    BY <1>2, <1>4 DEF ReadBack, ids, packets

\* The chunks need not be of one size: whatever chunks hold the bytes of an answer, none of
\* them empty, its payloads are read, each under its id, and no byte is left
\* (read_normal_packet_from_compressed_stream, append_next_compressed_payload).
THEOREM WireAnyChunks ==
  ASSUME input \in Seq(Seq(Nat)), NEW first \in 0..(IdMod - 1), NEW T, NEW chunks \in Seq(T),
         \A i \in DOMAIN chunks : Inflated(chunks[i]) \in Seq(Nat) \ {<<>>},
         Plain(chunks) = FlattenSeq(AnswerPackets(first))
  PROVE  ReadWhole(ReadAll(chunks), AnswerIds(first))
  <1> DEFINE ids == AnswerIds(first)
             packets == AnswerPackets(first)
             stream == FlattenSeq(packets)
             pieces == [i \in DOMAIN chunks |-> Inflated(chunks[i])]
             n == Len(chunks)
  <1>1. /\ \A i \in 1..Len(input) : /\ ids[i] \in Nat /\ ids[i] % IdMod = ids[i]
                                     /\ packets[i] = Numbered(Bodies(input[i]), ids[i])
        /\ packets \in Seq(Seq(Nat)) /\ Len(packets) = Len(input)
    BY AnswerAre
  <1>2. n \in Nat /\ DOMAIN chunks = 1..n /\ \A i \in 1..n : pieces[i] = Inflated(chunks[i]) /\ pieces[i] # <<>>
    OBVIOUS
  <1>3. pieces \in Seq(Seq(Nat)) /\ Len(pieces) = n
    <2> DEFINE S == Seq(Nat)
    <2>1. \A i \in 1..n : Inflated(chunks[i]) \in S
      BY <1>2
    <2> HIDE DEF S
    <2>2. pieces \in [1..n -> S]
      BY <1>2, <2>1
    <2> HIDE DEF pieces, n
    <2>3. pieces \in Seq(S) /\ Len(pieces) = n
      BY <1>2, <2>2, FunctionIsSeq
    <2> QED
      BY <2>3 DEF S
  <1>4. stream = FlattenSeq(pieces)
    BY DEF Plain
  <1> HIDE DEF packets, ids, pieces
  <1>5. stream \in Seq(Nat)
    BY <1>1, FlattenedExist, Flattened
  <1>6. PICK place : Places(stream, 1, pieces, place)
    <2> DEFINE one == 1
    <2>1. one \in Nat \ {0} /\ Holds(stream, one, FlattenSeq(pieces))
      <3>1. Holds(stream, 1, stream)
        BY <1>5, HoldsItself
      <3> QED
        BY <1>4, <3>1
    <2> HIDE DEF one, stream
    <2>2. \E place : Places(stream, one, pieces, place)
      BY <1>3, <1>5, <2>1, Placed
    <2> QED
      BY <2>2 DEF one
  <1>7. InChunks(stream, chunks, pieces, place)
    <2> HIDE DEF stream, n
    <2>1. \A i \in 1..Len(pieces) : Inflated(chunks[i]) = pieces[i] /\ pieces[i] # <<>>
      BY <1>2, <1>3
    <2>2. Len(chunks) = Len(pieces)
      BY <1>3 DEF n
    <2>3. \E S : chunks \in Seq(S)
      OBVIOUS
    <2> QED
      BY <1>3, <1>4, <1>5, <1>6, <2>1, <2>2, <2>3 DEF InChunks
  <1>8. stream = FlattenSeq(packets)
    OBVIOUS
  <1> HIDE DEF stream
  <1>9. ReadWhole(ReadAll(chunks), ids)
    BY <1>1, <1>7, <1>8, ReadWholeHeld
  <1> QED
    BY <1>9 DEF ids

\* The payloads are sequences of bytes.
PayloadsInv == what = "payloads" => input \in Seq(Seq(Nat))

\* For every MaxPacket and IdMod, for payloads of every length and any number of them, client
\* and server write the same packets, ReadPacket reads them back, and the compressed reader
\* finds them in chunks of each size, and leaves no byte.  The payloads whose packets are
\* counted once too often ("full_chunk") are left out, as in the run.
THEOREM WireFramesAgree == ASSUME CountsRight PROVE Spec => []FramesAgree
  <1>1. Init => PayloadsInv
    BY DEF Init, PayloadsInv
  <1>2. PayloadsInv /\ [Next]_vars => PayloadsInv'
    <2> SUFFICES ASSUME PayloadsInv, [Next]_vars, what' = "payloads" PROVE input' \in Seq(Seq(Nat))
      BY DEF PayloadsInv
    <2>1. CASE AddPayload
      <3> DEFINE T == Seq(Nat)
                 k == Len(input)
      <3>1. input \in Seq(T)
        BY <2>1 DEF AddPayload, PayloadsInv
      <3>2. PICK length \in Lengths : input' = Append(input, [i \in 1..length |-> 10 * k + i])
        BY <2>1 DEF AddPayload
      <3> DEFINE payload == [i \in 1..length |-> 10 * k + i]
      <3>3. length \in Nat /\ k \in Nat
        BY <3>1, WireAssumption
      <3> HIDE DEF k
      <3>4. payload \in [1..length -> Nat]
        BY <3>3
      <3> HIDE DEF payload
      <3>5. payload \in T
        BY <3>3, <3>4, FunctionIsSeq
      <3>6. input' = Append(input, payload)
        BY <3>2 DEF payload
      <3> HIDE DEF T
      <3>7. input' \in Seq(T)
        BY <3>1, <3>5, <3>6, AppendProperties
      <3> QED
        BY <3>7 DEF T
    <2>2. CASE UNCHANGED vars
      BY <2>2 DEF vars, PayloadsInv
    <2>3. CASE AddField \/ AddParameter \/ AddColumn
      BY <2>3 DEF AddField, AddParameter, AddColumn
    <2> QED
      BY <2>1, <2>2, <2>3 DEF Next
  <1>3. PayloadsInv => FramesAgree
    <2> SUFFICES ASSUME input \in Seq(Seq(Nat)), NEW first \in {0, IdMod - 1}
                 PROVE  LET ids == [i \in DOMAIN input |-> FirstIds(first)[i - 1]] IN
                        ReadBack(ids, [i \in DOMAIN input |-> ServerPackets(input[i], ids[i])], first)
      BY DEF PayloadsInv, FramesAgree
    <2>1. first \in 0..(IdMod - 1)
      BY FramingAssumption
    <2> QED
      BY <2>1, FramesRead DEF AnswerIds, AnswerPackets
  <1> QED
    BY <1>1, <1>2, <1>3, PTL DEF Spec

-----------------------------------------------------------------------------
(***************************************************************************)
(* Rows of a binlog.                                                       *)
(***************************************************************************)

LEMMA ColumnFacts ==
  ASSUME NEW i \in Nat \ {0}
  PROVE  /\ \/ ColumnType(i) = "tiny" /\ ColumnMetadata(i) = 0
            \/ ColumnType(i) = "varchar" /\ ColumnMetadata(i) \in {255, 256}
            \/ ColumnType(i) = "blob" /\ ColumnMetadata(i) = 2
         /\ ColumnValue(i) \in Seq(Nat) /\ Len(ColumnValue(i)) \in 0..2
         /\ ColumnType(i) = "tiny" => Len(ColumnValue(i)) = 1
  <1> DEFINE r == i % 4
             m == i % 3
             rest == [k \in 1..m |-> i]
  <1>1. r = 0 \/ r = 1 \/ r = 2 \/ r = 3
    OBVIOUS
  <1>2. m \in 0..2
    OBVIOUS
  <1>3. /\ ColumnType(i) = <<"tiny", "varchar", "blob", "varchar">>[r + 1]
        /\ ColumnMetadata(i) = <<0, 255, 2, 256>>[r + 1]
    BY DEF ColumnType, ColumnMetadata
  <1> HIDE DEF r
  <1>4. \/ ColumnType(i) = "tiny" /\ ColumnMetadata(i) = 0
        \/ ColumnType(i) = "varchar" /\ ColumnMetadata(i) \in {255, 256}
        \/ ColumnType(i) = "blob" /\ ColumnMetadata(i) = 2
    <2>1. CASE r = 0
      BY <1>3, <2>1
    <2>2. CASE r = 1
      BY <1>3, <2>2
    <2>3. CASE r = 2
      BY <1>3, <2>3
    <2>4. CASE r = 3
      BY <1>3, <2>4
    <2> QED
      BY <1>1, <2>1, <2>2, <2>3, <2>4
  <1>5. rest \in Seq(Nat) /\ Len(rest) = m
    <2> HIDE DEF m
    <2>1. rest \in [1..m -> Nat] /\ m \in Nat
      BY <1>2
    <2> HIDE DEF rest
    <2> QED
      BY <2>1, FunctionIsSeq
  <1>6. <<i>> \in Seq(Nat) /\ Len(<<i>>) = 1
    OBVIOUS
  <1>7. ColumnValue(i) = IF ColumnType(i) = "tiny" THEN <<i>> ELSE rest
    BY DEF ColumnValue
  <1> HIDE DEF rest, m
  <1>8. CASE ColumnType(i) = "tiny"
    BY <1>4, <1>6, <1>7, <1>8
  <1>9. CASE ColumnType(i) # "tiny"
    BY <1>2, <1>4, <1>5, <1>7, <1>9
  <1> QED
    BY <1>8, <1>9

\* parse_table_map_column_metadata reads back the metadata of a column.
LEMMA MetadataHeld ==
  ASSUME NEW stream \in Seq(Nat), NEW at \in Nat \ {0}, NEW i \in Nat \ {0},
         Holds(stream, at, WrittenMetadata(i))
  PROVE  Integer(stream, at, MetadataWidth(ColumnType(i))) = ColumnMetadata(i)
  <1> DEFINE n == ColumnMetadata(i)
             width == MetadataWidth(ColumnType(i))
  <1>1. Holds(stream, at, LittleEndian(n, width))
    BY DEF WrittenMetadata
  <1>2. \/ ColumnType(i) = "tiny" /\ n = 0
        \/ ColumnType(i) = "varchar" /\ n \in {255, 256}
        \/ ColumnType(i) = "blob" /\ n = 2
    BY ColumnFacts
  <1>3. CASE ColumnType(i) = "tiny"
    <2>1. width = 0 /\ n = 0
      BY <1>2, <1>3 DEF MetadataWidth
    <2>2. Integer(stream, at, 0) = 0
      BY DEF Integer
    <2> QED
      BY <2>1, <2>2
  <1>4. CASE ColumnType(i) = "varchar"
    <2>1. width = 2 /\ n \in Nat /\ n <= 256
      BY <1>2, <1>4 DEF MetadataWidth
    <2> HIDE DEF n, width
    <2>2. n <= MaxLength /\ n < Weight[3]
      BY <2>1 DEF MaxLength, Weight
    <2> QED
      BY <1>1, <2>1, <2>2, LittleEndianHeld DEF n, width
  <1>5. CASE ColumnType(i) = "blob"
    <2>1. width = 1 /\ n \in Nat /\ n <= 2
      BY <1>2, <1>5 DEF MetadataWidth
    <2> HIDE DEF n, width
    <2>2. n <= MaxLength /\ n < 256
      BY <2>1 DEF MaxLength
    <2> QED
      BY <1>1, <2>1, <2>2, LittleEndianHeld DEF n, width
  <1> QED
    BY <1>2, <1>3, <1>4, <1>5

LEMMA WrittenMetadataIsBytes ==
  ASSUME NEW i \in Nat \ {0}
  PROVE  /\ WrittenMetadata(i) \in Seq(Nat) /\ MetadataWidth(ColumnType(i)) \in Nat
         /\ Len(WrittenMetadata(i)) = MetadataWidth(ColumnType(i))
  <1>1. ColumnMetadata(i) \in Nat
    BY ColumnFacts
  <1>2. MetadataWidth(ColumnType(i)) \in Nat
    BY DEF MetadataWidth
  <1> QED
    BY <1>1, <1>2, LittleEndianIsBytes DEF WrittenMetadata

\* read_binlog_row_value reads back a value, after its length if it has one.
LEMMA WrittenValueHeld ==
  ASSUME NEW i \in Nat \ {0}
  PROVE  /\ WrittenValue(i) \in Seq(Nat)
         /\ \A stream \in Seq(Nat), at \in Nat \ {0} :
              Holds(stream, at, WrittenValue(i)) =>
                ReadBinlogValue(stream, at, ColumnType(i), ColumnMetadata(i))
                  = [value |-> <<ColumnValue(i)>>, next |-> at + Len(WrittenValue(i))]
  <1> DEFINE type == ColumnType(i)
             metadata == ColumnMetadata(i)
             bytes == ColumnValue(i)
             n == Len(bytes)
             width == LengthBytes(i)
             length == LittleEndian(n, width)
  <1>1. /\ \/ type = "tiny" /\ metadata = 0
           \/ type = "varchar" /\ metadata \in {255, 256}
           \/ type = "blob" /\ metadata = 2
        /\ bytes \in Seq(Nat) /\ n \in 0..2 /\ (type = "tiny" => n = 1)
    BY ColumnFacts
  <1>2. CASE type = "tiny"
    <2>1. WrittenValue(i) = bytes /\ n = 1
      BY <1>1, <1>2 DEF WrittenValue
    <2>2. ASSUME NEW stream \in Seq(Nat), NEW at \in Nat \ {0}, Holds(stream, at, bytes)
          PROVE  ReadBinlogValue(stream, at, type, metadata) = [value |-> <<bytes>>, next |-> at + n]
      <3> HIDE DEF bytes
      <3>1. Slice(stream, at, n) = bytes
        BY <1>1, <2>2, SliceHeld
      <3> QED
        BY <1>2, <2>1, <3>1 DEF ReadBinlogValue
    <2> QED
      BY <1>1, <2>1, <2>2
  <1>3. CASE type # "tiny"
    <2>1. WrittenValue(i) = length \o bytes
      BY <1>3 DEF WrittenValue
    <2>2. width \in {1, 2}
      BY <1>1, <1>3 DEF LengthBytes
    <2>3. width = IF type = "varchar" THEN IF metadata > 255 THEN 2 ELSE 1 ELSE IF metadata = 0 THEN 1 ELSE metadata
      BY <1>1, <1>3 DEF LengthBytes
    <2> HIDE DEF type, metadata, bytes, width
    <2>4. length \in Seq(Nat) /\ Len(length) = width
      BY <1>1, <2>2, LittleEndianIsBytes
    <2>5. n \in Nat /\ n <= MaxLength /\ n < 256 /\ n < Weight[3]
      <3> HIDE DEF n
      <3> QED
        BY <1>1 DEF MaxLength, Weight
    <2>6. length \o bytes \in Seq(Nat) /\ Len(length \o bytes) = width + n
      <3> HIDE DEF length
      <3> QED
        BY <1>1, <2>4
    <2>7. ASSUME NEW stream \in Seq(Nat), NEW at \in Nat \ {0}, Holds(stream, at, length \o bytes)
          PROVE  ReadBinlogValue(stream, at, type, metadata)
                   = [value |-> <<bytes>>, next |-> at + Len(length \o bytes)]
      <3>1. Holds(stream, at, length) /\ Holds(stream, at + width, bytes)
        <4> HIDE DEF length
        <4> QED
          BY <1>1, <2>4, <2>7, HoldsParts
      <3>2. Integer(stream, at, width) = n
        <4> HIDE DEF n
        <4> QED
          BY <2>2, <2>5, <3>1, LittleEndianHeld
      <3>3. Slice(stream, at + width, n) = bytes
        <4> DEFINE from == at + width
        <4>1. from \in Nat \ {0}
          BY <2>2
        <4> HIDE DEF from
        <4> QED
          BY <1>1, <3>1, <4>1, SliceHeld DEF from
      <3> DEFINE w == IF type = "varchar" THEN IF metadata > 255 THEN 2 ELSE 1
                      ELSE IF metadata = 0 THEN 1 ELSE metadata
      <3>4. ReadBinlogValue(stream, at, type, metadata)
              = [value |-> <<Slice(stream, at + w, Integer(stream, at, w))>>, next |-> at + w + Integer(stream, at, w)]
        BY <1>3 DEF ReadBinlogValue, type
      <3>5. w = width
        BY <2>3
      <3> HIDE DEF w
      <3>6. at + width + n = at + Len(length \o bytes)
        BY <2>2, <2>5, <2>6
      <3> QED
        BY <3>2, <3>3, <3>4, <3>5, <3>6
    <2> QED
      BY <2>1, <2>6, <2>7 DEF type, metadata, bytes
  <1> QED
    BY <1>2, <1>3
Holding == {Absent, "null", "value"}

\* A column that is counted comes before the end and raises the count of those after it.
LEMMA RanksGrow ==
  ASSUME NEW S, IsFiniteSet(S), S \subseteq Nat, NEW i \in S
  PROVE  /\ Cardinality({j \in S : j < i}) \in Nat /\ Cardinality(S) \in Nat
         /\ Cardinality({j \in S : j < i}) < Cardinality(S)
         /\ \A k \in S : i < k => Cardinality({j \in S : j < i}) < Cardinality({j \in S : j < k})
  <1> DEFINE Before(x) == {j \in S : j < x}
  <1>1. \A x : Before(x) \in SUBSET S
    OBVIOUS
  <1>2. \A x \in Nat : IsFiniteSet(Before(x)) /\ Cardinality(Before(x)) \in Nat
    BY <1>1, FS_Subset, FS_CardinalityType
  <1>3. i \notin Before(i) /\ i \in Nat
    OBVIOUS
  <1> DEFINE B == Before(i)
             more == B \cup {i}
  <1>4. IsFiniteSet(more) /\ Cardinality(more) = Cardinality(B) + 1
    <2>1. IsFiniteSet(B) /\ i \notin B
      BY <1>2, <1>3
    <2> HIDE DEF B
    <2> QED
      BY <2>1, FS_AddElement
  <1>5. ASSUME NEW T, IsFiniteSet(T), more \subseteq T PROVE Cardinality(B) < Cardinality(T)
    <2>1. Cardinality(more) <= Cardinality(T) /\ Cardinality(T) \in Nat
      <3> HIDE DEF more
      <3> QED
        BY <1>5, FS_Subset, FS_CardinalityType
    <2>2. Cardinality(B) \in Nat
      BY <1>2, <1>3
    <2> HIDE DEF more, B
    <2> QED
      BY <1>4, <2>1, <2>2
  <1>6. Cardinality(B) < Cardinality(S)
    <2>1. more \subseteq S
      OBVIOUS
    <2> QED
      BY <1>5, <2>1
  <1>7. ASSUME NEW k \in S, i < k PROVE Cardinality(B) < Cardinality(Before(k))
    <2>1. more \subseteq Before(k)
      <3>1. \A j \in B : j < k
        BY <1>7
      <3> QED
        BY <1>7, <3>1
    <2>2. IsFiniteSet(Before(k))
      BY <1>2
    <2> HIDE DEF more, B, Before
    <2> QED
      BY <1>5, <2>1, <2>2
  <1>8. Cardinality(B) \in Nat /\ Cardinality(S) \in Nat
    BY <1>2, <1>3, FS_CardinalityType
  <1> QED
    BY <1>6, <1>7, <1>8

\* The columns of an image that are present, and those before one of them.
LEMMA PresentFinite ==
  ASSUME NEW image \in Seq(Holding)
  PROVE  /\ IsFiniteSet(Present(image)) /\ Present(image) \subseteq 1..Len(image)
         /\ Cardinality(Present(image)) \in 0..Len(image)
         /\ Present(image) # {} => Cardinality(Present(image)) # 0
  <1> DEFINE n == Len(image)
             S == Present(image)
  <1>1. n \in Nat /\ S \in SUBSET (1..n)
    BY DEF Present
  <1> HIDE DEF n, S
  <1>2. IsFiniteSet(1..n) /\ Cardinality(1..n) = n
    BY <1>1, FS_Interval
  <1>3. IsFiniteSet(S) /\ Cardinality(S) <= n
    BY <1>1, <1>2, FS_Subset
  <1>4. Cardinality(S) \in Nat
    BY <1>3, FS_CardinalityType
  <1>5. S # {} => Cardinality(S) # 0
    BY <1>3, FS_EmptySet
  <1> QED
    BY <1>1, <1>3, <1>4, <1>5 DEF n, S

LEMMA BitmapBytesEnough ==
  ASSUME NEW count \in Nat
  PROVE  BitmapBytes(count) \in Nat /\ 8 * BitmapBytes(count) >= count /\ (count # 0 => BitmapBytes(count) # 0)
  BY DEF BitmapBytes

\* The bitmap of the columns that are present.
LEMMA PresentRead ==
  ASSUME NEW image \in Seq(Holding), NEW i \in 1..Len(image)
  PROVE  HasBit(WrittenBitmap(image), i - 1) <=> i \in Present(image)
  <1> DEFINE n == Len(image)
             S == Present(image)
             bits == {j - 1 : j \in S}
             m == BitmapBytes(n)
  <1>1. n \in Nat /\ S \subseteq 1..n
    BY PresentFinite
  <1>2. WrittenBitmap(image) = Bitmap(bits, m)
    BY DEF WrittenBitmap
  <1> HIDE DEF n, S
  <1>3. m \in Nat /\ 8 * m >= n
    BY <1>1, BitmapBytesEnough
  <1>4. i \in 1..n
    BY DEF n
  <1> HIDE DEF m
  <1>5. i - 1 \in 0..(8 * m - 1)
    BY <1>1, <1>3, <1>4
  <1>6. HasBit(Bitmap(bits, m), i - 1) <=> i - 1 \in bits
    <2> HIDE DEF bits
    <2> QED
      BY <1>3, <1>5, BitmapRead
  <1>7. i - 1 \in bits <=> i \in S
    <2>1. \A j \in S : j \in Int
      BY <1>1
    <2>2. \A j \in S : j - 1 = i - 1 => j = i
      BY <1>4, <2>1
    <2> QED
      BY <2>2
  <1> QED
    BY <1>2, <1>6, <1>7 DEF S

\* bitmap_set_count counts the columns that are present before one.
LEMMA SetCountRead ==
  ASSUME NEW image \in Seq(Holding), NEW k \in 0..Len(image)
  PROVE  SetCount(WrittenBitmap(image), k) = Cardinality({j \in Present(image) : j <= k})
  <1> DEFINE n == Len(image)
             S == {j \in Present(image) : j <= k}
             T == {i \in 0..(k - 1) : HasBit(WrittenBitmap(image), i)}
             f == [j \in S |-> j - 1]
  <1>1. n \in Nat /\ k \in 0..n /\ IsFiniteSet(Present(image)) /\ Present(image) \subseteq 1..n
    BY PresentFinite
  <1>2. \A i \in 1..n : HasBit(WrittenBitmap(image), i - 1) <=> i \in Present(image)
    BY PresentRead
  <1> HIDE DEF n
  <1>3. S \subseteq 1..k /\ \A j \in S : j - 1 \in T
    <2>1. ASSUME NEW j \in S PROVE j \in 1..k /\ j - 1 \in T
      <3>1. j \in 1..n /\ j \in Present(image) /\ j <= k
        BY <1>1
      <3>2. j \in 1..k /\ j - 1 \in 0..(k - 1)
        BY <1>1, <3>1
      <3>3. HasBit(WrittenBitmap(image), j - 1)
        BY <1>2, <3>1
      <3> QED
        BY <3>2, <3>3
    <2> QED
      BY <2>1
  <1>4. \A i \in T : i + 1 \in S /\ (i + 1) - 1 = i
    <2> TAKE i \in T
    <2> DEFINE j == i + 1
    <2>1. j \in 1..n /\ j - 1 = i /\ j <= k
      BY <1>1
    <2> HIDE DEF j
    <2>2. j \in Present(image)
      BY <1>2, <2>1
    <2>3. j \in S
      BY <2>1, <2>2
    <2> QED
      BY <2>1, <2>3 DEF j
  <1>5. IsFiniteSet(S)
    <2>1. S \in SUBSET Present(image)
      OBVIOUS
    <2> HIDE DEF S
    <2> QED
      BY <1>1, <2>1, FS_Subset
  <1> HIDE DEF S, T
  <1>6. f \in [S -> T] /\ \A j \in S : f[j] = j - 1
    BY <1>3
  <1>7. \A a, b \in S : f[a] = f[b] => a = b
    <2> TAKE a, b \in S
    <2>1. a \in Int /\ b \in Int
      BY <1>3
    <2> QED
      BY <1>6, <2>1
  <1>8. \A t \in T : \E j \in S : f[j] = t
    <2> TAKE t \in T
    <2>1. t + 1 \in S /\ (t + 1) - 1 = t
      BY <1>4
    <2>2. f[t + 1] = t
      BY <1>6, <2>1
    <2> QED
      BY <2>1, <2>2
  <1> HIDE DEF f
  <1>9. ExistsBijection(S, T)
    <2>1. f \in Bijection(S, T)
      BY <1>6, <1>7, <1>8, Fun_IsBij
    <2> QED
      BY <2>1 DEF ExistsBijection
  <1>10. Cardinality(T) = Cardinality(S)
    BY <1>5, <1>9, FS_Bijection
  <1> QED
    BY <1>10 DEF SetCount, S, T

\* The NULLs are numbered among the columns that are present.
LEMMA NullRead ==
  ASSUME NEW image \in Seq(Holding), NEW i \in Present(image),
         NEW bitmap, bitmap = Bitmap({PresentBefore(image, j) : j \in {x \in DOMAIN image : image[x] = "null"}},
                                     BitmapBytes(Cardinality(Present(image))))
  PROVE  HasBit(bitmap, SetCount(WrittenBitmap(image), i - 1)) <=> image[i] = "null"
  <1> DEFINE S == Present(image)
             n == Len(image)
             N == {x \in DOMAIN image : image[x] = "null"}
             rank(j) == PresentBefore(image, j)
             bits == {rank(j) : j \in N}
             c == Cardinality(S)
             m == BitmapBytes(c)
  <1>1. n \in Nat /\ DOMAIN image = 1..n /\ IsFiniteSet(S) /\ S \subseteq 1..n /\ c \in Nat
    <2>1. c \in 0..n
      BY PresentFinite
    <2> HIDE DEF c
    <2>2. c \in Nat
      BY <2>1
    <2> QED
      BY <2>2, PresentFinite
  <1>2. N \subseteq S
    BY DEF Present, Absent
  <1>3. i \in S /\ i \in 1..n
    BY <1>1
  <1>4. i \in N <=> image[i] = "null"
    BY <1>1, <1>3
  <1>5. \A j \in S : rank(j) \in Nat /\ rank(j) < c /\ \A k \in S : j < k => rank(j) < rank(k)
    <2> HIDE DEF S
    <2>1. S \subseteq Nat
      BY <1>1
    <2>2. \A j : rank(j) = Cardinality({k \in S : k < j})
      BY DEF PresentBefore, S
    <2> HIDE DEF rank
    <2>3. ASSUME NEW j \in S PROVE rank(j) \in Nat /\ rank(j) < c /\ \A k \in S : j < k => rank(j) < rank(k)
      <3>1. /\ Cardinality({k \in S : k < j}) \in Nat /\ Cardinality({k \in S : k < j}) < Cardinality(S)
            /\ \A k \in S : j < k => Cardinality({l \in S : l < j}) < Cardinality({l \in S : l < k})
        BY <1>1, <2>1, RanksGrow
      <3> QED
        BY <2>2, <3>1
    <2> QED
      BY <2>3
  <1>6. SetCount(WrittenBitmap(image), i - 1) = rank(i)
    <2>1. i - 1 \in 0..n
      BY <1>1, <1>3
    <2>2. SetCount(WrittenBitmap(image), i - 1) = Cardinality({j \in S : j <= i - 1})
      BY <2>1, SetCountRead
    <2>3. \A j \in S : j <= i - 1 <=> j < i
      BY <1>1, <1>3
    <2>4. {j \in S : j <= i - 1} = {j \in S : j < i}
      BY <2>3
    <2> QED
      BY <2>2, <2>4 DEF PresentBefore
  <1>7. m \in Nat /\ 8 * m >= c
    <2> HIDE DEF c
    <2> QED
      BY <1>1, BitmapBytesEnough
  <1>8. bitmap = Bitmap(bits, m)
    OBVIOUS
  <1> HIDE DEF S, n, N, rank, c, m
  <1>9. rank(i) \in 0..(8 * m - 1)
    BY <1>1, <1>3, <1>5, <1>7
  <1>10. HasBit(bitmap, rank(i)) <=> rank(i) \in bits
    <2> HIDE DEF bits
    <2> QED
      BY <1>7, <1>8, <1>9, BitmapRead
  <1>11. rank(i) \in bits <=> i \in N
    <2>1. ASSUME NEW j \in N, rank(j) = rank(i) PROVE j = i
      <3>1. j \in S /\ j \in Nat /\ i \in Nat /\ rank(i) \in Nat
        BY <1>1, <1>2, <1>3, <1>5
      <3>2. ~(j < i) /\ ~(i < j)
        BY <1>3, <1>5, <2>1, <3>1
      <3> QED
        BY <3>1, <3>2
    <2> QED
      BY <2>1
  <1> QED
    BY <1>4, <1>6, <1>10, <1>11
\* parse_table_map_metadata reads the metadata of every column.
LEMMA MetadataRead ==
  ASSUME NEW n \in Nat, NEW types, types = [i \in 1..n |-> ColumnType(i)],
         NEW bytes, bytes = FlattenSeq([i \in 1..n |-> WrittenMetadata(i)])
  PROVE  Metadata(types, bytes) = [i \in 1..n |-> ColumnMetadata(i)]
  <1> DEFINE seqs == [i \in 1..n |-> WrittenMetadata(i)]
             row == [i \in 1..n |-> ColumnMetadata(i)]
             one == 1
  <1>1. n \in Nat /\ DOMAIN types = 1..n /\ Len(types) = n /\ \A i \in 1..n : types[i] = ColumnType(i)
    <2> DEFINE T == {ColumnType(i) : i \in 1..n}
    <2>1. types \in [1..n -> T]
      OBVIOUS
    <2> HIDE DEF T
    <2>2. Len(types) = n
      BY <2>1, FunctionIsSeq
    <2> QED
      BY <2>2
  <1>2. seqs \in Seq(Seq(Nat)) /\ Len(seqs) = n
    <2> DEFINE T == Seq(Nat)
    <2>1. \A i \in 1..n : WrittenMetadata(i) \in T
      BY WrittenMetadataIsBytes
    <2> HIDE DEF T
    <2>2. seqs \in [1..n -> T]
      BY <2>1
    <2> HIDE DEF seqs
    <2>3. seqs \in Seq(T) /\ Len(seqs) = n
      BY <2>2, FunctionIsSeq
    <2> QED
      BY <2>3 DEF T
  <1>3. \A i \in 1..n : seqs[i] = WrittenMetadata(i) /\ Len(seqs[i]) = MetadataWidth(types[i])
    BY <1>1, WrittenMetadataIsBytes
  <1>4. bytes = FlattenSeq(seqs) /\ one \in Nat \ {0}
    OBVIOUS
  <1> HIDE DEF seqs, one
  <1>5. bytes \in Seq(Nat) /\ Holds(bytes, one, bytes)
    <2>1. bytes \in Seq(Nat)
      BY <1>2, <1>4, FlattenedExist, Flattened
    <2> QED
      BY <2>1, HoldsItself DEF one
  <1>6. PICK place : Places(bytes, one, seqs, place)
    <2>1. Holds(bytes, one, FlattenSeq(seqs))
      BY <1>4, <1>5
    <2> QED
      BY <1>2, <1>4, <1>5, <2>1, Placed
  <1>7. /\ place[0] = one
        /\ \A i \in 1..n : /\ i - 1 \in 0..n /\ place[i - 1] \in Nat \ {0}
                           /\ place[i] = place[i - 1] + Len(seqs[i])
                           /\ Holds(bytes, place[i - 1], seqs[i])
    BY <1>2, <1>6 DEF Places
  <1> DEFINE Read(i, at) == [value |-> Integer(bytes, at, MetadataWidth(types[i])), next |-> at + MetadataWidth(types[i])]
  <1>8. ASSUME NEW i \in 1..n
        PROVE  Read(i, place[i - 1]) = [value |-> row[i], next |-> place[i]]
    <2> DEFINE at == place[i - 1]
    <2>1. at \in Nat \ {0} /\ Holds(bytes, at, WrittenMetadata(i)) /\ place[i] = at + MetadataWidth(types[i])
      BY <1>3, <1>7
    <2> HIDE DEF at
    <2>2. Integer(bytes, at, MetadataWidth(types[i])) = row[i]
      <3>1. Integer(bytes, at, MetadataWidth(ColumnType(i))) = ColumnMetadata(i)
        BY <1>5, <2>1, MetadataHeld
      <3> QED
        BY <1>1, <3>1
    <2> QED
      BY <2>1, <2>2 DEF at
  <1> HIDE DEF row
  <1> DEFINE Runs(g) == g = [i \in 0..n |->
               IF i = 0 THEN [row |-> <<>>, next |-> one]
               ELSE LET before == g[i - 1]
                        column == Read(i, before.next)
                    IN  [row |-> Append(before.row, column.value), next |-> column.next]]
             after == CHOOSE g : Runs(g)
             h == [i \in 0..n |-> [row |-> FirstOf(row, i), next |-> place[i]]]
  <1>11. /\ h[0] = [row |-> <<>>, next |-> one]
         /\ \A i \in 1..n : h[i] = [row |-> FirstOf(row, i), next |-> place[i]]
         /\ \A i \in 1..n : i # 0 /\ h[i - 1] = [row |-> FirstOf(row, i - 1), next |-> place[i - 1]]
    <2>1. FirstOf(row, 0) = <<>>
      BY DEF FirstOf
    <2>2. \A i \in 1..n : i - 1 \in 0..n
      BY <1>1
    <2> QED
      BY <1>1, <1>7, <2>1, <2>2
  <1>12. ASSUME NEW i \in 1..n
         PROVE  h[i] = [row |-> Append(h[i - 1].row, Read(i, h[i - 1].next).value),
                        next |-> Read(i, h[i - 1].next).next]
    <2>1. i \in Nat \ {0}
      BY <1>1
    <2>2. h[i - 1].row = FirstOf(row, i - 1) /\ h[i - 1].next = place[i - 1]
      <3>1. h[i - 1] = [row |-> FirstOf(row, i - 1), next |-> place[i - 1]]
        BY <1>11
      <3> HIDE DEF h
      <3> QED
        BY <3>1
    <2>3. Read(i, h[i - 1].next) = [value |-> row[i], next |-> place[i]]
      BY <1>8, <2>2
    <2> HIDE DEF h, Read
    <2>4. Append(h[i - 1].row, Read(i, h[i - 1].next).value) = FirstOf(row, i)
      <3>1. Append(FirstOf(row, i - 1), row[i]) = FirstOf(row, i)
        BY <2>1, FirstAppended
      <3>2. Read(i, h[i - 1].next).value = row[i]
        BY <2>3
      <3> QED
        BY <2>2, <3>1, <3>2
    <2>5. h[i] = [row |-> FirstOf(row, i), next |-> place[i]]
      BY <1>11
    <2>6. Read(i, h[i - 1].next).next = place[i]
      BY <2>3
    <2> QED
      BY <2>4, <2>5, <2>6
  <1>13. Runs(h)
    <2> DEFINE next == [i \in 0..n |->
                 IF i = 0 THEN [row |-> <<>>, next |-> one]
                 ELSE [row |-> Append(h[i - 1].row, Read(i, h[i - 1].next).value),
                       next |-> Read(i, h[i - 1].next).next]]
    <2>1. h = [i \in 0..n |-> h[i]]
      OBVIOUS
    <2> HIDE DEF h, Read
    <2>2. \A i \in 0..n : h[i] = next[i]
      <3> TAKE i \in 0..n
      <3>1. CASE i = 0
        BY <1>11, <3>1
      <3>2. CASE i # 0
        <4>1. i \in 1..n
          BY <1>1, <3>2
        <4> QED
          BY <1>12, <3>2, <4>1
      <3> QED
        BY <3>1, <3>2
    <2>3. h = next
      BY <2>1, <2>2
    <2> QED
      BY <2>3
  <1>14. Runs(after)
    <2> HIDE DEF h, Runs
    <2> QED
      BY <1>13
  <1>15. after[n] = h[n]
    <2> HIDE DEF h, after, Read
    <2> DEFINE P == {i \in Nat : i <= n => after[i] = h[i]}
    <2>1. 0 \in P
      BY <1>1, <1>11, <1>14
    <2>2. ASSUME NEW k \in Nat, k < n, k \in P PROVE k + 1 \in P
      <3> DEFINE i == k + 1
      <3>1. i \in 1..n /\ i \in 0..n /\ i # 0 /\ i - 1 = k /\ after[k] = h[k]
        BY <1>1, <2>2
      <3> HIDE DEF i
      <3>2. after[i] = [row |-> Append(after[i - 1].row, Read(i, after[i - 1].next).value),
                        next |-> Read(i, after[i - 1].next).next]
        BY <1>14, <3>1
      <3>3. after[i] = h[i]
        BY <1>12, <3>1, <3>2
      <3> QED
        BY <3>1, <3>3 DEF i
    <2> HIDE DEF P
    <2>3. \A k \in 0..n : k \in P
      BY <1>1, <2>1, <2>2, InductionUpTo
    <2> QED
      BY <1>1, <2>3 DEF P
  <1>16. h[n] = [row |-> FirstOf(row, n), next |-> place[n]]
    BY <1>1
  <1>17. Metadata(types, bytes) = after[n].row
    BY <1>1 DEF Metadata, Columns, one
  <1>18. FirstOf(row, n) = row
    BY <1>1 DEF FirstOf, row
  <1> HIDE DEF h, after
  <1>19. Metadata(types, bytes) = row
    BY <1>15, <1>16, <1>17, <1>18
  <1> QED
    BY <1>19 DEF row

\* The values of an image.
ImageValues(image) == [i \in DOMAIN image |-> IF image[i] = "value" THEN <<ColumnValue(i)>> ELSE Null]
ImagePiece(image, i) == IF image[i] = "value" THEN WrittenValue(i) ELSE <<>>

LEMMA WrittenRowIsBytes ==
  ASSUME NEW image \in Seq(Holding)
  PROVE  LET nulls == {PresentBefore(image, j) : j \in {x \in DOMAIN image : image[x] = "null"}}
             count == Cardinality(Present(image))
             bitmap == Bitmap(nulls, BitmapBytes(count))
             seqs == [i \in DOMAIN image |-> ImagePiece(image, i)]
         IN  /\ WrittenRow(image) = bitmap \o FlattenSeq(seqs)
             /\ bitmap \in Seq(Nat) /\ Len(bitmap) = BitmapBytes(count) /\ BitmapBytes(count) \in Nat
             /\ seqs \in Seq(Seq(Nat)) /\ Len(seqs) = Len(image) /\ FlattenSeq(seqs) \in Seq(Nat)
             /\ WrittenRow(image) \in Seq(Nat) /\ Len(WrittenRow(image)) = Len(bitmap) + Len(FlattenSeq(seqs))
             /\ Present(image) # {} => WrittenRow(image) # <<>>
  <1> DEFINE nulls == {PresentBefore(image, j) : j \in {x \in DOMAIN image : image[x] = "null"}}
             count == Cardinality(Present(image))
             length == BitmapBytes(count)
             bitmap == Bitmap(nulls, length)
             seqs == [i \in DOMAIN image |-> ImagePiece(image, i)]
             n == Len(image)
  <1>1. n \in Nat /\ DOMAIN image = 1..n
    OBVIOUS
  <1>2. WrittenRow(image) = bitmap \o FlattenSeq(seqs)
    BY DEF WrittenRow, ImagePiece
  <1> HIDE DEF nulls
  <1>3. count \in Nat /\ (Present(image) # {} => count # 0)
    <2>1. count \in 0..n
      BY PresentFinite
    <2>2. Present(image) # {} => count # 0
      BY PresentFinite
    <2> HIDE DEF count
    <2> QED
      BY <1>1, <2>1, <2>2
  <1> HIDE DEF count
  <1>4. length \in Nat /\ (count # 0 => length # 0)
    BY <1>3, BitmapBytesEnough
  <1> HIDE DEF length
  <1>5. bitmap \in Seq(Nat) /\ Len(bitmap) = length
    BY <1>4, BitmapIsBytes
  <1>6. seqs \in Seq(Seq(Nat)) /\ Len(seqs) = n
    <2> DEFINE T == Seq(Nat)
    <2>1. \A i \in 1..n : ImagePiece(image, i) \in T
      BY WrittenValueHeld DEF ImagePiece
    <2> HIDE DEF T, n
    <2>2. seqs \in [1..n -> T]
      BY <1>1, <2>1
    <2> HIDE DEF seqs
    <2>3. seqs \in Seq(T) /\ Len(seqs) = n
      BY <1>1, <2>2, FunctionIsSeq
    <2> QED
      BY <2>3 DEF T
  <1> HIDE DEF bitmap, seqs
  <1>7. FlattenSeq(seqs) \in Seq(Nat)
    BY <1>6, FlattenedExist, Flattened
  <1>8. bitmap \o FlattenSeq(seqs) \in Seq(Nat) /\ Len(bitmap \o FlattenSeq(seqs)) = Len(bitmap) + Len(FlattenSeq(seqs))
    BY <1>5, <1>7, Concatenated
  <1>9. Present(image) # {} => bitmap \o FlattenSeq(seqs) # <<>>
    <2>1. ASSUME Present(image) # {} PROVE Len(bitmap \o FlattenSeq(seqs)) # 0
      <3>1. Len(bitmap) \in Nat \ {0}
        BY <1>3, <1>4, <1>5, <2>1
      <3>2. Len(FlattenSeq(seqs)) \in Nat
        BY <1>7
      <3> QED
        BY <1>8, <3>1, <3>2
    <2> QED
      BY <2>1
  <1> QED
    BY <1>2, <1>4, <1>5, <1>6, <1>7, <1>8, <1>9 DEF nulls, count, length, bitmap, seqs, n
\* What the parser knows of a table that was announced.
IsTable(table, n) ==
  /\ table.types = [i \in 1..n |-> ColumnType(i)]
  /\ table.metadata = [i \in 1..n |-> ColumnMetadata(i)]

\* read_binlog_row_values reads the values of a row that a server wrote.
LEMMA RowValuesRead ==
  ASSUME NEW image \in Seq(Holding), NEW bytes \in Seq(Nat), NEW at \in Nat \ {0},
         Holds(bytes, at, WrittenRow(image)), NEW table, IsTable(table, Len(image))
  PROVE  RowValues(bytes, at, table, WrittenBitmap(image))
           = [row |-> ImageValues(image), next |-> at + Len(WrittenRow(image))]
  <1> DEFINE n == Len(image)
             nulls == {PresentBefore(image, j) : j \in {x \in DOMAIN image : image[x] = "null"}}
             count == Cardinality(Present(image))
             length == BitmapBytes(count)
             bitmap == Bitmap(nulls, length)
             seqs == [i \in DOMAIN image |-> ImagePiece(image, i)]
             present == WrittenBitmap(image)
             row == ImageValues(image)
             start == at + length
  <1>1. /\ n \in Nat /\ DOMAIN image = 1..n /\ \A i \in 1..n : image[i] \in Holding
        /\ table.types = [i \in 1..n |-> ColumnType(i)] /\ table.metadata = [i \in 1..n |-> ColumnMetadata(i)]
    BY DEF IsTable
  <1>2. Len(table.types) = n /\ \A i \in 1..n : table.types[i] = ColumnType(i) /\ table.metadata[i] = ColumnMetadata(i)
    <2> HIDE DEF n
    <2> DEFINE T == {ColumnType(i) : i \in 1..n}
               types == table.types
    <2>1. types \in [1..n -> T]
      BY <1>1
    <2> HIDE DEF T, types
    <2>2. Len(types) = n
      BY <1>1, <2>1, FunctionIsSeq
    <2> QED
      BY <1>1, <2>2 DEF types
  <1>3. /\ WrittenRow(image) = bitmap \o FlattenSeq(seqs)
        /\ bitmap \in Seq(Nat) /\ Len(bitmap) = length /\ length \in Nat
        /\ seqs \in Seq(Seq(Nat)) /\ Len(seqs) = n /\ FlattenSeq(seqs) \in Seq(Nat)
        /\ Len(WrittenRow(image)) = Len(bitmap) + Len(FlattenSeq(seqs))
    BY WrittenRowIsBytes
  <1>4. \A i \in 1..n : seqs[i] = ImagePiece(image, i) /\ row[i] = IF image[i] = "value" THEN <<ColumnValue(i)>> ELSE Null
    BY <1>1 DEF ImageValues
  <1>5. \A i \in 1..n : HasBit(present, i - 1) <=> i \in Present(image)
    BY PresentRead
  <1>6. \A i \in Present(image) : HasBit(bitmap, SetCount(present, i - 1)) <=> image[i] = "null"
    BY NullRead
  <1>7. SetCount(present, n) = count
    <2>1. n \in 0..n /\ \A j \in Present(image) : j <= n
      <3>1. Present(image) \subseteq 1..n
        BY PresentFinite
      <3> HIDE DEF n
      <3> QED
        BY <1>1, <3>1
    <2>2. {j \in Present(image) : j <= n} = Present(image)
      BY <2>1
    <2>3. SetCount(present, n) = Cardinality({j \in Present(image) : j <= n})
      BY <2>1, SetCountRead
    <2> QED
      BY <2>2, <2>3
  <1>8. \A i \in 1..n : i \in Present(image) <=> image[i] # Absent
    BY <1>1 DEF Present
  <1> HIDE DEF n, nulls, count, seqs, present, row
  <1>9. Holds(bytes, at, bitmap) /\ Holds(bytes, start, FlattenSeq(seqs)) /\ start \in Nat \ {0}
    <2>1. Holds(bytes, at, bitmap \o FlattenSeq(seqs))
      BY <1>3
    <2> HIDE DEF bitmap, length
    <2>2. Holds(bytes, at, bitmap) /\ Holds(bytes, at + Len(bitmap), FlattenSeq(seqs))
      BY <1>3, <2>1, HoldsParts
    <2> QED
      BY <1>3, <2>2
  <1>10. Slice(bytes, at, length) = bitmap
    <2> HIDE DEF bitmap, length
    <2>1. Slice(bytes, at, Len(bitmap)) = bitmap
      BY <1>3, <1>9, SliceHeld
    <2> QED
      BY <1>3, <2>1
  <1> HIDE DEF bitmap, length, start
  <1>10a. PICK place : Places(bytes, start, seqs, place)
    BY <1>3, <1>9, Placed
  <1>10b. /\ place[0] = start
          /\ \A i \in 1..n : /\ i - 1 \in 0..n /\ place[i - 1] \in Nat \ {0}
                             /\ place[i] = place[i - 1] + Len(seqs[i])
                             /\ Holds(bytes, place[i - 1], seqs[i])
    BY <1>3, <1>10a DEF Places
  <1>10c. place[n] = start + Len(FlattenSeq(seqs))
    BY <1>3, <1>10a DEF Places
  <1> DEFINE Read(i, from) ==
               IF ~HasBit(present, i - 1) \/ HasBit(bitmap, SetCount(present, i - 1))
               THEN [value |-> Null, next |-> from]
               ELSE ReadBinlogValue(bytes, from, table.types[i], table.metadata[i])
  <1>10d. ASSUME NEW i \in 1..n
          PROVE  Read(i, place[i - 1]) = [value |-> row[i], next |-> place[i]]
    <2> DEFINE from == place[i - 1]
    <2>1. /\ from \in Nat \ {0} /\ Holds(bytes, from, ImagePiece(image, i)) /\ place[i] = from + Len(ImagePiece(image, i))
          /\ i \in Nat \ {0}
      <3>1. i \in Nat \ {0}
        BY <1>1
      <3>2. seqs[i] = ImagePiece(image, i)
        BY <1>4
      <3> QED
        BY <1>10b, <3>1, <3>2
    <2> HIDE DEF from
    <2>2. CASE image[i] = "value"
      <3>1. ImagePiece(image, i) = WrittenValue(i) /\ row[i] = <<ColumnValue(i)>>
        BY <1>4, <2>2 DEF ImagePiece
      <3>2. HasBit(present, i - 1) /\ ~HasBit(bitmap, SetCount(present, i - 1))
        <4>1. i \in Present(image)
          BY <1>8, <2>2 DEF Absent
        <4> QED
          BY <1>5, <1>6, <2>2, <4>1
      <3>3. ReadBinlogValue(bytes, from, ColumnType(i), ColumnMetadata(i))
              = [value |-> <<ColumnValue(i)>>, next |-> from + Len(WrittenValue(i))]
        BY <2>1, <3>1, WrittenValueHeld
      <3> QED
        BY <1>2, <2>1, <3>1, <3>2, <3>3 DEF from
    <2>3. CASE image[i] # "value"
      <3>1. ImagePiece(image, i) = <<>> /\ row[i] = Null
        BY <1>4, <2>3 DEF ImagePiece
      <3>2. place[i] = from
        BY <2>1, <3>1
      <3>3. ~HasBit(present, i - 1) \/ HasBit(bitmap, SetCount(present, i - 1))
        <4>1. CASE image[i] = Absent
          BY <1>5, <1>8, <4>1
        <4>2. CASE image[i] = "null"
          <5>1. i \in Present(image)
            BY <1>8, <4>2 DEF Absent
          <5> QED
            BY <1>6, <4>2, <5>1
        <4> QED
          BY <1>1, <2>3, <4>1, <4>2 DEF Holding
      <3> QED
        BY <3>1, <3>2, <3>3 DEF from
    <2> QED
      BY <2>2, <2>3
  <1> DEFINE Runs(g) == g = [i \in 0..n |->
               IF i = 0 THEN [row |-> <<>>, next |-> start]
               ELSE LET before == g[i - 1]
                        column == Read(i, before.next)
                    IN  [row |-> Append(before.row, column.value), next |-> column.next]]
             after == CHOOSE g : Runs(g)
             h == [i \in 0..n |-> [row |-> FirstOf(row, i), next |-> place[i]]]
  <1>11. /\ h[0] = [row |-> <<>>, next |-> start]
         /\ \A i \in 1..n : h[i] = [row |-> FirstOf(row, i), next |-> place[i]]
         /\ \A i \in 1..n : i # 0 /\ h[i - 1] = [row |-> FirstOf(row, i - 1), next |-> place[i - 1]]
    <2>1. FirstOf(row, 0) = <<>>
      BY DEF FirstOf
    <2>2. \A i \in 1..n : i - 1 \in 0..n
      BY <1>1
    <2> QED
      BY <1>1, <1>10b, <2>1, <2>2
  <1>12. ASSUME NEW i \in 1..n
         PROVE  h[i] = [row |-> Append(h[i - 1].row, Read(i, h[i - 1].next).value),
                        next |-> Read(i, h[i - 1].next).next]
    <2>1. i \in Nat \ {0}
      BY <1>1
    <2>2. h[i - 1].row = FirstOf(row, i - 1) /\ h[i - 1].next = place[i - 1]
      <3>1. h[i - 1] = [row |-> FirstOf(row, i - 1), next |-> place[i - 1]]
        BY <1>11
      <3> HIDE DEF h
      <3> QED
        BY <3>1
    <2>3. Read(i, h[i - 1].next) = [value |-> row[i], next |-> place[i]]
      BY <1>10d, <2>2
    <2> HIDE DEF h, Read
    <2>4. Append(h[i - 1].row, Read(i, h[i - 1].next).value) = FirstOf(row, i)
      <3>1. Append(FirstOf(row, i - 1), row[i]) = FirstOf(row, i)
        BY <2>1, FirstAppended
      <3>2. Read(i, h[i - 1].next).value = row[i]
        BY <2>3
      <3> QED
        BY <2>2, <3>1, <3>2
    <2>5. h[i] = [row |-> FirstOf(row, i), next |-> place[i]]
      BY <1>11
    <2>6. Read(i, h[i - 1].next).next = place[i]
      BY <2>3
    <2> QED
      BY <2>4, <2>5, <2>6
  <1>13. Runs(h)
    <2> DEFINE next == [i \in 0..n |->
                 IF i = 0 THEN [row |-> <<>>, next |-> start]
                 ELSE [row |-> Append(h[i - 1].row, Read(i, h[i - 1].next).value),
                       next |-> Read(i, h[i - 1].next).next]]
    <2>1. h = [i \in 0..n |-> h[i]]
      OBVIOUS
    <2> HIDE DEF h, Read
    <2>2. \A i \in 0..n : h[i] = next[i]
      <3> TAKE i \in 0..n
      <3>1. CASE i = 0
        BY <1>11, <3>1
      <3>2. CASE i # 0
        <4>1. i \in 1..n
          BY <1>1, <3>2
        <4> QED
          BY <1>12, <3>2, <4>1
      <3> QED
        BY <3>1, <3>2
    <2>3. h = next
      BY <2>1, <2>2
    <2> QED
      BY <2>3
  <1>14. Runs(after)
    <2> HIDE DEF h, Runs
    <2> QED
      BY <1>13
  <1>15. after[n] = h[n]
    <2> HIDE DEF h, after, Read
    <2> DEFINE P == {i \in Nat : i <= n => after[i] = h[i]}
    <2>1. 0 \in P
      BY <1>1, <1>11, <1>14
    <2>2. ASSUME NEW k \in Nat, k < n, k \in P PROVE k + 1 \in P
      <3> DEFINE i == k + 1
      <3>1. i \in 1..n /\ i \in 0..n /\ i # 0 /\ i - 1 = k /\ after[k] = h[k]
        BY <1>1, <2>2
      <3> HIDE DEF i
      <3>2. after[i] = [row |-> Append(after[i - 1].row, Read(i, after[i - 1].next).value),
                        next |-> Read(i, after[i - 1].next).next]
        BY <1>14, <3>1
      <3>3. after[i] = h[i]
        BY <1>12, <3>1, <3>2
      <3> QED
        BY <3>1, <3>3 DEF i
    <2> HIDE DEF P
    <2>3. \A k \in 0..n : k \in P
      BY <1>1, <2>1, <2>2, InductionUpTo
    <2> QED
      BY <1>1, <2>3 DEF P
  <1>16. h[n] = [row |-> FirstOf(row, n), next |-> place[n]]
    BY <1>1
  <1>17. RowValues(bytes, at, table, present) = after[n]
    <2> DEFINE bits == Slice(bytes, at, length)
    <2>1. bits = bitmap
      BY <1>10
    <2> HIDE DEF bits
    <2>2. BitmapBytes(SetCount(present, Len(table.types))) = length
      BY <1>2, <1>7 DEF length
    <2> QED
      BY <1>2, <2>1, <2>2 DEF RowValues, Columns, start, bits
  <1>18. FirstOf(row, n) = row
    BY <1>1 DEF FirstOf, row, ImageValues
  <1>19. place[n] = at + Len(WrittenRow(image))
    BY <1>3, <1>10c DEF start
  <1> HIDE DEF h, after
  <1>20. RowValues(bytes, at, table, present) = [row |-> row, next |-> at + Len(WrittenRow(image))]
    BY <1>15, <1>16, <1>17, <1>18, <1>19
  <1> QED
    BY <1>20 DEF row, present
\* Wherever a row lies in an event, it is found.
FindsRow(table, event, r, found) ==
  \A at \in Nat \ {0} :
    Holds(event.rows, at, r) => RowChange(table, event, at) = [rows |-> found, next |-> at + Len(r)]

\* parse_rows_event_body finds both rows of an event that holds two.
LEMMA RowChangesTwice ==
  ASSUME NEW tables, NEW event, event.table_id \in DOMAIN tables,
         NEW r \in Seq(Nat), r # <<>>, event.rows = r \o r, NEW found,
         FindsRow(tables[event.table_id], event, r, found)
  PROVE  RowChanges(tables, event) = <<found, found>>
  <1> DEFINE rows == event.rows
             l == Len(r)
             m == Len(rows)
             one == 1
             none == [changes |-> <<>>, next |-> one]
             first == [changes |-> <<found>>, next |-> one + l]
             both == [changes |-> <<found, found>>, next |-> one + l + l]
             Change(at) == RowChange(tables[event.table_id], event, at)
             Runs(g) == g = [k \in 0..m |->
               IF k = 0 THEN [changes |-> <<>>, next |-> 1]
               ELSE LET last == g[k - 1]
                        change == Change(last.next) IN
                    IF last.next > m THEN last
                    ELSE [changes |-> Append(last.changes, change.rows), next |-> change.next]]
             read == CHOOSE g : Runs(g)
             h == [k \in 0..m |-> IF k = 0 THEN none ELSE IF k = 1 THEN first ELSE both]
  <1>1. l \in Nat \ {0} /\ m = l + l /\ rows \in Seq(Nat) /\ rows = r \o r
    <2>1. /\ Len(r) \in Nat /\ r \o r \in Seq(Nat) /\ Len(r \o r) = Len(r) + Len(r)
      BY Concatenated
    <2>2. Len(r) # 0
      BY EmptySeq
    <2> QED
      BY <2>1, <2>2
  <1>2. one \in Nat \ {0} /\ one = 1
    OBVIOUS
  <1> HIDE DEF one
  <1>3. Holds(rows, one, r) /\ Holds(rows, one + l, r)
    <2>1. Holds(rows, one, rows)
      BY <1>1, <1>2, HoldsItself
    <2>2. Holds(rows, one, r \o r)
      BY <1>1, <2>1
    <2> QED
      BY <1>1, <1>2, <2>2, HoldsParts
  <1>4. Change(one) = [rows |-> found, next |-> one + l] /\ Change(one + l) = [rows |-> found, next |-> one + l + l]
    <2>1. one + l \in Nat \ {0}
      BY <1>1, <1>2
    <2> QED
      BY <1>2, <1>3, <2>1 DEF FindsRow
  <1>5. RowChanges(tables, event) = read[m].changes
    BY DEF RowChanges
  <1> HIDE DEF l, m, rows, Change
  <1> DEFINE Turn(last) == IF last.next > m THEN last
                           ELSE [changes |-> Append(last.changes, Change(last.next).rows), next |-> Change(last.next).next]
  <1>6. Turn(none) = first /\ Turn(first) = both /\ Turn(both) = both
    <2>1. ~(one > m) /\ ~(one + l > m) /\ one + l + l > m
      BY <1>1, <1>2
    <2>2. Append(<<>>, found) = <<found>> /\ Append(<<found>>, found) = <<found, found>>
      <3> DEFINE T == {found}
                 single == <<found>>
                 pair == <<found, found>>
                 more == Append(single, found)
      <3>1. found \in T /\ single \in Seq(T) /\ Len(single) = 1 /\ single[1] = found
        OBVIOUS
      <3>2. pair \in Seq(T) /\ Len(pair) = 2 /\ pair[1] = found /\ pair[2] = found
        OBVIOUS
      <3>3. Append(<<>>, found) = single
        OBVIOUS
      <3> HIDE DEF T, single, pair
      <3>4. more \in Seq(T) /\ Len(more) = 2 /\ more[1] = found /\ more[2] = found
        <4>0. single \in Seq(T) /\ found \in T
          BY <3>1
        <4>1. /\ more \in Seq(T) /\ Len(more) = Len(single) + 1
              /\ \A i \in 1..Len(single) : more[i] = single[i]
              /\ more[Len(single) + 1] = found
          BY ONLY <4>0, AppendProperties
        <4>2. Len(single) + 1 = 2 /\ 1 \in 1..Len(single)
          BY <3>1
        <4> HIDE DEF more
        <4> QED
          BY <3>1, <4>1, <4>2
      <3> HIDE DEF more
      <3>5. \A i \in 1..Len(more) : more[i] = pair[i]
        BY <3>2, <3>4
      <3>6. more = pair
        BY <3>2, <3>4, <3>5, SeqEqual
      <3> QED
        BY <3>3, <3>6 DEF more, single, pair
    <2>3. none.next = one /\ none.changes = <<>> /\ first.next = one + l /\ first.changes = <<found>> /\ both.next = one + l + l
      OBVIOUS
    <2>4. ASSUME NEW last, NEW next, last.next \in Nat, ~(last.next > m),
                 Change(last.next) = [rows |-> found, next |-> next]
          PROVE  Turn(last) = [changes |-> Append(last.changes, found), next |-> next]
      BY <2>4
    <2> HIDE DEF none
    <2>5. Turn(none) = first
      <3>1. none.next \in Nat /\ ~(none.next > m) /\ Change(none.next) = [rows |-> found, next |-> one + l]
        BY <1>2, <1>4, <2>1, <2>3
      <3> HIDE DEF Turn
      <3>2. Turn(none) = [changes |-> Append(none.changes, found), next |-> one + l]
        BY <2>4, <3>1
      <3> QED
        BY <2>2, <2>3, <3>2
    <2>6. Turn(first) = both
      <3> HIDE DEF first
      <3>1. first.next \in Nat /\ ~(first.next > m) /\ Change(first.next) = [rows |-> found, next |-> one + l + l]
        BY <1>1, <1>2, <1>4, <2>1, <2>3
      <3> HIDE DEF Turn
      <3>2. Turn(first) = [changes |-> Append(first.changes, found), next |-> one + l + l]
        BY <2>4, <3>1
      <3> QED
        BY <2>2, <2>3, <3>2
    <2>7. Turn(both) = both
      <3> HIDE DEF both
      <3> QED
        BY <2>1, <2>3
    <2> QED
      BY <2>5, <2>6, <2>7
  <1>7. none = [changes |-> <<>>, next |-> 1]
    BY <1>2
  <1> HIDE DEF none, first, both, Turn
  <1>8. h[0] = none /\ \A k \in 1..m : k # 0 /\ h[k] = Turn(h[k - 1])
    <2>1. m \in Nat /\ m > 1
      BY <1>1
    <2>2. h[0] = none
      BY <2>1
    <2>3. ASSUME NEW k \in 1..m PROVE k # 0 /\ h[k] = Turn(h[k - 1])
      <3>1. k \in 0..m /\ k - 1 \in 0..m /\ k # 0
        BY <2>1
      <3>2. h[k] = (IF k = 0 THEN none ELSE IF k = 1 THEN first ELSE both)
        BY <3>1
      <3>3. h[k - 1] = (IF k - 1 = 0 THEN none ELSE IF k - 1 = 1 THEN first ELSE both)
        BY <3>1
      <3> HIDE DEF h
      <3>4. CASE k = 1
        BY <1>6, <3>2, <3>3, <3>4
      <3>5. CASE k = 2
        BY <1>6, <3>2, <3>3, <3>5
      <3>6. CASE k # 1 /\ k # 2
        <4>1. k - 1 # 0 /\ k - 1 # 1
          BY <2>1, <3>1, <3>6
        <4> QED
          BY <1>6, <3>1, <3>2, <3>3, <3>6, <4>1
      <3> QED
        BY <3>1, <3>4, <3>5, <3>6
    <2> QED
      BY <2>2, <2>3
  <1>9. \A g : Runs(g) <=> g = [k \in 0..m |-> IF k = 0 THEN none ELSE Turn(g[k - 1])]
    <2> TAKE g
    <2>1. \A k \in 0..m :
            (IF k = 0 THEN [changes |-> <<>>, next |-> 1]
             ELSE LET last == g[k - 1]
                      change == Change(last.next) IN
                  IF last.next > m THEN last
                  ELSE [changes |-> Append(last.changes, change.rows), next |-> change.next])
            = IF k = 0 THEN none ELSE Turn(g[k - 1])
      BY <1>7 DEF Turn
    <2> QED
      BY <2>1
  <1> HIDE DEF Runs
  <1>10. Runs(h)
    <2>1. h = [k \in 0..m |-> h[k]]
      OBVIOUS
    <2> HIDE DEF h
    <2>2. \A k \in 0..m : h[k] = IF k = 0 THEN none ELSE Turn(h[k - 1])
      <3> TAKE k \in 0..m
      <3>1. k # 0 => k \in 1..m
        BY <1>1
      <3> QED
        BY <1>8, <3>1
    <2>3. h = [k \in 0..m |-> IF k = 0 THEN none ELSE Turn(h[k - 1])]
      BY <2>1, <2>2
    <2> QED
      BY <1>9, <2>3
  <1>11. Runs(read)
    <2> HIDE DEF h
    <2> QED
      BY <1>10
  <1>12. read[m] = h[m]
    <2> DEFINE P == {k \in Nat : read[k] = h[k]}
    <2> HIDE DEF h, read
    <2>1. read = [k \in 0..m |-> IF k = 0 THEN none ELSE Turn(read[k - 1])] /\ m \in Nat
      BY <1>1, <1>9, <1>11
    <2>2. 0 \in P
      BY <1>8, <2>1
    <2>3. ASSUME NEW k \in Nat, k < m, k \in P PROVE k + 1 \in P
      <3> DEFINE i == k + 1
      <3>1. i \in 1..m /\ i \in 0..m /\ i - 1 = k /\ i \in Nat
        BY <2>1, <2>3
      <3> HIDE DEF i
      <3>2. read[i] = Turn(read[i - 1]) /\ h[i] = Turn(h[i - 1])
        BY <1>8, <2>1, <3>1
      <3> QED
        BY <2>3, <3>1, <3>2 DEF i
    <2> HIDE DEF P
    <2>4. \A k \in 0..m : k \in P
      BY <2>1, <2>2, <2>3, InductionUpTo
    <2> QED
      BY <2>1, <2>4 DEF P
  <1>13. h[m] = both
    BY <1>1
  <1> HIDE DEF h, read
  <1> QED
    BY <1>5, <1>12, <1>13 DEF both
\* What a server writes for one row of an event, and what is found in it.
WrittenChange(kind, before, after) ==
  IF kind = "write" THEN WrittenRow(after)
  ELSE IF kind = "delete" THEN WrittenRow(before)
  ELSE WrittenRow(before) \o WrittenRow(after)
FoundChange(kind, before, after) ==
  <<IF kind = "write" THEN <<>> ELSE ImageValues(before), IF kind = "delete" THEN <<>> ELSE ImageValues(after)>>

\* An event says which columns its rows have.
IsEvent(event, before, after) ==
  /\ event.kind \in {"write", "delete", "update"}
  /\ event.present = WrittenBitmap(IF event.kind = "write" THEN after ELSE before)
  /\ event.present_after = WrittenBitmap(after)

LEMMA RowChangeRead ==
  ASSUME NEW before \in Seq(Holding), NEW after \in Seq(Holding), Len(before) = Len(after),
         NEW table, IsTable(table, Len(after)),
         NEW event, IsEvent(event, before, after), event.rows \in Seq(Nat),
         NEW at \in Nat \ {0}, Holds(event.rows, at, WrittenChange(event.kind, before, after))
  PROVE  RowChange(table, event, at)
           = [rows |-> FoundChange(event.kind, before, after),
              next |-> at + Len(WrittenChange(event.kind, before, after))]
  <1> DEFINE kind == event.kind
             bytes == event.rows
             Image(has, present, from) ==
               IF has THEN RowValues(bytes, from, table, present) ELSE [row |-> <<>>, next |-> from]
             first == Image(kind # "write", event.present, at)
             second == Image(kind # "delete", IF kind = "update" THEN event.present_after ELSE event.present, first.next)
  <1>1. RowChange(table, event, at) = [rows |-> <<first.row, second.row>>, next |-> second.next]
    BY DEF RowChange
  <1>2. \A from \in Nat \ {0} : /\ Holds(bytes, from, WrittenRow(before)) =>
                                     RowValues(bytes, from, table, WrittenBitmap(before))
                                       = [row |-> ImageValues(before), next |-> from + Len(WrittenRow(before))]
                                /\ Holds(bytes, from, WrittenRow(after)) =>
                                     RowValues(bytes, from, table, WrittenBitmap(after))
                                       = [row |-> ImageValues(after), next |-> from + Len(WrittenRow(after))]
    BY RowValuesRead
  <1>3. WrittenRow(before) \in Seq(Nat) /\ WrittenRow(after) \in Seq(Nat)
    BY WrittenRowIsBytes
  <1>4. /\ event.present = WrittenBitmap(IF kind = "write" THEN after ELSE before)
        /\ event.present_after = WrittenBitmap(after)
        /\ bytes \in Seq(Nat) /\ Holds(bytes, at, WrittenChange(kind, before, after))
    BY DEF IsEvent
  <1>5. kind \in {"write", "delete", "update"}
    BY DEF IsEvent
  <1> HIDE DEF kind, bytes
  <1>6. CASE kind = "write"
    <2>1. Holds(bytes, at, WrittenRow(after)) /\ WrittenChange(kind, before, after) = WrittenRow(after)
      BY <1>4, <1>6 DEF WrittenChange
    <2>2. event.present = WrittenBitmap(after)
      BY <1>4, <1>6
    <2>3. first = [row |-> <<>>, next |-> at]
      BY <1>6
    <2>4. second = [row |-> ImageValues(after), next |-> at + Len(WrittenRow(after))]
      <3> HIDE DEF first
      <3>1. first.next = at
        BY <2>3
      <3>2. second = RowValues(bytes, at, table, WrittenBitmap(after))
        BY <1>6, <2>2, <3>1
      <3> HIDE DEF second
      <3> QED
        BY <1>2, <2>1, <3>2
    <2>5. FoundChange(kind, before, after) = << <<>>, ImageValues(after)>>
      BY <1>6 DEF FoundChange
    <2> HIDE DEF first, second
    <2> QED
      BY <1>1, <2>1, <2>3, <2>4, <2>5 DEF kind
  <1>7. CASE kind = "delete"
    <2>1. Holds(bytes, at, WrittenRow(before)) /\ WrittenChange(kind, before, after) = WrittenRow(before)
      BY <1>4, <1>7 DEF WrittenChange
    <2>2. event.present = WrittenBitmap(before)
      BY <1>4, <1>7
    <2>3. first = [row |-> ImageValues(before), next |-> at + Len(WrittenRow(before))]
      <3>1. first = RowValues(bytes, at, table, WrittenBitmap(before))
        BY <1>7, <2>2
      <3> HIDE DEF first
      <3> QED
        BY <1>2, <2>1, <3>1
    <2>4. second = [row |-> <<>>, next |-> at + Len(WrittenRow(before))]
      <3> HIDE DEF first
      <3>1. second = [row |-> <<>>, next |-> first.next]
        BY <1>7
      <3> HIDE DEF second
      <3> QED
        BY <2>3, <3>1
    <2>5. FoundChange(kind, before, after) = <<ImageValues(before), <<>> >>
      BY <1>7 DEF FoundChange
    <2> HIDE DEF first, second
    <2> QED
      BY <1>1, <2>1, <2>3, <2>4, <2>5 DEF kind
  <1>8. CASE kind = "update"
    <2> DEFINE from == at + Len(WrittenRow(before))
    <2>1. WrittenChange(kind, before, after) = WrittenRow(before) \o WrittenRow(after)
      BY <1>8 DEF WrittenChange
    <2>2. Holds(bytes, at, WrittenRow(before)) /\ Holds(bytes, from, WrittenRow(after))
      <3>1. Holds(bytes, at, WrittenRow(before) \o WrittenRow(after))
        BY <1>4, <2>1
      <3> QED
        BY <1>3, <1>4, <3>1, HoldsParts
    <2>3. /\ from \in Nat \ {0}
          /\ at + Len(WrittenChange(kind, before, after)) = from + Len(WrittenRow(after))
      <3>1. Len(WrittenRow(before)) \in Nat /\ Len(WrittenRow(after)) \in Nat
        BY <1>3
      <3>2. Len(WrittenRow(before) \o WrittenRow(after)) = Len(WrittenRow(before)) + Len(WrittenRow(after))
        BY <1>3, Concatenated
      <3> QED
        BY <2>1, <3>1, <3>2
    <2>4. event.present = WrittenBitmap(before) /\ event.present_after = WrittenBitmap(after)
      BY <1>4, <1>8
    <2> HIDE DEF from
    <2>5. first = [row |-> ImageValues(before), next |-> from]
      <3>1. first = RowValues(bytes, at, table, WrittenBitmap(before))
        BY <1>8, <2>4
      <3> HIDE DEF first
      <3> QED
        BY <1>2, <2>2, <3>1 DEF from
    <2>6. second = [row |-> ImageValues(after), next |-> from + Len(WrittenRow(after))]
      <3> HIDE DEF first
      <3>1. first.next = from
        BY <2>5
      <3>2. second = RowValues(bytes, from, table, WrittenBitmap(after))
        BY <1>8, <2>4, <3>1
      <3> HIDE DEF second
      <3> QED
        BY <1>2, <2>2, <2>3, <3>2
    <2>7. FoundChange(kind, before, after) = <<ImageValues(before), ImageValues(after)>>
      BY <1>8 DEF FoundChange
    <2> HIDE DEF first, second
    <2> QED
      BY <1>1, <2>3, <2>5, <2>6, <2>7 DEF kind
  <1> QED
    BY <1>5, <1>6, <1>7, <1>8

\* An event of two equal rows.
LEMMA RowChangesRead ==
  ASSUME NEW before \in Seq(Holding), NEW after \in Seq(Holding), Len(before) = Len(after),
         Present(before) # {}, Present(after) # {},
         NEW tables, 1 \in DOMAIN tables, IsTable(tables[1], Len(after)), 2 \notin DOMAIN tables,
         NEW event, IsEvent(event, before, after), event.table_id \in {1, 2},
         event.rows = WrittenChange(event.kind, before, after) \o WrittenChange(event.kind, before, after)
  PROVE  RowChanges(tables, event)
           = IF event.table_id = 1 THEN <<FoundChange(event.kind, before, after), FoundChange(event.kind, before, after)>>
             ELSE <<>>
  <1> DEFINE r == WrittenChange(event.kind, before, after)
             found == FoundChange(event.kind, before, after)
  <1>1. r \in Seq(Nat) /\ r # <<>>
    <2>1. /\ WrittenRow(before) \in Seq(Nat) /\ WrittenRow(after) \in Seq(Nat)
          /\ WrittenRow(before) # <<>> /\ WrittenRow(after) # <<>>
      BY WrittenRowIsBytes
    <2> DEFINE a == WrittenRow(before)
               b == WrittenRow(after)
    <2>2. a \in Seq(Nat) /\ b \in Seq(Nat) /\ a # <<>> /\ b # <<>>
      BY <2>1
    <2>3. r = b \/ r = a \/ r = a \o b
      BY DEF WrittenChange
    <2> HIDE DEF a, b, r
    <2>4. a \o b \in Seq(Nat) /\ a \o b # <<>>
      <3>1. a \o b \in Seq(Nat) /\ Len(a \o b) = Len(a) + Len(b) /\ Len(a) \in Nat /\ Len(b) \in Nat
        BY <2>2, Concatenated
      <3>2. Len(a) # 0
        BY <2>2, EmptySeq
      <3>3. Len(a \o b) # 0
        BY <3>1, <3>2
      <3> QED
        BY <3>1, <3>3
    <2> QED
      BY <2>2, <2>3, <2>4
  <1>2. event.rows = r \o r /\ event.rows \in Seq(Nat)
    <2> HIDE DEF r
    <2>1. r \o r \in Seq(Nat)
      BY <1>1, Concatenated
    <2> QED
      BY <2>1 DEF r
  <1>3. CASE event.table_id = 1
    <2> DEFINE table == tables[1]
    <2>1. IsTable(table, Len(after)) /\ table = tables[event.table_id]
      BY <1>3
    <2> HIDE DEF table
    <2>2. ASSUME NEW at \in Nat \ {0}, Holds(event.rows, at, r)
          PROVE  RowChange(table, event, at) = [rows |-> found, next |-> at + Len(r)]
      <3>1. /\ before \in Seq(Holding) /\ after \in Seq(Holding) /\ Len(before) = Len(after)
            /\ IsTable(table, Len(after)) /\ IsEvent(event, before, after) /\ event.rows \in Seq(Nat)
            /\ at \in Nat \ {0} /\ Holds(event.rows, at, WrittenChange(event.kind, before, after))
        BY <1>2, <2>1, <2>2
      <3>2. RowChange(table, event, at)
              = [rows |-> FoundChange(event.kind, before, after),
                 next |-> at + Len(WrittenChange(event.kind, before, after))]
        BY ONLY <3>1, RowChangeRead
      <3> QED
        BY <3>2
    <2> HIDE DEF r, found
    <2>3. FindsRow(table, event, r, found)
      BY <2>2 DEF FindsRow
    <2>4. event.table_id \in DOMAIN tables
      BY <1>3
    <2>5. RowChanges(tables, event) = <<found, found>>
      BY <1>1, <1>2, <2>1, <2>3, <2>4, RowChangesTwice
    <2> QED
      BY <1>3, <2>5 DEF found
  <1>4. CASE event.table_id = 2
    <2>1. event.table_id \notin DOMAIN tables
      BY <1>4
    <2>2. RowChanges(tables, event) = <<>>
      BY <2>1 DEF RowChanges
    <2> QED
      BY <1>4, <2>2
  <1> QED
    BY <1>3, <1>4
ColumnsInv == what = "columns" => input \in Seq([before : Holding, after : Holding])

\* The table map that came last for a table is the one that counts.
LEMMA TableRead ==
  ASSUME NEW n \in Nat, NEW types, types = [i \in 1..n |-> ColumnType(i)],
         NEW old, old.table_id = 1, NEW new, new.table_id = 1, new.types = types,
         new.metadata = FlattenSeq([i \in 1..n |-> WrittenMetadata(i)]),
         NEW tables, tables = AfterTableMap(AfterTableMap(<<>>, old), new)
  PROVE  1 \in DOMAIN tables /\ 2 \notin DOMAIN tables /\ IsTable(tables[1], n)
  <1> DEFINE none == <<>>
             before == AfterTableMap(none, old)
  <1>1. DOMAIN none = {}
    OBVIOUS
  <1>2. tables = AfterTableMap(before, new)
    OBVIOUS
  <1> HIDE DEF none
  <1>3. DOMAIN before = {1}
    BY <1>1 DEF AfterTableMap
  <1> HIDE DEF before
  <1>4. DOMAIN tables = {1} /\ tables[1] = [types |-> types, metadata |-> Metadata(types, new.metadata)]
    BY <1>2, <1>3 DEF AfterTableMap
  <1>5. Metadata(types, new.metadata) = [i \in 1..n |-> ColumnMetadata(i)]
    BY MetadataRead
  <1> DEFINE table == tables[1]
  <1>6. table.types = types /\ table.metadata = [i \in 1..n |-> ColumnMetadata(i)]
    BY <1>4, <1>5
  <1>7. 1 \in DOMAIN tables /\ 2 \notin DOMAIN tables
    BY <1>4
  <1> HIDE DEF table
  <1>8. IsTable(table, n)
    BY <1>6 DEF IsTable
  <1> QED
    BY <1>7, <1>8 DEF table

LEMMA BinlogRowsRead ==
  ASSUME input \in Seq([before : Holding, after : Holding])
  PROVE  BinlogRowsAgree
  <1> DEFINE n == Len(input)
             before == [i \in DOMAIN input |-> input[i].before]
             after == [i \in DOMAIN input |-> input[i].after]
             old == [table_id |-> 1, types |-> <<"blob">>, metadata |-> <<4>>]
             new == [table_id |-> 1, types |-> [i \in DOMAIN input |-> ColumnType(i)],
                     metadata |-> FlattenSeq([i \in DOMAIN input |-> WrittenMetadata(i)])]
             tables == AfterTableMap(AfterTableMap(<<>>, old), new)
             event(kind, id, row, image) ==
               [kind |-> kind, table_id |-> id, rows |-> row \o row,
                present |-> WrittenBitmap(image), present_after |-> WrittenBitmap(after)]
  <1>1. n \in Nat /\ DOMAIN input = 1..n /\ \A i \in 1..n : input[i].before \in Holding /\ input[i].after \in Holding
    <2> DEFINE T == [before : Holding, after : Holding]
    <2>1. \A t \in T : t.before \in Holding /\ t.after \in Holding
      OBVIOUS
    <2>2. input \in Seq(T)
      OBVIOUS
    <2> HIDE DEF T
    <2>3. n \in Nat /\ DOMAIN input = 1..n /\ \A i \in 1..n : input[i] \in T
      BY <2>2
    <2> QED
      BY <2>1, <2>3
  <1>2. before \in Seq(Holding) /\ after \in Seq(Holding) /\ Len(before) = n /\ Len(after) = n
    <2> HIDE DEF n
    <2>1. before \in [1..n -> Holding] /\ after \in [1..n -> Holding]
      BY <1>1
    <2> HIDE DEF before, after
    <2> QED
      BY <1>1, <2>1, FunctionIsSeq
  <1>3. 1 \in DOMAIN tables /\ 2 \notin DOMAIN tables /\ IsTable(tables[1], n)
    <2> DEFINE types == [i \in 1..n |-> ColumnType(i)]
    <2>1. /\ old.table_id = 1 /\ new.table_id = 1 /\ new.types = types
          /\ new.metadata = FlattenSeq([i \in 1..n |-> WrittenMetadata(i)])
      BY <1>1
    <2> HIDE DEF old, new, n
    <2> QED
      BY <1>1, <2>1, TableRead
  <1>4. \A image : ImageValues(image) = [i \in DOMAIN image |-> IF image[i] = "value" THEN <<ColumnValue(i)>> ELSE Null]
    BY DEF ImageValues
  <1>5. BinlogRowsAgree <=> (what = "columns" => (Present(before) # {} /\ Present(after) # {} =>
          /\ RowChanges(tables, event("write", 1, WrittenRow(after), after))
               = << << <<>>, ImageValues(after)>>, << <<>>, ImageValues(after)>> >>
          /\ RowChanges(tables, event("delete", 1, WrittenRow(before), before))
               = << <<ImageValues(before), <<>> >>, <<ImageValues(before), <<>> >> >>
          /\ RowChanges(tables, event("update", 1, WrittenRow(before) \o WrittenRow(after), before))
               = << <<ImageValues(before), ImageValues(after)>>, <<ImageValues(before), ImageValues(after)>> >>
          /\ RowChanges(tables, event("write", 2, WrittenRow(after), after)) = <<>>))
    BY DEF BinlogRowsAgree, ImageValues
  <1> HIDE DEF tables, before, after
  <1> SUFFICES ASSUME Present(before) # {}, Present(after) # {}
               PROVE  /\ RowChanges(tables, event("write", 1, WrittenRow(after), after))
                           = << << <<>>, ImageValues(after)>>, << <<>>, ImageValues(after)>> >>
                      /\ RowChanges(tables, event("delete", 1, WrittenRow(before), before))
                           = << <<ImageValues(before), <<>> >>, <<ImageValues(before), <<>> >> >>
                      /\ RowChanges(tables, event("update", 1, WrittenRow(before) \o WrittenRow(after), before))
                           = << <<ImageValues(before), ImageValues(after)>>, <<ImageValues(before), ImageValues(after)>> >>
                      /\ RowChanges(tables, event("write", 2, WrittenRow(after), after)) = <<>>
    BY <1>5
  <1>6. ASSUME NEW kind \in {"write", "delete", "update"}, NEW id \in {1, 2}, NEW image,
               image = IF kind = "write" THEN after ELSE before
        PROVE  RowChanges(tables, event(kind, id, WrittenChange(kind, before, after), image))
                 = IF id = 1 THEN <<FoundChange(kind, before, after), FoundChange(kind, before, after)>> ELSE <<>>
    <2> DEFINE e == event(kind, id, WrittenChange(kind, before, after), image)
    <2>1. /\ e.kind = kind /\ e.table_id = id
          /\ e.rows = WrittenChange(kind, before, after) \o WrittenChange(kind, before, after)
          /\ e.present = WrittenBitmap(image) /\ e.present_after = WrittenBitmap(after)
      OBVIOUS
    <2> HIDE DEF e, n
    <2>2. IsEvent(e, before, after)
      BY <1>6, <2>1 DEF IsEvent
    <2>3. /\ before \in Seq(Holding) /\ after \in Seq(Holding) /\ Len(before) = Len(after)
          /\ Present(before) # {} /\ Present(after) # {}
          /\ 1 \in DOMAIN tables /\ IsTable(tables[1], Len(after)) /\ 2 \notin DOMAIN tables
          /\ e.table_id \in {1, 2}
          /\ e.rows = WrittenChange(e.kind, before, after) \o WrittenChange(e.kind, before, after)
      BY <1>2, <1>3, <2>1
    <2>4. RowChanges(tables, e)
            = IF e.table_id = 1 THEN <<FoundChange(e.kind, before, after), FoundChange(e.kind, before, after)>> ELSE <<>>
      BY ONLY <2>2, <2>3, RowChangesRead
    <2> QED
      BY <2>1, <2>4 DEF e
  <1> HIDE DEF event
  <1>7. /\ WrittenChange("write", before, after) = WrittenRow(after)
        /\ WrittenChange("delete", before, after) = WrittenRow(before)
        /\ WrittenChange("update", before, after) = WrittenRow(before) \o WrittenRow(after)
    BY DEF WrittenChange
  <1>8. /\ FoundChange("write", before, after) = << <<>>, ImageValues(after)>>
        /\ FoundChange("delete", before, after) = <<ImageValues(before), <<>> >>
        /\ FoundChange("update", before, after) = <<ImageValues(before), ImageValues(after)>>
    BY DEF FoundChange
  <1>9. RowChanges(tables, event("write", 1, WrittenRow(after), after))
          = << << <<>>, ImageValues(after)>>, << <<>>, ImageValues(after)>> >>
    BY <1>6, <1>7, <1>8
  <1>10. RowChanges(tables, event("delete", 1, WrittenRow(before), before))
           = << <<ImageValues(before), <<>> >>, <<ImageValues(before), <<>> >> >>
    BY <1>6, <1>7, <1>8
  <1>11. RowChanges(tables, event("update", 1, WrittenRow(before) \o WrittenRow(after), before))
           = << <<ImageValues(before), ImageValues(after)>>, <<ImageValues(before), ImageValues(after)>> >>
    BY <1>6, <1>7, <1>8
  <1>12. RowChanges(tables, event("write", 2, WrittenRow(after), after)) = <<>>
    BY <1>6, <1>7
  <1> QED
    BY <1>9, <1>10, <1>11, <1>12

\* In tables of any number of columns, for columns that are absent and NULLs at any place, a
\* row event is taken apart into the values written, before and after, by the table map that
\* came last, and of a table never announced nothing is made up.
THEOREM WireBinlogRowsAgree == Spec => []BinlogRowsAgree
  <1>1. Init => ColumnsInv
    BY DEF Init, ColumnsInv
  <1>2. ColumnsInv /\ [Next]_vars => ColumnsInv'
    <2> DEFINE Column == [before : Holding, after : Holding]
    <2> SUFFICES ASSUME ColumnsInv, [Next]_vars, what' = "columns" PROVE input' \in Seq(Column)
      BY DEF ColumnsInv
    <2>1. CASE AddColumn
      <3>1. input \in Seq(Column)
        BY <2>1 DEF AddColumn, ColumnsInv
      <3>2. PICK b \in Holding, a \in Holding : input' = Append(input, [before |-> b, after |-> a])
        BY <2>1 DEF AddColumn, Holding
      <3>3. [before |-> b, after |-> a] \in Column
        OBVIOUS
      <3> HIDE DEF Column
      <3> QED
        BY <3>1, <3>2, <3>3, AppendProperties
    <2>2. CASE UNCHANGED vars
      BY <2>2 DEF vars, ColumnsInv
    <2>3. CASE AddPayload \/ AddField \/ AddParameter
      BY <2>3 DEF AddPayload, AddField, AddParameter
    <2> QED
      BY <2>1, <2>2, <2>3 DEF Next
  <1>3. ColumnsInv => BinlogRowsAgree
    BY BinlogRowsRead DEF ColumnsInv, BinlogRowsAgree
  <1> QED
    BY <1>1, <1>2, <1>3, PTL DEF Spec

-----------------------------------------------------------------------------
(***************************************************************************)
(* Parameters.                                                             *)
(***************************************************************************)

\* What is written of a value, with its type, and for a value that is not NULL.
IsParameter(v) ==
  /\ v.kind \in Kinds /\ IsValue(v.bytes)
  /\ v.kind \notin {"string", "buffer"} =>
       Len(v.bytes) = IF v.kind = "null" THEN 0 ELSE IF v.kind = "bool" THEN 1 ELSE 8
Wide == {"string", "buffer"}
ValuePiece(v) == IF v.kind = "null" THEN <<>> ELSE BoundValue(v)
TypePiece(v, name, named) == BoundType(v) \o IF named THEN LenEncBytes(name) ELSE <<>>

LEMMA LenEncIsSeq ==
  ASSUME NEW n \in Nat
  PROVE  LenEnc(n) \in Seq(Nat)
  <1>1. CASE n < 251
    BY <1>1 DEF LenEnc
  <1>2. ASSUME NEW marker \in Nat, NEW width \in Nat, LenEnc(n) = <<marker>> \o LittleEndian(n, width)
        PROVE  LenEnc(n) \in Seq(Nat)
    BY <1>2, LittleEndianIsBytes, HeadFirst
  <1>3. CASE n >= 251
    <2> DEFINE two == 2
               three == 3
               eight == 8
               m2 == 252
               m3 == 253
               m8 == 254
    <2>1. /\ two \in Nat /\ three \in Nat /\ eight \in Nat /\ m2 \in Nat /\ m3 \in Nat /\ m8 \in Nat
          /\ ~(n < 251)
      BY <1>3
    <2>2. \/ LenEnc(n) = <<m2>> \o LittleEndian(n, two)
          \/ LenEnc(n) = <<m3>> \o LittleEndian(n, three)
          \/ LenEnc(n) = <<m8>> \o LittleEndian(n, eight)
      BY <2>1 DEF LenEnc
    <2> HIDE DEF two, three, eight, m2, m3, m8
    <2> QED
      BY <1>2, <2>1, <2>2
  <1> QED
    BY <1>1, <1>3

\* Each kind of value has a type of two bytes, the first of which tells how long the value is.
LEMMA BoundTypeIs ==
  ASSUME NEW v, IsParameter(v)
  PROVE  \E type, flag \in Nat :
           /\ BoundType(v) = <<type, flag>> /\ type # 0
           /\ v.kind \in Wide => type \in {252, 253}
           /\ v.kind \notin Wide \cup {"null"} => type \notin {252, 253} /\ Width(type) = Len(v.bytes)
           /\ v.kind \in Supported =>
                /\ flag = 0 /\ SupportedType(type)
                /\ v.kind = "null" => type = 6
                /\ v.kind = "string" => type = 253
                /\ v.kind \notin {"null", "string"} => type \in {1, 2, 3, 4, 5, 8}
  <1>1. Width(1) = 1 /\ Width(5) = 8 /\ Width(8) = 8
    BY DEF Width
  <1>2. CASE v.kind = "null"
    <2>1. BoundType(v) = <<6, 0>>
      BY <1>2 DEF BoundType
    <2> QED
      BY <1>2, <2>1 DEF Wide, SupportedType
  <1>3. CASE v.kind = "bool"
    <2>1. BoundType(v) = <<1, 0>>
      BY <1>3 DEF BoundType
    <2>2. Len(v.bytes) = 1
      BY <1>3 DEF IsParameter
    <2> QED
      BY <1>1, <1>3, <2>1, <2>2 DEF Wide, SupportedType
  <1>4. CASE v.kind = "int"
    <2>1. BoundType(v) = <<8, 0>>
      BY <1>4 DEF BoundType
    <2>2. Len(v.bytes) = 8
      BY <1>4 DEF IsParameter
    <2> QED
      BY <1>1, <1>4, <2>1, <2>2 DEF Wide, SupportedType
  <1>5. CASE v.kind = "uint"
    <2>1. BoundType(v) = <<8, 128>>
      BY <1>5 DEF BoundType
    <2>2. Len(v.bytes) = 8
      BY <1>5 DEF IsParameter
    <2> QED
      BY <1>1, <1>5, <2>1, <2>2 DEF Wide, Supported
  <1>6. CASE v.kind = "double"
    <2>1. BoundType(v) = <<5, 0>>
      BY <1>6 DEF BoundType
    <2>2. Len(v.bytes) = 8
      BY <1>6 DEF IsParameter
    <2> QED
      BY <1>1, <1>6, <2>1, <2>2 DEF Wide, SupportedType
  <1>7. CASE v.kind = "string"
    <2>1. BoundType(v) = <<253, 0>>
      BY <1>7 DEF BoundType
    <2> QED
      BY <1>7, <2>1 DEF Wide, SupportedType
  <1>8. CASE v.kind = "buffer"
    <2>1. BoundType(v) = <<252, 0>>
      BY <1>8 DEF BoundType
    <2> QED
      BY <1>8, <2>1 DEF Wide, Supported
  <1> QED
    BY <1>2, <1>3, <1>4, <1>5, <1>6, <1>7, <1>8 DEF IsParameter, Kinds

\* A value is read back by a server that knows the protocol, and by the library's, if it knows the kind.
LEMMA ValueRead ==
  ASSUME NEW v, IsParameter(v)
  PROVE  /\ ValuePiece(v) \in Seq(Nat) /\ BoundValue(v) = ValuePiece(v)
         /\ \A stream \in Seq(Nat), at \in Nat \ {0} :
              Holds(stream, at, ValuePiece(v)) =>
                /\ v.kind # "null" =>
                     ProtocolValue(stream, at, BoundType(v))
                       = [value |-> <<v.bytes>>, next |-> at + Len(ValuePiece(v))]
                /\ v.kind \in Supported =>
                     ServerValue(stream, at, BoundType(v)[1])
                       = [value |-> <<BoundType(v)[1], v.bytes>>, next |-> at + Len(ValuePiece(v))]
  <1>1. v.bytes \in Seq(Nat) /\ IsValue(v.bytes) /\ v.kind \in Kinds
    BY DEF IsParameter, IsValue
  <1>2. PICK type \in Nat, flag \in Nat :
           /\ BoundType(v) = <<type, flag>> /\ type # 0
           /\ v.kind \in Wide => type \in {252, 253}
           /\ v.kind \notin Wide \cup {"null"} => type \notin {252, 253} /\ Width(type) = Len(v.bytes)
           /\ v.kind \in Supported =>
                /\ flag = 0 /\ SupportedType(type)
                /\ v.kind = "null" => type = 6
                /\ v.kind = "string" => type = 253
                /\ v.kind \notin {"null", "string"} => type \in {1, 2, 3, 4, 5, 8}
    BY BoundTypeIs
  <1>3. BoundType(v)[1] = type
    BY <1>2
  <1>4. CASE v.kind = "null"
    <2>1. v.bytes = <<>> /\ ValuePiece(v) = <<>> /\ BoundValue(v) = <<>> /\ v.kind \in Supported
      BY <1>1, <1>4 DEF IsParameter, ValuePiece, BoundValue, Supported
    <2>2. ASSUME NEW stream, NEW at \in Nat
          PROVE  ServerValue(stream, at, type) = [value |-> <<type, v.bytes>>, next |-> at + Len(ValuePiece(v))]
      <3>1. type = 6
        BY <1>2, <1>4, <2>1
      <3>2. ServerValue(stream, at, type) = [value |-> <<type, <<>> >>, next |-> at]
        BY <3>1 DEF ServerValue
      <3> QED
        BY <2>1, <3>2
    <2> QED
      BY <1>3, <1>4, <2>1, <2>2
  <1>5. CASE v.kind \in Wide
    <2>1. ValuePiece(v) = LenEncBytes(v.bytes) /\ BoundValue(v) = LenEncBytes(v.bytes) /\ v.kind # "null"
      BY <1>5 DEF ValuePiece, BoundValue, Wide
    <2>2. LenEncBytes(v.bytes) \in Seq(Nat)
      BY <1>1, LenEncBytesIsBytes
    <2>3. ASSUME NEW stream \in Seq(Nat), NEW at \in Nat \ {0}, Holds(stream, at, ValuePiece(v))
          PROVE  /\ ProtocolValue(stream, at, BoundType(v)) = [value |-> <<v.bytes>>, next |-> at + Len(ValuePiece(v))]
                 /\ v.kind \in Supported =>
                      ServerValue(stream, at, type) = [value |-> <<type, v.bytes>>, next |-> at + Len(ValuePiece(v))]
      <3>1. ReadLenEncBytes(stream, at) = [value |-> <<v.bytes>>, next |-> at + Len(ValuePiece(v))]
        BY <1>1, <2>1, <2>3, LenEncBytesHeld
      <3>2. ProtocolValue(stream, at, BoundType(v)) = ReadLenEncBytes(stream, at)
        BY <1>2, <1>3, <1>5 DEF ProtocolValue
      <3>3. ASSUME v.kind \in Supported
            PROVE  ServerValue(stream, at, type) = [value |-> <<type, v.bytes>>, next |-> at + Len(ValuePiece(v))]
        <4>1. type = 253
          BY <1>2, <1>5, <3>3 DEF Wide, Supported
        <4>2. ServerValue(stream, at, type)
                = LET text == ReadLenEncBytes(stream, at) IN
                  [value |-> <<type, IF text.value = Null THEN <<>> ELSE text.value[1]>>, next |-> text.next]
          BY <4>1 DEF ServerValue
        <4> QED
          BY <3>1, <4>2 DEF Null
      <3> QED
        BY <3>1, <3>2, <3>3
    <2> QED
      BY <1>3, <2>1, <2>2, <2>3
  <1>6. CASE v.kind \notin Wide \cup {"null"}
    <2>1. ValuePiece(v) = v.bytes /\ BoundValue(v) = v.bytes /\ v.kind # "null"
      BY <1>6 DEF ValuePiece, BoundValue, Wide
    <2>2. type \notin {252, 253} /\ Width(type) = Len(v.bytes)
      BY <1>2, <1>6
    <2>3. ASSUME NEW stream \in Seq(Nat), NEW at \in Nat \ {0}, Holds(stream, at, ValuePiece(v))
          PROVE  /\ ProtocolValue(stream, at, BoundType(v)) = [value |-> <<v.bytes>>, next |-> at + Len(ValuePiece(v))]
                 /\ v.kind \in Supported =>
                      ServerValue(stream, at, type) = [value |-> <<type, v.bytes>>, next |-> at + Len(ValuePiece(v))]
      <3>1. Slice(stream, at, Width(type)) = v.bytes
        BY <1>1, <2>1, <2>2, <2>3, SliceHeld
      <3>2. ProtocolValue(stream, at, BoundType(v)) = [value |-> <<Slice(stream, at, Width(type))>>, next |-> at + Width(type)]
        BY <1>2, <1>3, <2>2 DEF ProtocolValue
      <3>3. ASSUME v.kind \in Supported
            PROVE  ServerValue(stream, at, type) = [value |-> <<type, v.bytes>>, next |-> at + Len(ValuePiece(v))]
        <4>1. type \in {1, 2, 3, 4, 5, 8}
          BY <1>2, <1>6, <3>3 DEF Wide
        <4>2. type # 6
          BY <4>1
        <4>3. ServerValue(stream, at, type)
                = [value |-> <<type, Slice(stream, at, Width(type))>>, next |-> at + Width(type)]
          BY <4>1, <4>2, Zenon DEF ServerValue
        <4> QED
          BY <2>1, <2>2, <3>1, <4>3
      <3> QED
        BY <2>1, <2>2, <3>1, <3>2, <3>3
    <2> QED
      BY <1>1, <1>3, <2>1, <2>3
  <1> QED
    BY <1>4, <1>5, <1>6

\* A payload with parameters: a head, the bitmap of the NULLs, a byte 1, types and values.
PayloadHead(named, count) ==
  <<0, 0, 0, 0>> \o <<IF named THEN 8 ELSE 0>> \o <<1, 0, 0, 0>> \o (IF named THEN LenEnc(count) ELSE <<>>)
Nulls(all) == {i - 1 : i \in {j \in DOMAIN all : all[j].kind = "null"}}
NullBytes(all) == (Len(all) + 7) \div 8
TypePieces(all, names, named) == [i \in DOMAIN all |-> TypePiece(all[i], names[i], named)]
ValuePieces(all) == [i \in DOMAIN all |-> ValuePiece(all[i])]
BoundPayload(all, names, named) ==
  PayloadHead(named, Len(all)) \o (Bitmap(Nulls(all), NullBytes(all)) \o <<1>>
    \o FlattenSeq(TypePieces(all, names, named)) \o FlattenSeq(ValuePieces(all)))

\* Parameters with the names that are sent with their types.
AreParameters(all, names) ==
  /\ \E S : all \in Seq(S)
  /\ all # <<>>
  /\ \A i \in 1..Len(all) : IsParameter(all[i]) /\ IsValue(names[i])

LEMMA BytesJoined ==
  ASSUME NEW a, a \in Seq(Nat), NEW b, b \in Seq(Nat)
  PROVE  /\ Len(a) \in Nat /\ Len(b) \in Nat
         /\ a \o b \in Seq(Nat) /\ Len(a \o b) = Len(a) + Len(b)
  BY Concatenated

LEMMA PayloadHeadIs ==
  ASSUME NEW named \in BOOLEAN, NEW count \in Nat
  PROVE  /\ PayloadHead(named, count) \in Seq(Nat)
         /\ Len(PayloadHead(named, count)) + 1 = IF named THEN 10 + Len(LenEnc(count)) ELSE 10
  <1> DEFINE a == <<0, 0, 0, 0>>
             flags == IF named THEN 8 ELSE 0
             b == <<flags>>
             c == <<1, 0, 0, 0>>
             d == IF named THEN LenEnc(count) ELSE <<>>
  <1>1. a \in Seq(Nat) /\ Len(a) = 4 /\ b \in Seq(Nat) /\ Len(b) = 1 /\ c \in Seq(Nat) /\ Len(c) = 4
    OBVIOUS
  <1>2. d \in Seq(Nat) /\ Len(d) = (IF named THEN Len(LenEnc(count)) ELSE 0) /\ Len(LenEnc(count)) \in Nat
    BY LenEncIsSeq
  <1>3. PayloadHead(named, count) = a \o b \o c \o d
    BY DEF PayloadHead
  <1> HIDE DEF a, b, c, d
  <1>4. a \o b \in Seq(Nat) /\ Len(a \o b) = Len(a) + Len(b)
    BY <1>1, BytesJoined
  <1>5. a \o b \o c \in Seq(Nat) /\ Len(a \o b \o c) = Len(a \o b) + Len(c)
    BY <1>1, <1>4, BytesJoined
  <1>6. a \o b \o c \o d \in Seq(Nat) /\ Len(a \o b \o c \o d) = Len(a \o b \o c) + Len(d)
    BY <1>2, <1>5, BytesJoined
  <1> QED
    BY <1>1, <1>2, <1>3, <1>4, <1>5, <1>6

\* The types.
LEMMA TypePieceIs ==
  ASSUME NEW v, IsParameter(v), NEW name, IsValue(name), NEW named \in BOOLEAN
  PROVE  /\ TypePiece(v, name, named) \in Seq(Nat)
         /\ Len(TypePiece(v, name, named)) = 2 + IF named THEN Len(LenEncBytes(name)) ELSE 0
         /\ Len(BoundType(v)) = 2 /\ BoundType(v) \in Seq(Nat)
         /\ BoundType(v) = <<BoundType(v)[1], BoundType(v)[2]>>
         /\ LenEncBytes(name) \in Seq(Nat)
  <1>1. PICK type \in Nat, flag \in Nat : BoundType(v) = <<type, flag>>
    BY BoundTypeIs
  <1>2. BoundType(v) \in Seq(Nat) /\ Len(BoundType(v)) = 2 /\ BoundType(v) = <<BoundType(v)[1], BoundType(v)[2]>>
    BY <1>1
  <1>3. LenEncBytes(name) \in Seq(Nat)
    BY LenEncBytesIsBytes
  <1>4. CASE named
    <2> DEFINE own == BoundType(v)
               text == LenEncBytes(name)
    <2>1. TypePiece(v, name, named) = own \o text /\ own \in Seq(Nat) /\ text \in Seq(Nat) /\ Len(own) = 2
      BY <1>2, <1>3, <1>4 DEF TypePiece
    <2> HIDE DEF own, text
    <2>2. own \o text \in Seq(Nat) /\ Len(own \o text) = 2 + Len(text)
      BY <2>1, BytesJoined
    <2> QED
      BY <1>2, <1>3, <1>4, <2>1, <2>2 DEF text
  <1>5. CASE ~named
    BY <1>2, <1>3, <1>5, ConcatNone DEF TypePiece
  <1> QED
    BY <1>2, <1>3, <1>4, <1>5

\* The parts of a payload, and where they are.
LEMMA PayloadParts ==
  ASSUME NEW all, NEW names, AreParameters(all, names), NEW named \in BOOLEAN
  PROVE  LET payload == BoundPayload(all, names, named)
             head == Len(PayloadHead(named, Len(all)))
             types == TypePieces(all, names, named)
             values == ValuePieces(all)
             from == head + 1 + NullBytes(all)
         IN  /\ Len(all) \in Nat \ {0} /\ DOMAIN all = 1..Len(all)
             /\ payload \in Seq(Nat) /\ head \in Nat /\ NullBytes(all) \in Nat
             /\ types \in Seq(Seq(Nat)) /\ Len(types) = Len(all) /\ FlattenSeq(types) \in Seq(Nat)
             /\ values \in Seq(Seq(Nat)) /\ Len(values) = Len(all) /\ FlattenSeq(values) \in Seq(Nat)
             /\ Slice(payload, head + 1, NullBytes(all)) = Bitmap(Nulls(all), NullBytes(all))
             /\ from <= Len(payload) /\ payload[from] = 1
             /\ Holds(payload, from + 1, FlattenSeq(types))
             /\ Holds(payload, from + 1 + Len(FlattenSeq(types)), FlattenSeq(values))
             /\ Len(payload) = from + Len(FlattenSeq(types)) + Len(FlattenSeq(values))
  <1> DEFINE payload == BoundPayload(all, names, named)
             start == PayloadHead(named, Len(all))
             length == NullBytes(all)
             bitmap == Bitmap(Nulls(all), length)
             types == TypePieces(all, names, named)
             values == ValuePieces(all)
             one == 1
             n == Len(all)
  <1>1. n \in Nat \ {0} /\ DOMAIN all = 1..n /\ \A i \in 1..n : IsParameter(all[i]) /\ IsValue(names[i])
    BY DEF AreParameters
  <1>2. length \in Nat
    <2> HIDE DEF n
    <2> QED
      BY <1>1 DEF NullBytes, n
  <1>3. start \in Seq(Nat) /\ bitmap \in Seq(Nat) /\ Len(bitmap) = length
    BY <1>1, <1>2, PayloadHeadIs, BitmapIsBytes
  <1>4. types \in Seq(Seq(Nat)) /\ Len(types) = n /\ FlattenSeq(types) \in Seq(Nat)
    <2> DEFINE T == Seq(Nat)
    <2>1. \A i \in 1..n : TypePiece(all[i], names[i], named) \in T
      BY <1>1, TypePieceIs
    <2> HIDE DEF T, n
    <2>2. types \in [1..n -> T]
      BY <1>1, <2>1 DEF TypePieces
    <2> HIDE DEF types
    <2>3. types \in Seq(T) /\ Len(types) = n
      BY <1>1, <2>2, FunctionIsSeq
    <2>4. types \in Seq(Seq(Nat))
      BY <2>3 DEF T
    <2> QED
      BY <2>3, <2>4, FlattenedExist, Flattened
  <1>5. values \in Seq(Seq(Nat)) /\ Len(values) = n /\ FlattenSeq(values) \in Seq(Nat)
    <2> DEFINE T == Seq(Nat)
    <2>1. \A i \in 1..n : ValuePiece(all[i]) \in T
      BY <1>1, ValueRead
    <2> HIDE DEF T, n
    <2>2. values \in [1..n -> T]
      BY <1>1, <2>1 DEF ValuePieces
    <2> HIDE DEF values
    <2>3. values \in Seq(T) /\ Len(values) = n
      BY <1>1, <2>2, FunctionIsSeq
    <2>4. values \in Seq(Seq(Nat))
      BY <2>3 DEF T
    <2> QED
      BY <2>3, <2>4, FlattenedExist, Flattened
  <1> DEFINE t == FlattenSeq(types)
             v == FlattenSeq(values)
             mark == <<one>>
             rest == bitmap \o mark \o t \o v
             at == Len(start) + one
  <1>6. payload = start \o rest /\ one = 1 /\ one \in Nat \ {0}
    BY DEF BoundPayload
  <1>7. mark \in Seq(Nat) /\ Len(mark) = 1 /\ mark[1] = one
    OBVIOUS
  <1>8. start \in Seq(Nat) /\ t \in Seq(Nat) /\ v \in Seq(Nat) /\ Len(start) \in Nat
    BY <1>3, <1>4, <1>5
  <1> HIDE DEF payload, start, length, bitmap, types, values, one, t, v, mark
  <1>9. bitmap \o mark \in Seq(Nat) /\ Len(bitmap \o mark) = length + 1
    BY <1>2, <1>3, <1>7, BytesJoined
  <1>10. bitmap \o mark \o t \in Seq(Nat) /\ Len(bitmap \o mark \o t) = length + 1 + Len(t)
    BY <1>2, <1>8, <1>9, BytesJoined
  <1>11. rest \in Seq(Nat) /\ Len(rest) = length + 1 + Len(t) + Len(v)
    BY <1>2, <1>8, <1>10, BytesJoined
  <1>12. payload \in Seq(Nat) /\ Len(payload) = Len(start) + Len(rest)
    <2> HIDE DEF rest
    <2> QED
      BY <1>6, <1>8, <1>11
  <1>13. Holds(payload, at, rest) /\ at \in Nat \ {0}
    <2>1. Holds(payload, 1, start \o rest)
      BY <1>6, <1>12, HoldsItself
    <2>2. Holds(payload, one, start \o rest)
      BY <1>6, <2>1
    <2>3. one + Len(start) = at /\ at \in Nat \ {0}
      BY <1>6, <1>8
    <2> HIDE DEF rest
    <2> QED
      BY <1>6, <1>8, <1>11, <1>12, <2>2, <2>3, HoldsParts
  <1> HIDE DEF at
  <1>14. Holds(payload, at, bitmap \o mark \o t) /\ Holds(payload, at + Len(bitmap \o mark \o t), v)
    BY <1>8, <1>10, <1>12, <1>13, HoldsParts
  <1>15. Holds(payload, at, bitmap \o mark) /\ Holds(payload, at + Len(bitmap \o mark), t)
    BY <1>8, <1>9, <1>12, <1>13, <1>14, HoldsParts
  <1>16. Holds(payload, at, bitmap) /\ Holds(payload, at + Len(bitmap), mark)
    BY <1>3, <1>7, <1>12, <1>13, <1>15, HoldsParts
  <1>17. Slice(payload, at, length) = bitmap
    BY <1>3, <1>12, <1>13, <1>16, SliceHeld
  <1>18. at + length <= Len(payload) /\ payload[at + length] = one
    BY <1>2, <1>3, <1>7, <1>12, <1>13, <1>16 DEF Holds
  <1>19. Holds(payload, at + length + 1, t) /\ Holds(payload, at + length + 1 + Len(t), v)
    <2>1. at + Len(bitmap \o mark) = at + length + 1 /\ at + Len(bitmap \o mark \o t) = at + length + 1 + Len(t)
      BY <1>2, <1>8, <1>9, <1>10, <1>13
    <2> QED
      BY <1>14, <1>15, <2>1
  <1>20. Len(payload) = at + length + Len(t) + Len(v)
    BY <1>2, <1>6, <1>8, <1>11, <1>12 DEF at
  <1> QED
    BY <1>1, <1>2, <1>4, <1>5, <1>6, <1>8, <1>12, <1>17, <1>18, <1>19, <1>20
       DEF payload, start, length, bitmap, types, values, one, t, v, at

LEMMA TypeRead ==
  ASSUME NEW v, IsParameter(v), NEW name, IsValue(name), NEW named \in BOOLEAN,
         NEW stream \in Seq(Nat), NEW at \in Nat \ {0}, Holds(stream, at, TypePiece(v, name, named))
  PROVE  /\ <<stream[at], stream[at + 1]>> = BoundType(v)
         /\ (IF named THEN ReadLenEncBytes(stream, at + 2).next ELSE at + 2) = at + Len(TypePiece(v, name, named))
  <1> DEFINE type == BoundType(v)
             text == LenEncBytes(name)
             rest == IF named THEN text ELSE <<>>
  <1>1. /\ type \in Seq(Nat) /\ Len(type) = 2 /\ type = <<type[1], type[2]>>
        /\ text \in Seq(Nat)
        /\ Len(TypePiece(v, name, named)) = 2 + IF named THEN Len(text) ELSE 0
    BY TypePieceIs
  <1>2. TypePiece(v, name, named) = type \o rest
    BY DEF TypePiece
  <1>3. ~named => rest = <<>>
    OBVIOUS
  <1>4. rest \in Seq(Nat) /\ (named => rest = text)
    BY <1>1
  <1> HIDE DEF type, rest
  <1>5. Holds(stream, at, type) /\ Holds(stream, at + Len(type), rest)
    BY <1>1, <1>2, <1>4, HoldsParts
  <1>6. stream[at] = type[1] /\ stream[at + 1] = type[2]
    BY <1>1, <1>5 DEF Holds
  <1>7. ASSUME named PROVE ReadLenEncBytes(stream, at + 2).next = at + 2 + Len(text)
    <2> DEFINE from == at + 2
    <2>1. Holds(stream, from, LenEncBytes(name)) /\ from \in Nat \ {0}
      BY <1>1, <1>4, <1>5, <1>7
    <2> HIDE DEF from, text
    <2>2. ReadLenEncBytes(stream, from) = [value |-> <<name>>, next |-> from + Len(LenEncBytes(name))]
      BY <2>1, LenEncBytesHeld
    <2> QED
      BY <2>2 DEF from, text
  <1>8. <<stream[at], stream[at + 1]>> = type
    BY <1>1, <1>6
  <1>9. Len(text) \in Nat
    BY <1>1
  <1> HIDE DEF text
  <1> QED
    BY <1>1, <1>7, <1>8, <1>9 DEF type

\* A server that counts its parameters reads their types.
LEMMA TypesRead ==
  ASSUME NEW all, NEW names, AreParameters(all, names), NEW named \in BOOLEAN,
         NEW stream \in Seq(Nat), NEW start \in Nat \ {0},
         Holds(stream, start, FlattenSeq(TypePieces(all, names, named)))
  PROVE  ProtocolTypes(stream, start, Len(all), named)
           = [row |-> [i \in 1..Len(all) |-> BoundType(all[i])],
              next |-> start + Len(FlattenSeq(TypePieces(all, names, named)))]
  <1> DEFINE n == Len(all)
             seqs == TypePieces(all, names, named)
             row == [i \in 1..n |-> BoundType(all[i])]
  <1>1. n \in Nat /\ DOMAIN all = 1..n /\ \A i \in 1..n : IsParameter(all[i]) /\ IsValue(names[i])
    BY DEF AreParameters
  <1>2. seqs \in Seq(Seq(Nat)) /\ Len(seqs) = n
    BY PayloadParts
  <1>3. \A i \in 1..n : seqs[i] = TypePiece(all[i], names[i], named)
    BY <1>1 DEF TypePieces
  <1>4. \A i \in 1..n : row[i] = BoundType(all[i])
    OBVIOUS
  <1>5. Holds(stream, start, FlattenSeq(seqs))
    OBVIOUS
  <1> HIDE DEF n, seqs
  <1>6. PICK place : Places(stream, start, seqs, place)
    BY <1>2, <1>5, Placed
  <1>7. /\ place[0] = start
        /\ \A i \in 1..n : /\ i - 1 \in 0..n /\ place[i - 1] \in Nat \ {0}
                           /\ place[i] = place[i - 1] + Len(seqs[i])
                           /\ Holds(stream, place[i - 1], seqs[i])
    BY <1>2, <1>6 DEF Places
  <1>8. place[n] = start + Len(FlattenSeq(seqs))
    BY <1>2, <1>6 DEF Places
  <1> DEFINE Read(i, at) == [value |-> <<stream[at], stream[at + 1]>>,
                             next |-> IF named THEN ReadLenEncBytes(stream, at + 2).next ELSE at + 2]
  <1>9. ASSUME NEW i \in 1..n
        PROVE  Read(i, place[i - 1]) = [value |-> row[i], next |-> place[i]]
    <2> DEFINE at == place[i - 1]
               v == all[i]
               name == names[i]
    <2>1. /\ at \in Nat \ {0} /\ Holds(stream, at, TypePiece(v, name, named)) /\ IsParameter(v) /\ IsValue(name)
          /\ place[i] = at + Len(TypePiece(v, name, named)) /\ row[i] = BoundType(v)
      BY <1>1, <1>3, <1>4, <1>7
    <2> HIDE DEF at, v, name, row
    <2>2. /\ <<stream[at], stream[at + 1]>> = BoundType(v)
          /\ (IF named THEN ReadLenEncBytes(stream, at + 2).next ELSE at + 2) = at + Len(TypePiece(v, name, named))
      BY <2>1, TypeRead
    <2> QED
      BY <2>1, <2>2 DEF at
  <1> HIDE DEF row
  <1> DEFINE Runs(g) == g = [i \in 0..n |->
               IF i = 0 THEN [row |-> <<>>, next |-> start]
               ELSE LET before == g[i - 1]
                        column == Read(i, before.next)
                    IN  [row |-> Append(before.row, column.value), next |-> column.next]]
             after == CHOOSE g : Runs(g)
             h == [i \in 0..n |-> [row |-> FirstOf(row, i), next |-> place[i]]]
  <1>11. /\ h[0] = [row |-> <<>>, next |-> start]
         /\ \A i \in 1..n : h[i] = [row |-> FirstOf(row, i), next |-> place[i]]
         /\ \A i \in 1..n : i # 0 /\ h[i - 1] = [row |-> FirstOf(row, i - 1), next |-> place[i - 1]]
    <2>1. FirstOf(row, 0) = <<>>
      BY DEF FirstOf
    <2>2. \A i \in 1..n : i - 1 \in 0..n
      BY <1>1
    <2> QED
      BY <1>1, <1>7, <2>1, <2>2
  <1>12. ASSUME NEW i \in 1..n
         PROVE  h[i] = [row |-> Append(h[i - 1].row, Read(i, h[i - 1].next).value),
                        next |-> Read(i, h[i - 1].next).next]
    <2>1. i \in Nat \ {0}
      BY <1>1
    <2>2. h[i - 1].row = FirstOf(row, i - 1) /\ h[i - 1].next = place[i - 1]
      <3>1. h[i - 1] = [row |-> FirstOf(row, i - 1), next |-> place[i - 1]]
        BY <1>11
      <3> HIDE DEF h
      <3> QED
        BY <3>1
    <2>3. Read(i, h[i - 1].next) = [value |-> row[i], next |-> place[i]]
      BY <1>9, <2>2
    <2> HIDE DEF h, Read
    <2>4. Append(h[i - 1].row, Read(i, h[i - 1].next).value) = FirstOf(row, i)
      <3>1. Append(FirstOf(row, i - 1), row[i]) = FirstOf(row, i)
        BY <2>1, FirstAppended
      <3>2. Read(i, h[i - 1].next).value = row[i]
        BY <2>3
      <3> QED
        BY <2>2, <3>1, <3>2
    <2>5. h[i] = [row |-> FirstOf(row, i), next |-> place[i]]
      BY <1>11
    <2>6. Read(i, h[i - 1].next).next = place[i]
      BY <2>3
    <2> QED
      BY <2>4, <2>5, <2>6
  <1>13. Runs(h)
    <2> DEFINE next == [i \in 0..n |->
                 IF i = 0 THEN [row |-> <<>>, next |-> start]
                 ELSE [row |-> Append(h[i - 1].row, Read(i, h[i - 1].next).value),
                       next |-> Read(i, h[i - 1].next).next]]
    <2>1. h = [i \in 0..n |-> h[i]]
      OBVIOUS
    <2> HIDE DEF h, Read
    <2>2. \A i \in 0..n : h[i] = next[i]
      <3> TAKE i \in 0..n
      <3>1. CASE i = 0
        BY <1>11, <3>1
      <3>2. CASE i # 0
        <4>1. i \in 1..n
          BY <1>1, <3>2
        <4> QED
          BY <1>12, <3>2, <4>1
      <3> QED
        BY <3>1, <3>2
    <2>3. h = next
      BY <2>1, <2>2
    <2> QED
      BY <2>3
  <1>14. Runs(after)
    <2> HIDE DEF h, Runs
    <2> QED
      BY <1>13
  <1>15. after[n] = h[n]
    <2> HIDE DEF h, after, Read
    <2> DEFINE P == {i \in Nat : i <= n => after[i] = h[i]}
    <2>1. 0 \in P
      BY <1>1, <1>11, <1>14
    <2>2. ASSUME NEW k \in Nat, k < n, k \in P PROVE k + 1 \in P
      <3> DEFINE i == k + 1
      <3>1. i \in 1..n /\ i \in 0..n /\ i # 0 /\ i - 1 = k /\ after[k] = h[k]
        BY <1>1, <2>2
      <3> HIDE DEF i
      <3>2. after[i] = [row |-> Append(after[i - 1].row, Read(i, after[i - 1].next).value),
                        next |-> Read(i, after[i - 1].next).next]
        BY <1>14, <3>1
      <3>3. after[i] = h[i]
        BY <1>12, <3>1, <3>2
      <3> QED
        BY <3>1, <3>3 DEF i
    <2> HIDE DEF P
    <2>3. \A k \in 0..n : k \in P
      BY <1>1, <2>1, <2>2, InductionUpTo
    <2> QED
      BY <1>1, <2>3 DEF P
  <1>16. h[n] = [row |-> FirstOf(row, n), next |-> place[n]]
    BY <1>1
  <1>17. ProtocolTypes(stream, start, n, named) = after[n]
    <2> DEFINE T == 1..n
               fields == [i \in 1..n |-> i]
    <2>1. Len(fields) = n
      <3>1. fields \in [1..n -> T]
        OBVIOUS
      <3> HIDE DEF T, fields
      <3> QED
        BY <1>1, <3>1, FunctionIsSeq
    <2> QED
      BY <2>1 DEF ProtocolTypes, Columns
  <1>18. FirstOf(row, n) = row
    BY <1>1 DEF FirstOf, row
  <1> HIDE DEF h, after
  <1>19. ProtocolTypes(stream, start, n, named) = [row |-> row, next |-> place[n]]
    BY <1>15, <1>16, <1>17, <1>18
  <1> QED
    BY <1>8, <1>19 DEF row, n, seqs

\* A server that counts its parameters reads their values; it finds the NULLs in the bitmap.
LEMMA ProtocolRead ==
  ASSUME NEW all, NEW names, AreParameters(all, names), NEW named \in BOOLEAN
  PROVE  ProtocolParameters(BoundPayload(all, names, named), Len(all), named).row
           = [i \in 1..Len(all) |-> <<BoundType(all[i]), IF all[i].kind = "null" THEN Null ELSE <<all[i].bytes>> >>]
  <1> DEFINE payload == BoundPayload(all, names, named)
             n == Len(all)
             seqs == ValuePieces(all)
             kinds == [i \in 1..n |-> BoundType(all[i])]
             row == [i \in 1..n |-> <<BoundType(all[i]), IF all[i].kind = "null" THEN Null ELSE <<all[i].bytes>> >>]
             types == FlattenSeq(TypePieces(all, names, named))
             length == NullBytes(all)
             bitmap == Bitmap(Nulls(all), length)
             head == Len(PayloadHead(named, n))
             first == head + 1 + length + 1
             start == first + Len(types)
  <1>1. n \in Nat /\ DOMAIN all = 1..n /\ \A i \in 1..n : IsParameter(all[i])
    BY DEF AreParameters
  <1>2. /\ payload \in Seq(Nat) /\ head \in Nat /\ length \in Nat
        /\ seqs \in Seq(Seq(Nat)) /\ Len(seqs) = n /\ types \in Seq(Nat)
        /\ Slice(payload, head + 1, length) = bitmap
        /\ Holds(payload, first, types)
        /\ Holds(payload, start, FlattenSeq(seqs))
    BY PayloadParts
  <1>3. \A i \in 1..n : seqs[i] = ValuePiece(all[i])
    BY <1>1 DEF ValuePieces
  <1>4. \A i \in 1..n : /\ row[i] = <<BoundType(all[i]), IF all[i].kind = "null" THEN Null ELSE <<all[i].bytes>> >>
                        /\ kinds[i] = BoundType(all[i])
    OBVIOUS
  <1>5. \A i \in 1..n : HasBit(bitmap, i - 1) <=> all[i].kind = "null"
    <2> TAKE i \in 1..n
    <2> HIDE DEF n
    <2>1. i - 1 \in 0..(8 * length - 1)
      BY <1>1 DEF NullBytes, n
    <2>2. HasBit(bitmap, i - 1) <=> i - 1 \in Nulls(all)
      <3> HIDE DEF length
      <3> QED
        BY <1>2, <2>1, BitmapRead
    <2>3. i - 1 \in Nulls(all) <=> all[i].kind = "null"
      BY <1>1 DEF Nulls
    <2> QED
      BY <2>2, <2>3
  <1>6. head + 1 = IF named THEN 10 + Len(LenEnc(n)) ELSE 10
    BY <1>1, PayloadHeadIs
  <1>7. ProtocolTypes(payload, first, n, named) = [row |-> kinds, next |-> start]
    <2>1. first \in Nat \ {0}
      BY <1>2
    <2> HIDE DEF first, types, payload
    <2>2. Holds(payload, first, FlattenSeq(TypePieces(all, names, named)))
      BY <1>2 DEF types
    <2> QED
      BY <1>2, <2>1, <2>2, TypesRead DEF types
  <1>8. Len(bitmap) = length /\ start \in Nat \ {0}
    <2>1. Len(types) \in Nat /\ Len(bitmap) = length
      BY <1>2, BitmapIsBytes
    <2> HIDE DEF types, bitmap, head, length
    <2> QED
      BY <1>2, <2>1
  <1>9. Len(kinds) = n
    <2> DEFINE T == {BoundType(all[i]) : i \in 1..n}
    <2>1. kinds \in [1..n -> T]
      OBVIOUS
    <2> HIDE DEF T, kinds, n
    <2> QED
      BY <1>1, <2>1, FunctionIsSeq
  <1> HIDE DEF n, seqs, bitmap, payload, types, head, length, first, start, kinds
  <1>6a. PICK place : Places(payload, start, seqs, place)
    BY <1>2, <1>8, Placed
  <1>7a. /\ place[0] = start
         /\ \A i \in 1..n : /\ i - 1 \in 0..n /\ place[i - 1] \in Nat \ {0}
                            /\ place[i] = place[i - 1] + Len(seqs[i])
                            /\ Holds(payload, place[i - 1], seqs[i])
    BY <1>2, <1>6a DEF Places
  <1> DEFINE Value(i, at) == IF HasBit(bitmap, i - 1) THEN [value |-> Null, next |-> at]
                             ELSE ProtocolValue(payload, at, kinds[i])
             Read(i, at) == [value |-> <<kinds[i], Value(i, at).value>>, next |-> Value(i, at).next]
  <1>9a. ASSUME NEW i \in 1..n
         PROVE  Read(i, place[i - 1]) = [value |-> row[i], next |-> place[i]]
    <2> DEFINE at == place[i - 1]
               v == all[i]
    <2>1. /\ at \in Nat \ {0} /\ Holds(payload, at, ValuePiece(v)) /\ IsParameter(v)
          /\ place[i] = at + Len(ValuePiece(v)) /\ kinds[i] = BoundType(v)
          /\ row[i] = <<BoundType(v), IF v.kind = "null" THEN Null ELSE <<v.bytes>> >>
          /\ HasBit(bitmap, i - 1) <=> v.kind = "null"
      BY <1>1, <1>3, <1>4, <1>5, <1>7a
    <2> HIDE DEF at, v, row
    <2>2. CASE v.kind = "null"
      <3>1. ValuePiece(v) = <<>>
        BY <2>2 DEF ValuePiece
      <3>2. place[i] = at
        BY <2>1, <3>1
      <3>3. Value(i, at) = [value |-> Null, next |-> at]
        BY <2>1, <2>2
      <3> HIDE DEF Value
      <3> QED
        BY <2>1, <2>2, <3>2, <3>3 DEF at
    <2>3. CASE v.kind # "null"
      <3>1. ProtocolValue(payload, at, BoundType(v)) = [value |-> <<v.bytes>>, next |-> place[i]]
        BY <1>2, <2>1, <2>3, ValueRead
      <3>2. Value(i, at) = [value |-> <<v.bytes>>, next |-> place[i]]
        BY <2>1, <2>3, <3>1
      <3> HIDE DEF Value
      <3> QED
        BY <2>1, <2>3, <3>2 DEF at
    <2> QED
      BY <2>2, <2>3
  <1> HIDE DEF row
  <1> DEFINE Runs(g) == g = [i \in 0..n |->
               IF i = 0 THEN [row |-> <<>>, next |-> start]
               ELSE LET before == g[i - 1]
                        column == Read(i, before.next)
                    IN  [row |-> Append(before.row, column.value), next |-> column.next]]
             after == CHOOSE g : Runs(g)
             h == [i \in 0..n |-> [row |-> FirstOf(row, i), next |-> place[i]]]
  <1>11. /\ h[0] = [row |-> <<>>, next |-> start]
         /\ \A i \in 1..n : h[i] = [row |-> FirstOf(row, i), next |-> place[i]]
         /\ \A i \in 1..n : i # 0 /\ h[i - 1] = [row |-> FirstOf(row, i - 1), next |-> place[i - 1]]
    <2>1. FirstOf(row, 0) = <<>>
      BY DEF FirstOf
    <2>2. \A i \in 1..n : i - 1 \in 0..n
      BY <1>1
    <2> QED
      BY <1>1, <1>7a, <2>1, <2>2
  <1>12. ASSUME NEW i \in 1..n
         PROVE  h[i] = [row |-> Append(h[i - 1].row, Read(i, h[i - 1].next).value),
                        next |-> Read(i, h[i - 1].next).next]
    <2>1. i \in Nat \ {0}
      BY <1>1
    <2>2. h[i - 1].row = FirstOf(row, i - 1) /\ h[i - 1].next = place[i - 1]
      <3>1. h[i - 1] = [row |-> FirstOf(row, i - 1), next |-> place[i - 1]]
        BY <1>11
      <3> HIDE DEF h
      <3> QED
        BY <3>1
    <2>3. Read(i, h[i - 1].next) = [value |-> row[i], next |-> place[i]]
      BY <1>9a, <2>2
    <2> HIDE DEF h, Read
    <2>4. Append(h[i - 1].row, Read(i, h[i - 1].next).value) = FirstOf(row, i)
      <3>1. Append(FirstOf(row, i - 1), row[i]) = FirstOf(row, i)
        BY <2>1, FirstAppended
      <3>2. Read(i, h[i - 1].next).value = row[i]
        BY <2>3
      <3> QED
        BY <2>2, <3>1, <3>2
    <2>5. h[i] = [row |-> FirstOf(row, i), next |-> place[i]]
      BY <1>11
    <2>6. Read(i, h[i - 1].next).next = place[i]
      BY <2>3
    <2> QED
      BY <2>4, <2>5, <2>6
  <1>13. Runs(h)
    <2> DEFINE next == [i \in 0..n |->
                 IF i = 0 THEN [row |-> <<>>, next |-> start]
                 ELSE [row |-> Append(h[i - 1].row, Read(i, h[i - 1].next).value),
                       next |-> Read(i, h[i - 1].next).next]]
    <2>1. h = [i \in 0..n |-> h[i]]
      OBVIOUS
    <2> HIDE DEF h, Read
    <2>2. \A i \in 0..n : h[i] = next[i]
      <3> TAKE i \in 0..n
      <3>1. CASE i = 0
        BY <1>11, <3>1
      <3>2. CASE i # 0
        <4>1. i \in 1..n
          BY <1>1, <3>2
        <4> QED
          BY <1>12, <3>2, <4>1
      <3> QED
        BY <3>1, <3>2
    <2>3. h = next
      BY <2>1, <2>2
    <2> QED
      BY <2>3
  <1>14. Runs(after)
    <2> HIDE DEF h, Runs
    <2> QED
      BY <1>13
  <1>15. after[n] = h[n]
    <2> HIDE DEF h, after, Read
    <2> DEFINE P == {i \in Nat : i <= n => after[i] = h[i]}
    <2>1. 0 \in P
      BY <1>1, <1>11, <1>14
    <2>2. ASSUME NEW k \in Nat, k < n, k \in P PROVE k + 1 \in P
      <3> DEFINE i == k + 1
      <3>1. i \in 1..n /\ i \in 0..n /\ i # 0 /\ i - 1 = k /\ after[k] = h[k]
        BY <1>1, <2>2
      <3> HIDE DEF i
      <3>2. after[i] = [row |-> Append(after[i - 1].row, Read(i, after[i - 1].next).value),
                        next |-> Read(i, after[i - 1].next).next]
        BY <1>14, <3>1
      <3>3. after[i] = h[i]
        BY <1>12, <3>1, <3>2
      <3> QED
        BY <3>1, <3>3 DEF i
    <2> HIDE DEF P
    <2>3. \A k \in 0..n : k \in P
      BY <1>1, <2>1, <2>2, InductionUpTo
    <2> QED
      BY <1>1, <2>3 DEF P
  <1>16. h[n] = [row |-> FirstOf(row, n), next |-> place[n]]
    BY <1>1
  <1>17. ProtocolParameters(payload, n, named) = after[n]
    <2> DEFINE s == IF named THEN 10 + Len(LenEnc(n)) ELSE 10
               b == Slice(payload, s, (n + 7) \div 8)
               t == ProtocolTypes(payload, s + Len(b) + 1, n, named)
    <2>1. s = head + 1
      BY <1>6
    <2>2. b = bitmap
      BY <1>2, <2>1 DEF length, NullBytes, n
    <2>3. t = [row |-> kinds, next |-> start]
      BY <1>7, <1>8, <2>1, <2>2 DEF first
    <2>4. t.row = kinds /\ t.next = start
      <3> HIDE DEF t
      <3> QED
        BY <2>3
    <2>5. ProtocolParameters(payload, n, named) = Columns(t.row, t.next, LAMBDA i, at :
            LET value == IF HasBit(b, i - 1) THEN [value |-> Null, next |-> at]
                         ELSE ProtocolValue(payload, at, t.row[i]) IN
            [value |-> <<t.row[i], value.value>>, next |-> value.next])
      BY DEF ProtocolParameters
    <2> HIDE DEF t, b
    <2> QED
      BY <1>9, <2>2, <2>4, <2>5 DEF Columns
  <1>18. FirstOf(row, n) = row
    BY <1>1 DEF FirstOf, row
  <1> HIDE DEF h, after
  <1>19. ProtocolParameters(payload, n, named) = [row |-> row, next |-> place[n]]
    BY <1>15, <1>16, <1>17, <1>18
  <1> QED
    BY <1>19 DEF row, n, payload

\* Without names there are two bytes for each type.
LEMMA TypesHeld ==
  ASSUME NEW all, NEW names, AreParameters(all, names), NEW stream \in Seq(Nat), NEW first \in Nat \ {0},
         Holds(stream, first, FlattenSeq(TypePieces(all, names, FALSE)))
  PROVE  /\ Len(FlattenSeq(TypePieces(all, names, FALSE))) = 2 * Len(all)
         /\ \A i \in 1..Len(all) :
              /\ first + 2 * (i - 1) + 1 <= Len(stream)
              /\ stream[first + 2 * (i - 1)] = BoundType(all[i])[1]
              /\ stream[first + 2 * (i - 1) + 1] = BoundType(all[i])[2]
  <1> DEFINE n == Len(all)
             seqs == TypePieces(all, names, FALSE)
  <1>1. n \in Nat /\ DOMAIN all = 1..n /\ \A i \in 1..n : IsParameter(all[i]) /\ IsValue(names[i])
    BY DEF AreParameters
  <1>2. seqs \in Seq(Seq(Nat)) /\ Len(seqs) = n
    BY PayloadParts
  <1>3. \A i \in 1..n : seqs[i] = BoundType(all[i]) /\ BoundType(all[i]) \in Seq(Nat) /\ Len(BoundType(all[i])) = 2
    <2> TAKE i \in 1..n
    <2>1. BoundType(all[i]) \in Seq(Nat) /\ Len(BoundType(all[i])) = 2
      BY <1>1, TypePieceIs
    <2>2. seqs[i] = BoundType(all[i]) \o <<>>
      BY <1>1 DEF TypePieces, TypePiece
    <2> HIDE DEF seqs
    <2> QED
      BY <2>1, <2>2, ConcatNone
  <1>4. Holds(stream, first, FlattenSeq(seqs))
    OBVIOUS
  <1> HIDE DEF n, seqs
  <1>5. PICK place : Places(stream, first, seqs, place)
    BY <1>2, <1>4, Placed
  <1>6. /\ place[0] = first /\ place[n] = first + Len(FlattenSeq(seqs))
        /\ \A i \in 1..n : place[i] = place[i - 1] + 2 /\ Holds(stream, place[i - 1], BoundType(all[i]))
    BY <1>2, <1>3, <1>5 DEF Places
  <1>7. \A i \in 0..n : place[i] = first + 2 * i
    <2> DEFINE P == {i \in Nat : i <= n => place[i] = first + 2 * i}
    <2>1. 0 \in P
      BY <1>6
    <2>2. ASSUME NEW i \in Nat, i < n, i \in P PROVE i + 1 \in P
      <3> DEFINE j == i + 1
      <3>1. j \in 1..n /\ j - 1 = i /\ j = i + 1 /\ j \in Nat
        BY <1>1, <2>2
      <3> HIDE DEF j
      <3>2. place[j] = place[i] + 2
        BY <1>6, <3>1
      <3>3. place[i] = first + 2 * i
        BY <1>1, <2>2
      <3> HIDE DEF P
      <3>4. place[j] = first + 2 * j
        BY <3>1, <3>2, <3>3
      <3> QED
        BY <3>1, <3>4 DEF j, P
    <2> HIDE DEF P
    <2>3. \A i \in 0..n : i \in P
      BY <1>1, <2>1, <2>2, InductionUpTo
    <2> QED
      BY <1>1, <2>3 DEF P
  <1>8. Len(FlattenSeq(seqs)) = 2 * n
    <2>1. FlattenSeq(seqs) \in Seq(Nat)
      BY <1>2, FlattenedExist, Flattened
    <2>2. Len(FlattenSeq(seqs)) \in Nat
      BY <2>1
    <2>3. place[n] = first + 2 * n
      BY <1>1, <1>7
    <2> QED
      BY <1>1, <1>6, <2>2, <2>3
  <1>9. ASSUME NEW i \in 1..n
        PROVE  /\ first + 2 * (i - 1) + 1 <= Len(stream)
               /\ stream[first + 2 * (i - 1)] = BoundType(all[i])[1]
               /\ stream[first + 2 * (i - 1) + 1] = BoundType(all[i])[2]
    <2> DEFINE at == first + 2 * (i - 1)
               type == BoundType(all[i])
    <2>1. i - 1 \in 0..n /\ at \in Nat \ {0}
      BY <1>1
    <2>2. place[i - 1] = at
      BY <1>7, <2>1
    <2>3. Holds(stream, at, type) /\ Len(type) = 2
      BY <1>3, <1>6, <2>2
    <2> HIDE DEF at, type
    <2>4. at + 1 <= Len(stream) /\ stream[at] = type[1] /\ stream[at + 1] = type[2]
      BY <2>1, <2>3 DEF Holds
    <2> QED
      BY <2>4 DEF at, type
  <1> QED
    BY <1>8, <1>9 DEF n, seqs

\* What the library's server copes with: kinds it knows, no more than 16 parameters, and
\* values that do not begin like a type.
IsClear(all) ==
  /\ \A i \in 1..Len(all) : all[i].kind \in Supported
  /\ Len(all) <= 16
  /\ LET values == FlattenSeq(ValuePieces(all)) IN
     Len(values) > 1 => ~(SupportedType(values[1]) /\ values[2] = 0)

\* The byte 1 before the types is the first that the server takes for it, and it finds the
\* end of the types.
LEMMA TypesFound ==
  ASSUME NEW all, NEW names, AreParameters(all, names), IsClear(all)
  PROVE  LET payload == BoundPayload(all, names, FALSE)
             start == {i \in 10..Len(payload) : payload[i] = 1 /\ IsTypeAt(payload, i + 1)}
             first == Min(start) + 1
             ends == CHOOSE n \in 0..Len(payload) :
                       ~IsTypeAt(payload, first + 2 * n) /\ \A m \in 0..(n - 1) : IsTypeAt(payload, first + 2 * m)
         IN  start # {} /\ first = 11 + NullBytes(all) /\ ends = Len(all)
  <1> DEFINE payload == BoundPayload(all, names, FALSE)
             n == Len(all)
             b == NullBytes(all)
             mark == 10 + b
             types == FlattenSeq(TypePieces(all, names, FALSE))
             values == FlattenSeq(ValuePieces(all))
             start == {i \in 10..Len(payload) : payload[i] = 1 /\ IsTypeAt(payload, i + 1)}
  <1>1. n \in 1..16 /\ b \in {1, 2}
    <2>1. n \in Nat \ {0} /\ n <= 16
      BY DEF AreParameters, IsClear
    <2>2. b = (n + 7) \div 8
      BY DEF NullBytes
    <2> HIDE DEF n, b
    <2>3. n \in 1..16
      BY <2>1
    <2>4. (n + 7) \div 8 \in {1, 2}
      BY <2>3
    <2> QED
      BY <2>2, <2>3, <2>4
  <1>2. Len(PayloadHead(FALSE, n)) = 9
    <2> DEFINE named == FALSE
               head == PayloadHead(named, n)
    <2>1. n \in Nat /\ named \in BOOLEAN /\ ~named
      BY <1>1
    <2> HIDE DEF n, named
    <2>2. head \in Seq(Nat) /\ Len(head) + 1 = IF named THEN 10 + Len(LenEnc(n)) ELSE 10
      BY <2>1, PayloadHeadIs
    <2> HIDE DEF head
    <2>3. Len(head) \in Nat /\ Len(head) + 1 = 10
      BY <2>1, <2>2
    <2>4. Len(head) = 9
      <3> DEFINE length == Len(head)
      <3>1. length \in Nat /\ length + 1 = 10
        BY <2>3
      <3> HIDE DEF length
      <3>2. length = 9
        BY <3>1
      <3> QED
        BY <3>2 DEF length
    <2> QED
      BY <2>4 DEF head, named
  <1>3. /\ payload \in Seq(Nat) /\ types \in Seq(Nat) /\ values \in Seq(Nat)
        /\ mark <= Len(payload) /\ payload[mark] = 1
        /\ Holds(payload, mark + 1, types)
        /\ Holds(payload, mark + 1 + Len(types), values)
        /\ Len(payload) = mark + Len(types) + Len(values)
    <2> DEFINE head == Len(PayloadHead(FALSE, n))
    <2>1. /\ payload \in Seq(Nat) /\ types \in Seq(Nat) /\ values \in Seq(Nat)
          /\ head + 1 + b <= Len(payload) /\ payload[head + 1 + b] = 1
          /\ Holds(payload, head + 1 + b + 1, types)
          /\ Holds(payload, head + 1 + b + 1 + Len(types), values)
          /\ Len(payload) = head + 1 + b + Len(types) + Len(values)
      BY PayloadParts
    <2>2. head + 1 + b = mark
      <3>1. head = 9
        BY <1>2
      <3> HIDE DEF b, head, n
      <3> QED
        BY <1>1, <3>1
    <2> HIDE DEF payload, types, values, head, mark
    <2> QED
      BY <2>1, <2>2
  <1>4. \A i \in 1..n : \E type \in Nat : BoundType(all[i]) = <<type, 0>> /\ type # 0 /\ SupportedType(type)
    <2> TAKE i \in 1..n
    <2>1. IsParameter(all[i]) /\ all[i].kind \in Supported
      BY DEF AreParameters, IsClear
    <2> QED
      BY <2>1, BoundTypeIs
  <1>5. Len(values) > 1 => ~(SupportedType(values[1]) /\ values[2] = 0)
    BY DEF IsClear
  <1> HIDE DEF payload, n, b, types, values
  <1>6. mark \in Nat \ {0} /\ mark + 1 \in Nat \ {0}
    BY <1>1
  <1>7. /\ Len(types) = 2 * n
        /\ \A i \in 1..n :
             /\ mark + 1 + 2 * (i - 1) + 1 <= Len(payload)
             /\ payload[mark + 1 + 2 * (i - 1)] = BoundType(all[i])[1]
             /\ payload[mark + 1 + 2 * (i - 1) + 1] = BoundType(all[i])[2]
    <2> DEFINE from == mark + 1
    <2>1. from \in Nat \ {0} /\ Holds(payload, from, FlattenSeq(TypePieces(all, names, FALSE)))
      BY <1>3, <1>6 DEF types
    <2> HIDE DEF from
    <2>2. /\ Len(FlattenSeq(TypePieces(all, names, FALSE))) = 2 * Len(all)
          /\ \A i \in 1..Len(all) :
               /\ from + 2 * (i - 1) + 1 <= Len(payload)
               /\ payload[from + 2 * (i - 1)] = BoundType(all[i])[1]
               /\ payload[from + 2 * (i - 1) + 1] = BoundType(all[i])[2]
      BY <1>3, <2>1, TypesHeld
    <2> QED
      BY <2>2 DEF from, types, n
  <1> DEFINE first == mark + 1
  <1>8. \A m \in 0..(n - 1) : IsTypeAt(payload, first + 2 * m)
    <2> TAKE m \in 0..(n - 1)
    <2> DEFINE i == m + 1
    <2>1. i \in 1..n /\ i - 1 = m
      BY <1>1
    <2> HIDE DEF i, mark
    <2>2. PICK type \in Nat : BoundType(all[i]) = <<type, 0>> /\ SupportedType(type)
      BY <1>4, <2>1
    <2>3. /\ first + 2 * m + 1 <= Len(payload) /\ payload[first + 2 * m] = type /\ payload[first + 2 * m + 1] = 0
      BY <1>7, <2>1, <2>2
    <2> QED
      BY <2>2, <2>3 DEF IsTypeAt
  <1>9. ~IsTypeAt(payload, first + 2 * n)
    <2> SUFFICES ASSUME IsTypeAt(payload, first + 2 * n) PROVE FALSE
      OBVIOUS
    <2> DEFINE at == mark + 1 + Len(types)
    <2>1. at = first + 2 * n /\ at \in Nat \ {0} /\ Len(values) \in Nat /\ at - 1 = mark + Len(types)
      BY <1>1, <1>3, <1>6, <1>7
    <2>2. at + 1 <= Len(payload) /\ SupportedType(payload[at]) /\ payload[at + 1] = 0
      BY <2>1 DEF IsTypeAt
    <2>3. Holds(payload, at, values) /\ Len(payload) = at - 1 + Len(values)
      BY <1>3, <2>1
    <2> HIDE DEF at
    <2>4. Len(values) > 1
      BY <2>1, <2>2, <2>3
    <2>5. payload[at] = values[1] /\ payload[at + 1] = values[2]
      <3> DEFINE one == 1
                 two == 2
      <3>1. one \in 1..Len(values) /\ two \in 1..Len(values) /\ at + one - 1 = at /\ at + two - 1 = at + 1
        BY <2>1, <2>4
      <3> HIDE DEF one, two
      <3>2. payload[at + one - 1] = values[one] /\ payload[at + two - 1] = values[two]
        BY <2>3, <3>1 DEF Holds
      <3> QED
        BY <3>1, <3>2 DEF one, two
    <2> QED
      BY <1>5, <2>2, <2>4, <2>5
  <1>10. mark \in start
    <2>1. IsTypeAt(payload, mark + 1)
      <3>1. 0 \in 0..(n - 1) /\ first + 2 * 0 = mark + 1
        BY <1>1, <1>6
      <3> HIDE DEF first
      <3> QED
        BY <1>8, <3>1
    <2> QED
      BY <1>1, <1>3, <1>6, <2>1
  <1>11. \A i \in start : mark <= i
    <2> SUFFICES ASSUME NEW i \in 10..Len(payload), IsTypeAt(payload, i + 1), ~(mark <= i) PROVE FALSE
      BY <1>1
    <2>1. payload[i + 2] = 0
      <3>1. i + 1 + 1 = i + 2
        OBVIOUS
      <3> QED
        BY <3>1 DEF IsTypeAt
    <2>2. i + 2 = mark \/ i + 2 = mark + 1
      BY <1>1
    <2>3. payload[mark + 1] # 0
      <3> DEFINE one == 1
      <3>1. one \in 1..n /\ mark + 1 + 2 * (one - 1) = mark + 1
        BY <1>1
      <3> HIDE DEF one, mark
      <3>2. PICK type \in Nat : BoundType(all[one]) = <<type, 0>> /\ type # 0
        BY <1>4, <3>1
      <3>3. payload[mark + 1] = BoundType(all[one])[1]
        BY <1>7, <3>1
      <3> QED
        BY <3>2, <3>3
    <2> HIDE DEF mark
    <2> QED
      BY <1>3, <2>1, <2>2, <2>3
  <1>12. Min(start) = mark
    <2>1. start \subseteq Nat /\ start # {}
      BY <1>10
    <2>2. \A i \in start : i \in Nat
      BY <2>1
    <2> HIDE DEF start, mark
    <2>3. Min(start) \in start /\ Min(start) <= mark
      BY <1>10, <2>1, MinOfNats
    <2> QED
      BY <1>6, <1>11, <2>2, <2>3
  <1>13. n \in 0..Len(payload)
    <2>1. Len(payload) \in Nat /\ Len(values) \in Nat
      BY <1>3
    <2> HIDE DEF mark
    <2> QED
      BY <1>1, <1>3, <1>6, <1>7, <2>1
  <1>14. (CHOOSE k \in 0..Len(payload) :
            ~IsTypeAt(payload, first + 2 * k) /\ \A m \in 0..(k - 1) : IsTypeAt(payload, first + 2 * m)) = n
    <2> DEFINE E(k) == ~IsTypeAt(payload, first + 2 * k) /\ \A m \in 0..(k - 1) : IsTypeAt(payload, first + 2 * m)
    <2>1. E(n)
      BY <1>8, <1>9
    <2>2. ASSUME NEW k \in 0..Len(payload), E(k) PROVE k = n
      <3>1. ~(k < n)
        <4> SUFFICES ASSUME k < n PROVE FALSE
          OBVIOUS
        <4>1. k \in 0..(n - 1)
          BY <1>1
        <4> HIDE DEF first
        <4> QED
          BY <1>8, <2>2, <4>1
      <3>2. ~(n < k)
        <4> SUFFICES ASSUME n < k PROVE FALSE
          OBVIOUS
        <4>1. n \in 0..(k - 1)
          BY <1>1
        <4> HIDE DEF first
        <4> QED
          BY <1>9, <2>2, <4>1
      <3> QED
        BY <1>1, <3>1, <3>2
    <2>3. (CHOOSE k \in 0..Len(payload) : E(k)) = n
      <3> HIDE DEF E
      <3> QED
        BY <1>13, <2>1, <2>2
    <2> QED
      BY <2>3
  <1>15. start # {} /\ Min(start) + 1 = first /\ first = 11 + b
    <2>1. start # {}
      BY <1>10
    <2> HIDE DEF start
    <2> QED
      BY <1>1, <1>12, <2>1
  <1> HIDE DEF first, mark
  <1> QED
    BY <1>14, <1>15 DEF payload, n, b

\* The library's server finds the values that the client bound.
LEMMA ServerRead ==
  ASSUME NEW all, NEW names, AreParameters(all, names), IsClear(all)
  PROVE  ServerParameters(BoundPayload(all, names, FALSE))
           = [i \in 1..Len(all) |-> <<BoundType(all[i])[1], all[i].bytes>>]
  <1> DEFINE payload == BoundPayload(all, names, FALSE)
             n == Len(all)
             seqs == ValuePieces(all)
             values == FlattenSeq(seqs)
             kinds == [i \in 1..n |-> BoundType(all[i])[1]]
             row == [i \in 1..n |-> <<BoundType(all[i])[1], all[i].bytes>>]
             first == 11 + NullBytes(all)
             start == first + 2 * n
  <1>1. n \in Nat /\ DOMAIN all = 1..n /\ \A i \in 1..n : IsParameter(all[i]) /\ all[i].kind \in Supported
    BY DEF AreParameters, IsClear
  <1>2. /\ payload \in Seq(Nat) /\ NullBytes(all) \in Nat
        /\ seqs \in Seq(Seq(Nat)) /\ Len(seqs) = n /\ values \in Seq(Nat)
        /\ Holds(payload, start, values) /\ Len(payload) = start + Len(values) - 1
        /\ \A i \in 1..n : payload[first + 2 * (i - 1)] = kinds[i]
    <2> DEFINE named == FALSE
               head == Len(PayloadHead(named, n))
               types == FlattenSeq(TypePieces(all, names, named))
               from == head + 1 + NullBytes(all) + 1
    <2>1. named \in BOOLEAN /\ ~named /\ payload = BoundPayload(all, names, named)
      OBVIOUS
    <2> HIDE DEF named
    <2>2. /\ payload \in Seq(Nat) /\ NullBytes(all) \in Nat /\ head \in Nat
          /\ seqs \in Seq(Seq(Nat)) /\ Len(seqs) = n /\ values \in Seq(Nat) /\ types \in Seq(Nat)
          /\ Holds(payload, from, types)
          /\ Holds(payload, from + Len(types), values)
          /\ Len(payload) = from - 1 + Len(types) + Len(values)
      <3> DEFINE place == head + 1 + NullBytes(all)
      <3>1. /\ payload \in Seq(Nat) /\ NullBytes(all) \in Nat /\ head \in Nat
            /\ seqs \in Seq(Seq(Nat)) /\ Len(seqs) = n /\ values \in Seq(Nat) /\ types \in Seq(Nat)
            /\ Holds(payload, from, types)
            /\ Holds(payload, from + Len(types), values)
            /\ Len(payload) = place + Len(types) + Len(values)
        BY <2>1, PayloadParts
      <3>2. place = from - 1
        BY <3>1
      <3> HIDE DEF place
      <3> QED
        BY <3>1, <3>2
    <2>3. head + 1 = 10
      BY <1>1, <2>1, PayloadHeadIs
    <2>4. from = first /\ from \in Nat \ {0}
      BY <2>2, <2>3
    <2> HIDE DEF from, first, payload
    <2>5. /\ Len(types) = 2 * n
          /\ \A i \in 1..n : payload[from + 2 * (i - 1)] = BoundType(all[i])[1]
      <3>1. Holds(payload, from, FlattenSeq(TypePieces(all, names, FALSE)))
        BY <2>2 DEF named
      <3>2. /\ Len(FlattenSeq(TypePieces(all, names, FALSE))) = 2 * Len(all)
            /\ \A i \in 1..Len(all) : payload[from + 2 * (i - 1)] = BoundType(all[i])[1]
        BY <2>2, <2>4, <3>1, TypesHeld
      <3> QED
        BY <3>2 DEF named
    <2>6. \A i \in 1..n : payload[first + 2 * (i - 1)] = kinds[i]
      BY <2>4, <2>5
    <2> HIDE DEF types, values, n, kinds
    <2>7. Holds(payload, start, values) /\ Len(payload) = start + Len(values) - 1
      <3>1. Len(values) \in Nat
        BY <2>2
      <3> QED
        BY <1>1, <2>2, <2>4, <2>5, <3>1
    <2> QED
      BY <2>2, <2>6, <2>7
  <1>3. \A i \in 1..n : seqs[i] = ValuePiece(all[i])
    BY <1>1 DEF ValuePieces
  <1>4. \A i \in 1..n : row[i] = <<BoundType(all[i])[1], all[i].bytes>> /\ kinds[i] = BoundType(all[i])[1]
    OBVIOUS
  <1>5. start \in Nat \ {0}
    <2> HIDE DEF n
    <2> QED
      BY <1>1, <1>2
  <1>6. Len(kinds) = n
    <2> DEFINE T == {BoundType(all[i])[1] : i \in 1..n}
    <2>1. kinds \in [1..n -> T]
      OBVIOUS
    <2> HIDE DEF T, kinds, n
    <2> QED
      BY <1>1, <2>1, FunctionIsSeq
  <1> HIDE DEF n, seqs, payload, values, start, kinds, first
  <1>7. PICK place : Places(payload, start, seqs, place)
    BY <1>2, <1>5, Placed DEF values
  <1>8. /\ place[0] = start
        /\ \A i \in 1..n : /\ i - 1 \in 0..n /\ place[i - 1] \in Nat \ {0}
                           /\ place[i] = place[i - 1] + Len(seqs[i])
                           /\ Holds(payload, place[i - 1], seqs[i])
    BY <1>2, <1>7 DEF Places
  <1>9. place[n] = start + Len(values)
    BY <1>2, <1>7 DEF Places, values
  <1> DEFINE Read(i, at) == ServerValue(payload, at, kinds[i])
  <1>10. ASSUME NEW i \in 1..n
         PROVE  Read(i, place[i - 1]) = [value |-> row[i], next |-> place[i]]
    <2> DEFINE at == place[i - 1]
               v == all[i]
    <2>1. /\ at \in Nat \ {0} /\ Holds(payload, at, ValuePiece(v)) /\ IsParameter(v) /\ v.kind \in Supported
          /\ place[i] = at + Len(ValuePiece(v)) /\ kinds[i] = BoundType(v)[1]
          /\ row[i] = <<BoundType(v)[1], v.bytes>>
      BY <1>1, <1>3, <1>4, <1>8
    <2> HIDE DEF at, v, row
    <2>2. ServerValue(payload, at, BoundType(v)[1]) = [value |-> <<BoundType(v)[1], v.bytes>>, next |-> at + Len(ValuePiece(v))]
      BY <1>2, <2>1, ValueRead
    <2> QED
      BY <2>1, <2>2 DEF at
  <1> HIDE DEF row
  <1> DEFINE Runs(g) == g = [i \in 0..n |->
               IF i = 0 THEN [row |-> <<>>, next |-> start]
               ELSE LET before == g[i - 1]
                        column == Read(i, before.next)
                    IN  [row |-> Append(before.row, column.value), next |-> column.next]]
             after == CHOOSE g : Runs(g)
             h == [i \in 0..n |-> [row |-> FirstOf(row, i), next |-> place[i]]]
  <1>11. /\ h[0] = [row |-> <<>>, next |-> start]
         /\ \A i \in 1..n : h[i] = [row |-> FirstOf(row, i), next |-> place[i]]
         /\ \A i \in 1..n : i # 0 /\ h[i - 1] = [row |-> FirstOf(row, i - 1), next |-> place[i - 1]]
    <2>1. FirstOf(row, 0) = <<>>
      BY DEF FirstOf
    <2>2. \A i \in 1..n : i - 1 \in 0..n
      BY <1>1
    <2> QED
      BY <1>1, <1>8, <2>1, <2>2
  <1>12. ASSUME NEW i \in 1..n
         PROVE  h[i] = [row |-> Append(h[i - 1].row, Read(i, h[i - 1].next).value),
                        next |-> Read(i, h[i - 1].next).next]
    <2>1. i \in Nat \ {0}
      BY <1>1
    <2>2. h[i - 1].row = FirstOf(row, i - 1) /\ h[i - 1].next = place[i - 1]
      <3>1. h[i - 1] = [row |-> FirstOf(row, i - 1), next |-> place[i - 1]]
        BY <1>11
      <3> HIDE DEF h
      <3> QED
        BY <3>1
    <2>3. Read(i, h[i - 1].next) = [value |-> row[i], next |-> place[i]]
      BY <1>10, <2>2
    <2> HIDE DEF h, Read
    <2>4. Append(h[i - 1].row, Read(i, h[i - 1].next).value) = FirstOf(row, i)
      <3>1. Append(FirstOf(row, i - 1), row[i]) = FirstOf(row, i)
        BY <2>1, FirstAppended
      <3>2. Read(i, h[i - 1].next).value = row[i]
        BY <2>3
      <3> QED
        BY <2>2, <3>1, <3>2
    <2>5. h[i] = [row |-> FirstOf(row, i), next |-> place[i]]
      BY <1>11
    <2>6. Read(i, h[i - 1].next).next = place[i]
      BY <2>3
    <2> QED
      BY <2>4, <2>5, <2>6
  <1>13. Runs(h)
    <2> DEFINE next == [i \in 0..n |->
                 IF i = 0 THEN [row |-> <<>>, next |-> start]
                 ELSE [row |-> Append(h[i - 1].row, Read(i, h[i - 1].next).value),
                       next |-> Read(i, h[i - 1].next).next]]
    <2>1. h = [i \in 0..n |-> h[i]]
      OBVIOUS
    <2> HIDE DEF h, Read
    <2>2. \A i \in 0..n : h[i] = next[i]
      <3> TAKE i \in 0..n
      <3>1. CASE i = 0
        BY <1>11, <3>1
      <3>2. CASE i # 0
        <4>1. i \in 1..n
          BY <1>1, <3>2
        <4> QED
          BY <1>12, <3>2, <4>1
      <3> QED
        BY <3>1, <3>2
    <2>3. h = next
      BY <2>1, <2>2
    <2> QED
      BY <2>3
  <1>14. Runs(after)
    <2> HIDE DEF h, Runs
    <2> QED
      BY <1>13
  <1>15. after[n] = h[n]
    <2> HIDE DEF h, after, Read
    <2> DEFINE P == {i \in Nat : i <= n => after[i] = h[i]}
    <2>1. 0 \in P
      BY <1>1, <1>11, <1>14
    <2>2. ASSUME NEW k \in Nat, k < n, k \in P PROVE k + 1 \in P
      <3> DEFINE i == k + 1
      <3>1. i \in 1..n /\ i \in 0..n /\ i # 0 /\ i - 1 = k /\ after[k] = h[k]
        BY <1>1, <2>2
      <3> HIDE DEF i
      <3>2. after[i] = [row |-> Append(after[i - 1].row, Read(i, after[i - 1].next).value),
                        next |-> Read(i, after[i - 1].next).next]
        BY <1>14, <3>1
      <3>3. after[i] = h[i]
        BY <1>12, <3>1, <3>2
      <3> QED
        BY <3>1, <3>3 DEF i
    <2> HIDE DEF P
    <2>3. \A k \in 0..n : k \in P
      BY <1>1, <2>1, <2>2, InductionUpTo
    <2> QED
      BY <1>1, <2>3 DEF P
  <1>16. h[n] = [row |-> FirstOf(row, n), next |-> place[n]]
    BY <1>1
  <1> DEFINE starts == {i \in 10..Len(payload) : payload[i] = 1 /\ IsTypeAt(payload, i + 1)}
             one == Min(starts) + 1
             ends == CHOOSE k \in 0..Len(payload) :
                       ~IsTypeAt(payload, one + 2 * k) /\ \A m \in 0..(k - 1) : IsTypeAt(payload, one + 2 * m)
             types == [i \in 1..ends |-> payload[one + 2 * (i - 1)]]
             read == Columns(types, one + 2 * ends, LAMBDA i, at : ServerValue(payload, at, types[i]))
  <1>17. starts # {} /\ one = first /\ ends = n
    BY TypesFound DEF payload, first, n
  <1>18. ServerParameters(payload) = IF starts = {} \/ read.next > Len(payload) + 1 THEN <<>> ELSE read.row
    BY DEF ServerParameters
  <1>19. read = after[n]
    <2> HIDE DEF starts, one, ends
    <2>1. types = kinds
      BY <1>2, <1>17 DEF kinds
    <2>2. Len(types) = n /\ one + 2 * ends = start
      BY <1>6, <1>17, <2>1 DEF start
    <2> HIDE DEF types
    <2> QED
      BY <2>1, <2>2 DEF Columns
  <1>20. FirstOf(row, n) = row
    BY <1>1 DEF FirstOf, row
  <1> HIDE DEF h, after, read, starts
  <1>21. read = [row |-> row, next |-> place[n]]
    BY <1>15, <1>16, <1>19, <1>20
  <1>22. read.row = row /\ read.next = place[n]
    BY <1>21
  <1>23. ~(place[n] > Len(payload) + 1)
    <2>1. Len(values) \in Nat
      BY <1>2
    <2> QED
      BY <1>2, <1>5, <1>9, <2>1
  <1>24. ServerParameters(payload) = row
    BY <1>17, <1>18, <1>22, <1>23
  <1> QED
    BY <1>24 DEF payload, row, n

\* The payload that the client builds is one of these.
AllParameters(values, attributes) == values \o [i \in DOMAIN attributes |-> attributes[i].value]
ParameterNames(values, attributes) ==
  [i \in DOMAIN AllParameters(values, attributes) |->
     IF i <= Len(values) THEN <<>> ELSE attributes[i - Len(values)].name]

LEMMA ExecutePayloadIs ==
  ASSUME NEW values \in Seq(Values), NEW attributes, NEW named \in BOOLEAN,
         AreParameters(AllParameters(values, attributes), ParameterNames(values, attributes))
  PROVE  ExecutePayload(values, attributes, named)
           = BoundPayload(AllParameters(values, attributes), ParameterNames(values, attributes), named)
  <1> DEFINE all == AllParameters(values, attributes)
             names == ParameterNames(values, attributes)
             name(i) == IF i <= Len(values) THEN <<>> ELSE attributes[i - Len(values)].name
             types == [i \in DOMAIN all |-> BoundType(all[i]) \o IF named THEN LenEncBytes(name(i)) ELSE <<>>]
             pieces == [i \in DOMAIN all |-> IF all[i].kind = "null" THEN <<>> ELSE BoundValue(all[i])]
  <1>1. types = TypePieces(all, names, named)
    <2>1. \A i \in DOMAIN all : names[i] = name(i)
      BY DEF ParameterNames
    <2>2. \A i \in DOMAIN all :
            (BoundType(all[i]) \o IF named THEN LenEncBytes(name(i)) ELSE <<>>) = TypePiece(all[i], names[i], named)
      BY <2>1 DEF TypePiece
    <2> HIDE DEF name, all, names
    <2> QED
      BY <2>2 DEF TypePieces
  <1>2. pieces = ValuePieces(all)
    BY DEF ValuePieces, ValuePiece
  <1>3. all # <<>>
    BY DEF AreParameters
  <1>4. ExecutePayload(values, attributes, named)
          = PayloadHead(named, Len(all))
            \o IF all = <<>> THEN <<>>
               ELSE Bitmap(Nulls(all), NullBytes(all)) \o <<1>> \o FlattenSeq(types) \o FlattenSeq(pieces)
    BY DEF ExecutePayload, PayloadHead, Nulls, NullBytes, AllParameters
  <1> HIDE DEF all, names, types, pieces
  <1> QED
    BY <1>1, <1>2, <1>3, <1>4 DEF BoundPayload, all, names

\* Without parameters it has nine bytes, in which the server finds nothing.
LEMMA NothingRead == ServerParameters(ExecutePayload(<<>>, <<>>, FALSE)) = <<>>
  <1> DEFINE named == FALSE
             none == 0
             payload == ExecutePayload(<<>>, <<>>, FALSE)
             head == PayloadHead(named, none)
  <1>1. named \in BOOLEAN /\ ~named /\ none \in Nat
    OBVIOUS
  <1>2. payload = head \o <<>>
    <2>1. <<>> \o [i \in DOMAIN <<>> |-> <<>>[i].value] = <<>>
      OBVIOUS
    <2>2. payload = PayloadHead(FALSE, 0) \o <<>>
      BY <2>1 DEF ExecutePayload, PayloadHead
    <2> QED
      BY <2>2
  <1> HIDE DEF named, none, payload
  <1>3. head \in Seq(Nat) /\ Len(head) + 1 = IF named THEN 10 + Len(LenEnc(none)) ELSE 10
    BY <1>1, PayloadHeadIs
  <1> HIDE DEF head
  <1>4. payload = head /\ Len(payload) \in Nat /\ Len(payload) + 1 = 10
    BY <1>1, <1>2, <1>3, ConcatNone
  <1>5. 10..Len(payload) = {}
    BY <1>4
  <1>6. {i \in 10..Len(payload) : payload[i] = 1 /\ IsTypeAt(payload, i + 1)} = {}
    BY <1>5
  <1>7. ServerParameters(payload) = <<>>
    BY <1>6 DEF ServerParameters
  <1> QED
    BY <1>7 DEF payload

\* What is bound of a value, and of values one after the other.
Bound(v) == <<BoundType(v), IF v.kind = "null" THEN Null ELSE <<v.bytes>> >>
AllBound(values) == [i \in DOMAIN values |-> Bound(values[i])]

LEMMA BoundJoined ==
  ASSUME NEW a \in Seq(Values), NEW b \in Seq(Values)
  PROVE  AllBound(a \o b) = AllBound(a) \o AllBound(b)
  <1> DEFINE T == {Bound(v) : v \in Values}
  <1>1. \A s \in Seq(Values) : AllBound(s) \in Seq(T) /\ Len(AllBound(s)) = Len(s)
    <2> TAKE s \in Seq(Values)
    <2>1. DOMAIN s = 1..Len(s) /\ Len(s) \in Nat /\ \A i \in 1..Len(s) : s[i] \in Values
      OBVIOUS
    <2>2. AllBound(s) \in [1..Len(s) -> T]
      BY <2>1 DEF AllBound
    <2> HIDE DEF T
    <2> QED
      BY <2>1, <2>2, FunctionIsSeq
  <1>2. \A s \in Seq(Values) : \A i \in 1..Len(s) : AllBound(s)[i] = Bound(s[i])
    BY DEF AllBound
  <1>3. /\ a \o b \in Seq(Values) /\ Len(a \o b) = Len(a) + Len(b) /\ Len(a) \in Nat /\ Len(b) \in Nat
        /\ \A i \in 1..Len(a) : (a \o b)[i] = a[i]
        /\ \A i \in 1..Len(b) : (a \o b)[Len(a) + i] = b[i]
    BY Concatenated
  <1> DEFINE s == AllBound(a)
             t == AllBound(b)
             u == AllBound(a \o b)
  <1>4. s \in Seq(T) /\ Len(s) = Len(a) /\ t \in Seq(T) /\ Len(t) = Len(b) /\ u \in Seq(T) /\ Len(u) = Len(a) + Len(b)
    BY <1>1, <1>3
  <1>5. /\ \A i \in 1..Len(a) : u[i] = s[i]
        /\ \A i \in 1..Len(b) : u[Len(a) + i] = t[i]
    <2>1. \A i \in 1..Len(a) : i \in 1..Len(a \o b)
      BY <1>3
    <2>2. \A i \in 1..Len(b) : Len(a) + i \in 1..Len(a \o b)
      BY <1>3
    <2> QED
      BY <1>2, <1>3, <2>1, <2>2
  <1> HIDE DEF T, s, t, u
  <1>6. /\ s \o t \in Seq(T) /\ Len(s \o t) = Len(u)
        /\ \A i \in 1..Len(s) : (s \o t)[i] = s[i]
        /\ \A i \in 1..Len(t) : (s \o t)[Len(s) + i] = t[i]
    BY <1>4, Concatenated
  <1>7. \A i \in 1..Len(u) : u[i] = (s \o t)[i]
    <2> TAKE i \in 1..Len(u)
    <2>1. CASE i <= Len(a)
      <3>1. i \in 1..Len(a)
        BY <1>3, <1>4, <2>1
      <3> QED
        BY <1>4, <1>5, <1>6, <3>1
    <2>2. CASE ~(i <= Len(a))
      <3> DEFINE j == i - Len(a)
      <3>1. j \in 1..Len(b) /\ i = Len(a) + j
        BY <1>3, <1>4, <2>2
      <3> HIDE DEF j
      <3> QED
        BY <1>4, <1>5, <1>6, <3>1
    <2> QED
      BY <2>1, <2>2
  <1>8. u = s \o t
    BY <1>4, <1>6, <1>7, SeqEqual
  <1> QED
    BY <1>8 DEF s, t, u

\* The names of ParametersAgree.
Names == {<<>>, <<97>>}

LEMMA ValuesAreParameters ==
  ASSUME NEW all \in Seq(Values), all # <<>>, NEW names, \A i \in 1..Len(all) : names[i] \in Names
  PROVE  AreParameters(all, names)
  <1>1. IsValue(<<>>) /\ IsValue(<<97>>)
    BY DEF IsValue, MaxLength
  <1>2. \A v \in Values : IsParameter(v)
    BY WireAssumption DEF IsParameter
  <1>3. \A i \in 1..Len(all) : IsParameter(all[i]) /\ IsValue(names[i])
    BY <1>1, <1>2 DEF Names
  <1> QED
    BY <1>3 DEF AreParameters

\* With query attributes: the first n of the input.
LEMMA AttributesAre ==
  ASSUME NEW s \in Seq(Values), s # <<>>, NEW n \in 0..Len(s)
  PROVE  LET values == SubSeq(s, n + 1, Len(s))
             attributes == SubSeq([i \in DOMAIN s |-> [name |-> <<97>>, value |-> s[i]]], 1, n)
             all == AllParameters(values, attributes)
         IN  /\ all = values \o SubSeq(s, 1, n) /\ Len(all) = Len(s)
             /\ values \in Seq(Values) /\ SubSeq(s, 1, n) \in Seq(Values)
             /\ AreParameters(all, ParameterNames(values, attributes))
  <1> DEFINE values == SubSeq(s, n + 1, Len(s))
             A == [name : {<<97>>}, value : Values]
             named == [i \in DOMAIN s |-> [name |-> <<97>>, value |-> s[i]]]
             attributes == SubSeq(named, 1, n)
             first == SubSeq(s, 1, n)
             all == AllParameters(values, attributes)
             names == ParameterNames(values, attributes)
             c == Len(s)
  <1>1. c \in Nat /\ n \in Nat /\ n <= c /\ DOMAIN s = 1..c /\ \A i \in 1..c : s[i] \in Values
    OBVIOUS
  <1>2. /\ values \in Seq(Values) /\ Len(values) = c - n
        /\ first \in Seq(Values) /\ Len(first) = n /\ \A i \in 1..n : first[i] = s[i]
    <2> DEFINE from == n + 1
    <2>1. from \in Nat \ {0} /\ c \in Nat /\ c <= Len(s)
      BY <1>1
    <2> HIDE DEF from
    <2>2. /\ SubSeq(s, from, c) \in Seq(Values)
          /\ Len(SubSeq(s, from, c)) = IF from <= c THEN c - from + 1 ELSE 0
      BY <2>1, SubSeqIs
    <2>3. (IF from <= c THEN c - from + 1 ELSE 0) = c - n
      <3>1. c \in Nat /\ n \in Nat /\ n <= c /\ from = n + 1
        BY <1>1 DEF from
      <3> HIDE DEF c
      <3>2. from <= c \/ n = c
        BY <3>1
      <3>3. from <= c => (c - from) + 1 = c - n
        BY <3>1
      <3>4. n = c => c - n = 0 /\ ~(from <= c)
        BY <3>1
      <3> QED
        BY <3>2, <3>3, <3>4
    <2> DEFINE one == 1
    <2>4. one \in Nat \ {0} /\ n <= Len(s)
      BY <1>1
    <2> HIDE DEF one
    <2>5. /\ SubSeq(s, one, n) \in Seq(Values)
          /\ Len(SubSeq(s, one, n)) = IF one <= n THEN n - one + 1 ELSE 0
          /\ \A k \in 1..(n - one + 1) : SubSeq(s, one, n)[k] = s[one + k - 1]
      BY <1>1, <2>4, SubSeqIs
    <2>6. (IF one <= n THEN n - one + 1 ELSE 0) = n /\ n - one + 1 = n /\ \A k \in 1..n : one + k - 1 = k
      BY <1>1 DEF one
    <2>7. SubSeq(s, one, n) = first
      BY DEF one
    <2> HIDE DEF first
    <2>8. \A k \in 1..n : first[k] = s[k]
      BY <2>5, <2>6, <2>7
    <2> QED
      BY <2>2, <2>3, <2>5, <2>6, <2>7, <2>8 DEF from
  <1>3. \A i \in 1..c : named[i] = [name |-> <<97>>, value |-> s[i]] /\ named[i] \in A
    BY <1>1
  <1>4. named \in Seq(A) /\ Len(named) = c
    <2> HIDE DEF A
    <2>1. named \in [1..c -> A]
      <3>1. named = [i \in 1..c |-> named[i]]
        BY <1>1
      <3> HIDE DEF named
      <3> QED
        BY <1>3, <3>1
    <2> HIDE DEF named, c
    <2> QED
      BY <1>1, <2>1, FunctionIsSeq
  <1> HIDE DEF A, named
  <1>5. attributes \in Seq(A) /\ Len(attributes) = n /\ \A i \in 1..n : attributes[i] = named[i]
    <2> DEFINE one == 1
    <2>4. one \in Nat \ {0} /\ n <= Len(named)
      BY <1>1, <1>4
    <2> HIDE DEF one
    <2>5. /\ SubSeq(named, one, n) \in Seq(A)
          /\ Len(SubSeq(named, one, n)) = IF one <= n THEN n - one + 1 ELSE 0
          /\ \A k \in 1..(n - one + 1) : SubSeq(named, one, n)[k] = named[one + k - 1]
      BY <1>1, <1>4, <2>4, SubSeqIs
    <2>6. (IF one <= n THEN n - one + 1 ELSE 0) = n /\ n - one + 1 = n /\ \A k \in 1..n : one + k - 1 = k
      BY <1>1 DEF one
    <2>7. SubSeq(named, one, n) = attributes
      BY DEF one
    <2> HIDE DEF attributes
    <2>8. \A k \in 1..n : attributes[k] = named[k]
      BY <2>5, <2>6, <2>7
    <2> QED
      BY <2>5, <2>6, <2>7, <2>8
  <1> HIDE DEF attributes, values, first
  <1>6. DOMAIN attributes = 1..n /\ \A i \in 1..n : attributes[i].value = s[i] /\ attributes[i].name = <<97>>
    <2>1. DOMAIN attributes = 1..n
      BY <1>5
    <2>2. \A i \in 1..n : i \in 1..c
      BY <1>1
    <2>3. \A i \in 1..n : attributes[i] = [name |-> <<97>>, value |-> s[i]]
      BY <1>3, <1>5, <2>2
    <2> QED
      BY <2>1, <2>3
  <1>7. [i \in DOMAIN attributes |-> attributes[i].value] = first
    <2>1. first = [i \in 1..n |-> first[i]]
      BY <1>2
    <2>2. \A i \in 1..n : attributes[i].value = first[i]
      BY <1>2, <1>6
    <2> QED
      BY <1>6, <2>1, <2>2
  <1>8. all = values \o first
    BY <1>7 DEF AllParameters
  <1> HIDE DEF all, c
  <1>9. all \in Seq(Values) /\ Len(all) = c
    <2>1. values \o first \in Seq(Values) /\ Len(values \o first) = Len(values) + Len(first)
      BY <1>2, Concatenated
    <2> QED
      BY <1>1, <1>2, <1>8, <2>1
  <1>10. \A i \in 1..Len(all) : names[i] \in Names
    <2> TAKE i \in 1..Len(all)
    <2>1. names[i] = IF i <= Len(values) THEN <<>> ELSE attributes[i - Len(values)].name
      BY <1>9 DEF ParameterNames, all
    <2>2. ASSUME ~(i <= Len(values)) PROVE attributes[i - Len(values)].name = <<97>>
      <3>1. i - Len(values) \in 1..n
        BY <1>1, <1>2, <1>9, <2>2
      <3> QED
        BY <1>6, <3>1
    <2> QED
      BY <2>1, <2>2 DEF Names
  <1>11. all # <<>>
    <2>1. Len(all) # 0
      BY <1>9 DEF c
    <2> QED
      BY <2>1
  <1> HIDE DEF names
  <1>12. AreParameters(all, names)
    BY <1>9, <1>10, <1>11, ValuesAreParameters
  <1> QED
    BY <1>2, <1>8, <1>9, <1>12 DEF all, names, values, attributes, named, first, c

\* A server that counts its parameters reads back what the client bound.
LEMMA ProtocolAgrees ==
  ASSUME NEW s \in Seq(Values), s # <<>>, NEW n \in 0..Len(s), NEW use \in BOOLEAN
  PROVE  LET values == SubSeq(s, n + 1, Len(s))
             attributes == SubSeq([i \in DOMAIN s |-> [name |-> <<97>>, value |-> s[i]]], 1, n)
         IN  ProtocolParameters(ExecutePayload(values, attributes, use), Len(s), use).row
               = AllBound(values) \o AllBound(SubSeq(s, 1, n))
  <1> DEFINE values == SubSeq(s, n + 1, Len(s))
             attributes == SubSeq([i \in DOMAIN s |-> [name |-> <<97>>, value |-> s[i]]], 1, n)
             first == SubSeq(s, 1, n)
             all == AllParameters(values, attributes)
             names == ParameterNames(values, attributes)
  <1>1. /\ all = values \o first /\ Len(all) = Len(s)
        /\ values \in Seq(Values) /\ first \in Seq(Values)
        /\ AreParameters(all, names)
    BY AttributesAre
  <1> HIDE DEF values, attributes, first
  <1>2. ExecutePayload(values, attributes, use) = BoundPayload(all, names, use)
    BY <1>1, ExecutePayloadIs
  <1> HIDE DEF all, names
  <1>3. ProtocolParameters(BoundPayload(all, names, use), Len(all), use).row
          = [i \in 1..Len(all) |-> <<BoundType(all[i]), IF all[i].kind = "null" THEN Null ELSE <<all[i].bytes>> >>]
    <2>1. AreParameters(all, names) /\ use \in BOOLEAN
      BY <1>1
    <2> QED
      BY ONLY <2>1, ProtocolRead
  <1>4. DOMAIN all = 1..Len(all)
    BY <1>1 DEF AreParameters
  <1>5. ProtocolParameters(BoundPayload(all, names, use), Len(all), use).row = AllBound(all)
    BY <1>3, <1>4 DEF AllBound, Bound
  <1>6. AllBound(all) = AllBound(values) \o AllBound(first)
    BY <1>1, BoundJoined
  <1> QED
    BY <1>1, <1>2, <1>5, <1>6 DEF values, attributes, first

\* So does the library's own, if it copes with them.
LEMMA ServerAgrees ==
  ASSUME NEW s \in Seq(Values), "lookalike" \notin Extras, Clear(s)
  PROVE  ServerParameters(ExecutePayload(s, <<>>, FALSE)) = [i \in DOMAIN s |-> <<BoundType(s[i])[1], s[i].bytes>>]
  <1>1. CASE s = <<>>
    <2>1. [i \in DOMAIN s |-> <<BoundType(s[i])[1], s[i].bytes>>] = <<>>
      BY <1>1
    <2>2. ServerParameters(ExecutePayload(s, <<>>, FALSE)) = <<>>
      BY <1>1, NothingRead
    <2> QED
      BY <2>1, <2>2
  <1>2. CASE s # <<>>
    <2> DEFINE none == <<>>
               named == FALSE
               all == AllParameters(s, none)
               names == ParameterNames(s, none)
    <2>1. all = s
      <3>1. [i \in DOMAIN none |-> none[i].value] = <<>>
        OBVIOUS
      <3>2. s \o <<>> = s
        BY ConcatNone
      <3> QED
        BY <3>1, <3>2 DEF AllParameters
    <2>2. DOMAIN s = 1..Len(s) /\ Len(s) \in Nat
      OBVIOUS
    <2> HIDE DEF all, none
    <2>3. \A i \in 1..Len(s) : names[i] \in Names
      BY <2>1, <2>2 DEF ParameterNames, Names, all
    <2> HIDE DEF names
    <2>4. AreParameters(s, names)
      BY <1>2, <2>3, ValuesAreParameters
    <2>5. ExecutePayload(s, none, named) = BoundPayload(s, names, named)
      <3>1. AreParameters(AllParameters(s, none), ParameterNames(s, none))
        BY <2>1, <2>4 DEF all, names
      <3>2. named \in BOOLEAN
        OBVIOUS
      <3> HIDE DEF named
      <3>3. ExecutePayload(s, none, named) = BoundPayload(AllParameters(s, none), ParameterNames(s, none), named)
        BY <3>1, <3>2, ExecutePayloadIs
      <3> QED
        BY <2>1, <3>3 DEF all, names
    <2>6. IsClear(s)
      <3>1. \A i \in 1..Len(s) : BoundValue(s[i]) = ValuePiece(s[i])
        BY <2>4, ValueRead DEF AreParameters
      <3>2. [i \in DOMAIN s |-> BoundValue(s[i])] = ValuePieces(s)
        BY <2>2, <3>1 DEF ValuePieces
      <3>3. Begin(s) = FlattenSeq(ValuePieces(s))
        BY <3>2 DEF Begin
      <3> QED
        BY <2>2, <3>3 DEF Clear, IsClear
    <2>7. ServerParameters(BoundPayload(s, names, FALSE)) = [i \in 1..Len(s) |-> <<BoundType(s[i])[1], s[i].bytes>>]
      BY <2>4, <2>6, ServerRead
    <2> QED
      BY <2>2, <2>5, <2>7 DEF none
  <1> QED
    BY <1>1, <1>2

ParametersInv == what = "parameters" => input \in Seq(Values)

\* The server guesses where it does not know; a first value that looks like a type misleads
\* it and is left out (see Clear).
ValuesUnlikeTypes == "lookalike" \notin Extras

LEMMA ParametersRead ==
  ASSUME ValuesUnlikeTypes, input \in Seq(Values)
  PROVE  ParametersAgree
  <1>1. ASSUME input # <<>>, NEW n \in 0..Len(input), NEW use \in BOOLEAN
        PROVE  LET values == SubSeq(input, n + 1, Len(input))
                   attributes == SubSeq([i \in DOMAIN input |-> [name |-> <<97>>, value |-> input[i]]], 1, n)
               IN  ProtocolParameters(ExecutePayload(values, attributes, use), Len(input), use).row
                     = AllBound(values) \o AllBound(SubSeq(input, 1, n))
    BY <1>1, ProtocolAgrees
  <1>2. Clear(input) =>
          ServerParameters(ExecutePayload(input, <<>>, FALSE)) = [i \in DOMAIN input |-> <<BoundType(input[i])[1], input[i].bytes>>]
    BY ServerAgrees DEF ValuesUnlikeTypes
  <1> QED
    BY <1>1, <1>2 DEF ParametersAgree, AllBound, Bound

\* Any number of parameters and query attributes, of every kind and of every length below
\* 2^31, with NULLs at any place, are read back by a server that counts its parameters, and
\* up to 16 of the kinds it knows by the library's own, unless its values begin like a type.
THEOREM WireParametersAgree == ASSUME ValuesUnlikeTypes PROVE Spec => []ParametersAgree
  <1>1. Init => ParametersInv
    BY DEF Init, ParametersInv
  <1>2. ParametersInv /\ [Next]_vars => ParametersInv'
    <2> SUFFICES ASSUME ParametersInv, [Next]_vars, what' = "parameters" PROVE input' \in Seq(Values)
      BY DEF ParametersInv
    <2>1. CASE AddParameter
      BY <2>1 DEF AddParameter, ParametersInv
    <2>2. CASE UNCHANGED vars
      BY <2>2 DEF vars, ParametersInv
    <2>3. CASE AddPayload \/ AddField \/ AddColumn
      BY <2>3 DEF AddPayload, AddField, AddColumn
    <2> QED
      BY <2>1, <2>2, <2>3 DEF Next
  <1>3. ParametersInv => ParametersAgree
    BY ParametersRead DEF ParametersInv, ParametersAgree
  <1> QED
    BY <1>1, <1>2, <1>3, PTL DEF Spec
=============================================================================
