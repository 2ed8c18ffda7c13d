------------------------------- MODULE Framing -------------------------------
(***************************************************************************)
(* Packets on the wire: a payload is cut into packets of at most MaxPacket *)
(* bytes, and with compression the bytes of these packets are cut again    *)
(* into chunks, wherever that falls.  The client and the server side of    *)
(* the library have a writer each; only the client compresses.             *)
(*                                                                         *)
(* Streams are sequences of bytes.  A packet's header has four of them:    *)
(* the sequence id, and three for the length, which is written as one      *)
(* number in the first.                                                    *)
(***************************************************************************)
EXTENDS Integers, Sequences, SequencesExt

CONSTANTS
  MaxPacket,    \* kMaxPacketPayloadLength; 2^24 - 1 in the code
  IdMod         \* 256 in the code

ASSUME FramingAssumption ==
  MaxPacket \in Nat \ {0} /\ IdMod \in Nat \ {0}

HeaderLength == 4
Packet(id, body) == <<Len(body), 0, 0, id % IdMod>> \o body

-----------------------------------------------------------------------------
(* Writing.                                                                *)

\* normal_packet_count_for_payload: also what a caller adds to its next sequence id.
PacketCount(length) ==
  length \div MaxPacket + 1 + IF length > 0 /\ length % MaxPacket = 0 THEN 1 ELSE 0

\* What a writer's loop cuts off one by one: pieces of a size, and what is left.
Cut(bytes, size) ==
  [i \in 1..((Len(bytes) + size - 1) \div size) |->
     SubSeq(bytes, (i - 1) * size + 1, Min({i * size, Len(bytes)}))]

\* An empty payload has one piece too.
Pieces(payload) == IF payload = <<>> THEN << <<>> >> ELSE Cut(payload, MaxPacket)

Numbered(pieces, first) == FlattenSeq([i \in DOMAIN pieces |-> Packet(first + i - 1, pieces[i])])

\* Mutant of ClientPackets: a full last packet is not followed by an empty one.
ClientPacketsNoTail(payload, first) == Numbered(Pieces(payload), first)

\* write_packet: an empty packet follows if the last one was full.
ClientPackets(payload, first) ==
  LET pieces == Pieces(payload)
      wrote_full_packet == Len(Last(pieces)) = MaxPacket IN
  Numbered(pieces \o IF wrote_full_packet THEN << <<>> >> ELSE <<>>, first)

\* append_packet_bytes: an empty packet follows if the length is a multiple of MaxPacket.
ServerPackets(payload, first) ==
  LET needs_empty_tail == payload # <<>> /\ Len(payload) % MaxPacket = 0 IN
  Numbered(Pieces(payload) \o IF needs_empty_tail THEN << <<>> >> ELSE <<>>, first)

\* write_compressed_packets: the bytes in chunks, each deflated if that makes it shorter,
\* which is here a matter of its length.  Chunks are numbered on their own, from id on.  Its
\* chunks have kMaxCompressedPayloadInputLength (size) bytes, a peer's any number.
Deflates(bytes) == Len(bytes) > 3
Chunk(bytes, id) ==
  [id |-> id % IdMod, length |-> IF Deflates(bytes) THEN Len(bytes) ELSE 0,
   body |-> IF Deflates(bytes) THEN <<"deflated", bytes>> ELSE <<"plain", bytes>>]
Chunks(bytes, id, size) ==
  LET pieces == Cut(bytes, size) IN [i \in DOMAIN pieces |-> Chunk(pieces[i], id + i - 1)]

-----------------------------------------------------------------------------
(* Reading.                                                                *)

\* read_uncompressed_packet at the position at: packets up to the first that is not full.
\* What is read, the id of its first packet, and where the next one begins.
ReadPacket(stream, at) ==
  LET from(k) == at + (k - 1) * (HeaderLength + MaxPacket)
      count == CHOOSE k \in 1..Len(stream) :
                 stream[from(k)] < MaxPacket /\ \A j \in 1..(k - 1) : stream[from(j)] = MaxPacket
      after(k) == from(k) + HeaderLength + stream[from(k)]
  IN [id |-> stream[at + 3],
      payload |-> FlattenSeq([k \in 1..count |-> SubSeq(stream, from(k) + HeaderLength, after(k) - 1)]),
      next |-> after(count)]

\* append_next_compressed_payload: inflated where a length says so, and of that length.
Inflated(chunk) == IF chunk.length = 0 THEN chunk.body[2] ELSE SubSeq(chunk.body[2], 1, chunk.length)

\* The reader of compressed packets: chunks not read yet, and compressed_plain_buffer_ with
\* compressed_plain_offset_.
Reader(chunks) == [chunks |-> chunks, buffer |-> <<>>, offset |-> 0]

\* Chunks are read until the buffer holds what is needed after the offset.
Plain(chunks) == FlattenSeq([i \in DOMAIN chunks |-> Inflated(chunks[i])])
After(reader, n) ==
  [reader EXCEPT !.buffer = @ \o Plain(SubSeq(reader.chunks, 1, n)),
                 !.chunks = SubSeq(@, n + 1, Len(@))]
Filled(reader, need) ==
  LET enough == {n \in 0..Len(reader.chunks) : Len(After(reader, n).buffer) - reader.offset >= need} IN
  After(reader, Min(enough \cup {Len(reader.chunks)}))

\* The buffer is cut once half of it has been read.
Compacted(reader) ==
  IF reader.offset > 0 /\ reader.offset * 2 >= Len(reader.buffer)
  THEN [reader EXCEPT !.buffer = SubSeq(@, reader.offset + 1, Len(@)), !.offset = 0]
  ELSE reader

\* read_normal_packet_from_compressed_stream: one packet, and the reader after it.  The
\* buffer is filled for the header first, then for the length in it.
Length(reader) == reader.buffer[reader.offset + 1]
Taken(reader) ==
  LET from == reader.offset + HeaderLength IN
  [id |-> reader.buffer[reader.offset + 4],
   payload |-> SubSeq(reader.buffer, from + 1, from + Length(reader)),
   reader |-> Compacted([reader EXCEPT !.offset = from + Length(reader)])]
WithBody(reader) == Filled(reader, HeaderLength + Length(reader))
ReadNormal(reader) == Taken(WithBody(Filled(reader, HeaderLength)))

\* read_compressed_packet: packets up to the first that is not full, under the id of the
\* first.  There are no more of them than bytes.
ReadCompressed(reader) ==
  LET bytes == Len(reader.buffer) + Len(Plain(reader.chunks))
      packet[k \in 1..bytes] == ReadNormal(IF k = 1 THEN reader ELSE packet[k - 1].reader)
      count == CHOOSE k \in 1..bytes :
                 Len(packet[k].payload) < MaxPacket /\ \A j \in 1..(k - 1) : Len(packet[j].payload) = MaxPacket
  IN [id |-> packet[1].id,
      payload |-> FlattenSeq([k \in 1..count |-> packet[k].payload]),
      reader |-> packet[count].reader]
=============================================================================
