----------------------------- MODULE WireCodec -----------------------------
(***************************************************************************)
(* FileRelay common library: little-endian integers, CRC-32, the patch     *)
(* header, the system messages, and the block stream of the two SHA-256    *)
(* (the library's and the compressor's). A frame is encoded, perhaps       *)
(* damaged, and decoded; a message is hashed in pieces. Bytes, words and   *)
(* blocks are as wide as the constants make them: 8 bits, 2, 4 and 8       *)
(* bytes, and 64 bytes in the code. A byte is a number, a word of the CRC  *)
(* the sequence of its bits, lowest first.                                 *)
(***************************************************************************)
EXTENDS Naturals, Sequences, SequencesExt, FiniteSets, FiniteSetsExt, SeqMeasures

CONSTANTS
  Bits,            \* of a byte
  W16, W32, W64,   \* the bytes of a uint16_t, uint32_t and uint64_t
  Poly,            \* 0xEDB88320
  Magic,           \* "SVP1"
  Version,         \* 1
  HashSize,        \* the bytes of a SHA-256, 32
  FileIds, Numbers, Digests, FileNames,   \* samples: of the fields, hashes and names
  Block,           \* the bytes of a SHA-256 block
  LengthSize,      \* those its last block ends with, the length
  MaxFed           \* bound: how long a hashed message is

VARIABLES
  sent,            \* what was encoded
  wire,            \* the bytes that arrived
  damage,          \* "none", "byte" or "cut"
  own, library,    \* the compressor's Sha256 and the library's
  fed,             \* the bytes both were given since the last digest
  digests          \* the blocks each of them compressed for its last digest, and what of

wireVars == <<sent, wire, damage>>
hashVars == <<own, library, fed, digests>>
codecVars == <<wireVars, hashVars>>

-----------------------------------------------------------------------------
(* Integers *)

Power(base, n) == Iterated([p \in Nat |-> p * base], 1, n)

Byte == Power(2, Bits)
ByteValues == 0..(Byte - 1)

\* The values of an unsigned integer.
UInt(width) == 0..(Power(Byte, width) - 1)

\* What is left of a number without its last n digits.
Shifted(value, base, n) == Iterated([v \in Nat |-> v \div base], value, n)

\* The last digits of a number, the lowest first, and the number they make.
Digits(value, base, width) == [i \in 1..width |-> Shifted(value, base, i - 1) % base]
Number(digits, base) ==
  Folded([p \in Nat \X Nat |-> p[1] * base + p[2]], 0, Reverse(digits))

to_le(value, width) == Digits(value, Byte, width)

\* read_le, where the reader's bounds allow it.
from_le(bytes) == Number(bytes, Byte)

-----------------------------------------------------------------------------
(* Checksums *)

WordBits == Bits * W32
Word == [1..WordBits -> {0, 1}]

ToWord(value) == Digits(value, 2, WordBits)

Ones == [i \in 1..WordBits |-> 1]

Xor(a, b) == [i \in 1..WordBits |-> (a[i] + b[i]) % 2]
ShiftRight(a, n) == [i \in 1..WordBits |-> IF i + n <= WordBits THEN a[i + n] ELSE 0]
LowByte(a) == [i \in 1..WordBits |-> IF i <= Bits THEN a[i] ELSE 0]

ShiftOut(crc) == IF crc[1] = 1 THEN Xor(ShiftRight(crc, 1), ToWord(Poly)) ELSE ShiftRight(crc, 1)

crc32_table_entry(index) == Iterated([crc \in Word |-> ShiftOut(crc)], index, Bits)

Crc32Update(crc, byte) ==
  Xor(ShiftRight(crc, Bits), crc32_table_entry(LowByte(Xor(crc, ToWord(byte)))))

crc32(bytes) ==
  LET crc == Folded([p \in Word \X ByteValues |-> Crc32Update(p[1], p[2])], Ones, bytes) IN
  Number(Xor(crc, Ones), 2)

-----------------------------------------------------------------------------
(* Frames are fields of given widths, one after the other. *)

FieldStart(widths, i) == Total(SubSeq(widths, 1, i - 1))

Slices(data, widths) ==
  [i \in 1..Len(widths) |-> SubSeq(data, FieldStart(widths, i) + 1, FieldStart(widths, i) + widths[i])]

(* The patch header *)

Layout == <<Len(Magic), W32, W32, W64, W32, W32, W32, W32, W32>>

EncodedSize == Total(Layout)

\* Faulty variant: the header's crc is taken over itself.
serializeWhole(header, include_header_crc) ==
  FlattenSeq(<<Magic, to_le(header.version, W32), to_le(header.header_size, W32),
               to_le(header.file_id, W64), to_le(header.total_patches, W32),
               to_le(header.patch_index, W32), to_le(header.payload_size, W32),
               to_le(header.header_crc32, W32), to_le(header.payload_crc32, W32)>>)

serialize(header, include_header_crc) ==
  LET crc == IF include_header_crc THEN header.header_crc32 ELSE 0 IN
  FlattenSeq(<<Magic, to_le(header.version, W32), to_le(header.header_size, W32),
               to_le(header.file_id, W64), to_le(header.total_patches, W32),
               to_le(header.patch_index, W32), to_le(header.payload_size, W32),
               to_le(crc, W32), to_le(header.payload_crc32, W32)>>)

compute_header_crc32(header) == crc32(serialize(header, FALSE))

Corrected(header) == [header EXCEPT !.header_crc32 = compute_header_crc32(header)]

\* A header whose crc is not its own goes out with the right one.
encode_patch_header(header) ==
  serialize(IF header.header_crc32 = compute_header_crc32(header) THEN header
            ELSE Corrected(header), TRUE)

Refused == [refused |-> TRUE]

HeaderOf(fields) ==
  [version |-> from_le(fields[2]), header_size |-> from_le(fields[3]),
   file_id |-> from_le(fields[4]), total_patches |-> from_le(fields[5]),
   patch_index |-> from_le(fields[6]), payload_size |-> from_le(fields[7]),
   header_crc32 |-> from_le(fields[8]), payload_crc32 |-> from_le(fields[9])]

\* What may throw: too few bytes, another magic, version or size, another crc.
deserialize(data) ==
  LET fields == Slices(data, Layout)
      header == HeaderOf(fields) IN
  IF /\ Len(data) >= EncodedSize
     /\ fields[1] = Magic
     /\ header.version = Version
     /\ header.header_size = EncodedSize
     /\ header.header_crc32 = compute_header_crc32(header)
  THEN header ELSE Refused

Headers ==
  [version : {Version}, header_size : {EncodedSize}, file_id : FileIds,
   total_patches : Numbers, patch_index : Numbers, payload_size : Numbers,
   header_crc32 : {0}, payload_crc32 : Numbers]

-----------------------------------------------------------------------------
(* System messages: a 16-bit type, then the fields of the type *)

Messages ==
  [type : {1}, queue_size : Numbers]
    \cup [type : {2}, file_id : FileIds, utf8_name : FileNames, original_size_bytes : FileIds,
          total_patches : Numbers, sha256 : Digests]
    \cup [type : {3}, file_id : FileIds, patch_index : Numbers]
    \cup [type : {4}, command : ByteValues, value_seconds : Numbers]

encode_system_message(m) ==
  FlattenSeq(
    CASE m.type = 1 -> <<to_le(1, W16), to_le(m.queue_size, W32)>>
      [] m.type = 2 -> <<to_le(2, W16), to_le(m.file_id, W64), to_le(Len(m.utf8_name), W32),
                         m.utf8_name, to_le(m.original_size_bytes, W64),
                         to_le(m.total_patches, W32), m.sha256>>
      [] m.type = 3 -> <<to_le(3, W16), to_le(m.file_id, W64), to_le(m.patch_index, W32)>>
      [] m.type = 4 -> <<to_le(4, W16), <<m.command>>, to_le(m.value_seconds, W32)>>)

QueueSizeFields == <<W16, W32>>
FileMetaFields(name_size) == <<W16, W64, W32, name_size, W64, W32, HashSize>>
FilePatchMapFields == <<W16, W64, W32>>
ControlFields == <<W16, 1, W32>>

\* Each read is checked against what is left; what follows the last field is ignored.
Readable(data, widths) == Len(data) >= Total(widths)

decode_queue_size(data) ==
  LET f == Slices(data, QueueSizeFields) IN
  IF Readable(data, QueueSizeFields) THEN [type |-> 1, queue_size |-> from_le(f[2])] ELSE Refused

\* The reader refuses a name longer than what is left.
decode_file_meta(data) ==
  LET name_size == IF Readable(data, FilePatchMapFields) THEN from_le(Slices(data, FilePatchMapFields)[3]) ELSE 0
      f == Slices(data, FileMetaFields(name_size)) IN
  IF Readable(data, FileMetaFields(name_size))
  THEN [type |-> 2, file_id |-> from_le(f[2]), utf8_name |-> f[4],
        original_size_bytes |-> from_le(f[5]), total_patches |-> from_le(f[6]), sha256 |-> f[7]]
  ELSE Refused

decode_file_patch_map(data) ==
  LET f == Slices(data, FilePatchMapFields) IN
  IF Readable(data, FilePatchMapFields)
  THEN [type |-> 3, file_id |-> from_le(f[2]), patch_index |-> from_le(f[3])] ELSE Refused

decode_control(data) ==
  LET f == Slices(data, ControlFields) IN
  IF Readable(data, ControlFields)
  THEN [type |-> 4, command |-> f[2][1], value_seconds |-> from_le(f[3])] ELSE Refused

decode_system_message(data) ==
  LET type == IF Len(data) < W16 THEN 0 ELSE from_le(SubSeq(data, 1, W16)) IN
  CASE type = 1 -> decode_queue_size(data)
    [] type = 2 -> decode_file_meta(data)
    [] type = 3 -> decode_file_patch_map(data)
    [] type = 4 -> decode_control(data)
    [] OTHER -> Refused

IsHeader(frame) == "version" \in DOMAIN frame

Decoded == IF IsHeader(sent) THEN deserialize(wire) ELSE decode_system_message(wire)

FrameInit == sent = Refused /\ wire = <<>> /\ damage = "none"

Encode ==
  /\ sent = Refused
  /\ \/ \E h \in Headers : sent' = h /\ wire' = encode_patch_header(h)
     \/ \E m \in Messages : sent' = m /\ wire' = encode_system_message(m)
  /\ UNCHANGED <<damage, hashVars>>

\* One byte of a header is hit, or the end of a frame is missing.
Damage ==
  /\ damage = "none"
  /\ \/ /\ IsHeader(sent)
        /\ \E i \in DOMAIN wire, b \in ByteValues : wire[i] # b /\ wire' = [wire EXCEPT ![i] = b]
        /\ damage' = "byte"
     \/ /\ \E n \in 0..(Len(wire) - 1) : wire' = SubSeq(wire, 1, n)
        /\ damage' = "cut"
  /\ UNCHANGED <<sent, hashVars>>

-----------------------------------------------------------------------------
(* The blocks a SHA-256 compresses *)

Fresh == [buffer |-> <<>>, bits |-> 0, blocks |-> <<>>]

Zeros(n) == [i \in 1..n |-> 0]

Emptied(h) == IF Len(h.buffer) = Block THEN [h EXCEPT !.blocks = Append(@, h.buffer), !.buffer = <<>>] ELSE h

HashState == [buffer : Seq(ByteValues), bits : Nat, blocks : Seq(Seq(ByteValues))]

\* A round of the compressor's loop: as much as fits of what is left.
CopyIn(input) ==
  LET n == Min({Len(input.rest), Block - Len(input.hash.buffer)}) IN
  [hash |-> Emptied([input.hash EXCEPT !.buffer = @ \o SubSeq(input.rest, 1, n)]),
   rest |-> SubSeq(input.rest, n + 1, Len(input.rest))]

\* The rounds it takes are no more than the bytes; what is over does nothing.
updateOwn(h, data) ==
  Iterated([input \in [hash : HashState, rest : Seq(ByteValues)] |-> CopyIn(input)],
           [hash |-> [h EXCEPT !.bits = @ + Bits * Len(data)], rest |-> data],
           Len(data)).hash

\* The library's goes byte by byte.
updateLibrary(h, data) ==
  Folded([p \in HashState \X ByteValues |-> Emptied([p[1] EXCEPT !.buffer = Append(@, p[2])])],
         [h EXCEPT !.bits = @ + Bits * Len(data)], data)

Mark == Power(2, Bits - 1)

BigEndian(value) == Reverse(to_le(value, LengthSize))

Room == Block - LengthSize

\* Faulty variant: a block more where the length just fits.
NotLess(marked) == Len(marked) >= Room

Overfull(marked) == Len(marked) > Room

\* finalize: the mark, a block of zeros if the length does not fit any more, the length.
Finalized(h) ==
  LET marked == Append(h.buffer, Mark)
      closing == IF Overfull(marked) THEN <<marked \o Zeros(Block - Len(marked))>> ELSE <<>>
      rest == IF Overfull(marked) THEN <<>> ELSE marked IN
  h.blocks \o closing \o <<rest \o Zeros(Room - Len(rest)) \o BigEndian(h.bits)>>

\* finish: the same, and reset for the next digest.
finish(h) == [result |-> Finalized(h), next |-> Fresh]

HashInit == own = Fresh /\ library = Fresh /\ fed = <<>> /\ digests = <<>>

Feed ==
  /\ Len(digests) < 2
  /\ \E n \in 1..(MaxFed - Len(fed)) :
       LET piece == [i \in 1..n |-> (Len(fed) + i) % Byte] IN
       /\ own' = updateOwn(own, piece)
       /\ library' = updateLibrary(library, piece)
       /\ fed' = fed \o piece
  /\ UNCHANGED <<wireVars, digests>>

\* The compressor makes a Sha256 for each file, the library's is used again.
Digest ==
  /\ Len(digests) < 2
  /\ digests' = Append(digests, [own |-> Finalized(own), library |-> finish(library).result, of |-> fed])
  /\ own' = Fresh /\ library' = finish(library).next
  /\ fed' = <<>>
  /\ UNCHANGED wireVars

CodecInit == FrameInit /\ HashInit

\* A run is about a frame or about a hash.
CodecNext ==
  \/ fed = <<>> /\ digests = <<>> /\ (Encode \/ Damage)
  \/ sent = Refused /\ (Feed \/ Digest)

CodecSpec == CodecInit /\ [][CodecNext]_codecVars

ASSUME CodecAssumption ==
  /\ {Bits, W16, W32, W64} \subseteq Nat \ {0} /\ 1..4 \subseteq UInt(W16)
  /\ Poly \in UInt(W32) /\ ToWord(Poly)[WordBits] = 1
  /\ Magic \in Seq(ByteValues) /\ {Version, EncodedSize} \subseteq UInt(W32)
  /\ FileIds \subseteq UInt(W64) /\ Numbers \subseteq UInt(W32)
  /\ HashSize \in Nat /\ Digests \subseteq [1..HashSize -> ByteValues]
  /\ FileNames \subseteq Seq(ByteValues) /\ \A name \in FileNames : Len(name) \in UInt(W32)
  /\ Block \in Nat /\ LengthSize \in 1..(Block - 1) /\ MaxFed \in Nat

-----------------------------------------------------------------------------
(* Properties *)

\* What a frame decodes to is what was encoded, and a header with one byte hit, or any
\* frame with its end cut off, is refused, not taken for another one (serialize,
\* deserialize, crc32, encode_system_message, decode_system_message).
FrameIntact ==
  sent # Refused =>
    Decoded = IF damage # "none" THEN Refused
              ELSE IF IsHeader(sent) THEN Corrected(sent) ELSE sent

\* The standard's padding: the mark, the fewest zeros, the length; whole blocks.
Padded(message) ==
  LET zeros == CHOOSE n \in 0..(Block - 1) : (Len(message) + 1 + n + LengthSize) % Block = 0 IN
  message \o <<Mark>> \o Zeros(zeros) \o BigEndian(Bits * Len(message))

\* Both compress the blocks of the padded message, however it was cut into updates and
\* wherever it ends in its last block, also when the library's hashes its second one.
DigestsAgree ==
  \A d \in Range(digests) :
    /\ d.own = d.library
    /\ FlattenSeq(d.own) = Padded(d.of)
    /\ \A b \in Range(d.own) : Len(b) = Block
=============================================================================
