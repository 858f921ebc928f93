-------------------------------- MODULE Codec --------------------------------
(***************************************************************************)
(* Frames, batches and compression (protocol/frame.go, batch.go), byte by  *)
(* byte where a length is written or read.                                 *)
(*                                                                         *)
(* A byte has Base values and a length field two bytes; in the program     *)
(* Base is 256.  The header's version, type, flags and number each have a  *)
(* fixed place and are the fields of a record here.                        *)
(***************************************************************************)
EXTENDS Integers, Sequences, SequencesExt

CONSTANTS
  Base,           \* values of a byte
  MaxPad,         \* Encode pads with at most so many bytes: 128
  MaxBatchSize,   \* packets of a batch: 64
  MaxBatchBytes,  \* bytes of a batch: 60000
  MinCompress     \* shorter payloads are not compressed: 256

Bytes == 0 .. Base - 1
Word == Base * Base

ASSUME CodecAssumption ==
  /\ Base \in Nat /\ Base >= 2
  /\ MaxPad \in 1 .. Base - 1
  /\ MaxBatchSize \in 1 .. Word - 1
  /\ MaxBatchBytes \in Nat \ {0}
  /\ MinCompress \in Nat

\* binary.BigEndian with a conversion to 16 bits.  Offsets are counted from 0,
\* as in the code.
PutUint16(n) == <<(n % Word) \div Base, n % Base>>
Uint16(d, at) == d[at + 1] * Base + d[at + 2]

PutUint32(n) == PutUint16(n \div Word) \o PutUint16(n)
Uint32(d, at) == Uint16(d, at) * Word + Uint16(d, at + 2)

Slice(d, from, to) == SubSeq(d, from + 1, to)

Flags == {"PADDING", "COMPRESSED", "BATCH"}

Frame(type, flags, payload) == [type |-> type, flags |-> flags, payload |-> payload]

-----------------------------------------------------------------------------
(* Frames *)

\* The random padding of a frame: none without the flag.
Pads(f) ==
  IF "PADDING" \in f.flags THEN UNION {[1 .. n -> {Base - 1}] : n \in 1 .. MaxPad}
                           ELSE {<<>>}

Encode(f, pad) ==
  [type |-> f.type, flags |-> f.flags, len |-> Len(f.payload) % Word,
   rest |-> IF "PADDING" \in f.flags THEN f.payload \o pad \o <<Len(pad)>>
                                     ELSE f.payload]

\* Decode accepts the message, whose header is whole and of the right version.
Decodable(m) ==
  IF "PADDING" \in m.flags
  THEN m.rest # <<>> /\ Len(m.rest) >= m.len + Last(m.rest) + 1
  ELSE Len(m.rest) >= m.len

\* Variant: the payload is all but the padding's length.
DecodePadded(m) == Frame(m.type, m.flags, IF "PADDING" \in m.flags THEN Front(m.rest)
                                          ELSE Slice(m.rest, 0, m.len))

Decode(m) == Frame(m.type, m.flags, Slice(m.rest, 0, m.len))

-----------------------------------------------------------------------------
(* Batches *)

\* BatchEncoder.Flush.
EncodeBatch(packets) ==
  LET append[i \in 0 .. Len(packets)] ==
        IF i = 0 THEN PutUint16(Len(packets))
                 ELSE append[i - 1] \o PutUint16(Len(packets[i])) \o packets[i]
  IN  append[Len(packets)]

\* Variant: a packet that overflows the data is cut.
EntryClipped(d, s) ==
  LET n == Uint16(d, s.offset)
      to == IF s.offset + 2 + n > Len(d) THEN Len(d) ELSE s.offset + 2 + n
  IN  IF ~ s.ok \/ s.offset + 2 > Len(d)
      THEN [s EXCEPT !.ok = FALSE]
      ELSE [s EXCEPT !.offset = to,
                     !.packets = Append(@, Slice(d, s.offset + 2, to))]

\* One round of DecodeBatch's loop.
Entry(d, s) ==
  LET n == Uint16(d, s.offset) IN
  IF ~ s.ok \/ s.offset + 2 > Len(d) \/ s.offset + 2 + n > Len(d)
  THEN [s EXCEPT !.ok = FALSE]
  ELSE [ok |-> TRUE, offset |-> s.offset + 2 + n,
        packets |-> Append(s.packets, Slice(d, s.offset + 2, s.offset + 2 + n))]

Entries(d) ==
  LET read[i \in 0 .. Uint16(d, 0)] ==
        IF i = 0 THEN [ok |-> TRUE, offset |-> 2, packets |-> <<>>]
                 ELSE Entry(d, read[i - 1])
  IN  read[Uint16(d, 0)]

DecodableBatch(d) ==
  /\ Len(d) >= 2
  /\ Uint16(d, 0) \in 1 .. MaxBatchSize
  /\ Entries(d).ok

DecodeBatch(d) == Entries(d).packets

-----------------------------------------------------------------------------
(* Compression *)

\* LZ4 stands for any code that shortens some data and gives it back, when told
\* its size: here a run at the end is cut to one byte.  Of data it cannot shorten
\* it makes nothing.
CompressBlock(d) ==
  LET n == CHOOSE n \in 0 .. Len(d) :
             /\ \A i \in n .. Len(d) : i > 0 => d[i] = d[Len(d)]
             /\ n > 1 => d[n - 1] # d[Len(d)]
             /\ n = 0 <=> d = <<>>
  IN  IF n = Len(d) THEN <<>> ELSE Slice(d, 0, n)

\* Data that cannot be compressed is returned as it is.
CompressLZ4(d) == IF CompressBlock(d) = <<>> THEN d ELSE CompressBlock(d)

DecompressLZ4(d, size) == [i \in 1 .. size |-> IF i <= Len(d) THEN d[i] ELSE Last(d)]

\* CompressFrame, if LZ4 reports no error; then it returns the frame it was given.
Compress(f) ==
  LET compressed == CompressLZ4(f.payload) IN
  IF Len(f.payload) < MinCompress \/ Len(compressed) >= (Len(f.payload) * 9) \div 10
  THEN f
  ELSE Frame(f.type, f.flags \cup {"COMPRESSED"}, PutUint32(Len(f.payload)) \o compressed)

Decompressible(f) ==
  "COMPRESSED" \in f.flags =>
    /\ Len(f.payload) > 4
    /\ Uint32(f.payload, 0) \in Len(f.payload) - 4 .. Word - 1

Decompress(f) ==
  IF "COMPRESSED" \notin f.flags THEN f
  ELSE Frame(f.type, f.flags \ {"COMPRESSED"},
             DecompressLZ4(Slice(f.payload, 4, Len(f.payload)), Uint32(f.payload, 0)))

=============================================================================
