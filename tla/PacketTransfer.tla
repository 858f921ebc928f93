--------------------------- MODULE PacketTransfer ---------------------------
(***************************************************************************)
(* IP packets on their way to the TUN device: a sender batches, compresses *)
(* and encodes them with the protocol package, and clientReadLoop takes    *)
(* them apart again.                                                       *)
(*                                                                         *)
(* The server only receives batches; the sender is the client, which is    *)
(* not in the repository.  It is taken to do what the package offers and   *)
(* its comments ask for: it flushes when Add says so.                      *)
(***************************************************************************)
EXTENDS Codec

CONSTANTS
  Packets,      \* the packets that are sent
  MaxPacket,    \* bytes of the longest
  MaxGiven,     \* bound: packets sent
  MaxWire       \* bound: messages on their way

ASSUME TransferAssumption ==
  /\ Packets \subseteq Seq(Bytes) \ {<<>>}
  /\ MaxPacket \in Nat
  /\ \A p \in Packets : Len(p) <= MaxPacket
  /\ MaxBatchBytes + MaxPacket + 6 < Word

VARIABLES
  packets,    \* packets the BatchEncoder holds
  size,       \* its size field
  full,       \* the last answer of Add
  wire,       \* messages on their way
  given,      \* packets sent so far
  written     \* packets the server has written to the TUN device

encoder == <<packets, size, full>>
vars == <<encoder, wire, given, written>>

Init ==
  /\ packets = <<>> /\ size = 0
  /\ full = FALSE
  /\ wire = <<>>
  /\ given = <<>>
  /\ written = <<>>

-----------------------------------------------------------------------------

\* Variant: the size field is compared before the packet is counted.
AddLate(p) ==
  /\ ~ full
  /\ Len(given) < MaxGiven
  /\ packets' = Append(packets, p)
  /\ size' = size + Len(p) + 2
  /\ full' = (Len(packets') >= MaxBatchSize \/ size >= MaxBatchBytes)
  /\ given' = Append(given, p)
  /\ UNCHANGED <<wire, written>>

Add(p) ==
  /\ ~ full
  /\ Len(given) < MaxGiven
  /\ packets' = Append(packets, p)
  /\ size' = size + Len(p) + 2
  /\ full' = (Len(packets') >= MaxBatchSize \/ size' >= MaxBatchBytes)
  /\ given' = Append(given, p)
  /\ UNCHANGED <<wire, written>>

\* A frame is compressed, or not, padded, or not, and sent.
Send(f, flags) ==
  /\ Len(wire) < MaxWire
  /\ \E g \in {f, Compress(f)} :
       LET h == [g EXCEPT !.flags = @ \cup flags] IN
       \E pad \in Pads(h) : wire' = Append(wire, Encode(h, pad))

\* Variant: the bytes of the batch are taken off the size, the count included.
FlushSubtracts ==
  /\ packets # <<>>
  /\ Send(Frame("DATA", {"BATCH"}, EncodeBatch(packets)), {})
  /\ packets' = <<>> /\ size' = size - Len(EncodeBatch(packets))
  /\ full' = FALSE
  /\ UNCHANGED <<given, written>>

\* Flush, on Add's advice or when the sender has waited long enough.
Flush ==
  /\ packets # <<>>
  /\ \E flags \in SUBSET {"PADDING"} : Send(Frame("DATA", {"BATCH"}, EncodeBatch(packets)), flags)
  /\ packets' = <<>> /\ size' = 0
  /\ full' = FALSE
  /\ UNCHANGED <<given, written>>

\* Reset drops what the encoder holds.
Reset ==
  /\ packets # <<>>
  /\ packets' = <<>> /\ size' = 0
  /\ full' = FALSE
  /\ given' = SubSeq(given, 1, Len(given) - Len(packets))
  /\ UNCHANGED <<wire, written>>

\* A frame of its own for one packet.
SendOne(p) ==
  /\ packets = <<>>
  /\ Len(given) < MaxGiven
  /\ \E flags \in SUBSET {"PADDING"} : Send(Frame("DATA", {}, p), flags)
  /\ given' = Append(given, p)
  /\ UNCHANGED <<encoder, written>>

\* A padding frame, whose payload is random.
SendPadding ==
  /\ Send(Frame("PADDING", {}, <<0>>), {})
  /\ UNCHANGED <<encoder, given, written>>

-----------------------------------------------------------------------------
(* clientReadLoop *)

\* What a decoded, decompressed frame brings to the TUN device.
Unpacked(f) ==
  IF f.type # "DATA" \/ f.payload = <<>> THEN <<>>
  ELSE IF "BATCH" \notin f.flags THEN <<f.payload>>
  ELSE IF DecodableBatch(f.payload) THEN DecodeBatch(f.payload) ELSE <<>>

\* What a message brings: nothing if it is malformed.
Brought(m) ==
  IF Decodable(m) /\ Decompressible(Decode(m)) THEN Unpacked(Decompress(Decode(m))) ELSE <<>>

Receive ==
  /\ wire # <<>>
  /\ written' = written \o Brought(Head(wire))
  /\ wire' = Tail(wire)
  /\ UNCHANGED <<encoder, given>>

\* All that may be sent has arrived.
Finished ==
  /\ Len(written) = MaxGiven /\ wire = <<>>
  /\ UNCHANGED vars

Next ==
  \/ \E p \in Packets : Add(p) \/ SendOne(p)
  \/ Flush \/ Reset \/ SendPadding \/ Receive
  \/ Finished

Spec == Init /\ [][Next]_vars

-----------------------------------------------------------------------------
(* Properties *)

Messages == [type : {"DATA", "PADDING"}, flags : SUBSET Flags, len : 0 .. Word - 1,
             rest : Seq(Bytes)]

TransferTypeOK ==
  /\ packets \in Seq(Packets) /\ size \in Nat
  /\ full \in BOOLEAN
  /\ wire \in Seq(Messages)
  /\ given \in Seq(Packets)
  /\ written \in Seq(Seq(Bytes))

\* The payload Flush makes has 2 + size bytes.  It fits the 16 bits of the
\* frame's length, and its count the decoder's limit, although Add answers only
\* after a packet has been taken.
FlushFits ==
  /\ 2 + size < Word
  /\ Len(packets) <= MaxBatchSize

\* The packets arrive whole, once, and in order, batched or not, compressed or
\* not, padded or not: lengths cut to 16 bits never bite.
InOrder ==
  /\ IsPrefix(written, given)
  /\ wire = <<>> /\ packets = <<>> => written = given

\* Whatever the bytes of a batch, packets come out of it only if they are in it,
\* one after the other, each with its length.
BatchExact ==
  \A d \in BoundedSeq(Bytes, 6) :
    DecodableBatch(d) => IsPrefix(EncodeBatch(DecodeBatch(d)), d)

=============================================================================
