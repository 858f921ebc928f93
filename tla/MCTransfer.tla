----------------------------- MODULE MCTransfer -----------------------------
(***************************************************************************)
(* An instance of PacketTransfer for TLC.                                  *)
(***************************************************************************)
EXTENDS PacketTransfer

\* Short packets, and the longest there may be, which compresses.
ThreePackets == {<<1>>, <<0, 2>>, <<3, 3, 3, 3, 3, 3>>}

=============================================================================
