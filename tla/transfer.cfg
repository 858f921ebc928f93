SPECIFICATION Spec
CONSTANTS
  Base = 5
  MaxPad = 2
  MaxBatchSize = 3
  MaxBatchBytes = 10
  MinCompress = 6
  Packets <- ThreePackets
  MaxPacket = 6
  MaxGiven = 3
  MaxWire = 2
INVARIANTS
  TransferTypeOK
  FlushFits
  InOrder
  BatchExact
