SPECIFICATION FairSpec
CONSTANTS
  Clients = {c1}
  Router = Router
  Nobody = Nobody
  Controls <- TwoControls
  GameModes = {TRUE, FALSE}
  Room = 1
  MaxPackets = 2
  MaxAnswers = 1
  MaxPads = 1
  Attentive = {c1}
INVARIANTS
  TunnelTypeOK
  SendersExclude
  PaddingEndsFirst
  ControlsWhole
  DataInOrder
PROPERTIES
  RouterReturns
  HandlerEnds
