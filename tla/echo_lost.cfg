SPECIFICATION Spec
CONSTANTS
  Clients = {c1}
  Router = Router
  Nobody = Nobody
  Controls <- AllControls
  GameModes = {TRUE}
  Room = 2
  MaxPackets = 1
  MaxAnswers = 1
  MaxPads = 0
  Attentive = {}
INVARIANTS
  Echoed
