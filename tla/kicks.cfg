SPECIFICATION FairSpec
CONSTANTS
  FirstHost = 2
  LastHost = 254
  NetLow = 253
  NetHigh = 255
  Handlers = {h1, h2}
  Datagrams = {d1}
  Kickers = {k1}
  NoSession = NoSession
  NoAddr = NoAddr
INVARIANTS
  TypeOK
  ExclusiveAddress
  PoolAccounting
  MapsAgree
PROPERTIES
  LatestReuse
  Reclaimed
  KickEnds
