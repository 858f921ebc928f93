SPECIFICATION AwgSpec
CONSTANTS
  FirstHost = 2
  LastHost = 3
  NetLow = 0
  NetHigh = 255
  Handlers = {h1}
  Datagrams = {d1}
  Kickers = {}
  NoSession = NoSession
  NoAddr = NoAddr
  NoDatagram = NoDatagram
INVARIANTS
  RoutedByNumber
