SPECIFICATION FairSpec
CONSTANTS
  Addrs = {"a", "b", "c"}
  Busy = {"c"}
  Requests = {r1, r2}
  FirstAddr = "a"
  Nobody = Nobody
  MaxPuts = 2
  MaxStarts = 2
INVARIANTS
  LifecycleTypeOK
  ListenerFollows
  ServesCurrent
  RestartsAsRunning
PROPERTIES
  SignalEnds
