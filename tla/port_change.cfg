SPECIFICATION Spec
CONSTANTS
  Addrs = {"a", "b"}
  Busy = {}
  Requests = {r1}
  FirstAddr = "a"
  Nobody = Nobody
  MaxPuts = 1
  MaxStarts = 1
PROPERTIES
  ListenerRestarts
