SPECIFICATION Spec
CONSTANTS
  Files = {"given", "local"}
  GivenFile = "given"
  LocalFile = "local"
  MaxStarts = 1
  Values <- Strings
  Installed <- InstalledFile
  Bodies <- AllBodies
  Protocols = {}
  Defaults <- DefaultFile
  Short = "1"
  Unreadable = Unreadable
  MaxPuts = 1
PROPERTIES
  PortAsTold
