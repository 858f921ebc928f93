SPECIFICATION Spec
CONSTANTS
  Files = {"given", "local"}
  GivenFile = "given"
  LocalFile = "local"
  MaxStarts = 3
  Values <- Strings
  Installed <- InstalledFile
  Bodies <- AllBodies
  Protocols <- TwoProtocols
  Defaults <- DefaultFile
  Short = "1"
  Unreadable = Unreadable
  MaxPuts = 2
INVARIANTS
  SettingsTypeOK
  TokensHonoured
  AdminThere
  
