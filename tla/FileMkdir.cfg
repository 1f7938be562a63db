SPECIFICATION FilesSpec
CONSTANTS
  Parts = {"commands"}
  Consoles = {"console"}
  Browsers = {"browser"}
  Volumes = {"flash", "card"}
  Preserved = {"card"}
  Names = {"a", "b"}
  Starts <- MCStarts
  Sources <- MCSources
  Targets <- MCTargets
  MaxDepth = 2
  FileLen = 2
  MaxVersion = 1
  MaxCmds = 1
  Layout <- MCLayout
  TopDir = "/"
  StoredFiles = {"f", "g"}
  Handles = {1}
  Kinds = {"file", "tree", "tar"}
  BlockUnits = 3
  TarUnits = 2
  MaxSize = 2
  MaxOpens = 2
  MaxRewrites = 1
  MaxFaults = 1
  LineMax = 4
  HistoryMax = 2
  ParMax = 3
  Ports = {"uart", "tcp", "ssh", "shell"}
  Typed = {"a", " "}
  Chars = {"$", " ", "/", "a", "b", "c"}
  Commands <- MCCommands
  Listing <- MCListing
  MaxKeys = 5
  MaxOthers = 1
INVARIANTS
    MkdirMakesDirectory
CHECK_DEADLOCK FALSE
