SPECIFICATION Spec
CONSTANTS
  NoOne = NoOne
  ChannelWord = {"#a", "#b"}
  FlagWord = {"+b", "-x"}
  InvalidFlags = {"-x"}
  Self = "self"
  MaxLength = 2
  File <- MCFile
  InDirectory <- MCInDirectory
  TypedWord = {"plug", "quit", "g", "m"}
  LoadedSets <- MCLoadedSets
  MaxLeft = 0
CHECK_DEADLOCK FALSE
INVARIANTS
  Leftovers
  UpRetraces
  TabVisitsAll
  TabHeedsTyped
  VerdictByPriority
  TargetAsNamed
PROPERTIES
  CrashesKnown
  QuitEnds
