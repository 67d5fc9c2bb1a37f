CONSTANTS
  Status = Status
  Overlay = Overlay
  Null = Null
  w1 = w1
  w2 = w2
  w3 = w3
  Window <- MCWindow
  libera = libera
  lobby = lobby
  ann = ann
  bob = bob
  Server <- MCServer
  ChannelName <- MCChannelName
  Nick <- MCNick
  Object <- MCObject
SPECIFICATION MCSpec
SYMMETRY Addresses
INVARIANTS
  SameWindows
  OverlayCovers
  OneWindowPerName
  CycleVisitsAll
  MovedWhereAsked
PROPERTY KeepsFocusHistory
CHECK_DEADLOCK FALSE
