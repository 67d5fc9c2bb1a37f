CONSTANTS
  Status = Status
  Overlay = Overlay
  Null = Null
  w1 = w1
  w2 = w2
  w3 = w3
  Window <- MCWindow
  libera = libera
  oftc = oftc
  lobby = lobby
  ann = ann
  Server <- MCServer
  ChannelName <- MCChannelName
  Nick <- MCNick
  Object <- MCObject
SPECIFICATION MCSpec
SYMMETRY Addresses
INVARIANTS
  SameWindows
  JoinedOpen
PROPERTY FocusFollowsHistory
CHECK_DEADLOCK FALSE
