CONSTANTS
  Status = Status
  Overlay = Overlay
  Null = Null
  w1 = w1
  w2 = w2
  w3 = w3
  w4 = w4
  Window <- MCWindow
  libera = libera
  oftc = oftc
  lobby = lobby
  dev = dev
  Server <- MCServer
  ChannelName <- MCChannelName
  Nick <- MCNick
  Object <- MCObject
SPECIFICATION ClientSpec
SYMMETRY Addresses
INVARIANT NoOrphans
CHECK_DEADLOCK FALSE
