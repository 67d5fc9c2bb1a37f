CONSTANTS
  Status = Status
  Overlay = Overlay
  Null = Null
  w1 = w1
  w2 = w2
  libera = libera
  lobby = lobby
  ann = ann
  bob = bob
  old = old
  new = new
  NoTopic = old
  Window <- MCWindow
  Server <- MCServer
  ChannelName <- MCChannelName
  Nick <- MCNick
  Object <- MCObject
  Spoken <- MCSpoken
  Place <- MCPlace
  Topic <- MCTopic
  Hat = {"", "@"}
SPECIFICATION MCSpec
INVARIANTS
  TitleTells
  MarksTellUnseen
PROPERTIES
  ListedAsTheyAre
  StaleInThreeCases
  KeepsClient
SYMMETRY Addresses
CHECK_DEADLOCK FALSE
