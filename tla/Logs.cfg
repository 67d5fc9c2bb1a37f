CONSTANTS
  ChunkSize = 3
  Width <- MCWidth
  Count <- MCCount
  MaxStamp = 5
  Channel = "lobby"
  NoOne = "nobody"
  Server = "server"
  me = "me"
  ann = "ann"
  ours = "ours"
  hers = "hers"
  free = "free"
  Me = "me"
  User <- MCUser
  Nick <- MCNick
  Body <- MCBody
  MaxEvents = 4
SPECIFICATION LogsSpec
INVARIANTS
  ReadsBackwards
  WindowInOrder
  RestoredAsShown
  DrawnButTopics
PROPERTY StreamsEnd
CHECK_DEADLOCK FALSE
