CONSTANTS
  Absent = Absent
  libera = libera
  oftc = oftc
  Server <- MCServer
  Request <- MCRequest
SPECIFICATION FairSpec
INVARIANTS
  NoneLostNoneTwice
PROPERTIES
  OnlyToReady
  QueuedInTimeIsSent
CHECK_DEADLOCK FALSE
