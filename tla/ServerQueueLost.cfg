CONSTANTS
  Absent = Absent
  libera = libera
  oftc = oftc
  Server <- MCServer
  Request <- MCRequest
SPECIFICATION FairSpec
PROPERTY AskedIsSent
CHECK_DEADLOCK FALSE
