SPECIFICATION Spec
CONSTANTS
  Clients <- MCClients
  Nobody = Nobody
  MAXCMDS = 2
  NSTART = 4
  CMDCAP = 1
  REPCAP = 1
  PIECES = 2
  MAXREADS = 3
  CODES = TRUE
  CONCURRENT = TRUE
  TORN = TRUE
  MAXCRASHES = 2
INVARIANTS
  TypeOK
PROPERTIES
  EveryRequestFinished
  ReportsAreRead
  StartupEnds
