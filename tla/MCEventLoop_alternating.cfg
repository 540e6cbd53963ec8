SPECIFICATION Spec
CONSTANTS
  Clients <- MCClients
  Nobody = Nobody
  MAXCMDS = 2
  NSTART = 4
  CMDCAP = 6
  REPCAP = 4
  PIECES = 2
  MAXREADS = 3
  CODES = FALSE
  CONCURRENT = FALSE
  TORN = FALSE
  MAXCRASHES = 0
INVARIANTS
  NoEmbrace
PROPERTIES
  EveryRequestFinished
