SPECIFICATION Spec
CONSTANTS
  Boards <- OneBoard
  Sats = {}
  Inters = {}
  Pipes = {}
  Direcs = {}
  MsgTable <- MCMsgTable
  Zeros = Zeros
  None = None
INVARIANTS
  IpAddressIntact
\* unknown_page may crash the daemon, which then does nothing more.
CHECK_DEADLOCK FALSE
