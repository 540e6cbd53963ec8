SPECIFICATION Spec
CONSTANTS
  Boards = {}
  Sats <- MCSats
  Inters = {}
  Pipes = {}
  Direcs = {}
  MsgTable <- MCMsgTable
  Zeros = Zeros
  None = None
INVARIANTS
  TrackedIsCurrent
\* unknown_page may crash the daemon, which then does nothing more.
CHECK_DEADLOCK FALSE
