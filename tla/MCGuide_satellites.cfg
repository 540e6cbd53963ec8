SPECIFICATION Spec
CONSTANTS
  Boards = {}
  Sats <- MCSats
  Inters <- MCInters
  Pipes <- MCPipes
  Direcs <- MCDirecs
  MsgTable <- MCMsgTable
  Zeros = Zeros
  None = None
INVARIANTS
  TypeOK
  UsedAreTracked
  TableMatchesAction
  ChannelPageTruthful
\* unknown_page may crash the daemon, which then does nothing more.
CHECK_DEADLOCK FALSE
