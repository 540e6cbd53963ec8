SPECIFICATION Spec
CONSTANTS
  Boards <- MCBoards
  Sats <- OneSat
  Inters <- MCInters
  Pipes <- OnePipe
  Direcs <- MCDirecs
  MsgTable <- MCMsgTable
  Zeros = Zeros
  None = None
INVARIANTS
  IpReplyIsCut
PROPERTIES
  AnswerKeepsItsLogAlive
  FirstHeadingIsZero
  HealsAfterRestart
\* unknown_page may crash the daemon, which then does nothing more.
CHECK_DEADLOCK FALSE
