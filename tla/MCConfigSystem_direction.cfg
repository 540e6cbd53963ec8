SPECIFICATION SystemSpec
CONSTANTS
  Requests <- MCDirections
  Junk <- MCJunk
  MAXPRN = 2
  None = None
  NoText = NoText
  Plain = {"p1", "p2"}
  Control = {"c"}
  NotUtf8 = {"u"}
INVARIANTS
  DirectionAsDocumented
