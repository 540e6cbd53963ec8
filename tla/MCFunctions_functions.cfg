SPECIFICATION Spec
CONSTANTS
  URL_BUF_MAX_LEN = 24
  MAX_NESTING = 2
  MAXTOKENS = 4
  LASTDAY = 24854
INVARIANTS
  FindsTheParameter
  CollectsTheList
  LetsInWellFormed
  EscapesBecomeText
  ReadsBack
  CutOffIsRefused
  CommentsAreSkipped
  ComparesContents
  ReadsTheGrammar
  KeepsTheCalendar
  CountsLeapSeconds
  FindsTheWeek
  ShowsTheAngle
\* An input grows up to its bound.
CHECK_DEADLOCK FALSE
