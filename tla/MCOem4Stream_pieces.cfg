SPECIFICATION Spec
CONSTANTS
  PRE = 2
  OEM4HLEN = 6
  CRCLEN = 1
  MAXRAWLEN = 20
  MAXSCAN = 12
  Messages <- MCMessages
  Noise = {}
  ATOMIC = FALSE
  CRASHES = TRUE
  MAXOUT = 27
  MAXFRAMES = 3
INVARIANTS
  TypeOK
  LossIsLocal
PROPERTIES
  DeliversReports
\* The stream explored ends at MAXOUT; the reader then waits for bytes.
CHECK_DEADLOCK FALSE
