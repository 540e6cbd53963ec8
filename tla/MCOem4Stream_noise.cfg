SPECIFICATION Spec
CONSTANTS
  PRE = 2
  OEM4HLEN = 6
  CRCLEN = 1
  MAXRAWLEN = 12
  MAXSCAN = 8
  Messages <- MCDeceptive
  Noise <- MCNoise
  ATOMIC = TRUE
  CRASHES = TRUE
  MAXOUT = 29
  MAXFRAMES = 5
PROPERTIES
  DeliversReports
\* The stream explored ends at MAXOUT; the reader then waits for bytes.
CHECK_DEADLOCK FALSE
