SPECIFICATION MCSpec
CONSTANTS
  a = a
  b = b
  NONE = NONE
  Node <- MCNode
  Origin <- MCOrigin
  Bunch = 2
  LockTicks = 1
  MaxToggles = 1
  MaxQueue = 2
\* the bucket expires and everything rests
CHECK_DEADLOCK FALSE
PROPERTIES Converges HandshakeCompletes
