SPECIFICATION IntakeSpec
CONSTANTS
  g = g  p1 = p1  a2 = a2  a3 = a3  x3 = x3  x4 = x4  b2 = b2  b3 = b3  b4 = b4
  cp = cp  k2 = k2  k3 = k3  k4 = k4  s2 = s2  sa3 = sa3  sx3 = sx3  sb3 = sb3  s4 = s4
  NULL = NULL
  Genesis = g
  Block <- MCBlock  Prev <- MCPrev  Height <- MCHeight  Chain <- MCBranch
  Tx <- MCTx  Vtx <- MCVtx  Vin <- MCVin  NOut <- MCNOut
  CoinBase = {cp, k2, k3, k4}  CoinStake = {s2, sa3, sx3, sb3, s4}
  LedgerAt <- MCLedgerAt
  Work <- MCWork  LateWork <- MCLateWork  ChainWork <- MCChainWork  Time <- MCHeight
  Maturity = 1
  LateWindow = 9
  BadBlock = {x3}
  StartFrom = {2}
  MaxRestarts = 2
  Hardened = {g}
  CheckpointsMode = "STRICT"
  CheckpointSpan = 1
  TargetSpacing = 1
  Kernel <- MCKernel  Modifier <- MCModifier  TooLittle <- MCTooLittle
  BadAccept = {}
  TimeV231 = 1
  Announced = {}
  fMaster = TRUE
\* the node waits for blocks when it has all there are
CHECK_DEADLOCK FALSE
INVARIANT OwnCheckpointsAgree
