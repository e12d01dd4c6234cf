SPECIFICATION Spec
CONSTANTS
  g = g  a1 = a1  a2 = a2  a3 = a3  b2 = b2  b3 = b3  b4 = b4  d1 = d1  d2 = d2
  c1 = c1  cb = cb  t1 = t1  t2 = t2  t3 = t3  u1 = u1  u2 = u2  s = s
  NULL = NULL
  Genesis = g
  Block <- MCBlock  Prev <- MCPrev  Height <- MCHeight  Chain <- MCBranch
  Tx <- MCTx  Vtx <- MCVtx  Vin <- MCVin  NOut <- MCNOut
  CoinBase = {c1, cb}  CoinStake = {}
  LedgerAt <- MCLedgerAt
  Work <- MCWork  LateWork <- MCLateWork  ChainWork <- MCChainWork  Time <- MCTime
  Maturity = 1
  LateWindow = 2
  BadBlock = {}
  StartFrom = {}
  MaxRestarts = 1
\* the node waits for blocks when it has all there are
CHECK_DEADLOCK FALSE
INVARIANT StillValidWay
