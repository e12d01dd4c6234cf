SPECIFICATION MCSpec
CONSTANTS
  g = g  a1 = a1  a2 = a2  a3 = a3  b2 = b2  b3 = b3  e3 = e3
  cb = cb  cc = cc  tp = tp  w = w  wc = wc  y = y  c = c  x = x  xc = xc  xd = xd
  NULL = NULL
  Genesis = g
  Block <- MCBlock  Prev <- MCPrev  Height <- MCHeight  Chain <- MCBranch
  Tx <- MCTx  Vtx <- MCVtx  Vin <- MCVin  NOut <- MCNOut
  CoinBase = {cb, cc}  CoinStake = {}
  LedgerAt <- MCLedgerAt
  Work <- MCWork  LateWork <- MCWork  ChainWork <- MCChainWork  Time <- MCTime
  Maturity = 1
  LateWindow = 9
  BadBlock = {e3}
  StartFrom = {2}
  MaxRestarts = 1
  NonStandard = {}
  FreeTx = {xd}
  BigTx = {tp, y, w}
  MaxOrphans = 2
  TotalBlocksEstimate = 0
  TxTime <- MCTxTime
  StakeTime = {2}
\* the node waits for blocks and transactions when it has all there are
CHECK_DEADLOCK FALSE
INVARIANTS MapsAgree NoneConfirmed ConnectedOrLost BlockConnects
PROPERTIES RefusedForCause NoConflictAfterReorg NoOrphanLeftBehind Released
