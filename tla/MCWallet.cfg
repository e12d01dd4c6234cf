SPECIFICATION WalletSpec
CONSTANTS
  g = g  a1 = a1  a2 = a2  a3 = a3  b2 = b2  b3 = b3  e3 = e3
  cb = cb  tA = tA  tB = tB  tC = tC  tD = tD  tE = tE  st = st
  NULL = NULL
  Genesis = g
  Block <- MCBlock  Prev <- MCPrev  Height <- MCHeight  Chain <- MCBranch
  Tx <- MCTx  Vtx <- MCVtx  Vin <- MCVin  NOut <- MCNOut
  CoinBase = {cb}  CoinStake = {st}
  LedgerAt <- MCLedgerAt
  Work <- MCWork  LateWork <- MCWork  ChainWork <- MCChainWork  Time <- MCTime
  Maturity = 0  MaturityMargin = 1
  LateWindow = 9
  BadBlock = {e3}
  StartFrom = {}
  MaxRestarts = 1
  NonStandard = {}  FreeTx = {}  BigTx = {}
  MaxOrphans = 0
  TotalBlocksEstimate = 0
  Mine <- MCMine
  PrevOrder <- MCPrevOrder
  Own = {tA, tC, tD, tE}
  COPY_DEPTH = 3
  MaxRepairs = 1
\* the node waits for blocks and transactions when it has all there are
CHECK_DEADLOCK FALSE
INVARIANTS ConfirmedKnown ChainSpendsKnown StakeRefunded
PROPERTIES RepairAgrees ReacceptComplete
