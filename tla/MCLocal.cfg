SPECIFICATION Spec
CONSTANTS
  NULL = NULL  NoBase = NoBase
  a1 = a1  a2 = a2  a3 = a3  s1 = s1  s2 = s2
  h1 = h1  h2 = h2
  Address <- Addresses  Source <- Sources  NewBuckets = 2  TriedBuckets = 2
  NewBucketSize = 1  TriedBucketSize = 1  PerAddress = 2  Inspect = 2
  GetNewBucket <- NewBucketOf  GetTriedBucket <- TriedBucketOf  MaxId = 4  MaxTime = 2
  None = None  Holder = {h1, h2}  KeyPoolSize = 1  MaxKeys = 4  MaxCrashes = 1
  Block <- Blocks  Genesis = g  Prev <- PrevTable  Height <- HeightTable  Chain <- BranchTable
  Time <- TimeTable  Bits <- BitsTable  Stake <- Staked  Old <- Trunk  Window = 2  LateWindow = 150
  TrustBase = 1000  MaxRestarts = 2
  g = g  o1 = o1  o2 = o2  o3 = o3  o4 = o4
  x5 = x5  x6 = x6  x7 = x7  x8 = x8  x9 = x9  xa = xa  y6 = y6  y7 = y7  y8 = y8  y9 = y9  ya = ya  z6 = z6
  Key = {k1, k2}  Value = {v1, v2}
  Handle = {writer, other, reader}  ReadOnly = {reader}  MaxBatch = 2
SYMMETRY Symmetry
\* keys, ids, restarts and the length of a branch are bounded
CHECK_DEADLOCK FALSE
INVARIANTS TablesConsistent HandedOutOnce KeysSurvive TrustReproducible TargetsSound
           ReadsThroughBatch
PROPERTIES RestartKeepsTables StoreImplemented
