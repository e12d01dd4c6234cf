SPECIFICATION Spec
CONSTANTS
  NULL = NULL  boot = boot  call = call  MasterKey = {keyA, keyB}
  Handle = {boot, call}  ReadOnly = {}  MaxBatch = 1
  Key = {"version", "blockindex", "hashBestChain", "hashSyncCheckpoint", "strCheckpointPubKey"}
  Value = {"old", "current", "genesis", "tip", keyA, keyB}
  n1 = n1  n2 = n2  n3 = n3
  minor = minor  major = major  final = final
\* blocks, breaks and the clock are bounded
CHECK_DEADLOCK FALSE
INVARIANT StartsSound
PROPERTIES StartEnds ConnectionHelps Spreads
