SPECIFICATION Spec
CONSTANTS
  ProofOfWork = {1}
  FirstTip = 5
  LastTip = 7
  Batch = 2
  MaxKnown = 4
  StakeMinAge = 3
  DownloadUntil = 4
  MaxDisconnects = 0
PROPERTIES BatchContinues
CHECK_DEADLOCK FALSE
