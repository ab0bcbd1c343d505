SPECIFICATION FairSpec
CONSTANTS
  p = p
  q = q
  t = t
  Paths = {p, t}
  Temp = {t}
  None = None
  MaxChanges = 3
  MaxBatchSize = 2
  MaxCrashes = 1
  MetaMayRepeat = FALSE
PROPERTIES
  AtomicSavesFollowed
  BatchSettles
