SPECIFICATION Spec
CONSTANTS
  p = p
  q = q
  t = t
  Paths = {p, q}
  Temp = {}
  None = None
  MaxChanges = 4
  MaxBatchSize = 3
  MaxCrashes = 0
  MetaMayRepeat = FALSE
INVARIANT CancelledIsUnchanged
