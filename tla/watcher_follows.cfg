SPECIFICATION Spec
CONSTANTS
  p = p
  q = q
  t = t
  Paths = {p, q}
  Temp = {}
  None = None
  MaxChanges = 3
  MaxBatchSize = 2
  MaxCrashes = 1
  MetaMayRepeat = TRUE
SYMMETRY Symmetry
INVARIANTS
  TypeOK
  
PROPERTY ReconciliationConverges
