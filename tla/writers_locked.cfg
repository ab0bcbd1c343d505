SPECIFICATION Spec
CONSTANTS
  a = a
  b = b
  Instances = {a, b}
  Writers = {a, b}
  PidOf <- MCPidOf
  NoFile = NoFile
  Hazards = {}
  Paths = {p, q}
  Hashes = {h1}
  None = None
  Corrupt = Corrupt
  StageNames = {n1}
  MaxTx = 2
  Exclusive = FALSE
SYMMETRY Symmetry
INVARIANTS
  TypeOK
  MutualExclusion
  
  
  
PROPERTIES
  
  SingleWriterSpec
