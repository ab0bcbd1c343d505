SPECIFICATION Spec
CONSTANTS
  a = a
  b = b
  Instances = {a, b}
  Writers = {a, b}
  PidOf <- MCPidOf
  NoFile = NoFile
  Hazards = {"slow"}
  Paths = {p}
  Hashes = {h1, h2}
  None = None
  Corrupt = Corrupt
  StageNames = {n1}
  MaxTx = 2
  Exclusive = FALSE
PROPERTY TombstonesRetained
