SPECIFICATION LockSpec
CONSTANTS
  a = a
  b = b
  Instances = {a, b}
  PidOf <- MCPidOf
  NoFile = NoFile
  Hazards = {"race"}
INVARIANT MutualExclusion
