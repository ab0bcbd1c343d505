SPECIFICATION Spec
CONSTANTS
  a = a
  b = b
  Procs = {a, b}
  Uses = {"init", "rebuild", "watch", "recover", "purge"}
  None = None
  Contents = {c}
  c = c
  Invalid = Invalid
  MaxRuns = 3
  MaxCrashes = 1
SYMMETRY Symmetry
INVARIANTS
  TypeOK
  InitializersExclusive
  LeftoversAccountedFor
  HealthyIndexKept
PROPERTIES
  DamagedMetadataKept
  WrittenMeansReady
  
CHECK_DEADLOCK FALSE
