SPECIFICATION Spec
CONSTANTS
  a = a
  b = b
  Procs = {a, b}
  Uses = {"init"}
  None = None
  Contents = {c}
  c = c
  Invalid = Invalid
  MaxRuns = 2
  MaxCrashes = 0
INVARIANT OneIndexObserved
CHECK_DEADLOCK FALSE
