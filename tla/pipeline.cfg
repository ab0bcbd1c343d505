SPECIFICATION PipelineSpec
CONSTANTS
  Trees <- MCTrees
  MaxDisturbances = 2
  CandidateSets <- MCCandidateSets
  Budgets = {4, 6}
  Analyses <- MCAnalyses
  Transactions = 2
  Touched = {"file", "symbol", "import", "contains"}
  Graphs <- MCGraphs
  SearchRequests <- MCSearchRequests
  Manifests <- MCManifests
  Savers = {s1, s2}
  RecordPaths = {1, 2, 3}
  DependencyRecords <- MCDependencyRecords
  ChangeSets <- MCChangeSets
  AffectedLimits = {2, 3}
  PackTrees <- MCPackTrees
  ScopeOf <- MCScopeOf
  PackCalls <- MCPackCalls
  PullFiles <- MCPullFiles
  PullPage = 2
  MaxCalls = 2
  Machines <- MCMachines
  Start <- MCStart
  WriteCommands <- MCWriteCommands
  Targets = {"t1", "t2"}
  MaxEdits = 1
  MaxCommands = 2
INVARIANTS
  PipelineTypeOK
   SelectionFair   SnapshotsFaithful
  InvalidationSound  
CHECK_DEADLOCK FALSE
