SPECIFICATION ServicesSpec
CONSTANTS
  c1 = c1
  Calls = {c1}
  Large = {c1}
  Manifests <- MCManifests
  MaxFrames = 3
  McpLines <- MCLines
  MaxLines = 3
  MaxAllowedRoots = 2
  Roots = {left, right}
  WatchRoots = {left, right}
  TaskIds = {pack}
  MaxRuns = 3
  Sources <- MCSources
  Responses <- MCResponses
  LastPage = 2
  MaxHops = 1
INVARIANTS
  ServicesTypeOK
  FramesSurviveChunking AnswersAreGenuine NothingWaitsForTheDead
  LinesAccountedFor TrackedTasksRun ResultsAreWhole
PROPERTIES SilentAfterKill RequestsSettle JobsSettle
CHECK_DEADLOCK FALSE
