SPECIFICATION DecisionsSpec
CONSTANTS
  p1 = p1
  p2 = p2
  Cases <- RuleCases
  Point = {p1, p2}
  MaxMatches = 2
  FirstDocuments <- RunningDocuments
  Documents <- AllDocuments
  Schema <- SchemaOf
  MaxUint32 = 100
  MaxInt64 = 200000000
  MaxConfigEdits = 1
  MergeLines <- SomeLines
  MaxMergeLines = 3
  MergeModes = {"", "off"}
  MergeProfiles = {"", "full"}
  Planners = {p1, p2}
  MaxObjects = 9
  MaxPathEdits = 2
  MaxCrashes = 1
  MaxPlans = 2
  FirstHookFiles <- SomeHookFiles
  HookSelections <- SomeSelections
  HookExecutables = {"bin", "renamed"}
  MaxHookCommands = 2
  MaxHookEdits = 1
  ResetPids = {1, 2}
  ResetLayouts <- SomeLayouts
  ResetTargetSets <- SomeTargets
  MaxBirths = 3
  MaxResets = 1
  MaxKills = 1
  SetupProviders <- TwoProviders
  MaxSetups = 2
  MaxDaemonFailures = 1
  HookCallSet <- SomeCalls
  RuleOutcomes <- SomeOutcomes
  LogUsers = {1, 2}
  MaxSupervised = 2
  MaxEvidence = 4
  MaxDiagnostics = 2
  OldEvidence = {0, 3}
  OldArchives <- LeftArchives
  OldLines <- LeftLogs
  MaxLines = 5
  MaxLogFailures = 1
INVARIANTS
    RecordsAgree JudgesFailClosed DegradedLosesOnlyFaults ServedIsSound
    MergeSafe ReplaceSafe InstallSafe ResetSafe DecisionsReachTheHost
    EffectsMatchRecords LogsKeepEvidence
PROPERTIES
    ReloadKeepsEnforcing OnlyManagedChanges RemovalsSafe SetupSafe
CHECK_DEADLOCK FALSE
