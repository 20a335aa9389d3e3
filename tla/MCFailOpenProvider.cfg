SPECIFICATION CallSpec
CONSTANTS
  HookCallSet <- InstalledCalls
  RuleOutcomes <- SomeOutcomes
INVARIANT TransportFailsWithProviderAllow
CHECK_DEADLOCK FALSE
