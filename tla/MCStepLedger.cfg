SPECIFICATION Spec
CONSTANTS
  Plan = {"order", "ship", "reorder"}
  Steps = {"order", "ship", "reorder"}
  RevisionOf <- MCRevisionOf
  DependsOn <- MCDependsOn
  EffectOf <- MCEffectOf
  TerminalEvidence = {}
  Systems = {"shop"}
  SystemsOf <- MCSystemsOf
  Obligations = {"ordered"}
  Covers <- MCCovers
  Agents = {"a", "b"}
  Claims = {"a:1", "b:1"}
  AgentOf <- MCAgentOf
  NoAgent = "-"
  NoClaim = "-"
  LeaseTicks = 1
  MaxEpochs = 2
  HasPlanner = TRUE
INVARIANTS
  TypeOK
  HolderIsRunning
  OneWriterPerSystem
  CancelledIsFenced
  NewestAttemptsCount
PROPERTIES
  CompletedStays
  WorkIsExclusive
CHECK_DEADLOCK FALSE
