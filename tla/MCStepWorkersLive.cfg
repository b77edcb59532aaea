SPECIFICATION FairWorkersSpec
CONSTANTS
  PlanSteps = {"order", "ship"}
  Steps = {"order", "ship"}
  RevisionOf <- MCRevisionOf
  DependsOn <- MCDependsOn
  EffectOf <- MCEffectOf
  TerminalEvidence = {}
  Systems = {"shop"}
  SystemsOf <- MCSystemsOf
  Obligations = {}
  Covers <- MCCovers
  Agents = {"a", "b"}
  Claims = {"a:1", "b:1"}
  AgentOf <- MCAgentOf
  NoAgent = "-"
  NoClaim = "-"
  LeaseTicks = 1
  MaxEpochs = 1
  HasPlanner = TRUE
  MayRun <- MCHelper
  Named = {}
  Mortal = {"a"}
PROPERTY NoStepStaysIdle
CHECK_DEADLOCK FALSE
