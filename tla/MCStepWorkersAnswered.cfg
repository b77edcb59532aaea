SPECIFICATION WorkersSpec
CONSTANTS
  PlanSteps = {"order", "ship", "respond", "reorder"}
  Steps = {"order", "ship", "respond", "reorder"}
  RevisionOf <- MCRevisionOf
  DependsOn <- MCDependsOn
  EffectOf <- MCEffectOf
  TerminalEvidence = {}
  Systems = {"shop"}
  SystemsOf <- MCSystemsOf
  Obligations = {"ordered"}
  Covers <- MCCovers
  Agents = {"a"}
  Claims = {"a:1"}
  AgentOf <- MCAgentOf
  NoAgent = "-"
  NoClaim = "-"
  LeaseTicks = 1
  MaxEpochs = 1
  HasPlanner = TRUE
  MayRun <- MCMayRun
  Named = {"a"}
  Mortal = {}
INVARIANTS
  WorkersTypeOK
  CancelledStaysFenced
PROPERTY ResponseIsCurrent
CHECK_DEADLOCK FALSE
