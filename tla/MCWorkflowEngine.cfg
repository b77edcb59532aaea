SPECIFICATION FairEngineSpec
CONSTANTS
  PlanSteps = {"fetch", "lookup", "chart", "report"}
  Steps = {"fetch", "lookup", "chart", "report"}
  RevisionOf <- MCRevisionOf
  DependsOn <- MCDependsOn
  EffectOf <- MCEffectOf
  TerminalEvidence = {}
  Systems = {}
  SystemsOf <- MCNothing
  Obligations = {}
  Covers <- MCNothing
  Agents = {"a"}
  Claims = {"a:1", "engine"}
  AgentOf <- MCAgentOf
  NoAgent = "-"
  NoClaim = "-"
  LeaseTicks = 1
  MaxEpochs = 2
  HasPlanner = FALSE
  Local = {"fetch", "chart", "report"}
  Offered = {"lookup"}
  Engine = "engine"
  MaxStarts = 2
INVARIANTS
  EngineTypeOK
  ResultsAreKept
PROPERTIES
  EndedStaysEnded
  EveryRunEnds
CHECK_DEADLOCK FALSE
