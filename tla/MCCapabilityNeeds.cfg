SPECIFICATION Spec
CONSTANTS
  Needs = {"n1", "n2"}
  Agents = {"r", "p"}
  Claims = {"p:1", "p:2", "r:1"}
  NoClaim = "-"
  NoNeed = "-"
  Requester <- MCRequester
  Able <- MCAble
  AgentOf <- MCAgentOf
  LeaseTicks = 2
  MaxCrashes = 1
INVARIANTS
  LockFences
  RequestersLeaveNothing
PROPERTIES
  OnlyTheClaimantAnswers
CHECK_DEADLOCK FALSE
