SPECIFICATION FairSpec
CONSTANTS
  Nodes = {n1, n2}
  Called = g
  Goals <- MCGoals
  Callers = {c1}
  GoalOf <- MCGoalOf
  Free = free
  NoPlan = noplan
  NoGoal = nogoal
  MaxGoals = 1
  MaxTroubles = 1
  Names = {s}
  Events = {e}
  Never <- MCNever
  MaxTime = 1
INVARIANTS
  LeaseIsKept
  NoGoalIsForgotten
PROPERTIES
  TakenOnce
  EveryGoalIsPlanned
CHECK_DEADLOCK FALSE
