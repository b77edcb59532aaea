SPECIFICATION Spec
CONSTANTS
  w1 = w1
  p1 = p1
  p2 = p2
  Works = {w1}
  Drafts = {p1, p2}
  Deciders = {d1, d2}
  Finishers = {n1, n2}
  f1 = f1
  f2 = f2
  Paths <- MCPaths
  Original = original
  Changes <- MCChanges
  PrivateWorks = {w1}
  AcceptAttempts = 2
  Free = free
  Gone = gone
  None = none
  MaxTroubles = 1
SYMMETRY Symmetry
INVARIANTS
  TypeOK
  NoChangeIsLost
  OneVersionLands
  FinishedOnce
PROPERTIES
  DecidedOnce
CHECK_DEADLOCK FALSE
