SPECIFICATION FairSpec
CONSTANTS
  Base = base
  Members = {base, m1, m2, m3, m4}
  NoMember = none
  Chains = {c1, c2}
  MinMembers = 2
  MaxMembers = 3
  MaxHeld = 2
  MayFail = TRUE
  MaxRaises = 1
INVARIANTS
  OneWorkPerMember
  NoMemberIsLost
  NobodyWaitsForIdle
  WithinMax
PROPERTY WaitersAreServed
