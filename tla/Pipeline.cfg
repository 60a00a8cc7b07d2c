SPECIFICATION Spec
CONSTANTS
  Workflows <- AllFlows
  MaxStages = 3
  MaxDisturbances = 2
  Heads = {h1, h2}
  Patches = {p1, p2}
  Reviewers = {v1, v2}
  Children = {c1, c2}
  None = None
SYMMETRY Symmetry
INVARIANTS TypeOK Restorable RecoveryAsksAgain MergeGateHolds MergeAnswerAccepted NoDeadEnd PickStands
PROPERTIES HeadChangeNeverAdvances InvalidationRestarts
