SPECIFICATION FairSpec
CONSTANTS
  Workflows <- AllFlows
  MaxStages = 3
  MaxDisturbances = 1
  Heads = {h1, h2}
  Patches = {p1, p2}
  Reviewers = {v1, v2}
  Children = {c1, c2}
  None = None
PROPERTY EventuallyEnds
