SPECIFICATION FairSpec
CONSTANTS
  Flow <- CodeFlow
  EmptyPatch = Empty
  Reviewers = {v1}
  Children = {}
  None = None
  Heads = {h1, h2, h3, h4, h5}
  Patches = {p1, Empty}
  MaxMishaps = 2
  MaxSoiled = 1
INVARIANTS TypeOK MergedWasVetted Attended TimerArmed MergedOnce OutcomeMatchesMain
PROPERTIES StateMachineObeyed EventuallyClosed
CHECK_DEADLOCK FALSE
