SPECIFICATION FairSpec
CONSTANT Parts = {"NeedsRemovedLive"}
PROPERTY AnswersArrive
CHECK_DEADLOCK FALSE
