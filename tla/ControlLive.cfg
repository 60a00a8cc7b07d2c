SPECIFICATION FairSpec
CONSTANT Parts = {"DispatchCodeLive", "DispatchPlanLive", "NeedsLive", "NoticesLive",
    "FleetLive", "CliLive"}
PROPERTIES ControlGoesOn AnswersArrive
CHECK_DEADLOCK FALSE
