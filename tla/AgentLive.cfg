SPECIFICATION FairSpec
CONSTANT Parts = {"ClaudeLive", "CodexLive", "OpenCodeLive", "HolderStopLive",
    "HolderPairLive", "HubLive", "TuiLive"}
PROPERTIES AgentGoesOn
CHECK_DEADLOCK FALSE
