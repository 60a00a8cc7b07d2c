SPECIFICATION FairSpec
CONSTANT Parts = {"SuperviseLive", "SwitchLive", "WatchLive", "LifeLive", "ServiceLive",
    "StoreLive"}
PROPERTIES HostGoesOn
CHECK_DEADLOCK FALSE
