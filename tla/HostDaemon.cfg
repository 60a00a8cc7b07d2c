SPECIFICATION Spec
CONSTANT Parts = {"Supervise", "Switch", "Admission", "WatchDisk", "WatchRegistry",
    "Life"}
INVARIANTS SupervisorSafe BackendSafe DaemonSafe
PROPERTIES DaemonSteps
CHECK_DEADLOCK FALSE
