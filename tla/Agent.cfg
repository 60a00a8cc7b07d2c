SPECIFICATION Spec
CONSTANT Parts = {"Claude", "ClaudeFaults", "ClaudeHooks", "Startup", "Codex", "CodexPair",
    "OpenCodeSwitch", "OpenCodePermissions", "FakeCodexPeers", "FakeCodexRefines",
    "FakeCodexRestart", "HolderControl", "HolderStream", "HolderPair", "Hub", "Tui",
    "TuiScopes", "TuiOld"}
INVARIANTS ClaudeSafe DriversSafe HolderSafe TerminalSafe
PROPERTIES AgentSteps IsCodexServer
CHECK_DEADLOCK FALSE
