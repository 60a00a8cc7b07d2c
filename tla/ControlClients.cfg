SPECIFICATION Spec
CONSTANT Parts = {"Fleet", "FleetRequests", "FleetRestart", "Cli", "CliFaults",
    "FakeEvents", "FakeView", "FakeTerminal", "Contract"}
INVARIANTS ClientSafe FakeDaemonSafe
CHECK_DEADLOCK FALSE
