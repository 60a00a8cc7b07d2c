SPECIFICATION Spec
CONSTANT Parts = {"DispatchCode", "DispatchPlan", "Assign", "NeedsAnswers", "NeedsOnce",
    "Notices", "NoticesStale", "PairingProof", "PairingApply"}
INVARIANTS DispatchSafe OperatorSafe
CHECK_DEADLOCK FALSE
