SPECIFICATION Spec
CONSTANT Parts = {"ServiceSystemd", "ServiceLaunchd", "StoreLinks", "StoreRename",
    "StoreUpgrade", "KeepMail", "KeepLines", "KeepFiles", "Calendar", "Shim",
    "ShimBypass", "Forge"}
INVARIANTS StoreSafe FilesSafe WorkSafe
PROPERTIES FilesSteps
CHECK_DEADLOCK FALSE
