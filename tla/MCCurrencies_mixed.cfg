CONSTANTS
    None = None
    Networks <- MCNetworks
    Configs <- MixedConfigs
    MaxReports = 1
SPECIFICATION Spec
INVARIANTS RefusedIsMissing
CHECK_DEADLOCK FALSE
