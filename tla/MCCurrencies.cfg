CONSTANTS
    None = None
    Networks <- MCNetworks
    Configs <- MCConfigs
    MaxReports = 1
SPECIFICATION FairSpec
INVARIANTS TypeOK ReportedIsRequested SupportedIsRoutable RoutedToOwner
           UnmixedIsServed
PROPERTIES SupportedStays ServedGetsSupported
CHECK_DEADLOCK FALSE
