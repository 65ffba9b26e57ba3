CONSTANTS
    n0 = n0
    n1 = n1
    p0 = p0
    p1 = p1
    t1 = t1
    t2 = t2
    t3 = t3
    None = None
    Outputs <- One
    Inputs <- Two
    Slots <- One
    Names = {n0}
    FactoryName = n0
    Profiles = {p0}
    FactoryProfile = p0
    Settings = {"enabled"}
    Levels = {FALSE, TRUE}
    SettingTable <- OneSetting
    Reads <- VideoOutput
    BlanksInStandby = TRUE
    Tasks = {t1, t2}
    Requests <- MixedRequests
    OutsideRequests <- RouteRequests
    Installations <- RecallInstallations
    Cooldown = 1
    MaxNow = 1
    MaxFaults = 1
    MaxOutside = 1
    MaxRestarts = 0
SPECIFICATION FairSpec
INVARIANT RecallsSpaced
PROPERTIES CallsReturn EventuallyConfirmed EventuallyDerived
