CONSTANTS
    n0 = n0
    n1 = n1
    p0 = p0
    p1 = p1
    t1 = t1
    t2 = t2
    t3 = t3
    None = None
    Outputs <- Two
    Inputs <- Two
    Slots <- One
    Names = {n0}
    FactoryName = n0
    Profiles = {p0}
    FactoryProfile = p0
    Settings = {}
    Levels = {FALSE}
    SettingTable <- NoSettings
    Reads <- VideoOnly
    BlanksInStandby = FALSE
    Tasks = {t1}
    Requests <- RecallRequests
    OutsideRequests = {}
    Installations <- RecallInstallations
    Cooldown = 2
    MaxNow = 4
    MaxFaults = 0
    MaxOutside = 0
    MaxRestarts = 0
SYMMETRY Symmetric
SPECIFICATION Spec
INVARIANTS RecallIsRemembered
