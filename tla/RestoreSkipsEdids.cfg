CONSTANTS
    n0 = n0
    n1 = n1
    p0 = p0
    p1 = p1
    t1 = t1
    None = None
    Outputs <- One
    Inputs <- Two
    Slots <- One
    Names = {n0, n1}
    FactoryName = n0
    Profiles = {p0, p1}
    FactoryProfile = p0
    Settings = {}
    Levels = {FALSE}
    SettingTable <- NoSettings
    Reads <- VideoInput
    BlanksInStandby = FALSE
    Tasks = {t1}
    Requests <- Nobody
    OutsideRequests <- Nobody
    Installations <- InStepInstallation
    Cooldown = 0
    MaxNow = 0
    MaxFaults = 0
    MaxOutside = 1
    MaxRestarts = 0
    MaxJobs = 1
SPECIFICATION TransferSpec
INVARIANT RestoreRebuildsEdids
