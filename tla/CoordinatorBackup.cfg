CONSTANTS
    n0 = n0
    n1 = n1
    p0 = p0
    p1 = p1
    t1 = t1
    t2 = t2
    t3 = t3
    None = None
    Outputs <- One
    Inputs <- One
    Slots <- One
    Names = {n0, n1}
    FactoryName = n0
    Profiles = {p0, p1}
    FactoryProfile = p0
    Settings = {}
    Levels = {FALSE}
    SettingTable <- NoSettings
    Reads <- VideoInput
    BlanksInStandby = FALSE
    Tasks = {t1, t2, t3}
    Requests <- BackupRequests
    OutsideRequests <- BackupOutside
    Installations <- BackupInstallations
    Cooldown = 0
    MaxNow = 0
    MaxFaults = 1
    MaxOutside = 0
    MaxRestarts = 1
SYMMETRY Symmetric
SPECIFICATION Spec
INVARIANTS TypeOK DriftCurrent DiskCurrent AcknowledgedIsDurable BackupInStep NobodyStranded
