CONSTANTS
    n0 = n0
    n1 = n1
    p0 = p0
    p1 = p1
    t1 = t1
    None = None
    Outputs <- Two
    Inputs <- Two
    Slots <- Two
    Names = {n0, n1}
    FactoryName = n0
    Profiles = {p0, p1}
    FactoryProfile = p0
    Settings = {}
    Levels = {FALSE}
    SettingTable <- NoSettings
    Reads <- VideoInput
    BlanksInStandby = FALSE
    Tasks = {t1}
    Requests <- TransferRequests
    OutsideRequests <- Nobody
    Installations <- TransferInstallations
    Cooldown = 0
    MaxNow = 0
    MaxFaults = 1
    MaxOutside = 0
    MaxRestarts = 1
    MaxJobs = 2
SPECIFICATION TransferSpec
INVARIANTS TransferTypeOK RestoredMeansStored RoutingPutBack SnapshotFaithful TransferKeepsDisk TransferKeepsDrift
PROPERTIES BackupNotWiped
