SPECIFICATION Spec
CONSTANTS
    m1 = m1
    m2 = m2
    h1 = h1
    h2 = h2
    e1 = e1
    e2 = e2
    admin = admin
    factory = factory
    other = other
    None = None
    Matrices = {m1, m2}
    Hosts = {h1, h2}
    Users = {admin}
    Passwords = {factory, other}
    Entries = {e1, e2}
    Dialogs = {d1, d2}
    DefaultLogin <- MCDefaultLogin
    Forms <- MCForms
    Choices <- MCChoices
    Places <- MCPlaces
    Stored <- MCStored
    Accounts <- MCAccounts
    Counts <- MCCounts
    MaxDeeds = 2
    MaxLost = 1
INVARIANTS
    TypeOK
    OneEntryPerMatrix
    LoadedWithStoredLogin
    RegistryMatches
    BoundToItsMatrix
CHECK_DEADLOCK FALSE
PROPERTIES
    AskedForLogin
    Recovers
