SPECIFICATION MCSpec
CONSTANTS
    f1 = f1
    f2 = f2
    v1 = v1
    v2 = v2
    Paths = {f1, f2}
    Contents = {v1, v2}
    Missing = Missing
    Torn = Torn
    Mine = Mine
    Symlink = Symlink
    Manifest = Manifest
    MaxEdits = 2
    MaxSyncs = 2
    MaxInstalls = 2
SYMMETRY PackageSymmetry
INVARIANTS
    KernelTypeOK
    SyncRepairs
    FailedSyncKeepsPackage
    InstalledIsReleased
    InstallRolledBack
PROPERTY NoForceKeepsFiles
CHECK_DEADLOCK FALSE
