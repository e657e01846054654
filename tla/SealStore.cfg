SPECIFICATION Spec
CONSTANTS
    k1 = k1
    k2 = k2
    i1 = i1
    i2 = i2
    a1 = a1
    a2 = a2
    l1 = l1
    l2 = l2
    c1 = c1
    c2 = c2
    bad = bad
    Content <- MCContent
    Sound <- MCSound
    Packer <- MCPacker
    Installer <- MCInstaller
    Admin <- MCAdmin
    Launcher <- MCLauncher
    Crews <- MCCrews
    PackGen <- MCPackGen
    Stray <- MCStray
    Installed0 <- MCInstalled0
    Output = Output
    None = None
    Retain = 1
    MaxEdits = 2
    MaxFaults = 1
CHECK_DEADLOCK FALSE
INVARIANTS
    PublishedInstalls
    InterruptLeavesNothing
    RunsKept
PROPERTIES
    ActiveMovesAsAsked
    StorePublishOnce
