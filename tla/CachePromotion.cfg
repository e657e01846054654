SPECIFICATION Spec
CONSTANTS
    p1 = p1
    p2 = p2
    c1 = c1
    Run <- MCRun
    Calibration <- MCCalibration
    Crews <- MCCrews
    Inode = {1, 2, 3, 4, 5}
    None = None
    MaxEdits = 1
    MaxRemovals = 2
    MaxFaults = 1
CHECK_DEADLOCK FALSE
INVARIANTS
    PublishedIsComplete
    SuccessIsAttested
    ReceiptIsReproduced
PROPERTIES
    PublishOnceSpec
