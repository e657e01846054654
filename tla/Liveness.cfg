\* Every subcommand, for termination.  Symmetry would be unsound here.
CONSTANTS
    e1 = e1  e2 = e2  e3 = e3  p1 = p1  p2 = p2
    art = art  art2 = art2  rb = rb  report = report  old = old  new = new  profile = profile
    None = None  Absent = Absent
    Exp = {e1}
    Proc = {p1, p2}
    Partition = {"boot"}
    File = {art, rb}
    Content = {old, new}
    ProfilePath = {profile}
    ProfileText <- OneText
    Report <- NoReport
    Ops = {"device_reboot", "ram_boot", "runtime_handoff"}
    Commands = {"new", "claim", "preflight", "result", "observe", "archive", "authorize"}
    Disturbances = {}
    InitPolicy <- Unauthorized
    InitProfiles <- MCProfiles
    InitFiles <- MCFiles
    MaxObs = 1
    MaxCommits = 0
SPECIFICATION FairSpec
PROPERTIES InvocationsEnd
