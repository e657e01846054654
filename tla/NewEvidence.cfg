\* Three experiments, one operator: a write, and two repeats of it.
CONSTANTS
    e1 = e1  e2 = e2  e3 = e3  p1 = p1  p2 = p2
    art = art  art2 = art2  rb = rb  report = report  old = old  new = new  profile = profile
    None = None  Absent = Absent
    Exp = {e1, e2, e3}
    Proc = {p1}
    Partition = {"boot"}
    File = {art, rb, report}
    Content = {old, new}
    ProfilePath = {profile}
    ProfileText <- OneText
    Report <- MCReport
    Ops = {"partition_write"}
    Commands = {"new", "claim", "result", "archive"}
    Disturbances = {}
    InitPolicy <- Authorized
    InitProfiles <- MCProfiles
    InitFiles <- MCFiles
    MaxObs = 0
    MaxCommits = 0
SPECIFICATION Spec
INVARIANT RepeatBringsNewEvidence
