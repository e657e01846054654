\* The owner authorises, and experiments are claimed, repeated and archived,
\* under races, crashes, torn ledger lines, restored records and edits.
CONSTANTS
    e1 = e1  e2 = e2  e3 = e3  p1 = p1  p2 = p2
    art = art  art2 = art2  rb = rb  report = report  old = old  new = new  profile = profile
    None = None  Absent = Absent
    Exp = {e1, e2}
    Proc = {p1, p2}
    Partition = {"boot"}
    File = {art, art2, rb, report}
    Content = {old, new}
    ProfilePath = {profile}
    ProfileText <- TwoTexts
    Report <- MCReport
    Ops = {"partition_write"}
    Commands = {"new", "claim", "result", "observe", "archive", "authorize"}
    Disturbances = {"rewind", "tear", "audit", "files", "profiles", "policy", "commit"}
    InitPolicy <- Unauthorized
    InitProfiles <- MCProfiles
    InitFiles <- MCFiles
    MaxObs = 1
    MaxCommits = 1
SPECIFICATION Spec
SYMMETRY Symmetry
CONSTRAINT Stages
INVARIANTS AtMostOneIssue ClaimsOnRecord RepeatIsGuarded IssuedAsAuthorized
PROPERTIES PartialClaimIsFinal WritesLoseNothing
