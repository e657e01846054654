SPECIFICATION Spec
CONSTANTS
    Member = {cache_apk, cache_http}
    Pkgs <- MCPkgs
    None = None
    MaxEdits = 2
    MaxChanges = 2
    MaxFails = 2
CHECK_DEADLOCK FALSE
INVARIANTS
    CopiesArePinned
    ReturnedIsInspected
    NotesDescribeImage
    NothingUnlisted
    LeavesNothingMounted
