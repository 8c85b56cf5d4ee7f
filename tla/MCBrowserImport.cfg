SPECIFICATION Spec
CONSTANTS
    s1 = s1  s2 = s2  u1 = u1
    i1 = i1  i2 = i2  i3 = i3
    c1 = c1
    Sites = {s1, s2}
    Usernames = {u1}
    DataRows = 3
    MaxImportRows = 3
    Ids = {i1, i2, i3}
    Calls = {c1}
    Junk = Junk
    None = None
    FailSets <- MCFailSets
    OtherReports <- MCOtherReports
SYMMETRY MCSymmetry
CHECK_DEADLOCK FALSE
INVARIANTS RowsAreSorted ReportIsValid PlanCompletesReport RecordingIsTrue
