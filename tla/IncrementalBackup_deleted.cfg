SPECIFICATION Spec
CONSTANTS
    Projects = {p1}
    Issues = {1, 2}
    ProjectOf <- OneProject
    Runs = {r1, r2}
    Overlap = 2
    Minute = 2
    Skews = {2}
    PageSize = 2
    HardCap = 100
    FaultPhases = {}
    MaxTime = 4
    MaxEdits = 4
INVARIANT DeletedMeansRemoved
