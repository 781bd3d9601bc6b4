SPECIFICATION Spec
CONSTANTS
    Projects = {p1}
    Issues = {1, 2, 3}
    ProjectOf <- OneProject
    Runs = {r1, r2}
    Overlap = 1
    Minute = 2
    Skews = {1}
    PageSize = 1
    HardCap = 1
    FaultPhases = {"ready", "enum"}
    MaxTime = 2
    MaxEdits = 3
SYMMETRY RunSymmetry
INVARIANTS TypeOK GapsExplained
