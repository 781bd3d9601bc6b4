SPECIFICATION Spec
CONSTANTS
    Points = {p1, p2}
    MaxScans = 3
    MaxTime = 2
INVARIANT NewestIsSurfaced
PROPERTIES ReplacedStaysReplaced ScansSettle
