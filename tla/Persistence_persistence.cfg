\* Saves, crashes, restarts and failures of the disk, in any order.
SPECIFICATION StoreSpec
CONSTANTS
    r1 = r1
    r2 = r2
    r3 = r3
    Records <- MCRecords
    MaxFailures = 2
INVARIANT WholeBeforeRename
PROPERTIES SavesWhole EventuallySaved
