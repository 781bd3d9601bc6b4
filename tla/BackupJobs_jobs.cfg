SPECIFICATION FairSpec
CONSTANTS
    Jobs = {j1, j2}
    Kinds = {"backup", "restore", "aliasRestore"}
    Timeout = 2
    BeatEvery = 1
    GuardEvery = 2
INVARIANTS TypeOK CompletedHasPoint LiveJobRuns
PROPERTIES OutcomeIsFinal SavedHistoryIsKept RunningJobsSettle
