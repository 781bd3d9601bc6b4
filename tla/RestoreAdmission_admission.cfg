\* The checks before a restore, while users consent and projects change.
SPECIFICATION AdmissionSpec
\* A restore that was refused, or that writes, is over.
CHECK_DEADLOCK FALSE
CONSTANTS
    None = None
    Sites = {"here", "there"}
    SiteOf <- MCSiteOf
    Keys = {"P"}
    SiteFields <- MCSiteFields
    NewNames = {"Team"}
    LowerCase <- MCLower
    IdContains <- MCContains
    Snapshots <- MCItems
    Requests <- MCRequests
    Ungranted <- MCUngranted
    Attempts = 1
    MaxEvents = 5
INVARIANTS ScopesCoverWrites AdmittedIsFresh MapKeepsNames DegradedIsReal
