\* A field without a namesake on the target is written under its source id.
SPECIFICATION AdmissionSpec
\* A restore that was refused, or that writes, is over.
CHECK_DEADLOCK FALSE
CONSTANTS
    None = None
    Sites = {"here", "there"}
    SiteOf <- MCSiteOf
    Keys = {"P"}
    SiteFields <- MCSiteFields
    NewNames = {"Team"}
    LowerCase <- MCLower
    IdContains <- MCContains
    Snapshots <- MCItems
    Requests <- MCRequests
    Ungranted <- MCUngranted
    Attempts = 1
    MaxEvents = 5
INVARIANT FieldsGoHome
