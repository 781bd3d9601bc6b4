SPECIFICATION Spec
CONSTANTS
    Conns = {c1, c2}
    Manifests <- ThreeManifests
    IssueOf <- ThreeIssues
    Queries <- FourQueries
    Boards <- BoardsFound
    Sprints <- SprintsFound
    SprintQueries <- FourSprintQueries
    Fields <- SiteFields
    Lists = {"points", "issues", "objects", "boards", "global"}
    Limit = 1
    None = None
    MaxLoads = 2
    MaxOpen = 2
    MaxFailures = 1
    MaxRows = 13
INVARIANTS TypeOK NothingSkipped NothingElse NothingTwice PriorPointChain
