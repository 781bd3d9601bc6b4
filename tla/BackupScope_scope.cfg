SPECIFICATION Spec
CONSTANTS
    Runs = {r1, r2}
    Projects = {1, 2}
    Selections <- AllOrOne
    PageSize = 1
    CustomFields = {1, 2}
    Chunk = 1
    HasWebhookScope = TRUE
    MaxHooks = 2
SYMMETRY RunSymmetry
INVARIANTS ScopeIsComplete SiteIsComplete HookOutlivesRun
