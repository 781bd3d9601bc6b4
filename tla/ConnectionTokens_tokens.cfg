SPECIFICATION Spec
CONSTANTS
    Conns = {c1, c2}
    Sites = {a}
    Callers = {q1, q2}
    Consents = {s1, s2}
    Events = {"reauthenticate", "delete", "restore", "single site", "lost answers", "revocation"}
    MaxTokens = 3
SYMMETRY TokenSymmetry
INVARIANTS TypeOK OneExchangePerToken NoSharedToken TokenKept NeedsReauthIsReal
PROPERTY DeletedEndsByWork
