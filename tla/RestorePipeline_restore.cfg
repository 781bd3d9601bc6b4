SPECIFICATION FairSpec
CONSTANTS
    Items <- Basket
    KindOf <- BasketKinds
    BoardOf <- BasketBoards
    Existing <- Known
    Threshold = 50
    Modes = {"skip", "override", "ask"}
INVARIANTS PendingAgrees StoredAgrees CountsAgree StatusAgrees
PROPERTY RestoreSettles
