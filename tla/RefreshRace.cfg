\* Two requests race on one family of tokens; any step may fail.
SPECIFICATION Spec
CONSTANTS
    Requests = {r1, r2}
    Users = {u1}
    Tokens = {t1, t2, t3, t4}
    MaxFamilies = 1
    MayFail = TRUE
    None = None
SYMMETRY Symmetry
INVARIANTS
    TypeOK
    FamilyTree
    ChildrenBounded
    OneLiveUnlessForked
PROPERTIES
    DeadFamilySealed
    StrandedFamilySealed
    StoredTokensAreCaught
CHECK_DEADLOCK FALSE
