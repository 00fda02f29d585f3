\* Three requests race on two codes, with every handler the server composes.
SPECIFICATION Spec
CONSTANTS
    Requests = {r1, r2, r3}
    Codes = {c1, c2}
    Handlers = {"explicit", "openid", "pkce"}
    SubjectSet = TRUE
    Lifespan = 1
    MaxTime = 1
    MayFail = TRUE
    None = None
INVARIANTS
    TypeOK
    OneSpender
PROPERTIES
    SpentCodeSealed
CHECK_DEADLOCK FALSE
