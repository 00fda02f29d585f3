\* The code and OpenID handlers without PKCE, where exchanges can succeed.
SPECIFICATION FairSpec
CONSTANTS
    Requests = {r1, r2, r3}
    Codes = {c1}
    Handlers = {"explicit", "openid"}
    SubjectSet = TRUE
    Lifespan = 2
    MaxTime = 2
    MayFail = FALSE
    None = None
INVARIANTS
    OpenIDAfterGrant
PROPERTIES
    OneTimeUse
    PresentedCodeIsGranted
CHECK_DEADLOCK FALSE
