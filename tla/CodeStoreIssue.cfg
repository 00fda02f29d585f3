\* An undisturbed /authorize of the program, whose sessions name no subject.
SPECIFICATION FairSpec
CONSTANTS
    Requests = {r1}
    Codes = {c1}
    Handlers = {"explicit", "openid", "pkce"}
    SubjectSet = FALSE
    Lifespan = 2
    MaxTime = 1
    MayFail = FALSE
    None = None
PROPERTIES
    AuthorizedRequestGetsCode
CHECK_DEADLOCK FALSE
