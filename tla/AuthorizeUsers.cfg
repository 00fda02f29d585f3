\* Two users, one login handler and one visit.
SPECIFICATION Spec
CONSTANTS
    Users = {u1, u2}
    Requests = {r1}
    Challenges = {c1, c2}
    Sessions = {s1, s2}
    MaxAttempts = 1
    AuthRequests = {q1}
    Visits = {v1}
    Codes = {k1}
    MaxTime = 1
    None = None
SYMMETRY Symmetry
INVARIANTS
    TypeOK
    CodeAfterLogin
    AuthTimeNotBefore
PROPERTIES
    ExpiredRequestIsClosed
CHECK_DEADLOCK FALSE
