\* One user and two login handlers, which may withdraw the user while the other
\* verifies a challenge; without symmetry.
SPECIFICATION FairSpec
CONSTANTS
    Users = {u1}
    Requests = {r1, r2}
    Challenges = {c1}
    Sessions = {s1, s2}
    MaxAttempts = 1
    AuthRequests = {q1}
    Visits = {v1}
    Codes = {k1}
    MaxTime = 0
    None = None
PROPERTIES
    WithdrawnOutOfReach
    WithdrawnGetsNoCodeInTheEnd
CHECK_DEADLOCK FALSE
