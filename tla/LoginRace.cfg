\* Two handlers race on one challenge of one user, with max_attempts cut from
\* 5 to 2 and a session id more than handlers; without symmetry, since
\* WithdrawalEndsEarlierSessions is a temporal formula.
SPECIFICATION Spec
CONSTANTS
    Users = {u1}
    Requests = {r1, r2}
    Challenges = {c1}
    Sessions = {s1, s2, s3}
    AuthRequests = {}
    MaxAttempts = 2
    None = None
INVARIANTS
    AttemptsBounded
    SessionsPerChallenge
PROPERTIES
    SealedChallenge
    WithdrawalEndsEarlierSessions
CHECK_DEADLOCK FALSE
