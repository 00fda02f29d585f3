\* Two users and a pending authorization request: what the rows of one user
\* may owe to another's.
SPECIFICATION Spec
CONSTANTS
    Users = {u1, u2}
    Requests = {r1, r2}
    Challenges = {c1, c2}
    Sessions = {s1, s2}
    AuthRequests = {q1}
    MaxAttempts = 2
    None = None
SYMMETRY Symmetry
INVARIANTS
    TypeOK
    SessionBacked
    CompletedAfterMFA
PROPERTIES
    NoLoginAfterWithdraw
CHECK_DEADLOCK FALSE
