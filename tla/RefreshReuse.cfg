\* A refresh and a retry of it overlap on one family; nothing fails.
SPECIFICATION Spec
CONSTANTS
    Requests = {r1, r2}
    Users = {u1}
    Tokens = {t1, t2, t3}
    MaxFamilies = 1
    MayFail = FALSE
    None = None
INVARIANTS
    ReusedFamilyIsDead
CHECK_DEADLOCK FALSE
