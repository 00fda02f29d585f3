\* As many confirmations as connections.
SPECIFICATION Spec
CONSTANTS
    Requests = {r1, r2}
    Emails = {e1}
    Pendings = {p1, p2}
    MaxOpen = 2
    None = None
INVARIANTS
    CheckRunsInTransaction
CHECK_DEADLOCK FALSE
