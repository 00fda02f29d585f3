\* Two handlers, two addresses, three registrations, and a connection more than
\* handlers; without symmetry.
SPECIFICATION FairSpec
CONSTANTS
    Requests = {r1, r2}
    Emails = {e1, e2}
    Pendings = {p1, p2, p3}
    MaxOpen = 3
    None = None
INVARIANTS
    TypeOK
    UsedIffRegistered
PROPERTIES
    RegistrationIsFinal
    AtomicRegistration
    ConfirmationEnds
CHECK_DEADLOCK FALSE
