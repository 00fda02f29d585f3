\* Three processes of two releases; the second file may be run again without an
\* error; two failures from outside.
SPECIFICATION FairSpec
CONSTANTS
    p1 = p1
    p2 = p2
    p3 = p3
    Processes = {p1, p2, p3}
    Directory <- Releases
    Rerunnable = {2}
    MaxFailures = 2
INVARIANTS
    TypeOK
    AppliedOnce
    InOrderForEach
    InOrder
PROPERTIES
    AllComplete
CHECK_DEADLOCK FALSE
