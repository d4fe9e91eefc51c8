SPECIFICATION FairSpec
CONSTANTS
    r1 = r1  r2 = r2  a = a  b = b  c = c  d = d
    Request = {r1, r2}
    Key = {a, b, c}
    KeyOf <- MCKeyOfTwo
    Prompt <- MCFirst
    Block = {g1, g2, g3}
    Rank = {here}
    Here = here
    Slots = 3
    Eagle = FALSE
    Depth = 2
    Failures = FALSE
    ResetKinds <- MCNoReset
    MaxJobs = 3
    MaxPreempts = 1
    MaxResets = 0
CHECK_DEADLOCK FALSE
INVARIANTS
    StoreSourceIntact
    PrefixIntact
PROPERTIES
    LoadResolves
    FinishedForgotten
