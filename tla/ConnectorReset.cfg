SPECIFICATION Spec
CONSTANTS
    r1 = r1  r2 = r2  a = a  b = b  c = c  d = d
    Request = {r1, r2}
    Key = {a, b, c, d}
    KeyOf <- MCKeyOfThree
    Prompt <- MCAll
    Block = {g1, g2, g3, g4}
    Rank = {here, there}
    Here = here
    Slots = 3
    Eagle = TRUE
    Depth = 1
    Failures = FALSE
    ResetKinds <- MCResetConnector
    MaxJobs = 3
    MaxPreempts = 1
    MaxResets = 1
SYMMETRY MCSymmetry
CHECK_DEADLOCK FALSE
INVARIANTS
    StoreSourceIntact
    FinishedAccounted
    NoHole
