SPECIFICATION Spec
CONSTANTS
    r1 = r1  r2 = r2  a = a  b = b  c = c  d = d
    Request = {r1, r2}
    Key = {a, b, c}
    KeyOf <- MCKeyOfTwo
    Prompt <- MCAll
    Block = {g1, g2, g3}
    Rank = {here, there}
    Here = here
    Slots = 2
    Eagle = FALSE
    Depth = 1
    Failures = TRUE
    ResetKinds <- MCNoReset
    MaxJobs = 3
    MaxPreempts = 1
    MaxResets = 0
SYMMETRY MCSymmetryOfTwo
CHECK_DEADLOCK FALSE
INVARIANTS PrefixIntact JobsOK
