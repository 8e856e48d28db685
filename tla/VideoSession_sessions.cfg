SPECIFICATION FairSpec
CONSTANTS
    c1 = c1
    c2 = c2
    c3 = c3
    None = None
    Commands = {c1, c2, c3}
    MaxPrivacy = 1
INVARIANTS SessionsAccounted
PROPERTIES SessionEnds ClipEnds
CHECK_DEADLOCK FALSE
