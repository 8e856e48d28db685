SPECIFICATION FairSpec
CONSTANTS
    i1 = i1
    i2 = i2
    GivenIds = {i1, i2}
    Absent = Absent
    Empty = Empty
    Messages <- MCMessages
    Debounce = 1
    UnsafeSocket = TRUE
    MaxUid = 2
    MaxClock = 1
    MaxLife = 2
INVARIANTS TypeOK OneTrueAnswer AcceptedIdsAccounted RowsAgreeWithAnswers
PROPERTIES IngressOrder ImplementsService EveryCommandAnswered ShutdownCompletes
CHECK_DEADLOCK FALSE
