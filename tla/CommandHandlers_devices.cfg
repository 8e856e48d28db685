SPECIFICATION HandlersSpec
CONSTANTS
    Nothing = Nothing
    Lids = {1, 2}
    LidIds = {1, 2}
    Actions <- MCActions
    Angles <- MCAngles
    Timeouts <- MCTimeouts
    KindSets <- MCKinds
    Debounce = 2
    MaxCommands = 3
    MaxWithLids = 1
    MaxSweeps = 1
    MaxClock = 2
    MaxMoves = 2
    MaxTrail = 3
    MaxLives = 2
INVARIANTS HandlersTypeOK AnswersTrue CameraTracked
PROPERTIES LidEvents
CHECK_DEADLOCK FALSE
