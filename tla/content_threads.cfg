SPECIFICATION FairSpec
CONSTANTS
    login = login
    game = game
    Nobody = Nobody
    LoginThread = login
    GameThreads <- OneGame
    Moves <- AllMoves
    Slot = {1, 2}
    MaxAlloc = 3
    MaxJobs = 1
INVARIANTS TypeOK OnePlace NoLockCycle
PROPERTIES IsContent LeaveAnswered
