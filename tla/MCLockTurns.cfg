SPECIFICATION LockSpec
CONSTANTS
    Procs = {p, q}
    LockWait = 8
    LockTurn = 3
    TurnPause = 4
    BusyPoll = 1
    Late = 1
    WorkMax = 1
    CommitMax = 1
    Unset = Unset
SYMMETRY Symmetry
INVARIANTS TurnBounded WaitBounded WholeTurnsServe
PROPERTIES LeavesLockFree
