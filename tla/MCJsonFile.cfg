SPECIFICATION FileSpec
CONSTANTS
    h3 = h3
    p1 = p1
    p2 = p2
    Handles = {h1, h2, h3}
    Pids = {p1, p2}
    Pid <- MCPid
    Iris = {a}
    MaxOpen = 2
    MaxWrites = 2
    NoName = NoName
SYMMETRY Symmetry
INVARIANTS FileWhole SavesOwnDump TempsAccountedFor
PROPERTY NothingLostAlone
