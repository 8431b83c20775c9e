SPECIFICATION Spec
CONSTANTS
    c1 = c1  c2 = c2  u1 = u1  u2 = u2
    NoConn = NoConn  NoUser = NoUser
    Conns = {c1, c2}
    Users = {u1, u2}
    Accounts = {u1, u2}
    Homes = {u1, u2}
    Mails <- FiveMails
    Owner <- FirstUserOwnsThree
    Late <- LastIsLate
    Dir <- Ascending
    Octets <- TotalSize
    Login <- SecondIsShared
    Slow = {}
    Readers = {}
    MaxArg = 3
    MaxBatch = 1
    MaxLeaks = 0
    MAX_MAILS = 2
    WbSize = 1
INVARIANTS TypeOK LoginSticks StatAnswersMaildrop OwnFilesOnly
PROPERTIES OnlyMarkedRemoved QuitRemovesMarked RemovedByOwnQuit
