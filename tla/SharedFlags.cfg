SPECIFICATION Spec
CONSTANTS
    c1 = c1  c2 = c2  u1 = u1  u2 = u2
    NoConn = NoConn  NoUser = NoUser
    Conns = {c1, c2}
    Users = {u1, u2}
    Accounts = {u1}
    Homes = {u1}
    Mails <- ThreeMails
    Owner <- FirstUserOwnsAll
    Late = {}
    Dir <- Ascending
    Octets <- TotalSize
    Login <- Shared
    Slow = {}
    Readers = {c1}
    MaxArg = 3
    MaxBatch = 1
    MaxLeaks = 1
    MAX_MAILS = 3
    WbSize = 1
PROPERTY SharedOnlyMarkedRemoved
