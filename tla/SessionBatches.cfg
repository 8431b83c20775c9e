SPECIFICATION FairSpec
CONSTANTS
    c1 = c1  c2 = c2  u1 = u1  u2 = u2
    NoConn = NoConn  NoUser = NoUser
    Conns = {c1, c2}
    Users = {u1, u2}
    Accounts = {u1}
    Homes = {u1}
    Mails <- OneMail
    Owner <- FirstUserOwnsAll
    Late = {}
    Dir <- Ascending
    Octets <- TotalSize
    Login <- SecondIsStranger
    Slow = {c1, c2}
    Readers = {c1}
    MaxArg = 1
    MaxBatch = 3
    MaxLeaks = 1
    MAX_MAILS = 1
    WbSize = 3
INVARIANTS CountsLiveSessions FlowControl OneReplyPerCommand MailOnlyAfterLogin
PROPERTIES QuitCloses RepliesDrain
