SPECIFICATION FairSpec
CONSTANTS
    FileSet <- Messages
    BUFFER_SIZE = 10
    MaxBody = 2
    MaxInput = 1
INVARIANTS TypeOK WatchedWhileSending
PROPERTIES SendsTheMessage ClosedOnlyIfDisturbed TransferEnds
