SPECIFICATION Spec
CONSTANTS
    ITEMS_MAX_SIZE = 8
    MAX_SOCKS = 3
    MaxFd = 6
    Passive = {1, 2}
    Monitors = {2}
    Other = {0}
INVARIANT ItemsInTable
