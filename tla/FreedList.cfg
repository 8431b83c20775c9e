SPECIFICATION Spec
CONSTANTS
    c1 = c1  c2 = c2
    Conns = {c1, c2}
    BYTE = 10
    Letters = {6, 7, 8}
    Digits = {6}
    Slash = 9
    TOKEN_SIZE = 1
    MAX_NAME = 3
    MAX_PATH = 9
    MAX_PASS_LEN = 1
    MAX_ADMIN = 2
    max_pool = 1
    Padding = 1
    Asks <- Everything
    Hasty = {}
    MaxRuns = 2
    Root <- DefaultAdmin
    Foo <- DefaultUser
INVARIANT NoFreedList
