SPECIFICATION Spec
CONSTANTS
    cr = cr  lf = lf  sp = sp  a = a  b = b
    CR = cr
    LF = lf
    SP = sp
    Others = {a, b}
    COMMAND_SIZE = 2
    ARG_SIZE = 1
    MaxLine = 8
INVARIANTS TypeOK OneCommandPerLine ReadsTheLine
