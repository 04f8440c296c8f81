SPECIFICATION Spec
CONSTANTS
    Procs = {p1, p2, p3}
    Runs = {r1}
    Blank = {}
    Lockless = {}
    NoProc = noproc
    Cap = 1
    MaxBoots = 1
SYMMETRY Symmetry
PROPERTY LiveIsNotRecovered
CHECK_DEADLOCK FALSE
