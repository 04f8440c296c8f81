SPECIFICATION Spec
CONSTANTS
    Procs = {p1, p2, p3}
    Runs = {r1, r2}
    Blank = {r2}
    Lockless = {p3}
    NoProc = noproc
    Cap = 1
    MaxBoots = 1
SYMMETRY Symmetry
INVARIANT TypeOK
PROPERTIES TraceSurvives HolderIsNotRecovered PassSettles
CHECK_DEADLOCK FALSE
