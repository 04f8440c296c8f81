SPECIFICATION SpecAll
CONSTANTS
    Starters = {x1, x2}
    Users = {u1}
    Closers = {c1}
    Impatient = {}
    NoProc = NoProc
    NoRpc = NoRpc
    Reaper = Reaper
    Unbinder = Unbinder
    MailboxCap = 1
    Nothing = Nothing
SYMMETRY Symmetry
INVARIANTS ProcessesKept OutputIsKept
PROPERTIES HandoverIsClean
CHECK_DEADLOCK FALSE
