SPECIFICATION SpecAll
CONSTANTS
    Starters = {s1}
    Users = {u1}
    Closers = {c1}
    Impatient = {c1, s1}
    NoProc = NoProc
    NoRpc = NoRpc
    Reaper = Reaper
    Unbinder = Unbinder
    MailboxCap = 1
    h1 = h1
    h2 = h2
    o1 = o1
    o2 = o2
    w = w
    Nothing = Nothing
PROPERTIES ClosedSessionDies UnbindKills StoreOpens
CHECK_DEADLOCK FALSE
