SPECIFICATION SpecAll
CONSTANTS
    Hosts = {h1, h2, h3}
    Windows = {w1}
    Guests = {g1}
    Reloaders = {r1}
    Watcher = watcher
    NoHost = NoHost
    NoProc = NoProc
    Nothing = Nothing
    MaxAttempts = 2
    MaxCalls = 1
    MaxDoc = 2
SYMMETRY Symmetry
INVARIANTS TypeOK HostsTakeTurns TitleKeepsRuntime RunKeepsStore GuestsKeepHost PluginsAreWhole AgentsConsistent
PROPERTIES ImplementsGenerations
CHECK_DEADLOCK FALSE
