SPECIFICATION LiveSpec
CONSTANTS
  Hosts = {h1, h2, h3}
  Windows = {w1}
  Guests = {}
  Reloaders = {r1}
  Watcher = watcher
  NoHost = NoHost
  NoProc = NoProc
  MaxAttempts = 2
  MaxCalls = 2
  MaxDoc = 1
  s1 = s1
  d1 = d1
  d2 = d2
  p1 = p1
  p2 = p2
  k1 = k1
  k2 = k2
  Note = Note
  Nothing = Nothing
PROPERTIES StaleRetires EveryCallReturns DeletedTurnStops DeletionReturns PluginsLetGo
CHECK_DEADLOCK FALSE
