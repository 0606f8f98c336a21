CONSTANTS
  p1 = p1
  p2 = p2
  s1 = s1
  s2 = s2
  Processes = {p1, p2}
  Sessions = {s1, s2}
  MaxRunning = 2
  Crashes = FALSE
  StaleAge = 1
  MinAge = 1
  MinSessions = 1
  MaxCount = 1
  MaxTime = 1
  Nothing = Nothing
SPECIFICATION Spec
SYMMETRY Symmetry
INVARIANT OneConsolidation
