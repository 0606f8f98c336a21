CONSTANTS
  p1 = p1
  p2 = p2
  s1 = s1
  s2 = s2
  Processes = {p1}
  Sessions = {s1, s2}
  MaxRunning = 1
  Crashes = FALSE
  StaleAge = 1
  MinAge = 1
  MinSessions = 3
  MaxCount = 3
  MaxTime = 1
  Nothing = Nothing
SPECIFICATION CountSpec
INVARIANT SessionsAreDistinct
