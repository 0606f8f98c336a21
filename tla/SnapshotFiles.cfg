CONSTANTS
  t1 = t1
  t2 = t2
  v1 = v1
  v2 = v2
  Programs = {"server", "mcp", "cli"}
  Threads = {t1, t2}
  Daemon = Daemon
  MaxId = 2
  Kept = 1
  MaxRequests = 2
  Values = {v1, v2}
  Nothing = Nothing
  Broken = Broken
SPECIFICATION Spec
SYMMETRY Symmetry
INVARIANT TypeOK
INVARIANT ChangesAreSaved
INVARIANT FilesParse
