\* A behaviour asks one question and stops, but for the rate limiter, which
\* stops when its clock and its callers have.
CONSTANTS
  SEARCH_CANDIDATE_MULTIPLIER = 1
  SEARCH_CANDIDATE_FLOOR = 2
  max_top_k = 3
  PAGE_SIZE = 2
  MILVUS_MAX_TOP_K = 3
  U32 = 16
  MAX_ENTRIES = 2
  Token = 2
  Capacity = 4
  Refill = 1
  MaxTime = 3
  Callers = {c1, c2}
  Addresses = {a, b}
  CANDLE_MAX_NEW_TOKENS = 3
SPECIFICATION Spec
INVARIANT FilterSurvivesTheWire
INVARIANT RanksTheBest
INVARIANT StoresGiveBackEverything
INVARIANT StoresFindTheBest
INVARIANT InstallsOnlyItself
INVARIANT RequestsAreGuarded
INVARIANT BudgetHolds
INVARIANT OnlyAsConfigured
INVARIANT RemoteAsLocal
INVARIANT NothingIsMixedUp
CHECK_DEADLOCK FALSE
