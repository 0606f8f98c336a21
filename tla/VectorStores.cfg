CONSTANTS
  c1 = c1
  c2 = c2
  i1 = i1
  i2 = i2
  Backends = {"sqlite", "postgres", "qdrant", "chroma", "milvus"}
  Callers = {c1, c2}
  Daemon = Daemon
  Ids = {i1, i2}
  Values <- MCValues
  NoText = "none"
  Fixed = 1
  MaxCalls = 2
  Nothing = Nothing
  NoCall = NoCall
SPECIFICATION Spec
INVARIANT TypeOK
INVARIANT WordsFollowRecords
INVARIANT OneDimension
INVARIANT CollectionExists
PROPERTY ContractHolds
PROPERTY CallsReturn
