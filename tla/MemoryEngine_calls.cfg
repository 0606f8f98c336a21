CONSTANTS
  alice = alice
  bob = bob
  agent = agent
  tea = tea
  chai = chai
  assam = assam
  old = old
  NoValue = NoValue
  t1 = t1
  t2 = t2
  Threads = {t1, t2}
  MaxId = 2
  Tags <- MCTags
  Scopes <- SeparateScopes
  Metas <- OldMetas
  Stale <- OldMetas
  Contents <- TwoContents
  Entities <- NoEntities
  EntitiesOf <- NothingFound
  Ops = {"add", "procedural", "update", "delete", "reset", "list"}
  Adders = {t1, t2}
  MaxItems = 2
  Faults = {}
SPECIFICATION Spec
SYMMETRY ThreadSymmetry
INVARIANT DeletedIsFinal
INVARIANT ScopeIsFixed
INVARIANT ResetIsComplete
INVARIANT ListedRecordsMatch
INVARIANT HistoryIsComplete
PROPERTY ResetStaysInScope
