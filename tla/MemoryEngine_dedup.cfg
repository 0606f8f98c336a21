CONSTANTS
  alice = alice
  bob = bob
  agent = agent
  tea = tea
  chai = chai
  assam = assam
  old = old
  NoValue = NoValue
  t1 = t1
  t2 = t2
  Threads = {t1, t2}
  MaxId = 3
  Tags <- MCTags
  Scopes <- NestedScopes
  Metas <- NoMetas
  Stale <- NoMetas
  Contents <- TwoContents
  Entities <- NoEntities
  EntitiesOf <- NothingFound
  Ops = {"add", "delete", "reset"}
  Adders = {t1}
  MaxItems = 2
  Faults = {}
SPECIFICATION Spec
INVARIANT NoDuplicateFacts
