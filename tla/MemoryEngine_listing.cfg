CONSTANTS
  alice = alice
  bob = bob
  agent = agent
  tea = tea
  chai = chai
  assam = assam
  old = old
  NoValue = NoValue
  t1 = t1
  t2 = t2
  Threads = {t1, t2}
  MaxId = 2
  Tags <- MCTags
  Scopes <- SeparateScopes
  Metas <- NoMetas
  Stale <- NoMetas
  Contents <- OneContent
  Entities <- NoEntities
  EntitiesOf <- NothingFound
  Ops = {"add", "delete", "list"}
  Adders = {t1, t2}
  MaxItems = 1
  Faults = {}
SPECIFICATION Spec
SYMMETRY ThreadSymmetry
INVARIANT ListStaysInScope
