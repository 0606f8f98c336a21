CONSTANTS
  alice = alice
  bob = bob
  agent = agent
  tea = tea
  chai = chai
  assam = assam
  old = old
  NoValue = NoValue
  t1 = t1
  t2 = t2
  Threads = {t1, t2}
  MaxId = 2
  Tags <- MCTags
  Scopes <- OneScope
  Metas <- NoMetas
  Stale <- NoMetas
  Contents <- OneContent
  Entities <- OneEntity
  EntitiesOf <- TeaMentionsAssam
  Ops = {"add", "update", "delete", "reset", "list"}
  Adders = {t1, t2}
  MaxItems = 1
  Faults = {"embed", "insert", "search", "get", "update", "delete", "list"}
SPECIFICATION FairSpec
INVARIANT EngineInv
PROPERTY EveryCallReturns
