CONSTANTS
  alice = alice
  bob = bob
  agent = agent
  tea = tea
  chai = chai
  assam = assam
  old = old
  NoValue = NoValue
  t1 = t1
  t2 = t2
  Threads = {t1, t2}
  MaxId = 3
  Tags <- MCTags
  Scopes <- NestedScopes
  Metas <- NoMetas
  Stale <- NoMetas
  Contents <- OneContent
  Entities <- OneEntity
  EntitiesOf <- TeaMentionsAssam
  Ops = {"add", "update", "delete"}
  Adders = {t1, t2}
  MaxItems = 1
  Faults = {"insert", "update", "delete"}
SPECIFICATION Spec
SYMMETRY ThreadSymmetry
INVARIANT LinksStayInScope
PROPERTY RecordsLiveOnce
