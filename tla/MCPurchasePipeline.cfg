CONSTANTS
  Signals = {s1, s2}
  NoSignal = NoSignal
SPECIFICATION FairSpec
INVARIANTS
  TypeOK
  PurchaseExclusive
  OneLateBuy
  LoadedTradesWatched
PROPERTIES
  BuysOverlapOnlyRetired
  LockReleased
  KeepsJournal
