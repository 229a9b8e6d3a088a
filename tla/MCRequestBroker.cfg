CONSTANTS
  Listers = {l1, l2}
  Openers = {o1}
  Flights = {f1, f2}
  NoFlight = NoFlight
  Nobody = Nobody
  Slots = 1
SPECIFICATION FairSpec
INVARIANTS
  TypeOK
  WaitersServed
  ListsShared
PROPERTIES
  CallsEnd
