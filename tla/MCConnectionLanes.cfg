CONSTANTS
  Sessions = {s1, s2, s3}
  Limit = 2
SPECIFICATION FairSpec
INVARIANTS
  TypeOK
  LanesCounted
  SleeperHasWaker
PROPERTIES
  QueuedGetsLane
