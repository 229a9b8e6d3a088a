CONSTANTS
  Requests = {r1, r2, r3}
  NoOwner = NoOwner
SPECIFICATION Spec
SYMMETRY Symmetry
INVARIANTS
  TypeOK
  StopFenceDurable
  OwnerKnown
  OnlyUnfencedWritersRestart
PROPERTY
  LimitStopHolds
