CONSTANTS
  EnterAfter = 2
  ExitAfter = 2
  Duration = 2
  BufferSize = 2
  MaxSeq = 7
  MaxRestarts = 2
SPECIFICATION FairSpec
INVARIANTS
  TypeOK
  NoRealUnderObservation
PROPERTIES
  HookIsServed
  BarredOnceArmed
  ObservationEnds
