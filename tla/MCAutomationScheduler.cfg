CONSTANTS
  Accounts = {a1}
  LastSchedule = 2
  AccountOf <- OneAccount
  MaxStarts = 1
  MaxRestarts = 1
SPECIFICATION FairSpec
INVARIANTS
  TypeOK
  StartedOnce
PROPERTIES
  KeepsJobs
  ClaimResolved
  RunningEnds
