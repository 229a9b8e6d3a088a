CONSTANTS
  Accounts = {a1, a2}
  LastSchedule = 2
  AccountOf <- OneEach
  MaxStarts = 1
  MaxRestarts = 0
SPECIFICATION FairSpec
PROPERTY DueAdmitted
