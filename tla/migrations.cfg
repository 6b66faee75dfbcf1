SPECIFICATION FairSpec
CONSTANTS
  Nobody = Nobody
  Runs = {m1, m2}
  Emulator = TRUE
  MaxStarts = 3
INVARIANTS
  TypeOK
  SuccessMeansComplete
  FirstRunIsNotRefused
PROPERTIES
  RunsEnd
