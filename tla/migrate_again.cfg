SPECIFICATION Spec
CONSTANTS
  Nobody = Nobody
  Runs = {m1, m2}
  Emulator = FALSE
  MaxStarts = 2
SYMMETRY Interchangeable
INVARIANTS
  SafeToRunAgain
