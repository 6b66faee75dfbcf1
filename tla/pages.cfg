SPECIFICATION Spec
CONSTANTS
  None = None
  Products = {p1, p2, p3}
  Categories = {c1, c2}
  Stamps <- MCStamps
  Filters <- EveryFilter
  Asked <- EveryPageSize
  DefaultPageSize = 1
  MaxPageSize = 2
SYMMETRY Interchangeable
INVARIANTS
  NothingMissed
  NothingTwice
  TotalAddsUp
