SPECIFICATION ReplySpec
CONSTANTS
  None = None
  Texts <- MCTexts
  EmptyText <- MCEmptyText
  MaxStorablePrice = 2
  MaxDiscountDuration = 2
  Hundred = 100
  ColumnUnit = 10
  NaN = NaN
  Products = {p1}
  Workers = {w1, w2}
  Clients = {k1, k2}
  CreateRequests <- OneCreate
  UpdateRequests <- RetriedRequests
  MaxLead = 0
  MaxVersion = 3
  MaxTime = 0
  VersionGiven = {TRUE}
  MaxAttempts = 2
SYMMETRY Interchangeable
INVARIANTS
  ConflictIsAborted
