SPECIFICATION FairReplySpec
CONSTANTS
  None = None
  Texts <- MCTexts
  EmptyText <- MCEmptyText
  MaxStorablePrice = 2
  MaxDiscountDuration = 2
  Hundred = 100
  ColumnUnit = 10
  NaN = NaN
  Products = {p1}
  Workers = {w1, w2}
  Clients = {k1, k2}
  CreateRequests <- OneCreate
  UpdateRequests <- RetriedRequests
  MaxLead = 0
  MaxVersion = 2
  MaxTime = 0
  MaxAttempts = 2
  VersionGiven = {TRUE, FALSE}
INVARIANTS
  ReplyTypeOK
  AppliedAtMostOnce
  OKTellsTheVersion
  FirstRefusalIsFinal
PROPERTIES
  CallsEnd
