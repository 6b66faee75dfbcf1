SPECIFICATION FairSpec
CONSTANTS
  None = None
  Products = {p1, p2, p3}
  Categories = {c1}
  Stamps <- MCStamps
  Filters <- ActiveOnly
  Asked <- OnePageSize
  DefaultPageSize = 1
  MaxPageSize = 2
PROPERTIES
  WalkEnds
