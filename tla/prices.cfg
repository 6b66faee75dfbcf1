SPECIFICATION Spec
CONSTANTS
  None = None
  Limit = 8
  Decimals = 5
  FloatGrid = 8
  Fractions <- MCFractions
  Percents <- MCPercents
  MaxDiscountDuration = 2
  MaxTime = 3
INVARIANTS
  PricesAreStoredExactly
  NoPriceOverflows
  StoredDiscountLoads
  EffectivePriceInRange
  ViewsAgree
PROPERTIES
  PriceFollowsTheWindow
