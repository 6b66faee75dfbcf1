-------------------------------- MODULE Pricing --------------------------------
(***************************************************************************)
(* What a product costs: exact fractions (domain.Money over big.Rat), the  *)
(* columns they are stored in, the discount with its percentage and its    *)
(* window of time, and the price the domain (CalculateEffectivePrice) and  *)
(* the queries (dataToDTO) make of one stored row as time passes.          *)
(* Commands are atomic here, as in Catalog.                                *)
(***************************************************************************)
EXTENDS Integers

CONSTANTS
  None,
  Limit,                \* 2^63: an int64 is in -Limit .. Limit - 1
  Decimals,             \* 10^9: NUMERIC holds multiples of 1/Decimals
  FloatGrid,            \* a float64 holds multiples of 1/FloatGrid
  Fractions,            \* the prices clients send: numerator and denominator
  Percents,             \* the percentages they send, in multiples of 1/FloatGrid
  MaxDiscountDuration,  \* two years
  MaxTime               \* bound: the last reading of the clock

Int64 == -Limit .. Limit - 1

Fraction == [num : Int, den : Int]

ASSUME PricingAssumption ==
  /\ Limit \in Nat \ {0} /\ Decimals \in Nat \ {0} /\ FloatGrid \in Nat \ {0}
  /\ Fractions \subseteq [num : Int64, den : Int64] /\ Percents \subseteq Int
  /\ MaxDiscountDuration \in Nat /\ MaxTime \in Nat
  /\ None \notin Fraction

--------------------------------------------------------------------------------
(***************************************************************************)
(* big.Rat: a fraction in lowest terms, the denominator positive.          *)
(***************************************************************************)
\* The greatest common divisor of m and n is Gcd[m][n].
Gcd[m \in Nat] == [n \in Nat |-> IF m = 0 THEN n ELSE Gcd[n % m][m]]

\* num / den, for a positive den.
Rat(num, den) ==
  LET g == Gcd[den][IF num < 0 THEN -num ELSE num]
  IN  [num |-> num \div g, den |-> den \div g]

Sub(x, y) == Rat(x.num * y.den - y.num * x.den, x.den * y.den)
Mul(x, y) == Rat(x.num * y.num, x.den * y.den)
AtMost(x, y) == x.num * y.den <= y.num * x.den
Zero == Rat(0, 1)

\* x rounded to a multiple of 1/grid: halves up for NUMERIC, and to the even
\* neighbour for a float64.
ToNumeric(x) == Rat((2 * x.num * Decimals + x.den) \div (2 * x.den), Decimals)

ToFloat(x) ==
  LET below == (x.num * FloatGrid) \div x.den
      rest == 2 * (x.num * FloatGrid - below * x.den)
      up == rest > x.den \/ (rest = x.den /\ below % 2 = 1)
  IN  Rat(IF up THEN below + 1 ELSE below, FloatGrid)

\* Mutant: the fraction is kept as it was given.
NewMoneyAsGiven(num, den) == IF den <= 0 THEN None ELSE [num |-> num, den |-> den]

\* NewMoney, None for its error.
NewMoney(num, den) == IF den <= 0 THEN None ELSE Rat(num, den)

\* Mutant: the largest int64 is refused.
IsSafeForStorageBelow(m) == m.num \in -Limit .. Limit - 2 /\ m.den \in Int64

IsSafeForStorage(m) == m.num \in Int64 /\ m.den \in Int64

IsPositive(m) == m.num > 0

--------------------------------------------------------------------------------
(***************************************************************************)
(* A discount, and the price with it.                                      *)
(***************************************************************************)
Discount == [percent : Fraction, start : Int, end : Int]

\* NewDiscount, for a percentage that is a number (for NaN see ApplyNaN).
ValidPeriod(start, end) == start < end /\ end - start <= MaxDiscountDuration

Valid(d) ==
  /\ AtMost(Zero, d.percent) /\ AtMost(d.percent, Rat(100, 1))
  /\ ValidPeriod(d.start, d.end)

\* Mutant: the end is no longer part of the period.
IsValidAtEndExcluded(d, now) == d.start <= now /\ now < d.end

IsValidAt(d, now) == d.start <= now /\ now <= d.end

\* Mutant: the percentage is taken for the multiplier.
MultiplierOfOne(d) == d.percent

Multiplier(d) == Mul(d.percent, Rat(1, 100))

CalculateDiscountAmount(price, multiplier) == Mul(price, multiplier)

ApplyDiscount(price, multiplier) ==
  Sub(price, CalculateDiscountAmount(price, multiplier))

CalculateEffectivePrice(price, d, now) ==
  IF d # None /\ IsValidAt(d, now) THEN ApplyDiscount(price, Multiplier(d)) ELSE price

--------------------------------------------------------------------------------
VARIABLES
  row,       \* the columns of the product that matter for its price, or None
  clock,
  asked,     \* ghost: the price the client gave last that was accepted, as it gave it
  refusal    \* what ended the last command

vars == << row, clock, asked, refusal >>

Statuses == {"inactive", "active", "archived"}

Init == row = None /\ clock = 0 /\ asked = None /\ refusal = "nil"

\* The aggregate GetByID returns: the columns become a Money and a Discount again.
\* The percentage goes through a float64.
LoadedPrice(r) == NewMoney(r.num, r.den)

LoadedDiscount(d) ==
  IF d = None THEN None ELSE [d EXCEPT !.percent = ToFloat(@)]

\* The error of a price that arrives, or nil.
PriceError(price) ==
  LET m == NewMoney(price.num, price.den)
  IN  IF m = None THEN "InvalidArgument"
      ELSE IF ~IsPositive(m) THEN "ErrInvalidPrice"
      ELSE IF ~IsSafeForStorage(m) THEN "ErrMoneyOverflow"
      ELSE "nil"

\* The end of a command: an error and nothing changed, or the row with its changes.
Done(err, changed) ==
  /\ refusal' = err
  /\ row' = IF err = "nil" THEN changed ELSE row
  /\ UNCHANGED clock

Create(price) ==
  /\ row = None
  /\ LET m == NewMoney(price.num, price.den)
         err == PriceError(price)
     IN  /\ Done(err, [num |-> m.num, den |-> m.den, discount |-> None, status |-> "inactive"])
         /\ asked' = IF err = "nil" THEN price ELSE asked

SetBasePrice(price) ==
  /\ row # None
  /\ LET m == NewMoney(price.num, price.den)
         err == IF row.status = "archived" /\ PriceError(price) \in {"nil", "ErrMoneyOverflow"}
                THEN "ErrCannotModifyArchived" ELSE PriceError(price)
     IN  /\ Done(err, [row EXCEPT !.num = m.num, !.den = m.den])
         /\ asked' = IF err = "nil" THEN price ELSE asked

\* Mutant: the discount is built without NewDiscount's checks.
ApplyErrorUnchecked(d) ==
  CASE row.status = "archived" -> "ErrCannotModifyArchived"
    [] row.status = "inactive" -> "ErrCannotApplyToInactive"
    [] row.discount # None -> "ErrDiscountAlreadyActive"
    [] OTHER -> "nil"

ApplyError(d) ==
  CASE ~Valid(d) -> "invalid"
    [] row.status = "archived" -> "ErrCannotModifyArchived"
    [] row.status = "inactive" -> "ErrCannotApplyToInactive"
    [] row.discount # None -> "ErrDiscountAlreadyActive"
    [] OTHER -> "nil"

\* A discount is requested; its percentage is stored as a NUMERIC.
Apply(percent, start, end) ==
  /\ row # None
  /\ LET d == [percent |-> Rat(percent, FloatGrid), start |-> start, end |-> end]
     IN  Done(ApplyError(d), [row EXCEPT !.discount = [d EXCEPT !.percent = ToNumeric(@)]])
  /\ UNCHANGED asked

\* A percentage that is no number: NaN passes both comparisons of NewDiscount, and
\* with a right period the arithmetic on it panics.  Nothing is stored.
ApplyNaN(start, end) ==
  /\ row # None
  /\ Done(IF ValidPeriod(start, end) THEN "panic" ELSE "invalid", row)
  /\ UNCHANGED asked

RemoveDiscount ==
  /\ row # None
  /\ Done(IF row.status = "archived" THEN "ErrCannotModifyArchived" ELSE "nil",
          [row EXCEPT !.discount = None])
  /\ UNCHANGED asked

\* Activate, Deactivate; Archive takes the discount with it.
SetStatus(status) ==
  /\ row # None
  /\ Done(IF row.status \in {status, "archived"} THEN "refused" ELSE "nil",
          [row EXCEPT !.status = status,
                      !.discount = IF status = "archived" THEN None ELSE @])
  /\ UNCHANGED asked

Tick ==
  /\ clock < MaxTime
  /\ clock' = clock + 1
  /\ refusal' = "nil"
  /\ UNCHANGED << row, asked >>

Next ==
  \/ \E price \in Fractions : Create(price) \/ SetBasePrice(price)
  \/ \E start, end \in 0 .. MaxTime :
       ApplyNaN(start, end) \/ \E percent \in Percents : Apply(percent, start, end)
  \/ RemoveDiscount
  \/ \E status \in Statuses : SetStatus(status)
  \/ Tick

Spec == Init /\ [][Next]_vars

--------------------------------------------------------------------------------
\* What the domain computes from the row.
DomainPrice(now) == CalculateEffectivePrice(LoadedPrice(row), LoadedDiscount(row.discount), now)

\* Mutant: the query compares the end of the period in its own way.
DtoEndExcluded(now) ==
  LET price == LoadedPrice(row)
      d == LoadedDiscount(row.discount)
      active == d # None /\ Valid(d) /\ d.start <= now /\ now < d.end
  IN  [basePrice |-> ToFloat(price),
       effectivePrice |-> ToFloat(IF active THEN ApplyDiscount(price, Multiplier(d)) ELSE price),
       discountActive |-> active,
       discountPercent |-> IF active THEN d.percent ELSE None]

\* dataToDTO: a discount that would not load is passed over in silence; prices
\* leave as float64.
Dto(now) ==
  LET price == LoadedPrice(row)
      d == LoadedDiscount(row.discount)
      active == d # None /\ Valid(d) /\ IsValidAt(d, now)
  IN  [basePrice |-> ToFloat(price),
       effectivePrice |-> ToFloat(IF active THEN ApplyDiscount(price, Multiplier(d)) ELSE price),
       discountActive |-> active,
       discountPercent |-> IF active THEN d.percent ELSE None]

--------------------------------------------------------------------------------
\* A price is stored in lowest terms, as the value the client gave, so that equal
\* prices have equal columns in products and price_history.
PricesAreStoredExactly ==
  row # None =>
    /\ \A d \in 2 .. row.den : ~(row.num % d = 0 /\ row.den % d = 0)
    /\ row.num * asked.den = asked.num * row.den

\* Every positive price that two int64 can express fits into the two columns:
\* reducing a fraction never makes it larger, and nothing else is computed from a
\* price before it is stored.
NoPriceOverflows == refusal # "ErrMoneyOverflow"

\* Both rounded on its way into the NUMERIC column and on its way out, a percentage
\* stays in range: the discount loads again, for commands and for queries alike.
StoredDiscountLoads ==
  row # None /\ row.discount # None => Valid(LoadedDiscount(row.discount))

\* No one pays more than the base price, or less than nothing, also in the rounded
\* prices the queries return.
EffectivePriceInRange ==
  row # None =>
    LET dto == Dto(clock)
    IN  /\ AtMost(Zero, DomainPrice(clock)) /\ AtMost(DomainPrice(clock), LoadedPrice(row))
        /\ AtMost(Zero, dto.effectivePrice) /\ AtMost(dto.effectivePrice, dto.basePrice)

\* The two ways from a row to a price, through the aggregate and through the DTO,
\* agree at every moment, and so do the price, the flag and the percentage.
ViewsAgree ==
  row # None =>
    LET dto == Dto(clock)
    IN  /\ dto.effectivePrice = ToFloat(DomainPrice(clock))
        /\ dto.discountActive <=> dto.discountPercent # None
        /\ ~dto.discountActive => dto.effectivePrice = dto.basePrice

\* While nobody changes the product its price changes at two moments only, when
\* its discount begins and just after its last instant (discount.go: inclusive on
\* both ends): down at the first, up at the second.
PriceFollowsTheWindow ==
  [][row # None /\ row' = row /\ DomainPrice(clock) # DomainPrice(clock') =>
       IF AtMost(DomainPrice(clock'), DomainPrice(clock))
       THEN clock' = row.discount.start ELSE clock = row.discount.end]_vars

================================================================================
