------------------------------- MODULE MCPricing -------------------------------
(***************************************************************************)
(* A small instance of Pricing for TLC.                                    *)
(***************************************************************************)
EXTENDS Pricing

\* Fractions that reduce, that do not, that are zero, negative or no fraction, at
\* the ends of the type, and a price that has no exact float64.
MCFractions ==
  {[num |-> 6, den |-> 4], [num |-> Limit - 1, den |-> 1], [num |-> Limit - 1, den |-> 2],
   [num |-> 1, den |-> Limit - 1], [num |-> Limit - 2, den |-> Limit - 2],
   [num |-> -Limit, den |-> 2], [num |-> 0, den |-> 3], [num |-> 3, den |-> 0],
   [num |-> 3, den |-> -Limit]}

\* Below, at and above the limits, and between two multiples of 1/Decimals.
MCPercents == {-1, 0, 1, 25 * FloatGrid + 1, 33 * FloatGrid + 3, 100 * FloatGrid - 1,
               100 * FloatGrid, 100 * FloatGrid + 1}
================================================================================
