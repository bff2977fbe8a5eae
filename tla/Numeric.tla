------------------------------ MODULE Numeric ------------------------------
(***************************************************************************)
(* What PostgreSQL does to an amount of money written to a column of type  *)
(* NUMERIC(20,8), the type of accounts.balance and transfers.amount.       *)
(*                                                                         *)
(* The Go code computes with shopspring/decimal, which keeps every digit,  *)
(* and hands decimal.String() to the driver.  The column keeps eight       *)
(* decimals and twelve integer digits.  Amounts are integers here: one     *)
(* unit in the last place of the column is Scale of our units, so with     *)
(* Scale = 1 every amount fits the column exactly and with Scale = 2 the   *)
(* odd amounts lie half way between two storable values.                   *)
(***************************************************************************)
EXTENDS Naturals

CONSTANTS
  Scale,       \* how finely an amount may divide the column's last place
  MaxNumeric   \* largest value the column holds (10^12 - 10^-8)

ASSUME NumericAssumption ==
  /\ Scale \in Nat \ {0}
  /\ MaxNumeric \in Nat

\* Wrong: the digits the column has no room for are cut off.
Truncated(x) == (x \div Scale) * Scale

\* The stored value: the nearest multiple of the last place, ties away from
\* zero.  Amounts that reach a column are never negative.
Stored(x) == ((2 * x + Scale) \div (2 * Scale)) * Scale

\* Otherwise the statement fails with "numeric field overflow".
Fits(x) == Stored(x) <= MaxNumeric
=============================================================================
