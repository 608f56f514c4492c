------------------------------ MODULE Decimal ------------------------------
(***************************************************************************)
(* Money and ratios between the API, the domain and PostgreSQL:            *)
(* transaction-service/internal/domain/money.go and the columns of         *)
(* 000001_create_transaction_tables.up.sql.                                *)
(*                                                                         *)
(* A decimal string is its digits without the point, and how many of them  *)
(* stand after the point: "4.00" is [digits |-> 400, frac |-> 2].  Signs   *)
(* and malformed strings never get past parseScaledDecimal and are left    *)
(* out.                                                                    *)
(***************************************************************************)
EXTENDS Integers

CONSTANTS
  MaxInt,       \* the largest int64
  MaxNumeric    \* the largest number a column of 18 digits holds, without its point

ASSUME MaxIntAssumption == MaxInt \in Nat \ {0}

ASSUME MaxNumericAssumption == MaxNumeric \in 1..MaxInt

MoneyScale == 2
RatioScale == 6

\* The scale of split_value, numeric(18,6).  Amounts and shares, numeric(18,2),
\* keep the two digits they are written with and are kept in minor units.
SplitValueColumn == 6

\* What int64 addition leaves of a sum.
Wrap(n) == ((n + MaxInt + 1) % (2 * (MaxInt + 1))) - (MaxInt + 1)

DecimalText == [digits : Nat, frac : 0..RatioScale]

\* A parsed value is never negative.
ErrInvalidDecimal == -1

Parsed == Nat \cup {ErrInvalidDecimal}

Pow10 == <<10, 100, 1000, 10000, 100000, 1000000>>

\* More fraction digits than the scale, or a value beyond int64, are errors;
\* missing digits are zeros.
parseScaledDecimal(text, scale) ==
  LET value == IF text.frac < scale
               THEN text.digits * Pow10[scale - text.frac]
               ELSE text.digits
  IN  IF text.frac > scale \/ value > MaxInt THEN ErrInvalidDecimal ELSE value

ParseMoney(text) == parseScaledDecimal(text, MoneyScale)

ParseRatio(text) == parseScaledDecimal(text, RatioScale)

FormatMoney(minor) == [digits |-> minor, frac |-> MoneyScale]

FormatRatio(value) == [digits |-> value, frac |-> RatioScale]

\* What "column::text" returns for a value inserted into a numeric column
\* with the given scale: the same number with exactly that many fraction
\* digits.
ColumnText(text, column) ==
  [digits |-> IF text.frac < column
              THEN text.digits * Pow10[column - text.frac]
              ELSE text.digits,
   frac   |-> column]

\* The statement that inserts a value fails if its column has too few digits.
FitsColumn(text, column) == ColumnText(text, column).digits <= MaxNumeric

=============================================================================
