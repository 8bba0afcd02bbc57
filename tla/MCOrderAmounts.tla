--------------------------- MODULE MCOrderAmounts ---------------------------
(* OrderAmounts on some amounts.                                           *)
EXTENDS OrderAmounts

\* Amounts on both sides of every rounding: of a quotient and of tokens to nothing,
\* and of dollars to nothing at fifty units of tokens.
Positives == {1, 2, 3, 5, 30, 66, 67, 120, 124, 125, 126, 130, 400}
SomeAmounts == {0} \union Positives \union {-a : a \in Positives}
=============================================================================
