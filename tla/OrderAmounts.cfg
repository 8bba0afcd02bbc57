\* Prices of whole cents; as in the code, the last digit of a quotient is worth more
\* than a cent's hundred units.  Amounts on both sides of every rounding: of the
\* quotient and the token amount to nothing, and of the dollars at fifty units.
CONSTANTS
    Cents = 100
    Asked = 400
    Precision = 3
    Decimal18 = 160
    Amounts <- SomeAmounts
SPECIFICATION Spec
INVARIANTS PriceKept NothingForNothing
CHECK_DEADLOCK FALSE
