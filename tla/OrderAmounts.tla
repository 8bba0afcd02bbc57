---------------------------- MODULE OrderAmounts ----------------------------
(***************************************************************************)
(* clob/signing.go: the amounts that CreateSignedOrder writes into an order *)
(* and signs, computed from a price and either a quote or a base amount.    *)
(*                                                                         *)
(* A decimal is a whole number of fractions: a price of 1/Cents, an amount  *)
(* asked for of 1/Asked, as fine as one likes, an amount signed of          *)
(* 1/Decimal18.  decimal.Div keeps Precision fractions.  Nothing refuses an  *)
(* amount that is negative or too small to sign.                            *)
(***************************************************************************)
EXTENDS Integers

CONSTANTS Cents,      \* a multiple of 100: finer prices are allowed
          Asked,
          Precision,  \* 10^16 in the code
          Decimal18,  \* 10^18 in the code
          Amounts     \* that may be asked for, in either token

ASSUME OrderAmountsAssumption ==
    /\ {Cents, Asked, Precision, Decimal18} \subseteq Nat \ {0}
    /\ Cents % 100 = 0
    /\ Decimal18 >= 50 * Precision  \* below this a cent's worth may round to nothing
    /\ Amounts \subseteq Int

\* What of a CreateOrderRequest the amounts depend on.
OrderRequests == [side : {"BUY", "SELL"}, price : 0..Cents, quote : Amounts, base : Amounts]

VARIABLES request,  \* CreateOrderRequest
          order,    \* the amounts of the order made of it
          stage     \* "asked", then "signed" or "refused"

vars == <<request, order, stage>>

Init == /\ request \in OrderRequests
        /\ order = [maker |-> 0, taker |-> 0]
        /\ stage = "asked"

\* Mutant: division cuts.
DivideDown(a, b) == a \div b

\* a / b, rounded half away from zero.
DivRound(a, b) == IF a >= 0 THEN (2 * a + b) \div (2 * b) ELSE -((b - 2 * a) \div (2 * b))

\* The size in tokens, num / den: quoteAmount.Div(price), or the base amount.
SizeOf(r) == IF r.quote # 0
             THEN [num |-> DivRound(r.quote * Precision * Cents, r.price * Asked), den |-> Precision]
             ELSE [num |-> r.base, den |-> Asked]

Tokens(size) == DivRound(size.num * Decimal18, size.den)

\* Mutant: the product is rounded to whole dollars before it is scaled.
DollarsRoundedFirst(price, size) == DivRound(price * size.num, Cents * size.den) * Decimal18

Dollars(price, size) == DivRound(price * size.num * Decimal18, Cents * size.den)

\* With neither amount the order is made all the same, for nothing.
CalculateAmounts(r) ==
    IF r.side = "BUY"
    THEN [maker |-> Dollars(r.price, SizeOf(r)), taker |-> Tokens(SizeOf(r))]
    ELSE [maker |-> Tokens(SizeOf(r)), taker |-> Dollars(r.price, SizeOf(r))]

CreateSignedOrder ==
    /\ stage = "asked"
    /\ IF 100 * request.price \in Cents..(99 * Cents)
       THEN stage' = "signed" /\ order' = CalculateAmounts(request)
       ELSE stage' = "refused" /\ UNCHANGED order
    /\ UNCHANGED request

Next == CreateSignedOrder

Spec == Init /\ [][Next]_vars

-----------------------------------------------------------------------------
(* Properties.                                                             *)

Signed == stage = "signed"
InDollars == IF request.side = "BUY" THEN order.maker ELSE order.taker
InTokens == IF request.side = "BUY" THEN order.taker ELSE order.maker

\* |a - b| <= c
Within(a, b, c) == a <= b + c /\ b <= a + c

\* The price of the amounts signed is the price asked for: what rounding adds or
\* takes away is at most half a unit of the dollars and half a unit of the tokens,
\* for buyers and sellers and whatever the amount.
PriceKept == Signed =>
    Within(2 * Cents * InDollars, 2 * request.price * InTokens, Cents + request.price)

\* No order gives something for nothing, but for dust.  The roundings of an order for
\* a quote amount, however small, leave both sides or neither; dollars are never
\* given for no tokens, and at most fifty units of tokens for no dollars.
NothingForNothing == Signed =>
    /\ InTokens = 0 => InDollars = 0
    /\ InDollars = 0 => InTokens \in -50..50
    /\ InDollars = 0 /\ request.quote # 0 => InTokens = 0
=============================================================================
