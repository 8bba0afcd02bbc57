-------------------------- MODULE OrderAmounts_proof --------------------------
(***************************************************************************)
(* OrderAmounts for all digits and all amounts: TLC runs it with digits of  *)
(* its own, the code has 16 and 18 of them.                                *)
(*                                                                         *)
(* Both properties rest on two facts about DivRound: it is off by at most    *)
(* half a unit, and it is zero below half a unit.                          *)
(***************************************************************************)
EXTENDS OrderAmounts, TLAPS

\* What CreateSignedOrder leaves.
IInv ==
    /\ request \in OrderRequests
    /\ stage \in {"asked", "signed", "refused"}
    /\ Signed => /\ order = CalculateAmounts(request)
                 /\ 100 * request.price \in Cents..(99 * Cents)

-----------------------------------------------------------------------------
(* Arithmetic.                                                             *)

LEMMA Division ==
  ASSUME NEW a \in Nat, NEW b \in Nat \ {0}
  PROVE  /\ a \div b \in Nat
         /\ b * (a \div b) <= a
         /\ a < b * (a \div b) + b
  OBVIOUS

LEMMA TimesTypes ==
  ASSUME NEW a \in Int, NEW b \in Int
  PROVE  /\ a * b \in Int
         /\ a \in Nat /\ b \in Nat => a * b \in Nat
         /\ a \in Nat \ {0} /\ b \in Nat \ {0} => a * b \in Nat \ {0}
  OBVIOUS

LEMMA TimesGrows ==
  ASSUME NEW a \in Int, NEW b \in Int, NEW c \in Nat, a <= b
  PROVE  a * c <= b * c
  OBVIOUS

LEMMA TimesShrinks ==
  ASSUME NEW a \in Int, NEW b \in Int, NEW c \in Nat \ {0}
  PROVE  /\ a * c <= b * c => a <= b
         /\ a * c < b * c => a < b
  OBVIOUS

\* Multiplying keeps two numbers within what is multiplied as well, and the other way.
LEMMA WithinTimes ==
  ASSUME NEW a \in Int, NEW b \in Int, NEW c \in Int, NEW k \in Nat, Within(a, b, c)
  PROVE  Within(a * k, b * k, c * k)
<1>1. a * k <= (b + c) * k /\ b * k <= (a + c) * k
  BY TimesGrows DEF Within
<1> QED  BY <1>1 DEF Within

LEMMA WithinDivides ==
  ASSUME NEW a \in Int, NEW b \in Int, NEW c \in Int, NEW k \in Nat \ {0},
         Within(a * k, b * k, c * k)
  PROVE  Within(a, b, c)
<1>1. a * k <= (b + c) * k /\ b * k <= (a + c) * k
  BY DEF Within
<1>2. a <= b + c /\ b <= a + c
  BY <1>1, TimesShrinks
<1> QED  BY <1>2 DEF Within

\* Two numbers that are near a third are near each other.
LEMMA WithinAdds ==
  ASSUME NEW a \in Int, NEW b \in Int, NEW c \in Int, NEW d \in Int, NEW e \in Int,
         Within(a, c, d), Within(b, c, e)
  PROVE  Within(a, b, d + e)
  BY DEF Within

\* Rounding is off by half a unit at most ...
LEMMA Rounding ==
  ASSUME NEW a \in Int, NEW b \in Nat \ {0}
  PROVE  /\ DivRound(a, b) \in Int
         /\ Within((2 * b) * DivRound(a, b), 2 * a, b)
<1>1. 2 * b \in Nat \ {0}
  OBVIOUS
<1>2. CASE a >= 0
  <2>1. 2 * a + b \in Nat
    BY <1>2
  <2> DEFINE q == (2 * a + b) \div (2 * b)
  <2>2. q \in Nat /\ (2 * b) * q <= 2 * a + b /\ 2 * a + b < (2 * b) * q + 2 * b
    BY <1>1, <2>1, Division
  <2>3. DivRound(a, b) = q
    BY <1>2 DEF DivRound
  <2> HIDE DEF q
  <2> QED  BY <2>2, <2>3 DEF Within
<1>3. CASE ~(a >= 0)
  <2>1. b - 2 * a \in Nat
    BY <1>3
  <2> DEFINE q == (b - 2 * a) \div (2 * b)
  <2>2. q \in Nat /\ (2 * b) * q <= b - 2 * a /\ b - 2 * a < (2 * b) * q + 2 * b
    BY <1>1, <2>1, Division
  <2>3. DivRound(a, b) = -q
    BY <1>3 DEF DivRound
  <2> HIDE DEF q
  <2>4. (2 * b) * (-q) = -((2 * b) * q)
    BY <2>2
  <2> QED  BY <2>2, <2>3, <2>4 DEF Within
<1> QED  BY <1>2, <1>3

\* ... and zero exactly below half a unit.
LEMMA RoundedToNothing ==
  ASSUME NEW a \in Int, NEW b \in Nat \ {0}
  PROVE  DivRound(a, b) = 0 <=> -b < 2 * a /\ 2 * a < b
<1>1. 2 * b \in Nat \ {0}
  OBVIOUS
<1>2. \A n \in Nat : n \div (2 * b) = 0 <=> n < 2 * b
  <2> TAKE n \in Nat
  <2> DEFINE q == n \div (2 * b)
  <2>1. q \in Nat /\ (2 * b) * q <= n /\ n < (2 * b) * q + 2 * b
    BY <1>1, Division
  <2> HIDE DEF q
  <2>2. q # 0 => 2 * b <= (2 * b) * q
    BY <1>1, <2>1
  <2> QED  BY <2>1, <2>2 DEF q
<1>3. CASE a >= 0
  <2>1. 2 * a + b \in Nat
    BY <1>3
  <2>2. DivRound(a, b) = 0 <=> 2 * a + b < 2 * b
    BY <1>2, <1>3, <2>1 DEF DivRound
  <2> QED  BY <1>3, <2>2
<1>4. CASE ~(a >= 0)
  <2>1. b - 2 * a \in Nat
    BY <1>4
  <2> DEFINE q == (b - 2 * a) \div (2 * b)
  <2>2. q \in Nat /\ (q = 0 <=> b - 2 * a < 2 * b)
    BY <1>1, <1>2, <2>1, Division
  <2>3. DivRound(a, b) = -q
    BY <1>4 DEF DivRound
  <2> HIDE DEF q
  <2> QED  BY <1>4, <2>2, <2>3
<1> QED  BY <1>3, <1>4

-----------------------------------------------------------------------------
(* The orders.                                                             *)

\* The size is a fraction, in the quotient's digits for a quote amount.
LEMMA Sizes ==
  ASSUME NEW r \in OrderRequests, 100 * r.price \in Cents..(99 * Cents)
  PROVE  /\ r.price \in Nat \ {0} /\ r.price <= Cents /\ Cents <= 100 * r.price
         /\ SizeOf(r).num \in Int /\ SizeOf(r).den \in Nat \ {0}
         /\ r.quote # 0 => SizeOf(r).den = Precision
<1>1. /\ r.price \in Nat \ {0} /\ r.price <= Cents /\ Cents <= 100 * r.price
      /\ r.quote \in Int /\ r.base \in Int
  <2>1. r.price \in 0..Cents /\ r.quote \in Amounts /\ r.base \in Amounts
    BY DEF OrderRequests
  <2>2. Cents \in Nat \ {0} /\ Amounts \subseteq Int
    BY OrderAmountsAssumption
  <2>3. r.quote \in Int /\ r.base \in Int
    BY <2>1, <2>2
  <2> DEFINE p == r.price
  <2>4. p \in 0..Cents /\ 100 * p \in Cents..(99 * Cents)
    BY <2>1
  <2> HIDE DEF p
  <2>5. p \in Nat \ {0} /\ p <= Cents /\ Cents <= 100 * p
    BY <2>2, <2>4
  <2> QED  BY <2>3, <2>5 DEF p
<1>2. r.price * Asked \in Nat \ {0} /\ r.quote * Precision * Cents \in Int
  BY <1>1, TimesTypes, OrderAmountsAssumption
<1>3. DivRound(r.quote * Precision * Cents, r.price * Asked) \in Int
  BY <1>2, Rounding
<1> QED
  BY <1>1, <1>3, OrderAmountsAssumption DEF SizeOf

\* The two amounts, whoever gives which, are two roundings of one size: num / den in
\* units of the amounts signed, at the price and at 1.
Worth == SizeOf(request).num * Decimal18

LEMMA AmountsSigned ==
  ASSUME IInv, Signed
  PROVE  LET d == SizeOf(request).den IN
         /\ InTokens = DivRound(Worth, d)
         /\ InDollars = DivRound(request.price * Worth, Cents * d)
         /\ Worth \in Int /\ d \in Nat \ {0} /\ Cents * d \in Nat \ {0}
         /\ request.price * Worth \in Int
         /\ request.price \in Nat \ {0} /\ request.price <= Cents /\ Cents <= 100 * request.price
         /\ Cents \in Nat \ {0}
<1> DEFINE n == SizeOf(request).num
           d == SizeOf(request).den
           p == request.price
<1>1. request \in OrderRequests /\ 100 * p \in Cents..(99 * Cents)
  BY DEF IInv
<1>2. /\ p \in Nat \ {0} /\ p <= Cents /\ Cents <= 100 * p
      /\ n \in Int /\ d \in Nat \ {0}
  BY <1>1, Sizes
<1>3. request.side = "BUY" \/ request.side = "SELL"
  BY <1>1 DEF OrderRequests
<1>4. /\ InTokens = DivRound(n * Decimal18, d)
      /\ InDollars = DivRound(p * n * Decimal18, Cents * d)
  BY <1>3 DEF IInv, InTokens, InDollars, CalculateAmounts, Dollars, Tokens
<1> HIDE DEF n, d, p
<1>5. /\ n * Decimal18 \in Int /\ p * (n * Decimal18) \in Int
      /\ p * n * Decimal18 = p * (n * Decimal18)
      /\ Cents * d \in Nat \ {0}
  BY <1>2, TimesTypes, OrderAmountsAssumption
<1> QED  BY <1>2, <1>4, <1>5, OrderAmountsAssumption DEF Worth, n, d, p

-----------------------------------------------------------------------------
(* The theorems.                                                           *)

\* CreateSignedOrder signs what CalculateAmounts says for a price it accepts.
THEOREM Invariance == Spec => []IInv
<1>1. Init => IInv
  BY DEF Init, IInv, Signed
<1>2. IInv /\ [Next]_vars => IInv'
  BY DEF IInv, Signed, Next, CreateSignedOrder, vars
<1> QED  BY <1>1, <1>2, PTL DEF Spec

\* The price of the amounts signed is the price asked for, up to rounding.
THEOREM PriceIsKept == Spec => []PriceKept
<1>1. IInv => PriceKept
  <2> SUFFICES ASSUME IInv, Signed
               PROVE  Within(2 * Cents * InDollars, 2 * request.price * InTokens, Cents + request.price)
    BY DEF PriceKept
  <2> DEFINE p == request.price
             w == Worth
             d == SizeOf(request).den
             D == InDollars
             T == InTokens
  <2>1. /\ T = DivRound(w, d) /\ D = DivRound(p * w, Cents * d)
        /\ w \in Int /\ d \in Nat \ {0} /\ Cents * d \in Nat \ {0} /\ p * w \in Int
        /\ p \in Nat \ {0} /\ Cents \in Nat \ {0}
    BY AmountsSigned
  <2> HIDE DEF p, w, d, D, T
  <2>2. T \in Int /\ Within((2 * d) * T, 2 * w, d)
    BY <2>1, Rounding
  <2>3. D \in Int /\ Within((2 * (Cents * d)) * D, 2 * (p * w), Cents * d)
    BY <2>1, Rounding
  <2>4. Within(((2 * d) * T) * p, (2 * w) * p, d * p)
    <3>1. (2 * d) * T \in Int /\ 2 * w \in Int /\ d \in Int /\ p \in Nat
      BY <2>1, <2>2, TimesTypes
    <3> DEFINE a == (2 * d) * T
               b == 2 * w
    <3>2. a \in Int /\ b \in Int /\ Within(a, b, d)
      BY <2>2, <3>1
    <3> HIDE DEF a, b
    <3>3. Within(a * p, b * p, d * p)
      BY <3>1, <3>2, WithinTimes
    <3> QED  BY <3>3 DEF a, b
  <2>5. /\ ((2 * d) * T) * p = (2 * p * T) * d
        /\ (2 * w) * p = 2 * (p * w)
        /\ (2 * (Cents * d)) * D = (2 * Cents * D) * d
        /\ Cents * d + d * p = (Cents + p) * d
    BY <2>1, <2>2, <2>3
  <2>6. Within((2 * Cents * D) * d, (2 * p * T) * d, Cents * d + d * p)
    <3>1. /\ (2 * Cents * D) * d \in Int /\ (2 * p * T) * d \in Int
          /\ 2 * (p * w) \in Int /\ Cents * d \in Int /\ d * p \in Int
      BY <2>1, <2>2, <2>3, TimesTypes
    <3> QED  BY <2>3, <2>4, <2>5, <3>1, WithinAdds
  <2>7. Within(2 * Cents * D, 2 * p * T, Cents + p)
    <3>1. 2 * Cents * D \in Int /\ 2 * p * T \in Int /\ Cents + p \in Int
      BY <2>1, <2>2, <2>3, TimesTypes
    <3> QED  BY <2>1, <2>5, <2>6, <3>1, WithinDivides
  <2> QED  BY <2>7 DEF p, D, T
<1> QED  BY Invariance, <1>1, PTL

\* Nothing is given for nothing, but for dust.
THEOREM NothingIsFree == Spec => []NothingForNothing
<1>1. IInv => NothingForNothing
  <2> SUFFICES ASSUME IInv, Signed
               PROVE  /\ InTokens = 0 => InDollars = 0
                      /\ InDollars = 0 => InTokens \in -50..50
                      /\ InDollars = 0 /\ request.quote # 0 => InTokens = 0
    BY DEF NothingForNothing
  <2> DEFINE p == request.price
             w == Worth
             d == SizeOf(request).den
             D == InDollars
             T == InTokens
  <2>1. /\ T = DivRound(w, d) /\ D = DivRound(p * w, Cents * d)
        /\ w \in Int /\ d \in Nat \ {0} /\ Cents * d \in Nat \ {0} /\ p * w \in Int
        /\ p \in Nat \ {0} /\ p <= Cents /\ Cents <= 100 * p /\ Cents \in Nat \ {0}
    BY AmountsSigned
  <2> HIDE DEF p, w, d, D, T
  <2>2. p * d <= Cents * d /\ Cents * d <= (100 * p) * d
    BY <2>1, TimesGrows
  <2>3. T = 0 => D = 0
    <3> SUFFICES ASSUME T = 0 PROVE D = 0
      OBVIOUS
    <3>1. -d < 2 * w /\ 2 * w < d
      BY <2>1, RoundedToNothing
    <3>2. (-d) * p < (2 * w) * p /\ (2 * w) * p < d * p
      BY <2>1, <3>1
    <3>3. (-d) * p = -(p * d) /\ (2 * w) * p = 2 * (p * w) /\ d * p = p * d
      BY <2>1
    <3>4. -(Cents * d) < 2 * (p * w) /\ 2 * (p * w) < Cents * d
      BY <2>1, <2>2, <3>2, <3>3, TimesTypes
    <3> QED  BY <2>1, <3>4, RoundedToNothing
  <2>4. ASSUME D = 0 PROVE -(100 * d) < 2 * w /\ 2 * w < 100 * d
    <3>1. -(Cents * d) < 2 * (p * w) /\ 2 * (p * w) < Cents * d
      BY <2>1, <2>4, RoundedToNothing
    <3>2. (2 * w) * p = 2 * (p * w) /\ (100 * d) * p = (100 * p) * d
          /\ (-(100 * d)) * p = -((100 * p) * d)
      BY <2>1
    <3>3. (2 * w) * p < (100 * d) * p /\ (-(100 * d)) * p < (2 * w) * p
      BY <2>1, <2>2, <3>1, <3>2, TimesTypes
    <3> QED  BY <2>1, <3>3, TimesShrinks
  <2>5. D = 0 => T \in -50..50
    <3> SUFFICES ASSUME D = 0 PROVE T \in -50..50
      OBVIOUS
    <3>1. T \in Int /\ (2 * d) * T <= 2 * w + d /\ 2 * w <= (2 * d) * T + d
      BY <2>1, Rounding DEF Within
    <3>2. (2 * T) * d < 101 * d /\ (-101) * d < (2 * T) * d
      <4>1. (2 * d) * T = (2 * T) * d
        BY <2>1, <3>1
      <4> QED  BY <2>1, <2>4, <3>1, <4>1
    <3>3. 2 * T < 101 /\ -101 < 2 * T
      BY <2>1, <3>1, <3>2, TimesShrinks
    <3> QED  BY <3>1, <3>3
  <2>6. D = 0 /\ request.quote # 0 => T = 0
    <3> SUFFICES ASSUME D = 0, request.quote # 0 PROVE T = 0
      OBVIOUS
    <3> DEFINE n == SizeOf(request).num
    <3>1. n \in Int /\ w = n * Decimal18 /\ d = Precision
      BY Sizes DEF IInv, Worth, w, d
    <3>2. Decimal18 \in Nat /\ Decimal18 >= 50 * d /\ d \in Nat \ {0}
      BY <3>1, OrderAmountsAssumption
    <3> HIDE DEF n
    <3>3. n = 0
      <4>1. CASE n >= 1
        <5>1. (50 * d) * n <= Decimal18 * n /\ 50 * d <= (50 * d) * n
          BY <3>1, <3>2, <4>1
        <5> QED  BY <2>1, <2>4, <3>1, <3>2, <5>1, TimesTypes
      <4>2. CASE n <= -1
        <5>1. -n \in Nat /\ -n >= 1
          BY <3>1, <4>2
        <5>2. (50 * d) * (-n) <= Decimal18 * (-n) /\ 50 * d <= (50 * d) * (-n)
          BY <3>2, <5>1
        <5>3. Decimal18 * (-n) = -w
          BY <3>1, <3>2
        <5> DEFINE x == (50 * d) * (-n)
        <5>4. x <= -w /\ 50 * d <= x /\ x \in Int
          BY <3>2, <5>1, <5>2, <5>3, TimesTypes
        <5> HIDE DEF x
        <5>5. -(100 * d) < 2 * w
          BY <2>4
        <5> QED  BY <2>1, <3>2, <5>4, <5>5
      <4> QED  BY <3>1, <4>1, <4>2
    <3>4. w = 0
      BY <3>1, <3>2, <3>3
    <3> QED  BY <2>1, <3>4, RoundedToNothing
  <2> QED  BY <2>3, <2>5, <2>6 DEF D, T
<1> QED  BY Invariance, <1>1, PTL
=============================================================================
