------------------------- MODULE RateLimiter_proof -------------------------
(***************************************************************************)
(* Theorems about RateLimiter, for any number of callers, any rate and any  *)
(* burst of at least one token.                                            *)
(***************************************************************************)
EXTENDS RateLimiter, TLAPS

\* What was granted in the window and what could be granted now are paid for by
\* the burst and by the ticks of the window.
Paid == granted + Refill <= Burst + Rate * ticks

IInv == TypeOK /\ Paid

LEMMA LeastFacts ==
  ASSUME NEW a \in Nat, NEW b \in Nat
  PROVE  Least(a, b) \in Nat /\ Least(a, b) <= a /\ Least(a, b) <= b
         /\ (Least(a, b) = a \/ Least(a, b) = b)
  BY DEF Least

LEMMA RefillFacts ==
  ASSUME TypeOK
  PROVE  Refill \in 0..Burst /\ Refill <= tokens + earned
         /\ (Refill = Burst \/ Refill = tokens + earned)
  BY RateLimiterAssumption, LeastFacts DEF Refill, TypeOK

\* A bucket with nothing earned since refill is what it holds.
LEMMA Refilled ==
  ASSUME NEW n \in 0..Burst, tokens' = n, earned' = 0
  PROVE  Refill' = n
  BY RateLimiterAssumption DEF Refill, Least

\* The wait for the rest of a token is at most Unit ticks.
LEMMA WaitIsShort ==
  ASSUME NEW n \in Nat, n <= Unit
  PROVE  (Unit - n) \div Rate \in 0..Unit
<1>1. \A a \in Nat, r \in Nat \ {0} : a \div r \in Nat /\ a \div r <= a
  BY SMTT(30)
<1> QED  BY <1>1, RateLimiterAssumption

LEMMA MoreTicks == ASSUME NEW n \in Nat PROVE Rate * (n + 1) = Rate * n + Rate /\ Rate * n \in Nat
  BY RateLimiterAssumption

LEMMA Account ==
  ASSUME NEW g \in Nat, NEW r \in Nat, NEW q \in Nat, NEW w \in Nat,
         g + r <= Burst + w, q <= r + Rate
  PROVE  g + q <= Burst + (w + Rate)
  BY RateLimiterAssumption

LEMMA InitIInv == Init => IInv
  BY RateLimiterAssumption DEF Init, IInv, TypeOK, Paid, Refill, Least

LEMMA TakePays ==
  ASSUME IInv, Take, UNCHANGED ticks
  PROVE  tokens' \in 0..Burst /\ earned' \in 0..Burst /\ granted' \in Nat /\ Paid'
<1>1. tokens' = Refill - Unit /\ tokens' \in 0..Burst /\ earned' = 0 /\ granted' = granted + Unit
  BY RefillFacts, RateLimiterAssumption DEF IInv, Take
<1>2. Refill' = Refill - Unit
  BY <1>1, Refilled
<1>3. Rate * ticks \in Nat /\ Refill \in Nat /\ granted \in Nat
  BY RefillFacts, MoreTicks, RateLimiterAssumption DEF IInv, TypeOK
<1> QED  BY <1>1, <1>2, <1>3, RateLimiterAssumption DEF IInv, Paid

\* A call that only refills changes nothing in the account.
LEMMA RefillPays ==
  ASSUME IInv, tokens' = Refill, earned' = 0, UNCHANGED window
  PROVE  tokens' \in 0..Burst /\ earned' \in 0..Burst /\ Paid'
<1>1. Refill \in 0..Burst
  BY RefillFacts DEF IInv
<1>2. Refill' = Refill
  BY <1>1, Refilled
<1> QED  BY <1>1, <1>2, RateLimiterAssumption DEF IInv, Paid, window

LEMMA StepIInv == ASSUME IInv, [Next]_vars PROVE IInv'
<1>0. TypeOK /\ Paid
  BY DEF IInv
<1>1. ASSUME NEW c \in Callers, Wait(c) PROVE IInv'
  <2>1. CASE Take /\ pc' = [pc EXCEPT ![c] = "idle"] /\ timer' = [timer EXCEPT ![c] = 0] /\ ticks' = ticks
    <3>1. pc' \in [Callers -> {"idle", "waiting"}] /\ timer' \in [Callers -> 0..Unit] /\ ticks' \in 0..Horizon
      BY <1>0, <2>1, RateLimiterAssumption DEF TypeOK
    <3> QED  BY <2>1, <3>1, TakePays DEF IInv, TypeOK
  <2>2. CASE /\ Refill < Unit
             /\ tokens' = Refill
             /\ earned' = 0
             /\ pc' = [pc EXCEPT ![c] = "waiting"]
             /\ timer' = [timer EXCEPT ![c] = (Unit - Refill) \div Rate]
             /\ UNCHANGED window
    <3>1. (Unit - Refill) \div Rate \in 0..Unit
      BY <1>0, <2>2, RefillFacts, WaitIsShort, RateLimiterAssumption
    <3>2. pc' \in [Callers -> {"idle", "waiting"}] /\ timer' \in [Callers -> 0..Unit]
      BY <1>0, <2>2, <3>1 DEF TypeOK
    <3> QED  BY <1>0, <2>2, <3>2, RefillPays DEF IInv, TypeOK, window
  <2> QED  BY <1>1, <2>1, <2>2 DEF Wait, window
<1>2. ASSUME NEW c \in Callers, Cancel(c) PROVE IInv'
  <2>1. pc' \in [Callers -> {"idle", "waiting"}] /\ timer' \in [Callers -> 0..Unit]
    BY <1>0, <1>2, RateLimiterAssumption DEF Cancel, TypeOK
  <2> QED  BY <1>0, <1>2, <2>1 DEF Cancel, IInv, TypeOK, Paid, Refill, window
<1>3. CASE TryAcquire
  <2>1. UNCHANGED <<pc, timer, ticks>>
    BY <1>3 DEF TryAcquire
  <2>2. CASE Take
    BY <1>0, <2>1, <2>2, TakePays DEF IInv, TypeOK
  <2>3. CASE tokens' = Refill /\ earned' = 0 /\ UNCHANGED granted
    BY <1>0, <2>1, <2>3, RefillPays DEF IInv, TypeOK, window
  <2> QED  BY <1>3, <2>2, <2>3 DEF TryAcquire
<1>4. CASE Available
  BY <1>0, <1>4, RefillPays DEF Available, IInv, TypeOK, window
<1>5. CASE Reset
  <2>1. Refill' = Burst /\ tokens' \in 0..Burst /\ earned' = 0
    BY <1>5, Refilled, RateLimiterAssumption DEF Reset
  <2> QED  BY <1>0, <1>5, <2>1, RateLimiterAssumption DEF Reset, IInv, TypeOK, Paid
<1>6. CASE Tick
  <2>1. earned' = Least(Burst, earned + Rate) /\ UNCHANGED <<tokens, pc>>
    BY <1>6 DEF Tick
  <2>2. earned' \in 0..Burst /\ earned' <= earned + Rate
    BY <1>0, <2>1, LeastFacts, RateLimiterAssumption DEF TypeOK
  <2>3. timer' \in [Callers -> 0..Unit]
    BY <1>0, <1>6, RateLimiterAssumption DEF Tick, TypeOK
  <2>4. Refill' \in 0..Burst /\ Refill' <= Refill + Rate
    BY <1>0, <2>1, <2>2, RateLimiterAssumption DEF Refill, Least, TypeOK
  <2>5. pc' \in [Callers -> {"idle", "waiting"}] /\ tokens' \in 0..Burst
    BY <1>0, <2>1 DEF TypeOK
  <2>6. CASE ticks < Horizon /\ ticks' = ticks + 1 /\ granted' = granted
    <3>1. ticks' \in 0..Horizon /\ granted' \in Nat /\ ticks \in Nat
      BY <1>0, <2>6, RateLimiterAssumption DEF TypeOK
    <3>2. Rate * ticks' = Rate * ticks + Rate /\ Rate * ticks \in Nat
      BY <2>6, <3>1, MoreTicks
    <3>3. Refill \in Nat
      BY <1>0, RefillFacts
    <3>4. Paid'
      <4> DEFINE before == Rate * ticks
                 after  == Rate * ticks'
      <4>1. before \in Nat /\ after = before + Rate /\ granted + Refill <= Burst + before
        BY <1>0, <3>2 DEF Paid
      <4> HIDE DEF before, after
      <4>2. granted' + Refill' <= Burst + after
        <5>1. granted \in Nat /\ Refill \in Nat /\ Refill' \in Nat /\ Refill' <= Refill + Rate
          BY <1>0, <2>4, <3>3, RateLimiterAssumption DEF TypeOK
        <5>2. granted + Refill' <= Burst + (before + Rate)
          BY <4>1, <5>1, Account
        <5> QED  BY <2>6, <4>1, <5>2
      <4> QED  BY <4>2 DEF Paid, after
    <3> QED  BY <2>2, <2>3, <2>5, <3>1, <3>4 DEF IInv, TypeOK
  <2>7. CASE ticks' = 0 /\ granted' = 0
    <3>1. Rate * ticks' = 0
      BY <2>7, RateLimiterAssumption
    <3>2. 0 + Refill' <= Burst + 0
      <4> DEFINE left == Refill'
      <4>1. left \in 0..Burst
        BY <2>4
      <4> HIDE DEF left
      <4>2. 0 + left <= Burst + 0
        BY <4>1, RateLimiterAssumption
      <4> QED  BY <4>2 DEF left
    <3>3. Paid'
      BY <2>7, <3>1, <3>2 DEF Paid
    <3> QED  BY <2>2, <2>3, <2>5, <2>7, <3>3, RateLimiterAssumption DEF IInv, TypeOK
  <2> QED  BY <1>6, <2>6, <2>7 DEF Tick
<1>7. CASE Observe
  <2>1. Refill' = Refill
    BY <1>7 DEF Observe, Refill
  <2> QED  BY <1>0, <1>7, <2>1, RefillFacts, RateLimiterAssumption DEF Observe, IInv, TypeOK, Paid
<1>8. CASE UNCHANGED vars
  BY <1>0, <1>8 DEF vars, window, IInv, TypeOK, Paid, Refill
<1> QED  BY <1>1, <1>2, <1>3, <1>4, <1>5, <1>6, <1>7, <1>8 DEF Next

\* The inductive invariant.
THEOREM Invariance == Spec => []IInv
<1>1. IInv /\ [Next]_vars => IInv'
  BY StepIInv
<1> QED  BY InitIInv, <1>1, PTL DEF Spec

\* In every window the grants stay within the burst and the rate.
THEOREM GrantsAreBounded == Spec => []WindowBound
<1>1. IInv => WindowBound
  <2> SUFFICES ASSUME IInv PROVE WindowBound
    OBVIOUS
  <2>1. Refill \in Nat
    BY RefillFacts DEF IInv
  <2> QED  BY <2>1, MoreTicks, RateLimiterAssumption DEF IInv, TypeOK, Paid, WindowBound
<1> QED  BY Invariance, <1>1, PTL

\* The variables keep their types: the bucket never holds more than the burst nor owes
\* a token.
THEOREM TypeCorrect == Spec => []TypeOK
<1>1. IInv => TypeOK
  BY DEF IInv
<1> QED  BY Invariance, <1>1, PTL
=============================================================================
