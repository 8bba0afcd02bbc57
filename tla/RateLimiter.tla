---------------------------- MODULE RateLimiter ----------------------------
(***************************************************************************)
(* common/ratelimit.go: the token bucket that every snapshot request of the *)
(* order book SDK goes through, shared by goroutines that call Wait or      *)
(* TryAcquire at their own pace.                                           *)
(*                                                                         *)
(* A token is Unit units, the bucket holds Burst units and earns Rate units *)
(* per tick of the clock, so that the fractions of the code's float64 are   *)
(* whole numbers.  What is earned since lastRefill is not in the bucket     *)
(* until refill is called.  Every operation holds r.mu from start to end.   *)
(***************************************************************************)
EXTENDS Naturals

CONSTANTS Callers,  \* goroutines
          Unit,     \* units in one token
          Burst,    \* maxTokens, in units
          Rate,     \* refillRate, in units per tick
          Horizon   \* bound on the ticks a window of observation lasts

ASSUME RateLimiterAssumption ==
    /\ Unit \in Nat \ {0}
    /\ Burst \in Nat /\ Burst >= Unit
    /\ Rate \in Nat \ {0}
    /\ Horizon \in Nat

Least(a, b) == IF a <= b THEN a ELSE b

VARIABLES
    tokens,   \* units in the bucket
    earned,   \* units earned since lastRefill, capped at Burst
    pc,       \* "idle", or "waiting" between two turns of Wait's loop
    timer,    \* ticks until the waiter's time.After fires
    ticks,    \* ghost: ticks since the window of observation was opened
    granted   \* ghost: units taken in it

window == <<ticks, granted>>
vars == <<tokens, earned, pc, timer, window>>

TypeOK ==
    /\ tokens \in 0..Burst
    /\ earned \in 0..Burst
    /\ pc \in [Callers -> {"idle", "waiting"}]
    /\ timer \in [Callers -> 0..Unit]
    /\ ticks \in 0..Horizon
    /\ granted \in Nat

\* NewRateLimiter: a full bucket.
Init ==
    /\ tokens = Burst
    /\ earned = 0
    /\ pc = [c \in Callers |-> "idle"]
    /\ timer = [c \in Callers |-> 0]
    /\ ticks = 0
    /\ granted = 0

\* Mutant: the bucket overflows.
RefillUncapped == tokens + earned

\* Mutant: what makes no whole token is forgotten, as with integer division.
RefillWhole == Least(Burst, tokens + (earned \div Unit) * Unit)

\* What refill leaves in the bucket.
Refill == Least(Burst, tokens + earned)

Take ==
    /\ Refill >= Unit
    /\ tokens' = Refill - Unit
    /\ earned' = 0
    /\ granted' = granted + Unit

\* The first turn of Wait's loop, or a later one when the timer has fired:
\* take a token, or sleep until the next one.  The wait is cut to whole ticks,
\* so the sleeper may be early and turn again.
Wait(c) ==
    /\ pc[c] = "idle" \/ timer[c] = 0
    /\ \/ /\ Take
          /\ pc' = [pc EXCEPT ![c] = "idle"]
          /\ timer' = [timer EXCEPT ![c] = 0]
       \/ /\ Refill < Unit
          /\ tokens' = Refill
          /\ earned' = 0
          /\ pc' = [pc EXCEPT ![c] = "waiting"]
          /\ timer' = [timer EXCEPT ![c] = (Unit - Refill) \div Rate]
          /\ UNCHANGED granted
    /\ UNCHANGED ticks

\* The caller's context is done.
Cancel(c) ==
    /\ pc[c] = "waiting"
    /\ pc' = [pc EXCEPT ![c] = "idle"]
    /\ timer' = [timer EXCEPT ![c] = 0]
    /\ UNCHANGED <<tokens, earned, window>>

\* TryAcquire; when it fails it has only refilled, as Available does.
TryAcquire ==
    /\ \/ Take
       \/ /\ Refill < Unit
          /\ tokens' = Refill
          /\ earned' = 0
          /\ UNCHANGED granted
    /\ UNCHANGED <<pc, timer, ticks>>

Available ==
    /\ tokens' = Refill
    /\ earned' = 0
    /\ UNCHANGED <<pc, timer, window>>

\* A window does not extend beyond a Reset.
Reset ==
    /\ tokens' = Burst
    /\ earned' = 0
    /\ ticks' = 0
    /\ granted' = 0
    /\ UNCHANGED <<pc, timer>>

\* One tick of the clock; a window lasts Horizon ticks at most.
Tick ==
    /\ earned' = Least(Burst, earned + Rate)
    /\ timer' = [c \in Callers |-> IF timer[c] > 0 THEN timer[c] - 1 ELSE 0]
    /\ IF ticks < Horizon
       THEN ticks' = ticks + 1 /\ UNCHANGED granted
       ELSE ticks' = 0 /\ granted' = 0
    /\ UNCHANGED <<tokens, pc>>

\* The observer opens a new window, at any time.
Observe ==
    /\ ticks' = 0
    /\ granted' = 0
    /\ UNCHANGED <<tokens, earned, pc, timer>>

Next ==
    \/ \E c \in Callers : Wait(c) \/ Cancel(c)
    \/ TryAcquire \/ Available \/ Reset \/ Tick \/ Observe

Spec == Init /\ [][Next]_vars

\* Time passes, and a goroutine whose timer has fired runs.  Nothing forces a
\* caller to call, to cancel or to stop polling.
FairSpec ==
    /\ Spec
    /\ WF_vars(Tick)
    /\ \A c \in Callers : WF_vars(pc[c] = "waiting" /\ Wait(c))

-----------------------------------------------------------------------------
(* Properties.                                                             *)

\* "rate: number of requests allowed per second, burst: maximum number of
\* requests allowed at once": in every window of time, whenever it starts and
\* however the callers interleave, what is granted is at most the burst and what
\* the rate allows in that time.
WindowBound == granted <= Burst + Rate * ticks

\* The limiter never blocks everyone: while a caller waits, tokens keep being
\* granted, to it or to another, although other callers may poll TryAcquire and
\* Available, which refill, at any pace.
Progress ==
    \A c \in Callers :
        <>[](pc[c] = "waiting") => []<><<granted' > granted>>_vars
=============================================================================
