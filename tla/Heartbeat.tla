----------------------------- MODULE Heartbeat -----------------------------
(***************************************************************************)
(* The heartbeat clock of orderbook/ws_client.go: heartbeatLoop, its ticker *)
(* and lastHeartbeatResp, across reconnections.                            *)
(*                                                                         *)
(* Time is discrete.  The ticker fires exactly every Interval units and the *)
(* loop runs at once; a peer that is alive answers a heartbeat after at     *)
(* most Delay units.  Ages are kept instead of instants, capped at Cap,     *)
(* which no comparison of the code reaches.  Names that WSClient has too are *)
(* prefixed: WSClient_proof extends both modules.                          *)
(***************************************************************************)
EXTENDS Naturals

CONSTANTS Interval,   \* config.HeartbeatInterval
          Delay,      \* bound: how late a live peer answers
          MaxOutages  \* bound: how often the network or the peer fails

ASSUME HeartbeatAssumption ==
    /\ Interval \in Nat \ {0}
    /\ Delay \in 0..(2 * Interval - 1)
    /\ MaxOutages \in Nat

\* timeout := interval * 2
Timeout == 2 * Interval
Cap == 3 * Interval + 1

VARIABLES
    up,        \* the client is Connected and its loops run
    first,     \* this is the connection made by Connect
    respAge,   \* time since lastHeartbeatResp
    connAge,   \* time since the connection was made
    elapsed,   \* time since the ticker started or last fired
    pending,   \* ages of the heartbeats sent on this connection, unanswered
    alive,     \* the peer answers
    outages    \* failures so far

heartbeatVars == <<up, first, respAge, connAge, elapsed, pending, alive, outages>>

HeartbeatTypeOK ==
    /\ up \in BOOLEAN
    /\ first \in BOOLEAN
    /\ respAge \in 0..Cap
    /\ connAge \in 0..Cap
    /\ elapsed \in 0..Interval
    /\ pending \subseteq 0..Cap
    /\ alive \in BOOLEAN
    /\ outages \in 0..MaxOutages

\* Connect has just succeeded: it sets lastHeartbeatResp and starts the loops.
HeartbeatInit ==
    /\ up = TRUE
    /\ first = TRUE
    /\ respAge = 0
    /\ connAge = 0
    /\ elapsed = 0
    /\ pending = {}
    /\ alive = TRUE
    /\ outages = 0

Older(age) == IF age < Cap THEN age + 1 ELSE Cap

\* Time passes, unless the ticker or an answer is due.
Pass ==
    /\ up => elapsed < Interval
    /\ up /\ alive => \A age \in pending : age < Delay
    /\ respAge' = Older(respAge)
    /\ connAge' = Older(connAge)
    /\ elapsed' = IF up THEN elapsed + 1 ELSE elapsed
    /\ pending' = {Older(age) : age \in pending}
    /\ UNCHANGED <<up, first, alive, outages>>

\* Mutant: the timeout is tested after a third interval.
BeatLater ==
    /\ up
    /\ elapsed = Interval
    /\ elapsed' = 0
    /\ IF respAge > Timeout + Interval
       THEN up' = FALSE /\ UNCHANGED pending
       ELSE pending' = pending \union {0} /\ UNCHANGED up
    /\ UNCHANGED <<first, respAge, connAge, alive, outages>>

\* Mutant: the bound is tested with >= and against one interval.
BeatHasty ==
    /\ up
    /\ elapsed = Interval
    /\ elapsed' = 0
    /\ IF respAge >= Interval
       THEN up' = FALSE /\ UNCHANGED pending
       ELSE pending' = pending \union {0} /\ UNCHANGED up
    /\ UNCHANGED <<first, respAge, connAge, alive, outages>>

\* The ticker fires: leave the loop (triggerReconnect) or send a heartbeat.
Beat ==
    /\ up
    /\ elapsed = Interval
    /\ elapsed' = 0
    /\ IF respAge > Timeout
       THEN up' = FALSE /\ UNCHANGED pending
       ELSE pending' = pending \union {0} /\ UNCHANGED up
    /\ UNCHANGED <<first, respAge, connAge, alive, outages>>

\* The oldest heartbeat is answered: UpdateHeartbeatResponse.
Respond ==
    /\ up
    /\ alive
    /\ \E age \in pending :
          /\ \A other \in pending : other <= age
          /\ pending' = pending \ {age}
    /\ respAge' = 0
    /\ UNCHANGED <<up, first, connAge, elapsed, alive, outages>>

\* The read loop fails: triggerReconnect.
Break ==
    /\ up
    /\ outages < MaxOutages
    /\ outages' = outages + 1
    /\ up' = FALSE
    /\ UNCHANGED <<first, respAge, connAge, elapsed, pending, alive>>

\* The peer stops answering without closing the connection.
Hang ==
    /\ up
    /\ alive
    /\ outages < MaxOutages
    /\ outages' = outages + 1
    /\ alive' = FALSE
    /\ UNCHANGED <<up, first, respAge, connAge, elapsed, pending>>

\* reconnect succeeds: new loops, a new ticker, a new peer; lastHeartbeatResp
\* keeps its value.
Resume ==
    /\ ~up
    /\ up' = TRUE
    /\ first' = FALSE
    /\ connAge' = 0
    /\ elapsed' = 0
    /\ pending' = {}
    /\ alive' = TRUE
    /\ UNCHANGED <<respAge, outages>>

HeartbeatNext == Pass \/ Beat \/ Respond \/ Break \/ Hang \/ Resume

HeartbeatSpec == HeartbeatInit /\ [][HeartbeatNext]_heartbeatVars

-----------------------------------------------------------------------------
(* Properties.                                                             *)

\* A peer that falls silent is noticed: on a connection that has seen a tick, the
\* last response is never older than three intervals, although the ticker and the
\* answers run at their own pace and the instant compared outlives reconnections.
SilenceIsNoticed == up => respAge <= 3 * Interval \/ connAge <= Interval

\* The connection made by Connect is condemned by the heartbeat only if its peer
\* stopped answering: a live peer, however slow within Delay, never is.
FirstTimeoutIsJustified ==
    [][Beat /\ ~up' /\ first => ~alive]_heartbeatVars

\* "Heartbeat response timeout: 2x interval": the heartbeat condemns a connection
\* only after it has been up for more than two intervals.
TimeoutTakesTwoIntervals ==
    [][Beat /\ ~up' => connAge > Timeout]_heartbeatVars
=============================================================================
