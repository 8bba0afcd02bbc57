------------------------------ MODULE WSClient ------------------------------
(***************************************************************************)
(* The connection life cycle of orderbook/ws_client.go: Connect,            *)
(* Disconnect/Close, the read, write and heartbeat loops of a connection,   *)
(* triggerReconnect and the reconnect goroutine.  Every action is one       *)
(* section the code runs under c.mu, one atomic operation, or one blocking  *)
(* call; goroutines interleave between actions.                             *)
(*                                                                         *)
(* A successful dial takes a fresh identity s from Sessions.  s names the   *)
(* connection, the loopCtx created for it and its three loops.  A loop      *)
(* calls triggerReconnect at most once (it is deferred), so the reconnect   *)
(* goroutine it may start carries the loop's own name.                      *)
(*                                                                         *)
(* Subscriptions, messages and the heartbeat clock are in other modules:    *)
(* here a heartbeat may time out at any tick.                               *)
(***************************************************************************)
EXTENDS Naturals

CONSTANTS Callers,     \* goroutines of the application that call Connect
          Sessions,    \* bound: how many dials succeed
          None,
          MaxReconnectAttempts, \* config.MaxReconnectAttempts, 0 = unlimited
          MaxConnects  \* bound: how many calls of Connect dial

ASSUME WSClientAssumption ==
    /\ None \notin Sessions
    /\ Callers \cap (Sessions \X {"read", "write", "heartbeat"}) = {}
    /\ MaxReconnectAttempts \in Nat
    /\ MaxConnects \in Nat

Kinds == {"read", "write", "heartbeat"}
Loops == Sessions \X Kinds

VARIABLES
    state,             \* c.state
    conn,              \* c.conn
    open,              \* connections dialled and not yet closed by the client
    used,              \* identities already given to a dial
    closed,            \* closeChan is closed
    loopCtx,           \* c.loopCtx: the session it was created for
    cancelled,         \* sessions whose loopCtx is cancelled
    reconnecting,      \* c.reconnecting
    reconnectAttempts, \* c.reconnectAttempts
    caller,            \* where each caller is inside Connect
    got,               \* the session a caller or reconnect goroutine dialled
    loop,              \* where each loop is
    myCtx,             \* the loopCtx a loop loaded when it started
    myConn,            \* the connection a read loop is blocked on
    recon,             \* where the reconnect goroutine started by a loop is
    connects,          \* calls of Connect that got past its check of the state
    raced              \* history: one of them began beside another one that had
                       \* not returned, or beside a reconnection

clientVars == <<state, conn, open, used, closed, loopCtx, cancelled>>
goVars == <<caller, got, loop, myCtx, myConn, recon>>
callVars == <<connects, raced>>
vars == <<clientVars, reconnecting, reconnectAttempts, goVars, callVars>>

States == {"Disconnected", "Connecting", "Connected", "Reconnecting"}
CallerPCs == {"idle", "stop", "wait", "connecting", "dial", "fail",
              "up", "reset", "ctx", "spawn"}
LoopPCs == {"none", "start", "run", "blocked", "exit", "cas", "cancel",
            "close", "state", "go", "done"}
ReconPCs == {"none", "wait", "try", "delay", "dial", "up", "reset", "ctx",
             "spawn", "giveup", "clear", "ended"}

TypeOK ==
    /\ state \in States
    /\ conn \in Sessions \union {None}
    /\ open \subseteq Sessions
    /\ used \subseteq Sessions
    /\ closed \in BOOLEAN
    /\ loopCtx \in Sessions \union {None}
    /\ cancelled \subseteq Sessions
    /\ reconnecting \in {0, 1}
    /\ reconnectAttempts \in Nat
    /\ caller \in [Callers -> CallerPCs]
    /\ got \in [Callers \union Loops -> Sessions \union {None}]
    /\ loop \in [Loops -> LoopPCs]
    /\ myCtx \in [Loops -> Sessions \union {None}]
    /\ myConn \in [Loops -> Sessions \union {None}]
    /\ recon \in [Loops -> ReconPCs]
    /\ connects \in 0..MaxConnects
    /\ raced \in BOOLEAN

Init ==
    /\ state = "Disconnected"
    /\ conn = None
    /\ open = {}
    /\ used = {}
    /\ closed = FALSE
    /\ loopCtx = None
    /\ cancelled = {}
    /\ reconnecting = 0
    /\ reconnectAttempts = 0
    /\ caller = [p \in Callers |-> "idle"]
    /\ got = [t \in Callers \union Loops |-> None]
    /\ loop = [l \in Loops |-> "none"]
    /\ myCtx = [l \in Loops |-> None]
    /\ myConn = [l \in Loops |-> None]
    /\ recon = [l \in Loops |-> "none"]
    /\ connects = 0
    /\ raced = FALSE

-----------------------------------------------------------------------------
(* Shared pieces.                                                          *)

\* A loop counted by loopWg.
Live(l) == loop[l] \notin {"none", "done"}

\* loopWg.Wait returns.
LoopsDone == \A l \in Loops : ~Live(l)

\* c.loopCancel(), if there is one.
CancelLoops == cancelled' = cancelled \union ({loopCtx} \ {None})

\* Mutants: closeConnectionLocked forgets Close, or forgets c.conn = nil.
CloseConnectionKeepsOpen == /\ open' = open
                            /\ conn' = None
CloseConnectionKeepsConn == /\ open' = open \ {conn}
                            /\ conn' = conn

\* closeConnectionLocked.
CloseConnection == /\ open' = open \ {conn}
                   /\ conn' = None

\* connect: the dial succeeds and its connection is stored in c.conn.
DialOK(t) == \E s \in Sessions \ used :
                /\ conn' = s
                /\ open' = open \union {s}
                /\ used' = used \union {s}
                /\ got' = [got EXCEPT ![t] = s]

\* reconnectAttempts = 0, then reconnecting = 0.
ResetReconnect == /\ reconnectAttempts' = 0
                  /\ reconnecting' = 0

\* loopWg.Add(3) and the three go statements.
SpawnLoops(s) == loop' = [l \in Loops |-> IF l[1] = s THEN "start" ELSE loop[l]]

-----------------------------------------------------------------------------
(* Connect, called by p.                                                   *)

\* l is replacing a lost connection: it won the compare-and-swap, and the
\* goroutine it starts has not ended.
Busy(l) == \/ loop[l] \in {"cancel", "close", "state", "go"}
           \/ recon[l] \notin {"none", "ended"}

CallerStep(p, from, to) == /\ caller[p] = from
                           /\ caller' = [caller EXCEPT ![p] = to]

ConnectBegin(p) ==
    /\ state \notin {"Connected", "Connecting"}
    /\ CallerStep(p, "idle", "stop")
    /\ connects < MaxConnects
    /\ connects' = connects + 1
    /\ raced' = (raced \/ (\E q \in Callers : caller[q] # "idle") \/ \E l \in Loops : Busy(l))
    /\ UNCHANGED <<clientVars, reconnecting, reconnectAttempts, got, loop, myCtx, myConn,
                   recon>>

\* stopLoops cancels the loops under the lock ...
ConnectStop(p) ==
    /\ CallerStep(p, "stop", "wait")
    /\ CancelLoops
    /\ UNCHANGED <<state, conn, open, used, closed, loopCtx, reconnecting,
                   reconnectAttempts, got, loop, myCtx, myConn, recon, callVars>>

\* ... and then waits for them without it.
ConnectWait(p) ==
    /\ CallerStep(p, "wait", "connecting")
    /\ LoopsDone
    /\ UNCHANGED <<clientVars, reconnecting, reconnectAttempts, got, loop, myCtx, myConn,
                   recon, callVars>>

ConnectConnecting(p) ==
    /\ CallerStep(p, "connecting", "dial")
    /\ state' = "Connecting"
    /\ UNCHANGED <<conn, open, used, closed, loopCtx, cancelled, reconnecting,
                   reconnectAttempts, got, loop, myCtx, myConn, recon, callVars>>

ConnectDialOK(p) ==
    /\ CallerStep(p, "dial", "up")
    /\ DialOK(p)
    /\ UNCHANGED <<state, closed, loopCtx, cancelled, reconnecting,
                   reconnectAttempts, loop, myCtx, myConn, recon, callVars>>

ConnectDialFails(p) ==
    /\ CallerStep(p, "dial", "fail")
    /\ UNCHANGED <<clientVars, reconnecting, reconnectAttempts, got, loop, myCtx, myConn,
                   recon, callVars>>

ConnectFails(p) ==
    /\ CallerStep(p, "fail", "idle")
    /\ state' = "Disconnected"
    /\ UNCHANGED <<conn, open, used, closed, loopCtx, cancelled, reconnecting,
                   reconnectAttempts, got, loop, myCtx, myConn, recon, callVars>>

ConnectUp(p) ==
    /\ CallerStep(p, "up", "reset")
    /\ state' = "Connected"
    /\ UNCHANGED <<conn, open, used, closed, loopCtx, cancelled, reconnecting,
                   reconnectAttempts, got, loop, myCtx, myConn, recon, callVars>>

ConnectReset(p) ==
    /\ CallerStep(p, "reset", "ctx")
    /\ ResetReconnect
    /\ UNCHANGED <<clientVars, got, loop, myCtx, myConn, recon, callVars>>

ConnectCtx(p) ==
    /\ CallerStep(p, "ctx", "spawn")
    /\ loopCtx' = got[p]
    /\ UNCHANGED <<state, conn, open, used, closed, cancelled, reconnecting,
                   reconnectAttempts, got, loop, myCtx, myConn, recon, callVars>>

ConnectSpawn(p) ==
    /\ CallerStep(p, "spawn", "idle")
    /\ SpawnLoops(got[p])
    /\ UNCHANGED <<clientVars, reconnecting, reconnectAttempts, got, myCtx, myConn, recon,
                   callVars>>

\* Disconnect, and Close: one critical section, run by any goroutine.
Disconnect ==
    /\ state # "Disconnected"
    /\ closed' = TRUE
    /\ CancelLoops
    /\ CloseConnection
    /\ state' = "Disconnected"
    /\ UNCHANGED <<used, loopCtx, reconnecting, reconnectAttempts, goVars, callVars>>

-----------------------------------------------------------------------------
(* The loops.                                                              *)

LoopStep(l, from, to) == /\ loop[l] = from
                         /\ loop' = [loop EXCEPT ![l] = to]

\* Mutant: the loops watch their context only.
MustStopByContext(l) == myCtx[l] \in cancelled

MustStop(l) == closed \/ myCtx[l] \in cancelled

LoopStart(l) ==
    /\ LoopStep(l, "start", "run")
    /\ myCtx' = [myCtx EXCEPT ![l] = loopCtx]
    /\ UNCHANGED <<clientVars, reconnecting, reconnectAttempts, caller, got, myConn, recon,
                   callVars>>

\* The head of readLoop: it leaves, or blocks reading the connection it sees.
ReadNext(l) ==
    /\ l[2] = "read"
    /\ LoopStep(l, "run", IF MustStop(l) \/ conn = None THEN "exit" ELSE "blocked")
    /\ myConn' = [myConn EXCEPT ![l] = conn]
    /\ UNCHANGED <<clientVars, reconnecting, reconnectAttempts, caller, got, myCtx, recon,
                   callVars>>

\* A message arrives and its handler runs.
ReadMessage(l) ==
    /\ LoopStep(l, "blocked", "run")
    /\ UNCHANGED <<clientVars, reconnecting, reconnectAttempts, caller, got, myCtx, myConn,
                   recon, callVars>>

\* Mutant: readLoop does not defer triggerReconnect.
ReadFailsQuietly(l) ==
    /\ LoopStep(l, "blocked", "done")
    /\ UNCHANGED <<clientVars, reconnecting, reconnectAttempts, caller, got, myCtx, myConn,
                   recon, callVars>>

\* The read fails: the client closed the connection, or the network broke it.
ReadFails(l) ==
    /\ LoopStep(l, "blocked", "exit")
    /\ UNCHANGED <<clientVars, reconnecting, reconnectAttempts, caller, got, myCtx, myConn,
                   recon, callVars>>

\* writeLoop leaves; it triggers no reconnect.
WriteStops(l) ==
    /\ l[2] = "write"
    /\ MustStop(l)
    /\ LoopStep(l, "run", "done")
    /\ UNCHANGED <<clientVars, reconnecting, reconnectAttempts, caller, got, myCtx, myConn,
                   recon, callVars>>

HeartbeatStops(l) ==
    /\ l[2] = "heartbeat"
    /\ MustStop(l)
    /\ LoopStep(l, "run", "exit")
    /\ UNCHANGED <<clientVars, reconnecting, reconnectAttempts, caller, got, myCtx, myConn,
                   recon, callVars>>

\* A tick finds the last response too old, or the heartbeat cannot be queued.
HeartbeatFails(l) ==
    /\ l[2] = "heartbeat"
    /\ state = "Connected"
    /\ conn # None
    /\ LoopStep(l, "run", "exit")
    /\ UNCHANGED <<clientVars, reconnecting, reconnectAttempts, caller, got, myCtx, myConn,
                   recon, callVars>>

\* triggerReconnect, deferred by readLoop and heartbeatLoop.
TriggerCheck(l) ==
    /\ LoopStep(l, "exit", IF closed THEN "done" ELSE "cas")
    /\ UNCHANGED <<clientVars, reconnecting, reconnectAttempts, caller, got, myCtx, myConn,
                   recon, callVars>>

\* Mutants: the flag is stored without comparing, or is counted up.
TriggerStore(l) ==
    /\ LoopStep(l, "cas", "cancel")
    /\ reconnecting' = 1
    /\ UNCHANGED <<clientVars, reconnectAttempts, caller, got, myCtx, myConn, recon, callVars>>
TriggerCount(l) ==
    /\ LoopStep(l, "cas", IF reconnecting = 0 THEN "cancel" ELSE "done")
    /\ reconnecting' = reconnecting + 1
    /\ UNCHANGED <<clientVars, reconnectAttempts, caller, got, myCtx, myConn, recon, callVars>>

TriggerCAS(l) ==
    /\ LoopStep(l, "cas", IF reconnecting = 0 THEN "cancel" ELSE "done")
    /\ reconnecting' = 1
    /\ UNCHANGED <<clientVars, reconnectAttempts, caller, got, myCtx, myConn, recon, callVars>>

TriggerCancel(l) ==
    /\ LoopStep(l, "cancel", "close")
    /\ CancelLoops
    /\ UNCHANGED <<state, conn, open, used, closed, loopCtx, reconnecting,
                   reconnectAttempts, caller, got, myCtx, myConn, recon, callVars>>

TriggerClose(l) ==
    /\ LoopStep(l, "close", "state")
    /\ CloseConnection
    /\ UNCHANGED <<state, used, closed, loopCtx, cancelled, reconnecting,
                   reconnectAttempts, caller, got, myCtx, myConn, recon, callVars>>

TriggerState(l) ==
    /\ LoopStep(l, "state", "go")
    /\ state' = "Reconnecting"
    /\ UNCHANGED <<conn, open, used, closed, loopCtx, cancelled, reconnecting,
                   reconnectAttempts, caller, got, myCtx, myConn, recon, callVars>>

\* go c.reconnect(), then loopWg.Done.
TriggerGo(l) ==
    /\ LoopStep(l, "go", "done")
    /\ recon' = [recon EXCEPT ![l] = "wait"]
    /\ UNCHANGED <<clientVars, reconnecting, reconnectAttempts, caller, got, myCtx, myConn,
                   callVars>>

-----------------------------------------------------------------------------
(* The reconnect goroutine started by loop r.                              *)

ReconStep(r, from, to) == /\ recon[r] = from
                          /\ recon' = [recon EXCEPT ![r] = to]

\* Mutant: the goroutine does not wait for the old loops.
ReconNoWait(r) ==
    /\ ReconStep(r, "wait", "try")
    /\ UNCHANGED <<clientVars, reconnecting, reconnectAttempts, caller, got, loop, myCtx,
                   myConn, callVars>>

ReconWait(r) ==
    /\ ReconStep(r, "wait", "try")
    /\ LoopsDone
    /\ UNCHANGED <<clientVars, reconnecting, reconnectAttempts, caller, got, loop, myCtx,
                   myConn, callVars>>

\* The head of the retry loop.
ReconStops(r) ==
    /\ closed
    /\ \/ ReconStep(r, "try", "ended")
       \/ ReconStep(r, "delay", "ended")
    /\ UNCHANGED <<clientVars, reconnecting, reconnectAttempts, caller, got, loop, myCtx,
                   myConn, callVars>>

ReconTry(r) ==
    /\ ~closed
    /\ reconnectAttempts' = reconnectAttempts + 1
    /\ ReconStep(r, "try", IF MaxReconnectAttempts > 0 /\ reconnectAttempts' > MaxReconnectAttempts
                             THEN "giveup" ELSE "delay")
    /\ UNCHANGED <<clientVars, reconnecting, caller, got, loop, myCtx, myConn, callVars>>

\* Mutant: giving up without setState(StateDisconnected).
ReconGiveUpSilently(r) ==
    /\ ReconStep(r, "giveup", "clear")
    /\ UNCHANGED <<clientVars, reconnecting, reconnectAttempts, caller, got, loop, myCtx,
                   myConn, callVars>>

\* setState(StateDisconnected): the attempts are used up.
ReconGiveUp(r) ==
    /\ ReconStep(r, "giveup", "clear")
    /\ state' = "Disconnected"
    /\ UNCHANGED <<conn, open, used, closed, loopCtx, cancelled, reconnecting,
                   reconnectAttempts, caller, got, loop, myCtx, myConn, callVars>>

\* Mutant: giving up leaves the flag up.
ReconClearNothing(r) ==
    /\ ReconStep(r, "clear", "ended")
    /\ UNCHANGED <<clientVars, reconnecting, reconnectAttempts, caller, got, loop, myCtx,
                   myConn, callVars>>

ReconClear(r) ==
    /\ ReconStep(r, "clear", "ended")
    /\ reconnecting' = 0
    /\ UNCHANGED <<clientVars, reconnectAttempts, caller, got, loop, myCtx, myConn, callVars>>

\* The delay is over.
ReconDelay(r) ==
    /\ ReconStep(r, "delay", "dial")
    /\ UNCHANGED <<clientVars, reconnecting, reconnectAttempts, caller, got, loop, myCtx,
                   myConn, callVars>>

ReconDialFails(r) ==
    /\ ReconStep(r, "dial", "try")
    /\ UNCHANGED <<clientVars, reconnecting, reconnectAttempts, caller, got, loop, myCtx,
                   myConn, callVars>>

ReconDialOK(r) ==
    /\ ReconStep(r, "dial", "up")
    /\ DialOK(r)
    /\ UNCHANGED <<state, closed, loopCtx, cancelled, reconnecting,
                   reconnectAttempts, caller, loop, myCtx, myConn, callVars>>

ReconUp(r) ==
    /\ ReconStep(r, "up", "reset")
    /\ state' = "Connected"
    /\ UNCHANGED <<conn, open, used, closed, loopCtx, cancelled, reconnecting,
                   reconnectAttempts, caller, got, loop, myCtx, myConn, callVars>>

ReconReset(r) ==
    /\ ReconStep(r, "reset", "ctx")
    /\ ResetReconnect
    /\ UNCHANGED <<clientVars, caller, got, loop, myCtx, myConn, callVars>>

ReconCtx(r) ==
    /\ ReconStep(r, "ctx", "spawn")
    /\ loopCtx' = got[r]
    /\ UNCHANGED <<state, conn, open, used, closed, cancelled, reconnecting,
                   reconnectAttempts, caller, got, loop, myCtx, myConn, callVars>>

ReconSpawn(r) ==
    /\ ReconStep(r, "spawn", "ended")
    /\ SpawnLoops(got[r])
    /\ UNCHANGED <<clientVars, reconnecting, reconnectAttempts, caller, got, myCtx, myConn,
                   callVars>>

-----------------------------------------------------------------------------
Connect(p) ==
    \/ ConnectBegin(p) \/ ConnectStop(p) \/ ConnectWait(p) \/ ConnectConnecting(p)
    \/ ConnectDialOK(p) \/ ConnectDialFails(p) \/ ConnectFails(p) \/ ConnectUp(p)
    \/ ConnectReset(p) \/ ConnectCtx(p) \/ ConnectSpawn(p)

Trigger(l) ==
    \/ TriggerCheck(l) \/ TriggerCAS(l) \/ TriggerCancel(l)
    \/ TriggerClose(l) \/ TriggerState(l) \/ TriggerGo(l)

RunLoop(l) ==
    \/ LoopStart(l) \/ ReadNext(l) \/ ReadMessage(l) \/ ReadFails(l)
    \/ WriteStops(l) \/ HeartbeatStops(l) \/ HeartbeatFails(l) \/ Trigger(l)

Reconnect(r) ==
    \/ ReconWait(r) \/ ReconStops(r) \/ ReconTry(r) \/ ReconGiveUp(r) \/ ReconClear(r)
    \/ ReconDelay(r) \/ ReconDialFails(r) \/ ReconDialOK(r) \/ ReconUp(r)
    \/ ReconReset(r) \/ ReconCtx(r) \/ ReconSpawn(r)

Next == \/ \E p \in Callers : Connect(p)
        \/ Disconnect
        \/ \E l \in Loops : RunLoop(l) \/ Reconnect(l)

Spec == Init /\ [][Next]_vars

\* Fairness: a goroutine that can run does run; a dial ends (it is bounded by a
\* context); a read of a connection the client closed returns an error.  The
\* application, the network and the heartbeat clock owe nothing.
ConnectGoesOn(p) == Connect(p) /\ caller[p] # "idle"
LoopGoesOn(l) ==
    \/ LoopStart(l) \/ ReadNext(l) \/ WriteStops(l) \/ HeartbeatStops(l) \/ Trigger(l)
    \/ ReadFails(l) /\ myConn[l] \notin open

FairSpec == /\ Spec
            /\ \A p \in Callers : WF_vars(ConnectGoesOn(p))
            /\ \A l \in Loops : WF_vars(LoopGoesOn(l)) /\ WF_vars(Reconnect(l))

-----------------------------------------------------------------------------
(* Properties.  Callers connect when they like.  A Connect that runs beside   *)
(* another one or beside a reconnection (raced) dials a second connection;    *)
(* the properties that say "unless raced" are false without these words.      *)

\* l is executing triggerReconnect after winning the compare-and-swap, or the
\* goroutine it started has not yet handed the flag back.
Owns(l) == \/ loop[l] \in {"cancel", "close", "state", "go"}
           \/ recon[l] \in {"wait", "try", "delay", "dial", "up", "reset", "giveup", "clear"}

\* The flag reconnecting is up only in somebody's hands, whatever callers do: were
\* it left up, no loss would ever be repaired again.  (Close leaves it up.)
FlagHeld == ~closed /\ reconnecting = 1 => \E l \in Loops : Owns(l)

\* Unless raced, a lost connection is being replaced by one goroutine, whichever
\* of its loops noticed first and however late the others notice; also when
\* Connect is called again after a failed dial, after giving up or after Close.
OneReconnect == ~raced => \A l, m \in Loops : Owns(l) /\ Owns(m) => l = m

\* Unless raced, the loops of two connections never run together: no loop of the
\* old connection reads from, or condemns, the new one.
NoOverlap == ~raced => \A l, m \in Loops : Live(l) /\ Live(m) => l[1] = m[1]

\* Unless raced, every connection the client has not closed is the one in c.conn,
\* where Disconnect and triggerReconnect will find it to close it.
NoLeak == ~raced => open \subseteq {conn}

\* Somebody is between a successful dial and the start of its loops.
Establishing == \/ \E p \in Callers : caller[p] \in {"up", "reset", "ctx", "spawn"}
                \/ \E r \in Loops : recon[r] \in {"up", "reset", "ctx", "spawn"}

\* Unless raced, a client that reports Connected (and is not closed) will learn of
\* the loss of its connection: its read loop is running on it, or somebody is
\* already starting one or replacing the connection.
Attended ==
    state = "Connected" /\ ~closed /\ ~raced =>
        \/ Establishing
        \/ \E l \in Loops : Owns(l)
        \/ \E l \in Loops : l[2] = "read" /\ l[1] = conn /\ Live(l)

\* Unless raced, a lost connection is replaced, or the client says Disconnected: it
\* never stays in Reconnecting (a closed client aside).
Recovers == (state = "Reconnecting") ~> (state # "Reconnecting" \/ closed \/ raced)

\* Unless raced, after Close every goroutine of the client ends, and so do those of
\* a later Connect.
Ended == LoopsDone /\ \A r \in Loops : recon[r] \in {"none", "ended"}
Drains == closed ~> (raced \/ Ended)

\* "Close closes the client permanently": once Disconnect or Close has closed
\* closeChan, the client never reports Connected again.
ClosedIsPermanent == closed => state # "Connected"

\* The client implements the abstract connection service, variable by variable:
\* what State() reports, the connection held, those made, closeChan, and whether
\* its callers raced.
S == INSTANCE Service

ImplementsService == S!Spec
=============================================================================
