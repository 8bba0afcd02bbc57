--------------------------- MODULE WSClient_proof ---------------------------
(***************************************************************************)
(* Theorems about WSClient: unless a Connect runs beside another one or     *)
(* beside a reconnection, a lost connection has one reconnect goroutine,    *)
(* loops of two connections never overlap and no connection is leaked;      *)
(* whatever callers do, the flag of reconnections is never stuck, and the   *)
(* client implements Service; for any sets of callers and sessions and any  *)
(* limit on attempts.  And theorems about Heartbeat.                        *)
(***************************************************************************)
EXTENDS WSClient, Heartbeat, TLAPS

-----------------------------------------------------------------------------
(* The inductive invariant.                                                *)

\* A caller inside Connect is the only one.  Once it has waited, no loop is left,
\* and it dials without a connection.  Nobody reconnects beside it, but for
\* goroutines of a closed client that will not dial.
CallerAlone ==
    \A p \in Callers : caller[p] # "idle" =>
        /\ \A q \in Callers : caller[q] # "idle" => q = p
        /\ caller[p] \notin {"stop", "wait"} => LoopsDone
        /\ caller[p] \in {"stop", "wait", "connecting", "dial", "fail"} => conn = None
        /\ \A l \in Loops : recon[l] \in {"none", "wait", "try", "ended"}
        /\ ~closed => LoopsDone /\ \A l \in Loops : ~Busy(l)

OneBusy == \A l, m \in Loops : Busy(l) /\ Busy(m) => l = m

\* While somebody reconnects no other loop can win the compare-and-swap.
FlagUp == \A l \in Loops : Busy(l) =>
              \/ reconnecting = 1
              \/ LoopsDone
              \/ closed /\ \A m \in Loops : loop[m] # "cas"

\* A goroutine past loopWg.Wait is alone, unless it will find the client closed.
Alone == \A r \in Loops :
             \/ recon[r] \in {"none", "wait", "ended"}
             \/ recon[r] = "try" /\ closed
             \/ LoopsDone

\* The old connection is gone before another is dialled.
Dropped == \A l \in Loops :
               \/ loop[l] \in {"state", "go"}
               \/ recon[l] \in {"delay", "dial", "giveup", "clear"}
               \/ recon[l] \in {"wait", "try"} /\ ~closed
               => conn = None

\* A connection just dialled is about to be reported, any other is.
Known == \/ conn = None
         \/ state = "Connected"
         \/ \E p \in Callers : caller[p] = "up"
         \/ \E r \in Loops : recon[r] = "up"

Safe == /\ CallerAlone /\ OneBusy /\ FlagUp /\ Alone
        /\ Dropped /\ Known /\ open \subseteq {conn} /\ NoOverlap

\* What was dialled is what the client holds when its loops start.
Ready ==
    /\ \A p \in Callers : caller[p] \in {"up", "reset", "ctx", "spawn"} => got[p] = conn
    /\ \A r \in Loops : recon[r] \in {"up", "reset", "ctx", "spawn"} => got[r] = conn

CallerReports ==
    \A p \in Callers :
        /\ caller[p] \in {"stop", "wait", "connecting"} => state = "Disconnected"
        /\ caller[p] \in {"dial", "fail", "up"} => state = "Connecting"
        /\ caller[p] \in {"reset", "ctx", "spawn"} => state = "Connected"

LoopReports ==
    \A l \in Loops :
        /\ Live(l) => state \in {"Connected", "Reconnecting"}
        /\ loop[l] \in {"cancel", "close", "state"} => state = "Connected"
        /\ loop[l] = "go" => state = "Reconnecting"

ReconReports ==
    \A r \in Loops :
        /\ recon[r] \in {"wait", "try", "delay", "dial", "up", "giveup"} => state = "Reconnecting"
        /\ recon[r] \in {"reset", "ctx", "spawn"} => state = "Connected"
        /\ recon[r] = "clear" => state = "Disconnected"

\* An open client that reports Reconnecting is being repaired.
Repaired == state = "Reconnecting" => \E l \in Loops : Busy(l)

\* What the state of an open client says of its goroutines.
Told == ~closed =>
    /\ Ready /\ CallerReports /\ LoopReports /\ ReconReports /\ Repaired /\ Attended

-----------------------------------------------------------------------------
(* What holds even when callers race.                                      *)

\* A loop exists only once its session has been dialled, and its reconnect
\* goroutine only once it has ended.
Born == \A l \in Loops : /\ l[1] \notin used => loop[l] = "none"
                         /\ recon[l] # "none" => loop[l] = "done"

\* t has dialled and has not started loops yet.
Bears(t) == \/ t \in Callers /\ caller[t] \in {"up", "reset", "ctx", "spawn"}
            \/ t \in Loops /\ recon[t] \in {"up", "reset", "ctx", "spawn"}

\* The loops about to be started are new, and nobody else will start them.
Prepared ==
    \A t \in Callers \union Loops : Bears(t) =>
        /\ got[t] \in used
        /\ \A l \in Loops : l[1] = got[t] => loop[l] = "none"
        /\ \A u \in Callers \union Loops : Bears(u) /\ got[u] = got[t] => u = t

\* What is held was dialled.
Dialled == conn # None => conn \in used

Lasting == Born /\ Prepared /\ Dialled /\ FlagHeld

IInv == TypeOK /\ Lasting /\ (~raced => Safe /\ Told)

-----------------------------------------------------------------------------
(* Each part is preserved, action by action.                               *)

\* Type correctness needs no help.
LEMMA TypePreserved ==
  ASSUME TypeOK, [Next]_vars
  PROVE  TypeOK'
<1> USE WSClientAssumption DEF TypeOK, States, CallerPCs, LoopPCs, ReconPCs,
        clientVars, goVars, callVars
<1>1. [Next]_vars  OBVIOUS
<1>2. TypeOK'
<2>1. ASSUME NEW p \in Callers, ConnectBegin(p) PROVE TypeOK'
  BY <2>1 DEF ConnectBegin, CallerStep
<2>2. ASSUME NEW p \in Callers, ConnectStop(p) PROVE TypeOK'
  BY <2>2 DEF ConnectStop, CallerStep, CancelLoops
<2>3. ASSUME NEW p \in Callers, ConnectWait(p) PROVE TypeOK'
  BY <2>3 DEF ConnectWait, CallerStep
<2>4. ASSUME NEW p \in Callers, ConnectConnecting(p) PROVE TypeOK'
  BY <2>4 DEF ConnectConnecting, CallerStep
<2>5. ASSUME NEW p \in Callers, ConnectDialOK(p) PROVE TypeOK'
  BY <2>5 DEF ConnectDialOK, CallerStep, DialOK
<2>6. ASSUME NEW p \in Callers, ConnectDialFails(p) PROVE TypeOK'
  BY <2>6 DEF ConnectDialFails, CallerStep
<2>7. ASSUME NEW p \in Callers, ConnectFails(p) PROVE TypeOK'
  BY <2>7 DEF ConnectFails, CallerStep
<2>8. ASSUME NEW p \in Callers, ConnectUp(p) PROVE TypeOK'
  BY <2>8 DEF ConnectUp, CallerStep
<2>9. ASSUME NEW p \in Callers, ConnectReset(p) PROVE TypeOK'
  BY <2>9 DEF ConnectReset, CallerStep, ResetReconnect
<2>10. ASSUME NEW p \in Callers, ConnectCtx(p) PROVE TypeOK'
  BY <2>10 DEF ConnectCtx, CallerStep
<2>11. ASSUME NEW p \in Callers, ConnectSpawn(p) PROVE TypeOK'
  BY <2>11 DEF ConnectSpawn, CallerStep, SpawnLoops
<2>12. ASSUME Disconnect PROVE TypeOK'
  BY <2>12 DEF Disconnect, CancelLoops, CloseConnection
<2>13. ASSUME NEW l \in Loops, LoopStart(l) PROVE TypeOK'
  BY <2>13 DEF LoopStart, LoopStep
<2>14. ASSUME NEW l \in Loops, ReadNext(l) PROVE TypeOK'
  BY <2>14 DEF ReadNext, LoopStep, MustStop
<2>15. ASSUME NEW l \in Loops, ReadMessage(l) PROVE TypeOK'
  BY <2>15 DEF ReadMessage, LoopStep
<2>16. ASSUME NEW l \in Loops, ReadFails(l) PROVE TypeOK'
  BY <2>16 DEF ReadFails, LoopStep
<2>17. ASSUME NEW l \in Loops, WriteStops(l) PROVE TypeOK'
  BY <2>17 DEF WriteStops, LoopStep, MustStop
<2>18. ASSUME NEW l \in Loops, HeartbeatStops(l) PROVE TypeOK'
  BY <2>18 DEF HeartbeatStops, LoopStep, MustStop
<2>19. ASSUME NEW l \in Loops, HeartbeatFails(l) PROVE TypeOK'
  BY <2>19 DEF HeartbeatFails, LoopStep
<2>20. ASSUME NEW l \in Loops, TriggerCheck(l) PROVE TypeOK'
  BY <2>20 DEF TriggerCheck, LoopStep
<2>21. ASSUME NEW l \in Loops, TriggerCAS(l) PROVE TypeOK'
  BY <2>21 DEF TriggerCAS, LoopStep
<2>22. ASSUME NEW l \in Loops, TriggerCancel(l) PROVE TypeOK'
  BY <2>22 DEF TriggerCancel, LoopStep, CancelLoops
<2>23. ASSUME NEW l \in Loops, TriggerClose(l) PROVE TypeOK'
  BY <2>23 DEF TriggerClose, LoopStep, CloseConnection
<2>24. ASSUME NEW l \in Loops, TriggerState(l) PROVE TypeOK'
  BY <2>24 DEF TriggerState, LoopStep
<2>25. ASSUME NEW l \in Loops, TriggerGo(l) PROVE TypeOK'
  BY <2>25 DEF TriggerGo, LoopStep
<2>26. ASSUME NEW r \in Loops, ReconWait(r) PROVE TypeOK'
  BY <2>26 DEF ReconWait, ReconStep
<2>27. ASSUME NEW r \in Loops, ReconStops(r) PROVE TypeOK'
  BY <2>27 DEF ReconStops, ReconStep
<2>28. ASSUME NEW r \in Loops, ReconTry(r) PROVE TypeOK'
  BY <2>28 DEF ReconTry, ReconStep
<2>29. ASSUME NEW r \in Loops, ReconGiveUp(r) PROVE TypeOK'
  BY <2>29 DEF ReconGiveUp, ReconStep
<2>30. ASSUME NEW r \in Loops, ReconClear(r) PROVE TypeOK'
  BY <2>30 DEF ReconClear, ReconStep
<2>31. ASSUME NEW r \in Loops, ReconDelay(r) PROVE TypeOK'
  BY <2>31 DEF ReconDelay, ReconStep
<2>32. ASSUME NEW r \in Loops, ReconDialFails(r) PROVE TypeOK'
  BY <2>32 DEF ReconDialFails, ReconStep
<2>33. ASSUME NEW r \in Loops, ReconDialOK(r) PROVE TypeOK'
  BY <2>33 DEF ReconDialOK, ReconStep, DialOK
<2>34. ASSUME NEW r \in Loops, ReconUp(r) PROVE TypeOK'
  BY <2>34 DEF ReconUp, ReconStep
<2>35. ASSUME NEW r \in Loops, ReconReset(r) PROVE TypeOK'
  BY <2>35 DEF ReconReset, ReconStep, ResetReconnect
<2>36. ASSUME NEW r \in Loops, ReconCtx(r) PROVE TypeOK'
  BY <2>36 DEF ReconCtx, ReconStep
<2>37. ASSUME NEW r \in Loops, ReconSpawn(r) PROVE TypeOK'
  BY <2>37 DEF ReconSpawn, ReconStep, SpawnLoops
<2>38. CASE UNCHANGED vars
  BY <2>38 DEF vars
<2> HIDE DEF TypeOK
<2> QED
  BY <1>1, <2>1, <2>2, <2>3, <2>4, <2>5, <2>6, <2>7, <2>8, <2>9, <2>10, <2>11, <2>12, <2>13,
     <2>14, <2>15, <2>16, <2>17, <2>18, <2>19, <2>20, <2>21, <2>22, <2>23, <2>24, <2>25,
     <2>26, <2>27, <2>28, <2>29, <2>30, <2>31, <2>32, <2>33, <2>34, <2>35, <2>36, <2>37,
     <2>38
  DEF Next, Connect, RunLoop, Trigger, Reconnect
<1> QED  BY <1>2

\* Starting loops, for a caller or a reconnect goroutine: they are new.
LEMMA SpawnLasting ==
  ASSUME TypeOK, Lasting, NEW t \in Callers \union Loops, Bears(t), SpawnLoops(got[t]),
         UNCHANGED <<clientVars, reconnecting, got>>,
         \A u \in Callers \union Loops : Bears(u)' => Bears(u) /\ u # t,
         \A l \in Loops : recon'[l] = recon[l] \/ recon[l] = "spawn"
  PROVE  Lasting'
<1>1. got[t] \in used /\ \A l \in Loops : l[1] = got[t] => loop[l] = "none"
  BY DEF Lasting, Prepared
<1>2. \A l \in Loops : loop'[l] = loop[l] \/ (l[1] = got[t] /\ loop[l] = "none")
  BY <1>1 DEF SpawnLoops
<1>3. Born'
  BY <1>1, <1>2 DEF Lasting, Born, SpawnLoops, clientVars
<1>4. Prepared'
  <2> SUFFICES ASSUME NEW u \in Callers \union Loops, Bears(u)'
               PROVE  /\ got[u] \in used
                      /\ \A l \in Loops : l[1] = got[u] => loop'[l] = "none"
                      /\ \A v \in Callers \union Loops : Bears(v)' /\ got[v] = got[u] => v = u
    BY DEF Prepared, clientVars
  <2>1. Bears(u) /\ got[u] # got[t]
    BY DEF Lasting, Prepared
  <2> QED  BY <2>1, <1>2 DEF Lasting, Prepared
<1>5. FlagHeld'
  <2> SUFFICES ASSUME ~closed, reconnecting = 1 PROVE FlagHeld'
    BY DEF FlagHeld, clientVars
  <2>1. PICK m \in Loops : Owns(m)
    BY DEF Lasting, FlagHeld
  <2>2. Owns(m)'
    BY <2>1, <1>2 DEF Owns
  <2> QED  BY <2>2 DEF FlagHeld
<1> QED  BY <1>3, <1>4, <1>5 DEF Lasting, Dialled, clientVars

\* Every dial takes a new identity, and its loops are started once.
LEMMA LastingPreserved ==
  ASSUME TypeOK, Lasting, [Next]_vars
  PROVE  Lasting'
<1> USE WSClientAssumption DEF TypeOK, Lasting, Born, Prepared, Dialled, FlagHeld, Bears, Owns,
        Loops, clientVars, goVars, callVars
<1>1. [Next]_vars  OBVIOUS
<1>2. Lasting'
<2>1. ASSUME NEW p \in Callers, ConnectBegin(p) PROVE Lasting'
  BY <2>1 DEF ConnectBegin, CallerStep
<2>2. ASSUME NEW p \in Callers, ConnectStop(p) PROVE Lasting'
  BY <2>2 DEF ConnectStop, CallerStep, CancelLoops
<2>3. ASSUME NEW p \in Callers, ConnectWait(p) PROVE Lasting'
  BY <2>3 DEF ConnectWait, CallerStep
<2>4. ASSUME NEW p \in Callers, ConnectConnecting(p) PROVE Lasting'
  BY <2>4 DEF ConnectConnecting, CallerStep
<2>5. ASSUME NEW p \in Callers, ConnectDialOK(p) PROVE Lasting'
  BY <2>5 DEF ConnectDialOK, CallerStep, DialOK
<2>6. ASSUME NEW p \in Callers, ConnectDialFails(p) PROVE Lasting'
  BY <2>6 DEF ConnectDialFails, CallerStep
<2>7. ASSUME NEW p \in Callers, ConnectFails(p) PROVE Lasting'
  BY <2>7 DEF ConnectFails, CallerStep
<2>8. ASSUME NEW p \in Callers, ConnectUp(p) PROVE Lasting'
  BY <2>8 DEF ConnectUp, CallerStep
<2>9. ASSUME NEW p \in Callers, ConnectReset(p) PROVE Lasting'
  BY <2>9 DEF ConnectReset, CallerStep, ResetReconnect
<2>10. ASSUME NEW p \in Callers, ConnectCtx(p) PROVE Lasting'
  BY <2>10 DEF ConnectCtx, CallerStep
<2>11. ASSUME NEW p \in Callers, ConnectSpawn(p) PROVE Lasting'
  <3>1. \A q \in Callers : caller'[q] = IF q = p THEN "idle" ELSE caller[q]
    BY <2>11 DEF ConnectSpawn, CallerStep, TypeOK
  <3>2. \A u \in Callers \union Loops : Bears(u)' => Bears(u) /\ u # p
    BY <2>11, <3>1, WSClientAssumption DEF ConnectSpawn, Bears, Loops, Kinds
  <3> QED  BY <2>11, <3>1, <3>2, SpawnLasting DEF ConnectSpawn, CallerStep, Bears
<2>12. ASSUME Disconnect PROVE Lasting'
  BY <2>12 DEF Disconnect, CancelLoops, CloseConnection
<2>13. ASSUME NEW l \in Loops, LoopStart(l) PROVE Lasting'
  BY <2>13 DEF LoopStart, LoopStep
<2>14. ASSUME NEW l \in Loops, ReadNext(l) PROVE Lasting'
  BY <2>14 DEF ReadNext, LoopStep, MustStop
<2>15. ASSUME NEW l \in Loops, ReadMessage(l) PROVE Lasting'
  BY <2>15 DEF ReadMessage, LoopStep
<2>16. ASSUME NEW l \in Loops, ReadFails(l) PROVE Lasting'
  BY <2>16 DEF ReadFails, LoopStep
<2>17. ASSUME NEW l \in Loops, WriteStops(l) PROVE Lasting'
  BY <2>17 DEF WriteStops, LoopStep, MustStop
<2>18. ASSUME NEW l \in Loops, HeartbeatStops(l) PROVE Lasting'
  BY <2>18 DEF HeartbeatStops, LoopStep, MustStop
<2>19. ASSUME NEW l \in Loops, HeartbeatFails(l) PROVE Lasting'
  BY <2>19 DEF HeartbeatFails, LoopStep
<2>20. ASSUME NEW l \in Loops, TriggerCheck(l) PROVE Lasting'
  BY <2>20 DEF TriggerCheck, LoopStep
<2>21. ASSUME NEW l \in Loops, TriggerCAS(l) PROVE Lasting'
  BY <2>21 DEF TriggerCAS, LoopStep
<2>22. ASSUME NEW l \in Loops, TriggerCancel(l) PROVE Lasting'
  BY <2>22 DEF TriggerCancel, LoopStep, CancelLoops
<2>23. ASSUME NEW l \in Loops, TriggerClose(l) PROVE Lasting'
  BY <2>23 DEF TriggerClose, LoopStep, CloseConnection
<2>24. ASSUME NEW l \in Loops, TriggerState(l) PROVE Lasting'
  BY <2>24 DEF TriggerState, LoopStep
<2>25. ASSUME NEW l \in Loops, TriggerGo(l) PROVE Lasting'
  BY <2>25 DEF TriggerGo, LoopStep
<2>26. ASSUME NEW r \in Loops, ReconWait(r) PROVE Lasting'
  BY <2>26 DEF ReconWait, ReconStep
<2>27. ASSUME NEW r \in Loops, ReconStops(r) PROVE Lasting'
  BY <2>27 DEF ReconStops, ReconStep
<2>28. ASSUME NEW r \in Loops, ReconTry(r) PROVE Lasting'
  BY <2>28 DEF ReconTry, ReconStep
<2>29. ASSUME NEW r \in Loops, ReconGiveUp(r) PROVE Lasting'
  BY <2>29 DEF ReconGiveUp, ReconStep
<2>30. ASSUME NEW r \in Loops, ReconClear(r) PROVE Lasting'
  BY <2>30 DEF ReconClear, ReconStep
<2>31. ASSUME NEW r \in Loops, ReconDelay(r) PROVE Lasting'
  BY <2>31 DEF ReconDelay, ReconStep
<2>32. ASSUME NEW r \in Loops, ReconDialFails(r) PROVE Lasting'
  BY <2>32 DEF ReconDialFails, ReconStep
<2>33. ASSUME NEW r \in Loops, ReconDialOK(r) PROVE Lasting'
  BY <2>33 DEF ReconDialOK, ReconStep, DialOK
<2>34. ASSUME NEW r \in Loops, ReconUp(r) PROVE Lasting'
  BY <2>34 DEF ReconUp, ReconStep
<2>35. ASSUME NEW r \in Loops, ReconReset(r) PROVE Lasting'
  BY <2>35 DEF ReconReset, ReconStep, ResetReconnect
<2>36. ASSUME NEW r \in Loops, ReconCtx(r) PROVE Lasting'
  BY <2>36 DEF ReconCtx, ReconStep
<2>37. ASSUME NEW r \in Loops, ReconSpawn(r) PROVE Lasting'
  <3>1. \A l \in Loops : recon'[l] = IF l = r THEN "ended" ELSE recon[l]
    BY <2>37 DEF ReconSpawn, ReconStep, TypeOK
  <3>2. \A u \in Callers \union Loops : Bears(u)' => Bears(u) /\ u # r
    BY <2>37, <3>1, WSClientAssumption DEF ReconSpawn, Bears, Loops, Kinds
  <3> QED  BY <2>37, <3>1, <3>2, SpawnLasting DEF ReconSpawn, ReconStep, Bears
<2>38. CASE UNCHANGED vars
  BY <2>38 DEF vars
<2> HIDE DEF TypeOK, Lasting, Born, Prepared, Dialled, FlagHeld, Bears, Owns,
        Loops, clientVars, goVars, callVars
<2> QED
  BY <1>1, <2>1, <2>2, <2>3, <2>4, <2>5, <2>6, <2>7, <2>8, <2>9, <2>10, <2>11, <2>12, <2>13,
     <2>14, <2>15, <2>16, <2>17, <2>18, <2>19, <2>20, <2>21, <2>22, <2>23, <2>24, <2>25,
     <2>26, <2>27, <2>28, <2>29, <2>30, <2>31, <2>32, <2>33, <2>34, <2>35, <2>36, <2>37,
     <2>38
  DEF Next, Connect, RunLoop, Trigger, Reconnect
<1> QED  BY <1>2

\* A Connect that races nobody finds the client down, without loops and without a
\* connection, unless it was closed.
LEMMA ConnectBeginSteps ==
  ASSUME TypeOK, Safe, Told, NEW p \in Callers, ConnectBegin(p), ~raced'
  PROVE  Safe' /\ Told'
<1>1. /\ state \notin {"Connected", "Connecting"}
      /\ caller' = [caller EXCEPT ![p] = "stop"]
      /\ \A q \in Callers : caller[q] = "idle"
      /\ \A l \in Loops : ~Busy(l)
      /\ UNCHANGED <<clientVars, reconnecting, got, loop, recon>>
  BY DEF ConnectBegin, CallerStep
<1>2. \A q \in Callers : caller'[q] = IF q = p THEN "stop" ELSE "idle"
  BY <1>1 DEF TypeOK
<1>3. \A l \in Loops : recon[l] \in {"none", "ended"} /\ ~Busy(l)'
  BY <1>1 DEF Busy
<1>4. ~closed => state = "Disconnected" /\ LoopsDone
  BY <1>1 DEF Told, Repaired, LoopReports, LoopsDone, TypeOK, States
<1>5. conn = None
  BY <1>1, <1>3 DEF Safe, Known
<1>6. CallerAlone'
  BY <1>1, <1>2, <1>3, <1>4, <1>5 DEF CallerAlone, LoopsDone, Live, Busy, clientVars
<1>7. Safe'
  <2>1. OneBusy' /\ FlagUp' /\ Alone'
    BY <1>1, <1>3 DEF OneBusy, FlagUp, Alone
  <2>2. Dropped' /\ Known'
    BY <1>1, <1>3, <1>5 DEF Dropped, Known, Busy, clientVars
  <2>3. NoOverlap' /\ (open \subseteq {conn})'
    BY <1>1 DEF Safe, NoOverlap, Live, ConnectBegin, clientVars
  <2> QED  BY <1>6, <2>1, <2>2, <2>3 DEF Safe
<1>8. Told'
  <2> SUFFICES ASSUME ~closed PROVE Told'
    BY <1>1 DEF Told, clientVars
  <2>1. Ready' /\ CallerReports'
    BY <1>1, <1>2, <1>3, <1>4 DEF Ready, CallerReports, clientVars
  <2>2. LoopReports' /\ ReconReports' /\ Repaired'
    BY <1>1, <1>3, <1>4 DEF LoopReports, ReconReports, Repaired, LoopsDone, Live, clientVars
  <2>3. Attended'
    BY <1>1 DEF Attended, clientVars
  <2> QED  BY <2>1, <2>2, <2>3 DEF Told
<1> QED  BY <1>7, <1>8

\* Starting the loops of a reconnection: everybody else is gone.
LEMMA ReconSpawnSteps ==
  ASSUME TypeOK, Lasting, Safe, Told, ~raced', NEW r \in Loops, ReconSpawn(r)
  PROVE  Safe' /\ Told'
<1>1. /\ recon[r] = "spawn"
      /\ recon' = [recon EXCEPT ![r] = "ended"]
      /\ loop' = [l \in Loops |-> IF l[1] = got[r] THEN "start" ELSE loop[l]]
      /\ UNCHANGED <<clientVars, reconnecting, caller, got, callVars>>
  BY DEF ReconSpawn, ReconStep, SpawnLoops
<1>2. \A l \in Loops : loop[l] \in {"none", "done"}
  BY <1>1 DEF Safe, Alone, LoopsDone, Live
<1>3. Busy(r) /\ Bears(r)
  BY <1>1 DEF Busy, Bears
<1>4. \A p \in Callers : caller[p] = "idle"
  BY <1>1 DEF Safe, CallerAlone
<1>5. \A m \in Loops : m # r => recon[m] \in {"none", "ended"}
  BY <1>3 DEF Safe, OneBusy, Busy
<1>6. \A m \in Loops : recon'[m] \in {"none", "ended"}
  BY <1>1, <1>5 DEF TypeOK
<1>7. \A m \in Loops : loop'[m] \in {"start", "none", "done"}
                        /\ (loop'[m] = "start" => m[1] = got[r])
  BY <1>1, <1>2
<1>8. \A m \in Loops : ~Busy(m)'
  BY <1>6, <1>7 DEF Busy
<1>9. conn = None \/ state = "Connected"
  BY <1>1, <1>4, <1>5 DEF Safe, Known
<1>10. CallerAlone' /\ OneBusy' /\ FlagUp' /\ Alone'
  BY <1>1, <1>4, <1>6, <1>8 DEF CallerAlone, OneBusy, FlagUp, Alone
<1>11. Dropped' /\ Known' /\ NoOverlap'
  BY <1>1, <1>6, <1>7, <1>9 DEF Dropped, Known, NoOverlap, Live, clientVars
<1>12. Safe'
  BY <1>1, <1>10, <1>11 DEF Safe, clientVars
<1>13. Told'
  <2> SUFFICES ASSUME ~closed PROVE Told'
    BY <1>1 DEF Told, clientVars
  <2>1. state = "Connected" /\ got[r] = conn
    BY <1>1 DEF Told, ReconReports, Ready
  <2>2. Ready' /\ CallerReports'
    BY <1>1, <1>4, <1>6 DEF Ready, CallerReports
  <2>3. LoopReports' /\ ReconReports' /\ Repaired'
    BY <1>1, <2>1, <1>6, <1>7 DEF LoopReports, ReconReports, Repaired, Live, clientVars
  <2>4. got[r] \in Sessions
    BY <1>3 DEF Lasting, Prepared, TypeOK
  <2>5. <<conn, "read">> \in Loops /\ conn' = conn
    BY <1>1, <2>1, <2>4 DEF Loops, Kinds, clientVars
  <2>6. loop'[<<conn, "read">>] = "start"
    BY <1>1, <2>1, <2>5
  <2>7. Attended'
    BY <2>5, <2>6 DEF Attended, Live
  <2> QED  BY <2>2, <2>3, <2>7 DEF Told
<1> QED  BY <1>12, <1>13

\* The same for Connect; a reconnect goroutine of a closed client may be left.
LEMMA ConnectSpawnSteps ==
  ASSUME TypeOK, Lasting, Safe, Told, ~raced', NEW p \in Callers, ConnectSpawn(p)
  PROVE  Safe' /\ Told'
<1>1. /\ caller[p] = "spawn"
      /\ caller' = [caller EXCEPT ![p] = "idle"]
      /\ loop' = [l \in Loops |-> IF l[1] = got[p] THEN "start" ELSE loop[l]]
      /\ UNCHANGED <<clientVars, reconnecting, recon, got, callVars>>
  BY DEF ConnectSpawn, CallerStep, SpawnLoops
<1>2. /\ \A l \in Loops : loop[l] \in {"none", "done"}
      /\ \A q \in Callers : caller[q] # "idle" => q = p
      /\ \A l \in Loops : recon[l] \in {"none", "wait", "try", "ended"}
      /\ ~closed => \A l \in Loops : ~Busy(l)
  BY <1>1 DEF Safe, CallerAlone, LoopsDone, Live
<1>3. \A q \in Callers : caller'[q] = "idle"
  BY <1>1, <1>2 DEF TypeOK
<1>4. \A m \in Loops : loop'[m] \in {"start", "none", "done"}
                        /\ (loop'[m] = "start" => m[1] = got[p])
  BY <1>1, <1>2
<1>5. \A m \in Loops : Busy(m)' => Busy(m) /\ closed
  BY <1>1, <1>2, <1>4 DEF Busy
<1>6. conn = None \/ state = "Connected"
  BY <1>1, <1>2 DEF Safe, Known
<1>7. CallerAlone' /\ OneBusy' /\ FlagUp'
  BY <1>1, <1>3, <1>4, <1>5 DEF Safe, CallerAlone, OneBusy, FlagUp, clientVars
<1>8. Alone'
  <2> SUFFICES ASSUME NEW r \in Loops PROVE \/ recon[r] \in {"none", "wait", "ended"}
                                            \/ recon[r] = "try" /\ closed
    BY <1>1 DEF Alone, clientVars
  <2> QED  BY <1>2 DEF Busy
<1>9. Dropped' /\ Known' /\ NoOverlap'
  BY <1>1, <1>2, <1>4, <1>6 DEF Safe, Dropped, Known, NoOverlap, Live, Busy, clientVars
<1>10. Safe'
  BY <1>1, <1>7, <1>8, <1>9 DEF Safe, clientVars
<1>11. Told'
  <2> SUFFICES ASSUME ~closed PROVE Told'
    BY <1>1 DEF Told, clientVars
  <2>1. state = "Connected" /\ got[p] = conn
    BY <1>1 DEF Told, CallerReports, Ready
  <2>2. \A m \in Loops : recon[m] \in {"none", "ended"}
    BY <1>2 DEF Busy
  <2>3. Ready' /\ CallerReports'
    BY <1>1, <1>3, <2>2 DEF Ready, CallerReports
  <2>4. LoopReports' /\ ReconReports' /\ Repaired'
    BY <1>1, <2>1, <1>4, <2>2 DEF LoopReports, ReconReports, Repaired, Live, clientVars
  <2>5. got[p] \in Sessions
    BY <1>1 DEF Lasting, Prepared, TypeOK, Bears
  <2>6. <<conn, "read">> \in Loops /\ conn' = conn
    BY <1>1, <2>1, <2>5 DEF Loops, Kinds, clientVars
  <2>7. loop'[<<conn, "read">>] = "start"
    BY <1>1, <2>1, <2>6
  <2>8. Attended'
    BY <2>6, <2>7 DEF Attended, Live
  <2> QED  BY <2>3, <2>4, <2>8 DEF Told
<1> QED  BY <1>10, <1>11

\* The safety core is inductive given types.
LEMMA SafePreserved ==
  ASSUME TypeOK, TypeOK', Lasting, Lasting', Safe, Told, ~raced', [Next]_vars
  PROVE  Safe'
<1> USE WSClientAssumption DEF TypeOK, Lasting, Born, Prepared, Dialled, Bears, Safe, CallerAlone, OneBusy, FlagUp, Alone,
        Dropped, Known, NoOverlap, Told, Ready, CallerReports, LoopReports, ReconReports,
        Repaired, Attended, FlagHeld, Owns, Busy, Live, LoopsDone, Establishing, Loops, Kinds,
        clientVars, goVars, callVars
<1>1. [Next]_vars  OBVIOUS
<1>2. Safe'
<2>1. ASSUME NEW p \in Callers, ConnectBegin(p) PROVE Safe'
  <3> HIDE DEF TypeOK, Lasting, Born, Prepared, Dialled, Bears, Safe, CallerAlone, OneBusy, FlagUp, Alone,
        Dropped, Known, NoOverlap, Told, Ready, CallerReports, LoopReports, ReconReports,
        Repaired, Attended, FlagHeld, Owns, Busy, Live, LoopsDone, Establishing, Loops, Kinds,
        clientVars, goVars, callVars
  <3> QED  BY <2>1, ConnectBeginSteps
<2>2. ASSUME NEW p \in Callers, ConnectStop(p) PROVE Safe'
  BY <2>2 DEF ConnectStop, CallerStep, CancelLoops
<2>3. ASSUME NEW p \in Callers, ConnectWait(p) PROVE Safe'
  BY <2>3 DEF ConnectWait, CallerStep
<2>4. ASSUME NEW p \in Callers, ConnectConnecting(p) PROVE Safe'
  BY <2>4 DEF ConnectConnecting, CallerStep
<2>5. ASSUME NEW p \in Callers, ConnectDialOK(p) PROVE Safe'
  BY <2>5 DEF ConnectDialOK, CallerStep, DialOK
<2>6. ASSUME NEW p \in Callers, ConnectDialFails(p) PROVE Safe'
  BY <2>6 DEF ConnectDialFails, CallerStep
<2>7. ASSUME NEW p \in Callers, ConnectFails(p) PROVE Safe'
  BY <2>7 DEF ConnectFails, CallerStep
<2>8. ASSUME NEW p \in Callers, ConnectUp(p) PROVE Safe'
  BY <2>8 DEF ConnectUp, CallerStep
<2>9. ASSUME NEW p \in Callers, ConnectReset(p) PROVE Safe'
  BY <2>9 DEF ConnectReset, CallerStep, ResetReconnect
<2>10. ASSUME NEW p \in Callers, ConnectCtx(p) PROVE Safe'
  BY <2>10 DEF ConnectCtx, CallerStep
<2>11. ASSUME NEW p \in Callers, ConnectSpawn(p) PROVE Safe'
  <3> HIDE DEF TypeOK, Lasting, Born, Prepared, Dialled, Bears, Safe, CallerAlone, OneBusy, FlagUp, Alone,
        Dropped, Known, NoOverlap, Told, Ready, CallerReports, LoopReports, ReconReports,
        Repaired, Attended, FlagHeld, Owns, Busy, Live, LoopsDone, Establishing, Loops, Kinds,
        clientVars, goVars, callVars
  <3> QED  BY <2>11, ConnectSpawnSteps
<2>12. ASSUME Disconnect PROVE Safe'
  BY <2>12 DEF Disconnect, CancelLoops, CloseConnection
<2>13. ASSUME NEW l \in Loops, LoopStart(l) PROVE Safe'
  BY <2>13 DEF LoopStart, LoopStep
<2>14. ASSUME NEW l \in Loops, ReadNext(l) PROVE Safe'
  BY <2>14 DEF ReadNext, LoopStep, MustStop
<2>15. ASSUME NEW l \in Loops, ReadMessage(l) PROVE Safe'
  BY <2>15 DEF ReadMessage, LoopStep
<2>16. ASSUME NEW l \in Loops, ReadFails(l) PROVE Safe'
  BY <2>16 DEF ReadFails, LoopStep
<2>17. ASSUME NEW l \in Loops, WriteStops(l) PROVE Safe'
  BY <2>17 DEF WriteStops, LoopStep, MustStop
<2>18. ASSUME NEW l \in Loops, HeartbeatStops(l) PROVE Safe'
  BY <2>18 DEF HeartbeatStops, LoopStep, MustStop
<2>19. ASSUME NEW l \in Loops, HeartbeatFails(l) PROVE Safe'
  BY <2>19 DEF HeartbeatFails, LoopStep
<2>20. ASSUME NEW l \in Loops, TriggerCheck(l) PROVE Safe'
  BY <2>20 DEF TriggerCheck, LoopStep
<2>21. ASSUME NEW l \in Loops, TriggerCAS(l) PROVE Safe'
  BY <2>21 DEF TriggerCAS, LoopStep
<2>22. ASSUME NEW l \in Loops, TriggerCancel(l) PROVE Safe'
  BY <2>22 DEF TriggerCancel, LoopStep, CancelLoops
<2>23. ASSUME NEW l \in Loops, TriggerClose(l) PROVE Safe'
  BY <2>23 DEF TriggerClose, LoopStep, CloseConnection
<2>24. ASSUME NEW l \in Loops, TriggerState(l) PROVE Safe'
  BY <2>24 DEF TriggerState, LoopStep
<2>25. ASSUME NEW l \in Loops, TriggerGo(l) PROVE Safe'
  BY <2>25 DEF TriggerGo, LoopStep
<2>26. ASSUME NEW r \in Loops, ReconWait(r) PROVE Safe'
  BY <2>26 DEF ReconWait, ReconStep
<2>27. ASSUME NEW r \in Loops, ReconStops(r) PROVE Safe'
  BY <2>27 DEF ReconStops, ReconStep
<2>28. ASSUME NEW r \in Loops, ReconTry(r) PROVE Safe'
  BY <2>28 DEF ReconTry, ReconStep
<2>29. ASSUME NEW r \in Loops, ReconGiveUp(r) PROVE Safe'
  BY <2>29 DEF ReconGiveUp, ReconStep
<2>30. ASSUME NEW r \in Loops, ReconClear(r) PROVE Safe'
  BY <2>30 DEF ReconClear, ReconStep
<2>31. ASSUME NEW r \in Loops, ReconDelay(r) PROVE Safe'
  BY <2>31 DEF ReconDelay, ReconStep
<2>32. ASSUME NEW r \in Loops, ReconDialFails(r) PROVE Safe'
  BY <2>32 DEF ReconDialFails, ReconStep
<2>33. ASSUME NEW r \in Loops, ReconDialOK(r) PROVE Safe'
  BY <2>33 DEF ReconDialOK, ReconStep, DialOK
<2>34. ASSUME NEW r \in Loops, ReconUp(r) PROVE Safe'
  BY <2>34 DEF ReconUp, ReconStep
<2>35. ASSUME NEW r \in Loops, ReconReset(r) PROVE Safe'
  BY <2>35 DEF ReconReset, ReconStep, ResetReconnect
<2>36. ASSUME NEW r \in Loops, ReconCtx(r) PROVE Safe'
  BY <2>36 DEF ReconCtx, ReconStep
<2>37. ASSUME NEW r \in Loops, ReconSpawn(r) PROVE Safe'
  <3> HIDE DEF TypeOK, Lasting, Born, Prepared, Dialled, Bears, Safe, CallerAlone, OneBusy, FlagUp, Alone,
        Dropped, Known, NoOverlap, Told, Ready, CallerReports, LoopReports, ReconReports,
        Repaired, Attended, FlagHeld, Owns, Busy, Live, LoopsDone, Establishing, Loops, Kinds,
        clientVars, goVars, callVars
  <3> QED  BY <2>37, ReconSpawnSteps
<2>38. CASE UNCHANGED vars
  BY <2>38 DEF vars
<2> HIDE DEF TypeOK, Lasting, Born, Prepared, Dialled, Bears, Safe, CallerAlone, OneBusy, FlagUp, Alone,
        Dropped, Known, NoOverlap, Told, Ready, CallerReports, LoopReports, ReconReports,
        Repaired, Attended, FlagHeld, Owns, Busy, Live, LoopsDone, Establishing, Loops, Kinds,
        clientVars, goVars, callVars
<2> QED
  BY <1>1, <2>1, <2>2, <2>3, <2>4, <2>5, <2>6, <2>7, <2>8, <2>9, <2>10, <2>11, <2>12, <2>13,
     <2>14, <2>15, <2>16, <2>17, <2>18, <2>19, <2>20, <2>21, <2>22, <2>23, <2>24, <2>25,
     <2>26, <2>27, <2>28, <2>29, <2>30, <2>31, <2>32, <2>33, <2>34, <2>35, <2>36, <2>37,
     <2>38
  DEF Next, Connect, RunLoop, Trigger, Reconnect
<1> QED  BY <1>2

LEMMA ToldPreserved ==
  ASSUME TypeOK, TypeOK', Lasting, Lasting', Safe, Safe', Told, ~raced', [Next]_vars
  PROVE  Told'
<1> USE WSClientAssumption DEF TypeOK, Lasting, Born, Prepared, Dialled, Bears, Safe, CallerAlone, OneBusy, FlagUp, Alone,
        Dropped, Known, NoOverlap, Told, Ready, CallerReports, LoopReports, ReconReports,
        Repaired, Attended, FlagHeld, Owns, Busy, Live, LoopsDone, Establishing, Loops, Kinds,
        clientVars, goVars, callVars
<1>1. [Next]_vars  OBVIOUS
<1>2. Told'
<2>1. ASSUME NEW p \in Callers, ConnectBegin(p) PROVE Told'
  BY <2>1, ConnectBeginSteps
<2>2. ASSUME NEW p \in Callers, ConnectStop(p) PROVE Told'
  BY <2>2 DEF ConnectStop, CallerStep, CancelLoops
<2>3. ASSUME NEW p \in Callers, ConnectWait(p) PROVE Told'
  BY <2>3 DEF ConnectWait, CallerStep
<2>4. ASSUME NEW p \in Callers, ConnectConnecting(p) PROVE Told'
  BY <2>4 DEF ConnectConnecting, CallerStep
<2>5. ASSUME NEW p \in Callers, ConnectDialOK(p) PROVE Told'
  BY <2>5 DEF ConnectDialOK, CallerStep, DialOK
<2>6. ASSUME NEW p \in Callers, ConnectDialFails(p) PROVE Told'
  BY <2>6 DEF ConnectDialFails, CallerStep
<2>7. ASSUME NEW p \in Callers, ConnectFails(p) PROVE Told'
  BY <2>7 DEF ConnectFails, CallerStep
<2>8. ASSUME NEW p \in Callers, ConnectUp(p) PROVE Told'
  BY <2>8 DEF ConnectUp, CallerStep
<2>9. ASSUME NEW p \in Callers, ConnectReset(p) PROVE Told'
  BY <2>9 DEF ConnectReset, CallerStep, ResetReconnect
<2>10. ASSUME NEW p \in Callers, ConnectCtx(p) PROVE Told'
  BY <2>10 DEF ConnectCtx, CallerStep
<2>11. ASSUME NEW p \in Callers, ConnectSpawn(p) PROVE Told'
  BY <2>11, ConnectSpawnSteps
<2>12. ASSUME Disconnect PROVE Told'
  BY <2>12 DEF Disconnect, CancelLoops, CloseConnection
<2>13. ASSUME NEW l \in Loops, LoopStart(l) PROVE Told'
  BY <2>13 DEF LoopStart, LoopStep
<2>14. ASSUME NEW l \in Loops, ReadNext(l) PROVE Told'
  BY <2>14 DEF ReadNext, LoopStep, MustStop
<2>15. ASSUME NEW l \in Loops, ReadMessage(l) PROVE Told'
  BY <2>15 DEF ReadMessage, LoopStep
<2>16. ASSUME NEW l \in Loops, ReadFails(l) PROVE Told'
  BY <2>16 DEF ReadFails, LoopStep
<2>17. ASSUME NEW l \in Loops, WriteStops(l) PROVE Told'
  BY <2>17 DEF WriteStops, LoopStep, MustStop
<2>18. ASSUME NEW l \in Loops, HeartbeatStops(l) PROVE Told'
  BY <2>18 DEF HeartbeatStops, LoopStep, MustStop
<2>19. ASSUME NEW l \in Loops, HeartbeatFails(l) PROVE Told'
  BY <2>19 DEF HeartbeatFails, LoopStep
<2>20. ASSUME NEW l \in Loops, TriggerCheck(l) PROVE Told'
  BY <2>20 DEF TriggerCheck, LoopStep
<2>21. ASSUME NEW l \in Loops, TriggerCAS(l) PROVE Told'
  BY <2>21 DEF TriggerCAS, LoopStep
<2>22. ASSUME NEW l \in Loops, TriggerCancel(l) PROVE Told'
  BY <2>22 DEF TriggerCancel, LoopStep, CancelLoops
<2>23. ASSUME NEW l \in Loops, TriggerClose(l) PROVE Told'
  BY <2>23 DEF TriggerClose, LoopStep, CloseConnection
<2>24. ASSUME NEW l \in Loops, TriggerState(l) PROVE Told'
  BY <2>24 DEF TriggerState, LoopStep
<2>25. ASSUME NEW l \in Loops, TriggerGo(l) PROVE Told'
  BY <2>25 DEF TriggerGo, LoopStep
<2>26. ASSUME NEW r \in Loops, ReconWait(r) PROVE Told'
  BY <2>26 DEF ReconWait, ReconStep
<2>27. ASSUME NEW r \in Loops, ReconStops(r) PROVE Told'
  BY <2>27 DEF ReconStops, ReconStep
<2>28. ASSUME NEW r \in Loops, ReconTry(r) PROVE Told'
  BY <2>28 DEF ReconTry, ReconStep
<2>29. ASSUME NEW r \in Loops, ReconGiveUp(r) PROVE Told'
  BY <2>29 DEF ReconGiveUp, ReconStep
<2>30. ASSUME NEW r \in Loops, ReconClear(r) PROVE Told'
  BY <2>30 DEF ReconClear, ReconStep
<2>31. ASSUME NEW r \in Loops, ReconDelay(r) PROVE Told'
  BY <2>31 DEF ReconDelay, ReconStep
<2>32. ASSUME NEW r \in Loops, ReconDialFails(r) PROVE Told'
  BY <2>32 DEF ReconDialFails, ReconStep
<2>33. ASSUME NEW r \in Loops, ReconDialOK(r) PROVE Told'
  BY <2>33 DEF ReconDialOK, ReconStep, DialOK
<2>34. ASSUME NEW r \in Loops, ReconUp(r) PROVE Told'
  BY <2>34 DEF ReconUp, ReconStep
<2>35. ASSUME NEW r \in Loops, ReconReset(r) PROVE Told'
  BY <2>35 DEF ReconReset, ReconStep, ResetReconnect
<2>36. ASSUME NEW r \in Loops, ReconCtx(r) PROVE Told'
  BY <2>36 DEF ReconCtx, ReconStep
<2>37. ASSUME NEW r \in Loops, ReconSpawn(r) PROVE Told'
  BY <2>37, ReconSpawnSteps
<2>38. CASE UNCHANGED vars
  BY <2>38 DEF vars
<2> HIDE DEF TypeOK, Lasting, Born, Prepared, Dialled, Bears, Safe, CallerAlone, OneBusy, FlagUp, Alone,
        Dropped, Known, NoOverlap, Told, Ready, CallerReports, LoopReports, ReconReports,
        Repaired, Attended, FlagHeld, Owns, Busy, Live, LoopsDone, Establishing, Loops, Kinds,
        clientVars, goVars, callVars
<2> QED
  BY <1>1, <2>1, <2>2, <2>3, <2>4, <2>5, <2>6, <2>7, <2>8, <2>9, <2>10, <2>11, <2>12, <2>13,
     <2>14, <2>15, <2>16, <2>17, <2>18, <2>19, <2>20, <2>21, <2>22, <2>23, <2>24, <2>25,
     <2>26, <2>27, <2>28, <2>29, <2>30, <2>31, <2>32, <2>33, <2>34, <2>35, <2>36, <2>37,
     <2>38
  DEF Next, Connect, RunLoop, Trigger, Reconnect
<1> QED  BY <1>2

-----------------------------------------------------------------------------
(* The invariant of the specification.                                     *)

LEMMA InitTypeOK == ASSUME Init PROVE TypeOK
<1>1. connects \in 0..MaxConnects
  BY WSClientAssumption DEF Init
<1>2. /\ loop \in [Loops -> LoopPCs] /\ recon \in [Loops -> ReconPCs]
      /\ myCtx \in [Loops -> Sessions \union {None}]
      /\ myConn \in [Loops -> Sessions \union {None}]
  BY DEF Init, LoopPCs, ReconPCs
<1>3. /\ caller \in [Callers -> CallerPCs]
      /\ got \in [Callers \union Loops -> Sessions \union {None}]
  BY DEF Init, CallerPCs
<1> QED  BY <1>1, <1>2, <1>3 DEF Init, TypeOK, States

LEMMA InitIInv == Init => IInv
<1> SUFFICES ASSUME Init PROVE IInv
  OBVIOUS
<1>1. TypeOK
  BY InitTypeOK
<1>2. /\ \A l \in Loops : loop[l] = "none" /\ recon[l] = "none"
      /\ \A p \in Callers : caller[p] = "idle"
      /\ used = {} /\ open = {} /\ conn = None /\ reconnecting = 0
      /\ state = "Disconnected"
  BY DEF Init
<1>3. \A l \in Loops : ~Owns(l) /\ ~Busy(l) /\ ~Live(l)
  BY <1>2 DEF Owns, Busy, Live
<1>4. Lasting
  BY <1>2 DEF Lasting, Born, Prepared, Bears, Dialled, FlagHeld
<1>5. Safe
  BY <1>2, <1>3 DEF Safe, CallerAlone, OneBusy, FlagUp, Alone, Dropped, Known, NoOverlap
<1>6. Told
  BY <1>2, <1>3 DEF Told, Ready, CallerReports, LoopReports, ReconReports, Repaired, Attended
<1> QED  BY <1>1, <1>4, <1>5, <1>6 DEF IInv

\* Type correctness of every behaviour.
THEOREM TypeCorrect == Spec => []TypeOK
<1>1. Init => TypeOK
  BY InitTypeOK
<1>2. TypeOK /\ [Next]_vars => TypeOK'
  BY TypePreserved
<1> QED  BY <1>1, <1>2, PTL DEF Spec

\* A race is not forgotten.
LEMMA RacedLasts == ASSUME TypeOK, [Next]_vars, ~raced' PROVE ~raced
<1> USE DEF TypeOK, callVars
<1>1. [Next]_vars  OBVIOUS
<1>2. ~raced
<2>1. ASSUME NEW p \in Callers, ConnectBegin(p) PROVE ~raced
  BY <2>1, ~raced' DEF ConnectBegin, CallerStep
<2>2. ASSUME NEW p \in Callers, ConnectStop(p) PROVE ~raced
  BY <2>2, ~raced' DEF ConnectStop, CallerStep, CancelLoops
<2>3. ASSUME NEW p \in Callers, ConnectWait(p) PROVE ~raced
  BY <2>3, ~raced' DEF ConnectWait, CallerStep
<2>4. ASSUME NEW p \in Callers, ConnectConnecting(p) PROVE ~raced
  BY <2>4, ~raced' DEF ConnectConnecting, CallerStep
<2>5. ASSUME NEW p \in Callers, ConnectDialOK(p) PROVE ~raced
  BY <2>5, ~raced' DEF ConnectDialOK, CallerStep, DialOK
<2>6. ASSUME NEW p \in Callers, ConnectDialFails(p) PROVE ~raced
  BY <2>6, ~raced' DEF ConnectDialFails, CallerStep
<2>7. ASSUME NEW p \in Callers, ConnectFails(p) PROVE ~raced
  BY <2>7, ~raced' DEF ConnectFails, CallerStep
<2>8. ASSUME NEW p \in Callers, ConnectUp(p) PROVE ~raced
  BY <2>8, ~raced' DEF ConnectUp, CallerStep
<2>9. ASSUME NEW p \in Callers, ConnectReset(p) PROVE ~raced
  BY <2>9, ~raced' DEF ConnectReset, CallerStep, ResetReconnect
<2>10. ASSUME NEW p \in Callers, ConnectCtx(p) PROVE ~raced
  BY <2>10, ~raced' DEF ConnectCtx, CallerStep
<2>11. ASSUME NEW p \in Callers, ConnectSpawn(p) PROVE ~raced
  BY <2>11, ~raced' DEF ConnectSpawn, CallerStep, SpawnLoops
<2>12. ASSUME Disconnect PROVE ~raced
  BY <2>12, ~raced' DEF Disconnect, CancelLoops, CloseConnection
<2>13. ASSUME NEW l \in Loops, LoopStart(l) PROVE ~raced
  BY <2>13, ~raced' DEF LoopStart, LoopStep
<2>14. ASSUME NEW l \in Loops, ReadNext(l) PROVE ~raced
  BY <2>14, ~raced' DEF ReadNext, LoopStep, MustStop
<2>15. ASSUME NEW l \in Loops, ReadMessage(l) PROVE ~raced
  BY <2>15, ~raced' DEF ReadMessage, LoopStep
<2>16. ASSUME NEW l \in Loops, ReadFails(l) PROVE ~raced
  BY <2>16, ~raced' DEF ReadFails, LoopStep
<2>17. ASSUME NEW l \in Loops, WriteStops(l) PROVE ~raced
  BY <2>17, ~raced' DEF WriteStops, LoopStep, MustStop
<2>18. ASSUME NEW l \in Loops, HeartbeatStops(l) PROVE ~raced
  BY <2>18, ~raced' DEF HeartbeatStops, LoopStep, MustStop
<2>19. ASSUME NEW l \in Loops, HeartbeatFails(l) PROVE ~raced
  BY <2>19, ~raced' DEF HeartbeatFails, LoopStep
<2>20. ASSUME NEW l \in Loops, TriggerCheck(l) PROVE ~raced
  BY <2>20, ~raced' DEF TriggerCheck, LoopStep
<2>21. ASSUME NEW l \in Loops, TriggerCAS(l) PROVE ~raced
  BY <2>21, ~raced' DEF TriggerCAS, LoopStep
<2>22. ASSUME NEW l \in Loops, TriggerCancel(l) PROVE ~raced
  BY <2>22, ~raced' DEF TriggerCancel, LoopStep, CancelLoops
<2>23. ASSUME NEW l \in Loops, TriggerClose(l) PROVE ~raced
  BY <2>23, ~raced' DEF TriggerClose, LoopStep, CloseConnection
<2>24. ASSUME NEW l \in Loops, TriggerState(l) PROVE ~raced
  BY <2>24, ~raced' DEF TriggerState, LoopStep
<2>25. ASSUME NEW l \in Loops, TriggerGo(l) PROVE ~raced
  BY <2>25, ~raced' DEF TriggerGo, LoopStep
<2>26. ASSUME NEW r \in Loops, ReconWait(r) PROVE ~raced
  BY <2>26, ~raced' DEF ReconWait, ReconStep
<2>27. ASSUME NEW r \in Loops, ReconStops(r) PROVE ~raced
  BY <2>27, ~raced' DEF ReconStops, ReconStep
<2>28. ASSUME NEW r \in Loops, ReconTry(r) PROVE ~raced
  BY <2>28, ~raced' DEF ReconTry, ReconStep
<2>29. ASSUME NEW r \in Loops, ReconGiveUp(r) PROVE ~raced
  BY <2>29, ~raced' DEF ReconGiveUp, ReconStep
<2>30. ASSUME NEW r \in Loops, ReconClear(r) PROVE ~raced
  BY <2>30, ~raced' DEF ReconClear, ReconStep
<2>31. ASSUME NEW r \in Loops, ReconDelay(r) PROVE ~raced
  BY <2>31, ~raced' DEF ReconDelay, ReconStep
<2>32. ASSUME NEW r \in Loops, ReconDialFails(r) PROVE ~raced
  BY <2>32, ~raced' DEF ReconDialFails, ReconStep
<2>33. ASSUME NEW r \in Loops, ReconDialOK(r) PROVE ~raced
  BY <2>33, ~raced' DEF ReconDialOK, ReconStep, DialOK
<2>34. ASSUME NEW r \in Loops, ReconUp(r) PROVE ~raced
  BY <2>34, ~raced' DEF ReconUp, ReconStep
<2>35. ASSUME NEW r \in Loops, ReconReset(r) PROVE ~raced
  BY <2>35, ~raced' DEF ReconReset, ReconStep, ResetReconnect
<2>36. ASSUME NEW r \in Loops, ReconCtx(r) PROVE ~raced
  BY <2>36, ~raced' DEF ReconCtx, ReconStep
<2>37. ASSUME NEW r \in Loops, ReconSpawn(r) PROVE ~raced
  BY <2>37, ~raced' DEF ReconSpawn, ReconStep, SpawnLoops
<2>38. CASE UNCHANGED vars
  BY <2>38 DEF vars
<2> HIDE DEF TypeOK, callVars
<2> QED
  BY <1>1, <2>1, <2>2, <2>3, <2>4, <2>5, <2>6, <2>7, <2>8, <2>9, <2>10, <2>11, <2>12, <2>13,
     <2>14, <2>15, <2>16, <2>17, <2>18, <2>19, <2>20, <2>21, <2>22, <2>23, <2>24, <2>25,
     <2>26, <2>27, <2>28, <2>29, <2>30, <2>31, <2>32, <2>33, <2>34, <2>35, <2>36, <2>37,
     <2>38
  DEF Next, Connect, RunLoop, Trigger, Reconnect
<1> QED  BY <1>2

\* The inductive invariant of a client whose callers connect when they like.
THEOREM Invariance == Spec => []IInv
<1>1. IInv /\ [Next]_vars => IInv'
  <2> SUFFICES ASSUME IInv, [Next]_vars PROVE IInv'
    OBVIOUS
  <2>1. TypeOK' /\ Lasting'
    BY TypePreserved, LastingPreserved DEF IInv
  <2>2. ASSUME ~raced' PROVE Safe' /\ Told'
    <3>1. Safe /\ Told
      BY <2>2, RacedLasts DEF IInv
    <3>2. Safe'
      BY <2>1, <2>2, <3>1, SafePreserved DEF IInv
    <3> QED  BY <2>1, <2>2, <3>1, <3>2, ToldPreserved DEF IInv
  <2> QED  BY <2>1, <2>2 DEF IInv
<1> QED  BY InitIInv, <1>1, PTL DEF Spec

\* The flag is never stuck, however Connects and reconnections race.
THEOREM FlagIsHeld == Spec => []FlagHeld
<1>1. IInv => FlagHeld
  BY DEF IInv, Lasting
<1> QED  BY Invariance, <1>1, PTL

\* Unless raced, one reconnect goroutine at a time replaces a lost connection.
THEOREM ReconnectIsUnique == Spec => []OneReconnect
<1>1. IInv => OneReconnect
  BY DEF IInv, Safe, OneBusy, Busy, Owns, OneReconnect
<1> QED  BY Invariance, <1>1, PTL

\* Unless raced, loops of two connections never run together.
THEOREM LoopsDoNotOverlap == Spec => []NoOverlap
<1>1. IInv => NoOverlap
  BY DEF IInv, Safe, NoOverlap
<1> QED  BY Invariance, <1>1, PTL

\* Unless raced, no connection is opened and forgotten.
THEOREM NothingLeaks == Spec => []NoLeak
<1>1. IInv => NoLeak
  BY DEF IInv, Safe, NoLeak
<1> QED  BY Invariance, <1>1, PTL

\* Unless raced, a client that reports Connected will learn of the loss of its
\* connection.
THEOREM ConnectedIsAttended == Spec => []Attended
<1>1. IInv => Attended
  BY DEF IInv, Told, Attended
<1> QED  BY Invariance, <1>1, PTL

-----------------------------------------------------------------------------
(* Refinement: every step of the client is a step of Service or a stutter. *)

\* Once raced, only what never changes back is promised.
LEMMA RacedStep ==
  ASSUME TypeOK, TypeOK', Lasting', raced, [Next]_vars
  PROVE  S!Raced
<1> USE DEF TypeOK, clientVars, goVars, callVars
<1>1. [Next]_vars  OBVIOUS
<1>2. raced' /\ (closed => closed') /\ used \subseteq used'
<2>1. ASSUME NEW p \in Callers, ConnectBegin(p) PROVE raced' /\ (closed => closed') /\ used \subseteq used'
  BY <2>1 DEF ConnectBegin, CallerStep
<2>2. ASSUME NEW p \in Callers, ConnectStop(p) PROVE raced' /\ (closed => closed') /\ used \subseteq used'
  BY <2>2 DEF ConnectStop, CallerStep, CancelLoops
<2>3. ASSUME NEW p \in Callers, ConnectWait(p) PROVE raced' /\ (closed => closed') /\ used \subseteq used'
  BY <2>3 DEF ConnectWait, CallerStep
<2>4. ASSUME NEW p \in Callers, ConnectConnecting(p) PROVE raced' /\ (closed => closed') /\ used \subseteq used'
  BY <2>4 DEF ConnectConnecting, CallerStep
<2>5. ASSUME NEW p \in Callers, ConnectDialOK(p) PROVE raced' /\ (closed => closed') /\ used \subseteq used'
  BY <2>5 DEF ConnectDialOK, CallerStep, DialOK
<2>6. ASSUME NEW p \in Callers, ConnectDialFails(p) PROVE raced' /\ (closed => closed') /\ used \subseteq used'
  BY <2>6 DEF ConnectDialFails, CallerStep
<2>7. ASSUME NEW p \in Callers, ConnectFails(p) PROVE raced' /\ (closed => closed') /\ used \subseteq used'
  BY <2>7 DEF ConnectFails, CallerStep
<2>8. ASSUME NEW p \in Callers, ConnectUp(p) PROVE raced' /\ (closed => closed') /\ used \subseteq used'
  BY <2>8 DEF ConnectUp, CallerStep
<2>9. ASSUME NEW p \in Callers, ConnectReset(p) PROVE raced' /\ (closed => closed') /\ used \subseteq used'
  BY <2>9 DEF ConnectReset, CallerStep, ResetReconnect
<2>10. ASSUME NEW p \in Callers, ConnectCtx(p) PROVE raced' /\ (closed => closed') /\ used \subseteq used'
  BY <2>10 DEF ConnectCtx, CallerStep
<2>11. ASSUME NEW p \in Callers, ConnectSpawn(p) PROVE raced' /\ (closed => closed') /\ used \subseteq used'
  BY <2>11 DEF ConnectSpawn, CallerStep, SpawnLoops
<2>12. ASSUME Disconnect PROVE raced' /\ (closed => closed') /\ used \subseteq used'
  BY <2>12 DEF Disconnect, CancelLoops, CloseConnection
<2>13. ASSUME NEW l \in Loops, LoopStart(l) PROVE raced' /\ (closed => closed') /\ used \subseteq used'
  BY <2>13 DEF LoopStart, LoopStep
<2>14. ASSUME NEW l \in Loops, ReadNext(l) PROVE raced' /\ (closed => closed') /\ used \subseteq used'
  BY <2>14 DEF ReadNext, LoopStep, MustStop
<2>15. ASSUME NEW l \in Loops, ReadMessage(l) PROVE raced' /\ (closed => closed') /\ used \subseteq used'
  BY <2>15 DEF ReadMessage, LoopStep
<2>16. ASSUME NEW l \in Loops, ReadFails(l) PROVE raced' /\ (closed => closed') /\ used \subseteq used'
  BY <2>16 DEF ReadFails, LoopStep
<2>17. ASSUME NEW l \in Loops, WriteStops(l) PROVE raced' /\ (closed => closed') /\ used \subseteq used'
  BY <2>17 DEF WriteStops, LoopStep, MustStop
<2>18. ASSUME NEW l \in Loops, HeartbeatStops(l) PROVE raced' /\ (closed => closed') /\ used \subseteq used'
  BY <2>18 DEF HeartbeatStops, LoopStep, MustStop
<2>19. ASSUME NEW l \in Loops, HeartbeatFails(l) PROVE raced' /\ (closed => closed') /\ used \subseteq used'
  BY <2>19 DEF HeartbeatFails, LoopStep
<2>20. ASSUME NEW l \in Loops, TriggerCheck(l) PROVE raced' /\ (closed => closed') /\ used \subseteq used'
  BY <2>20 DEF TriggerCheck, LoopStep
<2>21. ASSUME NEW l \in Loops, TriggerCAS(l) PROVE raced' /\ (closed => closed') /\ used \subseteq used'
  BY <2>21 DEF TriggerCAS, LoopStep
<2>22. ASSUME NEW l \in Loops, TriggerCancel(l) PROVE raced' /\ (closed => closed') /\ used \subseteq used'
  BY <2>22 DEF TriggerCancel, LoopStep, CancelLoops
<2>23. ASSUME NEW l \in Loops, TriggerClose(l) PROVE raced' /\ (closed => closed') /\ used \subseteq used'
  BY <2>23 DEF TriggerClose, LoopStep, CloseConnection
<2>24. ASSUME NEW l \in Loops, TriggerState(l) PROVE raced' /\ (closed => closed') /\ used \subseteq used'
  BY <2>24 DEF TriggerState, LoopStep
<2>25. ASSUME NEW l \in Loops, TriggerGo(l) PROVE raced' /\ (closed => closed') /\ used \subseteq used'
  BY <2>25 DEF TriggerGo, LoopStep
<2>26. ASSUME NEW r \in Loops, ReconWait(r) PROVE raced' /\ (closed => closed') /\ used \subseteq used'
  BY <2>26 DEF ReconWait, ReconStep
<2>27. ASSUME NEW r \in Loops, ReconStops(r) PROVE raced' /\ (closed => closed') /\ used \subseteq used'
  BY <2>27 DEF ReconStops, ReconStep
<2>28. ASSUME NEW r \in Loops, ReconTry(r) PROVE raced' /\ (closed => closed') /\ used \subseteq used'
  BY <2>28 DEF ReconTry, ReconStep
<2>29. ASSUME NEW r \in Loops, ReconGiveUp(r) PROVE raced' /\ (closed => closed') /\ used \subseteq used'
  BY <2>29 DEF ReconGiveUp, ReconStep
<2>30. ASSUME NEW r \in Loops, ReconClear(r) PROVE raced' /\ (closed => closed') /\ used \subseteq used'
  BY <2>30 DEF ReconClear, ReconStep
<2>31. ASSUME NEW r \in Loops, ReconDelay(r) PROVE raced' /\ (closed => closed') /\ used \subseteq used'
  BY <2>31 DEF ReconDelay, ReconStep
<2>32. ASSUME NEW r \in Loops, ReconDialFails(r) PROVE raced' /\ (closed => closed') /\ used \subseteq used'
  BY <2>32 DEF ReconDialFails, ReconStep
<2>33. ASSUME NEW r \in Loops, ReconDialOK(r) PROVE raced' /\ (closed => closed') /\ used \subseteq used'
  BY <2>33 DEF ReconDialOK, ReconStep, DialOK
<2>34. ASSUME NEW r \in Loops, ReconUp(r) PROVE raced' /\ (closed => closed') /\ used \subseteq used'
  BY <2>34 DEF ReconUp, ReconStep
<2>35. ASSUME NEW r \in Loops, ReconReset(r) PROVE raced' /\ (closed => closed') /\ used \subseteq used'
  BY <2>35 DEF ReconReset, ReconStep, ResetReconnect
<2>36. ASSUME NEW r \in Loops, ReconCtx(r) PROVE raced' /\ (closed => closed') /\ used \subseteq used'
  BY <2>36 DEF ReconCtx, ReconStep
<2>37. ASSUME NEW r \in Loops, ReconSpawn(r) PROVE raced' /\ (closed => closed') /\ used \subseteq used'
  BY <2>37 DEF ReconSpawn, ReconStep, SpawnLoops
<2>38. CASE UNCHANGED vars
  BY <2>38 DEF vars
<2> HIDE DEF TypeOK, clientVars, goVars, callVars
<2> QED
  BY <1>1, <2>1, <2>2, <2>3, <2>4, <2>5, <2>6, <2>7, <2>8, <2>9, <2>10, <2>11, <2>12, <2>13,
     <2>14, <2>15, <2>16, <2>17, <2>18, <2>19, <2>20, <2>21, <2>22, <2>23, <2>24, <2>25,
     <2>26, <2>27, <2>28, <2>29, <2>30, <2>31, <2>32, <2>33, <2>34, <2>35, <2>36, <2>37,
     <2>38
  DEF Next, Connect, RunLoop, Trigger, Reconnect
<1> QED  BY <1>2 DEF S!Raced, S!States, Lasting, Dialled, TypeOK, States

LEMMA ServiceStep ==
  ASSUME TypeOK, TypeOK', Lasting, Safe, Told, ~raced, [Next]_vars
  PROVE  [S!Next]_(S!vars)
<1> USE WSClientAssumption
    DEF TypeOK, States, Lasting, Dialled, Safe, CallerAlone, Dropped, Told, Ready,
        CallerReports, LoopReports, ReconReports, Busy, Owns, S!vars, S!Next, S!Begin, S!Up,
        S!GiveUp, S!Lost, S!Report, S!Take, S!Drop, S!Close, S!Straggle, S!Race, S!States,
        clientVars, goVars, callVars
<1>1. [Next]_vars  OBVIOUS
<1>2. [S!Next]_(S!vars)
<2>1. ASSUME NEW p \in Callers, ConnectBegin(p) PROVE [S!Next]_(S!vars)
  BY <2>1 DEF ConnectBegin, CallerStep
<2>2. ASSUME NEW p \in Callers, ConnectStop(p) PROVE [S!Next]_(S!vars)
  BY <2>2 DEF ConnectStop, CallerStep, CancelLoops
<2>3. ASSUME NEW p \in Callers, ConnectWait(p) PROVE [S!Next]_(S!vars)
  BY <2>3 DEF ConnectWait, CallerStep
<2>4. ASSUME NEW p \in Callers, ConnectConnecting(p) PROVE [S!Next]_(S!vars)
  BY <2>4 DEF ConnectConnecting, CallerStep
<2>5. ASSUME NEW p \in Callers, ConnectDialOK(p) PROVE [S!Next]_(S!vars)
  BY <2>5 DEF ConnectDialOK, CallerStep, DialOK
<2>6. ASSUME NEW p \in Callers, ConnectDialFails(p) PROVE [S!Next]_(S!vars)
  BY <2>6 DEF ConnectDialFails, CallerStep
<2>7. ASSUME NEW p \in Callers, ConnectFails(p) PROVE [S!Next]_(S!vars)
  BY <2>7 DEF ConnectFails, CallerStep
<2>8. ASSUME NEW p \in Callers, ConnectUp(p) PROVE [S!Next]_(S!vars)
  <3>1. Bears(p)
    BY <2>8 DEF ConnectUp, CallerStep, Bears
  <3>2. got[p] \in used
    BY <3>1 DEF Bears, Prepared
  <3> QED  BY <2>8, <3>2 DEF ConnectUp, CallerStep
<2>9. ASSUME NEW p \in Callers, ConnectReset(p) PROVE [S!Next]_(S!vars)
  BY <2>9 DEF ConnectReset, CallerStep, ResetReconnect
<2>10. ASSUME NEW p \in Callers, ConnectCtx(p) PROVE [S!Next]_(S!vars)
  BY <2>10 DEF ConnectCtx, CallerStep
<2>11. ASSUME NEW p \in Callers, ConnectSpawn(p) PROVE [S!Next]_(S!vars)
  BY <2>11 DEF ConnectSpawn, CallerStep, SpawnLoops
<2>12. ASSUME Disconnect PROVE [S!Next]_(S!vars)
  BY <2>12 DEF Disconnect, CancelLoops, CloseConnection
<2>13. ASSUME NEW l \in Loops, LoopStart(l) PROVE [S!Next]_(S!vars)
  BY <2>13 DEF LoopStart, LoopStep
<2>14. ASSUME NEW l \in Loops, ReadNext(l) PROVE [S!Next]_(S!vars)
  BY <2>14 DEF ReadNext, LoopStep, MustStop
<2>15. ASSUME NEW l \in Loops, ReadMessage(l) PROVE [S!Next]_(S!vars)
  BY <2>15 DEF ReadMessage, LoopStep
<2>16. ASSUME NEW l \in Loops, ReadFails(l) PROVE [S!Next]_(S!vars)
  BY <2>16 DEF ReadFails, LoopStep
<2>17. ASSUME NEW l \in Loops, WriteStops(l) PROVE [S!Next]_(S!vars)
  BY <2>17 DEF WriteStops, LoopStep, MustStop
<2>18. ASSUME NEW l \in Loops, HeartbeatStops(l) PROVE [S!Next]_(S!vars)
  BY <2>18 DEF HeartbeatStops, LoopStep, MustStop
<2>19. ASSUME NEW l \in Loops, HeartbeatFails(l) PROVE [S!Next]_(S!vars)
  BY <2>19 DEF HeartbeatFails, LoopStep
<2>20. ASSUME NEW l \in Loops, TriggerCheck(l) PROVE [S!Next]_(S!vars)
  BY <2>20 DEF TriggerCheck, LoopStep
<2>21. ASSUME NEW l \in Loops, TriggerCAS(l) PROVE [S!Next]_(S!vars)
  BY <2>21 DEF TriggerCAS, LoopStep
<2>22. ASSUME NEW l \in Loops, TriggerCancel(l) PROVE [S!Next]_(S!vars)
  BY <2>22 DEF TriggerCancel, LoopStep, CancelLoops
<2>23. ASSUME NEW l \in Loops, TriggerClose(l) PROVE [S!Next]_(S!vars)
  BY <2>23 DEF TriggerClose, LoopStep, CloseConnection
<2>24. ASSUME NEW l \in Loops, TriggerState(l) PROVE [S!Next]_(S!vars)
  BY <2>24 DEF TriggerState, LoopStep
<2>25. ASSUME NEW l \in Loops, TriggerGo(l) PROVE [S!Next]_(S!vars)
  BY <2>25 DEF TriggerGo, LoopStep
<2>26. ASSUME NEW r \in Loops, ReconWait(r) PROVE [S!Next]_(S!vars)
  BY <2>26 DEF ReconWait, ReconStep
<2>27. ASSUME NEW r \in Loops, ReconStops(r) PROVE [S!Next]_(S!vars)
  BY <2>27 DEF ReconStops, ReconStep
<2>28. ASSUME NEW r \in Loops, ReconTry(r) PROVE [S!Next]_(S!vars)
  BY <2>28 DEF ReconTry, ReconStep
<2>29. ASSUME NEW r \in Loops, ReconGiveUp(r) PROVE [S!Next]_(S!vars)
  BY <2>29 DEF ReconGiveUp, ReconStep
<2>30. ASSUME NEW r \in Loops, ReconClear(r) PROVE [S!Next]_(S!vars)
  BY <2>30 DEF ReconClear, ReconStep
<2>31. ASSUME NEW r \in Loops, ReconDelay(r) PROVE [S!Next]_(S!vars)
  BY <2>31 DEF ReconDelay, ReconStep
<2>32. ASSUME NEW r \in Loops, ReconDialFails(r) PROVE [S!Next]_(S!vars)
  BY <2>32 DEF ReconDialFails, ReconStep
<2>33. ASSUME NEW r \in Loops, ReconDialOK(r) PROVE [S!Next]_(S!vars)
  BY <2>33 DEF ReconDialOK, ReconStep, DialOK
<2>34. ASSUME NEW r \in Loops, ReconUp(r) PROVE [S!Next]_(S!vars)
  <3>1. Bears(r)
    BY <2>34 DEF ReconUp, ReconStep, Bears
  <3>2. got[r] \in used
    BY <3>1 DEF Bears, Prepared
  <3> QED  BY <2>34, <3>2 DEF ReconUp, ReconStep
<2>35. ASSUME NEW r \in Loops, ReconReset(r) PROVE [S!Next]_(S!vars)
  BY <2>35 DEF ReconReset, ReconStep, ResetReconnect
<2>36. ASSUME NEW r \in Loops, ReconCtx(r) PROVE [S!Next]_(S!vars)
  BY <2>36 DEF ReconCtx, ReconStep
<2>37. ASSUME NEW r \in Loops, ReconSpawn(r) PROVE [S!Next]_(S!vars)
  BY <2>37 DEF ReconSpawn, ReconStep, SpawnLoops
<2>38. CASE UNCHANGED vars
  BY <2>38 DEF vars
<2> HIDE DEF TypeOK, States, Lasting, Dialled, Safe, CallerAlone, Dropped, Told, Ready,
        CallerReports, LoopReports, ReconReports, Busy, Owns, S!vars, S!Next, S!Begin, S!Up,
        S!GiveUp, S!Lost, S!Report, S!Take, S!Drop, S!Close, S!Straggle, S!Race, S!States,
        clientVars, goVars, callVars
<2> QED
  BY <1>1, <2>1, <2>2, <2>3, <2>4, <2>5, <2>6, <2>7, <2>8, <2>9, <2>10, <2>11, <2>12, <2>13,
     <2>14, <2>15, <2>16, <2>17, <2>18, <2>19, <2>20, <2>21, <2>22, <2>23, <2>24, <2>25,
     <2>26, <2>27, <2>28, <2>29, <2>30, <2>31, <2>32, <2>33, <2>34, <2>35, <2>36, <2>37,
     <2>38
  DEF Next, Connect, RunLoop, Trigger, Reconnect
<1> QED  BY <1>2

\* The client implements the connection service of Service.
THEOREM Refinement == Spec => ImplementsService
<1>1. Init => S!Init
  BY DEF Init, S!Init
<1>2. IInv /\ IInv' /\ [Next]_vars => [S!Next]_(S!vars)
  <2> SUFFICES ASSUME IInv, IInv', [Next]_vars PROVE [S!Next]_(S!vars)
    OBVIOUS
  <2>1. CASE raced
    BY <2>1, RacedStep DEF IInv, S!Next
  <2>2. CASE ~raced
    BY <2>2, ServiceStep DEF IInv
  <2> QED  BY <2>1, <2>2 DEF IInv, TypeOK
<1> QED  BY Invariance, <1>1, <1>2, PTL DEF Spec, ImplementsService, S!Spec

-----------------------------------------------------------------------------
(* The heartbeat clock of Heartbeat, which WSClient leaves out: for every   *)
(* interval and every delay below two intervals.                           *)

\* Since the last tick at most Interval has passed, and at that tick the last
\* response was not too old, unless the connection has seen no tick yet.
Fresh == up => respAge <= Timeout + elapsed \/ connAge <= elapsed

\* On the first connection, while its peer lives, at most two heartbeats are
\* unanswered: the one of the last tick and the one before.  The last response
\* answered the heartbeat before the oldest of these, or came with Connect.
Answered ==
    first /\ up /\ alive =>
        /\ pending \subseteq {elapsed, elapsed + Interval}
        /\ \A age \in pending : age <= Delay
        /\ elapsed + Interval \in pending => elapsed \in pending
        /\ pending = {} => respAge <= elapsed
        /\ elapsed + Interval \notin pending => respAge <= elapsed + Interval
        /\ respAge <= elapsed + Timeout

ClockInv == HeartbeatTypeOK /\ Fresh /\ Answered

LEMMA OlderFacts ==
  ASSUME NEW age \in 0..Cap
  PROVE  Older(age) \in 0..Cap /\ Older(age) <= age + 1 /\ (age < Cap => Older(age) = age + 1)
  BY HeartbeatAssumption DEF Older, Cap

LEMMA NothingToAnswer == ~(first' /\ up' /\ alive') => Answered'
  BY DEF Answered

LEMMA ClockInit == HeartbeatInit => ClockInv
  BY HeartbeatAssumption DEF HeartbeatInit, ClockInv, HeartbeatTypeOK, Fresh, Answered, Timeout, Cap

LEMMA ClockStep == ASSUME ClockInv, [HeartbeatNext]_heartbeatVars PROVE ClockInv'
<1> USE HeartbeatAssumption DEF ClockInv, HeartbeatTypeOK, Fresh, Answered, Timeout
<1>1. CASE Pass
  <2>1. HeartbeatTypeOK'
    BY <1>1, OlderFacts DEF Pass, Cap
  <2>2. Fresh'
    BY <1>1, OlderFacts DEF Pass
  <2>3. ASSUME first, up, alive PROVE Answered'
    <3>1. /\ \A age \in pending : age < Delay /\ Older(age) = age + 1
          /\ respAge' <= respAge + 1 /\ elapsed' = elapsed + 1
      BY <1>1, <2>3, OlderFacts DEF Pass, Cap
    <3>2. \A n \in Nat : n + 1 \in pending' <=> n \in pending
      BY <1>1, <3>1 DEF Pass
    <3>3. \A age \in pending' : age - 1 \in pending /\ age \in Nat
      BY <1>1, <3>1 DEF Pass
    <3>4. pending' = {} <=> pending = {}
      BY <1>1 DEF Pass
    <3>5. elapsed' + Interval \in pending' <=> elapsed + Interval \in pending
      BY <3>1, <3>2
    <3>6. elapsed' \in pending' <=> elapsed \in pending
      BY <3>1, <3>2
    <3>7. pending' \subseteq {elapsed', elapsed' + Interval} /\ \A age \in pending' : age <= Delay
      BY <2>3, <3>1, <3>3
    <3> QED  BY <2>1, <2>3, <3>1, <3>4, <3>5, <3>6, <3>7
  <2>4. ASSUME ~(first /\ up /\ alive) PROVE Answered'
    <3>1. ~(first' /\ up' /\ alive')
      BY <1>1, <2>4 DEF Pass
    <3> QED  BY <3>1, NothingToAnswer
  <2> QED  BY <2>1, <2>2, <2>3, <2>4
<1>2. CASE Beat
  <2>1. UNCHANGED <<first, respAge, connAge, alive, outages>> /\ elapsed = Interval /\ elapsed' = 0 /\ up
    BY <1>2 DEF Beat
  <2>2. CASE respAge > Timeout
    <3>1. ~up' /\ up' \in BOOLEAN /\ pending' = pending
      BY <1>2, <2>2 DEF Beat
    <3>2. HeartbeatTypeOK'
      <4>1. first' \in BOOLEAN /\ alive' \in BOOLEAN
        BY <2>1
      <4> QED  BY <2>1, <3>1, <4>1 DEF Cap
    <3> QED  BY <3>1, <3>2 DEF Fresh, Answered
  <2>3. CASE ~(respAge > Timeout)
    <3>1. up' = up /\ pending' = pending \union {0}
      BY <1>2, <2>3 DEF Beat
    <3>2. first' \in BOOLEAN /\ alive' \in BOOLEAN /\ up' \in BOOLEAN
      BY <2>1, <3>1
    <3>3. HeartbeatTypeOK'
      BY <2>1, <3>1, <3>2 DEF Cap
    <3>4. Fresh'
      BY <2>1, <2>3
    <3>5. ASSUME first, alive PROVE Answered'
      <4>1. elapsed + Interval \notin pending
        BY <2>1, <3>5
      <4>2. pending \subseteq {Interval}
        BY <2>1, <3>5, <4>1
      <4>3. Interval \in pending => Interval <= Delay
        BY <2>1, <3>5
      <4>4. Interval \notin pending => pending = {} /\ respAge <= Interval
        BY <2>1, <3>5, <4>1, <4>2
      <4> QED  BY <2>1, <2>3, <3>1, <3>3, <4>2, <4>3, <4>4
    <3>6. ASSUME ~(first /\ alive) PROVE Answered'
      <4>1. ~(first' /\ alive')
        BY <2>1, <3>6
      <4> QED  BY <4>1, NothingToAnswer
    <3> QED  BY <3>3, <3>4, <3>5, <3>6
  <2> QED  BY <2>2, <2>3
<1>3. CASE Respond
  BY <1>3 DEF Respond, Cap
<1>4. CASE Break
  <2>1. ~up' /\ up' \in BOOLEAN /\ first' \in BOOLEAN /\ alive' \in BOOLEAN
    BY <1>4 DEF Break
  <2>2. UNCHANGED <<respAge, connAge, elapsed, pending>> /\ outages' \in 0..MaxOutages
    BY <1>4 DEF Break
  <2>3. HeartbeatTypeOK'
    BY <2>1, <2>2
  <2> QED  BY <2>1, <2>3 DEF Fresh, Answered
<1>5. CASE Hang
  <2>1. ~alive' /\ up' = up /\ up' \in BOOLEAN /\ first' \in BOOLEAN /\ alive' \in BOOLEAN
    BY <1>5 DEF Hang
  <2>2. UNCHANGED <<respAge, connAge, elapsed, pending>> /\ outages' \in 0..MaxOutages
    BY <1>5 DEF Hang
  <2>3. HeartbeatTypeOK'
    BY <2>1, <2>2
  <2>4. Fresh'
    BY <1>5, <2>2 DEF Hang
  <2> QED  BY <2>1, <2>3, <2>4 DEF Answered
<1>6. CASE Resume
  <2>1. ~first' /\ up' \in BOOLEAN /\ first' \in BOOLEAN /\ alive' \in BOOLEAN
    BY <1>6 DEF Resume
  <2>2. UNCHANGED <<respAge, outages>> /\ connAge' = 0 /\ elapsed' = 0 /\ pending' = {}
    BY <1>6 DEF Resume
  <2>3. HeartbeatTypeOK'
    BY <2>1, <2>2 DEF Cap
  <2>4. Fresh'
    BY <2>2
  <2> QED  BY <2>1, <2>3, <2>4 DEF Answered
<1>7. CASE UNCHANGED heartbeatVars
  BY <1>7 DEF heartbeatVars
<1> QED  BY <1>1, <1>2, <1>3, <1>4, <1>5, <1>6, <1>7 DEF HeartbeatNext

\* The invariant is one: whatever the peer and the network do.
THEOREM ClockInvariance == HeartbeatSpec => []ClockInv
<1>1. ClockInv /\ [HeartbeatNext]_heartbeatVars => ClockInv'
  BY ClockStep
<1> QED  BY ClockInit, <1>1, PTL DEF HeartbeatSpec

\* A silent peer is noticed within three intervals of its last response.
THEOREM Noticed == HeartbeatSpec => []SilenceIsNoticed
<1>1. ClockInv => SilenceIsNoticed
  BY HeartbeatAssumption DEF ClockInv, HeartbeatTypeOK, Fresh, SilenceIsNoticed, Timeout
<1> QED  BY ClockInvariance, <1>1, PTL

\* A live peer of the first connection is never condemned by the heartbeat.
THEOREM FirstIsJustified == HeartbeatSpec => FirstTimeoutIsJustified
<1>1. ClockInv /\ [HeartbeatNext]_heartbeatVars => [Beat /\ ~up' /\ first => ~alive]_heartbeatVars
  <2> SUFFICES ASSUME ClockInv, Beat, first, alive PROVE up'
    OBVIOUS
  <2>1. elapsed = Interval /\ up
    BY DEF Beat
  <2>2. elapsed + Interval \notin pending
    BY <2>1, HeartbeatAssumption DEF ClockInv, Answered
  <2>3. respAge <= Timeout
    BY <2>1, <2>2, HeartbeatAssumption DEF ClockInv, Answered, Timeout
  <2>4. ~(respAge > Timeout)
    BY <2>3, HeartbeatAssumption DEF ClockInv, HeartbeatTypeOK, Timeout
  <2> QED  BY <2>1, <2>4 DEF Beat
<1> QED  BY ClockInvariance, <1>1, PTL DEF HeartbeatSpec, FirstTimeoutIsJustified

\* The variables keep their types: no age outgrows its cap, whatever the delay.
THEOREM ClockTypeCorrect == HeartbeatSpec => []HeartbeatTypeOK
<1>1. ClockInv => HeartbeatTypeOK
  BY DEF ClockInv
<1> QED  BY ClockInvariance, <1>1, PTL
=============================================================================
