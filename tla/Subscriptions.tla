--------------------------- MODULE Subscriptions ---------------------------
(***************************************************************************)
(* The subscriptions of orderbook/ws_client.go: the map that tracks them,   *)
(* writeChan and the write loop that empties it, and resubscribe after a    *)
(* reconnection, against what the server really has subscribed.            *)
(*                                                                         *)
(* Subscribe and Unsubscribe are the same three critical sections in a row: *)
(* the state is checked, the map is changed, the message is written.  Users *)
(* run them, and so does every reconnect goroutine for what it finds in the *)
(* map.  The life of the connection is WSClient's subject: here triggering, *)
(* closing and setState(Reconnecting) are one step, and reconnecting never  *)
(* gives up.                                                               *)
(***************************************************************************)
EXTENDS Naturals, Sequences

CONSTANTS Users,      \* goroutines of the application
          Recons,     \* bound: reconnect goroutines at a time
          Channels,   \* keys of the subscriptions map
          Actions,    \* what users call: "subscribe", "unsubscribe"
          Capacity,   \* of writeChan; 100 in the code
          MaxLosses   \* bound: how often the connection is lost

ASSUME SubscriptionsAssumption ==
    /\ Users \intersect Recons = {}
    /\ Actions \subseteq {"subscribe", "unsubscribe"}
    /\ Capacity \in Nat \ {0}
    /\ MaxLosses \in Nat

Callers == Users \union Recons
Messages == [action : {"subscribe", "unsubscribe"}, channel : Channels]
NoCall == [action |-> "none"]

VARIABLES
    connected,  \* state = StateConnected; Reconnecting otherwise
    link,       \* the connection carries messages
    cancelled,  \* loopCtx is cancelled
    running,    \* the loops have not returned
    tracked,    \* subscriptions
    queue,      \* writeChan
    server,     \* what the server has subscribed on this connection
    pc,         \* where a call to Subscribe or Unsubscribe stands
    call,       \* its message
    stale,      \* the loopCtx its write selects on is cancelled
    recon,      \* where a reconnect goroutine stands
    todo,       \* what its resubscribe has still to subscribe
    unwanted,   \* ghost: channels for which a user's last call was Unsubscribe
    contended,  \* ghost: channels subscribed and unsubscribed at the same time
    failed,     \* ghost: channels whose last write returned an error for good
    losses

connVars == <<connected, link, cancelled, running, server, losses>>
callVars == <<pc, call, stale>>
reconVars == <<recon, todo>>
ghosts == <<unwanted, contended, failed>>
vars == <<connVars, callVars, reconVars, tracked, queue, ghosts>>

TypeOK ==
    /\ {connected, link, cancelled, running} \subseteq BOOLEAN
    /\ tracked \subseteq Channels /\ server \subseteq Channels
    /\ queue \in Seq(Messages) /\ Len(queue) <= Capacity
    /\ pc \in [Callers -> {"idle", "check", "track", "ctx", "write"}]
    /\ call \in [Callers -> Messages \union {NoCall}]
    /\ stale \in [Callers -> BOOLEAN]
    /\ recon \in [Recons -> {"none", "wait", "dial", "up", "resubscribe", "subscribing"}]
    /\ todo \in [Recons -> SUBSET Channels]
    /\ unwanted \subseteq Channels /\ contended \subseteq Channels /\ failed \subseteq Channels
    /\ losses \in 0..MaxLosses

\* Connect has returned.
Init ==
    /\ connected = TRUE /\ link = TRUE /\ cancelled = FALSE /\ running = TRUE
    /\ tracked = {} /\ server = {} /\ queue = <<>>
    /\ unwanted = {} /\ contended = {} /\ failed = {}
    /\ pc = [p \in Callers |-> "idle"]
    /\ call = [p \in Callers |-> NoCall]
    /\ stale = [p \in Callers |-> FALSE]
    /\ recon = [r \in Recons |-> "none"]
    /\ todo = [r \in Recons |-> {}]
    /\ losses = 0

-----------------------------------------------------------------------------
(* Subscribe and Unsubscribe.                                              *)

Call(u, action, channel) ==
    /\ pc[u] = "idle"
    /\ pc' = [pc EXCEPT ![u] = "check"]
    /\ call' = [call EXCEPT ![u] = [action |-> action, channel |-> channel]]
    /\ UNCHANGED <<connVars, reconVars, stale, tracked, queue, ghosts>>

\* The call returns, with or without an error.
Return(p) ==
    /\ pc' = [pc EXCEPT ![p] = "idle"]
    /\ call' = [call EXCEPT ![p] = NoCall]
    /\ stale' = [stale EXCEPT ![p] = FALSE]
    /\ UNCHANGED <<connVars, reconVars, tracked, unwanted, contended>>

\* ErrNotConnected, or on.
Check(p) ==
    /\ pc[p] = "check"
    /\ UNCHANGED <<queue, failed>>
    /\ \/ /\ connected
          /\ pc' = [pc EXCEPT ![p] = "track"]
          /\ UNCHANGED <<connVars, reconVars, call, stale, tracked, unwanted, contended>>
       \/ ~connected /\ Return(p)

\* Ghost: somebody else is doing the opposite to the channel, or is about to.
Contended(p) ==
    \/ \E q \in Callers \ {p} : /\ pc[q] \in {"ctx", "write"}
                                /\ call[q].channel = call[p].channel
                                /\ call[q].action # call[p].action
    \/ /\ call[p].action = "unsubscribe"
       /\ \E r \in Recons : call[p].channel \in todo[r]
                           \/ (pc[r] # "idle" /\ call[r].channel = call[p].channel)

\* Ghost: what the call that changes the map means for its channel.
Wish(p) ==
    LET c == {call[p].channel} IN
    /\ unwanted' = IF p \notin Users THEN unwanted
                   ELSE IF call[p].action = "unsubscribe" THEN unwanted \union c
                   ELSE unwanted \ c
    /\ contended' = IF Contended(p) THEN contended \union c
                    ELSE IF p \in Users THEN contended \ c
                    ELSE contended

\* Mutant: nothing is ever removed from the map.
TrackKeeps(p) ==
    /\ pc[p] = "track"
    /\ pc' = [pc EXCEPT ![p] = "ctx"]
    /\ tracked' = IF call[p].action = "subscribe" THEN tracked \union {call[p].channel} ELSE tracked
    /\ Wish(p)
    /\ UNCHANGED <<connVars, reconVars, call, stale, queue, failed>>

\* The map is changed.
Track(p) ==
    /\ pc[p] = "track"
    /\ pc' = [pc EXCEPT ![p] = "ctx"]
    /\ tracked' = IF call[p].action = "subscribe"
                  THEN tracked \union {call[p].channel}
                  ELSE tracked \ {call[p].channel}
    /\ Wish(p)
    /\ UNCHANGED <<connVars, reconVars, call, stale, queue, failed>>

\* write reads loopCtx ...
ReadCtx(p) ==
    /\ pc[p] = "ctx"
    /\ pc' = [pc EXCEPT ![p] = "write"]
    /\ stale' = [stale EXCEPT ![p] = cancelled]
    /\ UNCHANGED <<connVars, reconVars, call, tracked, queue, ghosts>>

\* Mutant: the channel has no bound.
SendUnbounded(p) ==
    /\ pc[p] = "write"
    /\ queue' = Append(queue, call[p])
    /\ failed' = failed \ {call[p].channel}
    /\ Return(p)

\* ... and selects on the channel, ...
Send(p) ==
    /\ pc[p] = "write"
    /\ Len(queue) < Capacity
    /\ queue' = Append(queue, call[p])
    /\ failed' = failed \ {call[p].channel}
    /\ Return(p)

\* ... the context (a reconnection will subscribe what is tracked), ...
Refuse(p) ==
    /\ pc[p] = "write"
    /\ stale[p]
    /\ failed' = IF call[p].action = "unsubscribe" THEN failed \union {call[p].channel} ELSE failed
    /\ UNCHANGED queue
    /\ Return(p)

\* ... and five seconds.
GiveUp(p) ==
    /\ pc[p] = "write"
    /\ Len(queue) = Capacity
    /\ failed' = failed \union {call[p].channel}
    /\ UNCHANGED queue
    /\ Return(p)

-----------------------------------------------------------------------------
(* The loops and the connection.                                           *)

\* writeLoop takes a message; on a connection that is lost it goes nowhere.
WriteLoop ==
    /\ running
    /\ queue # <<>>
    /\ queue' = Tail(queue)
    /\ LET m == Head(queue)
       IN  server' = IF ~link THEN server
                     ELSE IF m.action = "subscribe" THEN server \union {m.channel}
                     ELSE server \ {m.channel}
    /\ UNCHANGED <<connected, link, cancelled, running, losses, callVars, reconVars, tracked, ghosts>>

Lose ==
    /\ link
    /\ losses < MaxLosses
    /\ losses' = losses + 1
    /\ link' = FALSE
    /\ server' = {}
    /\ UNCHANGED <<connected, cancelled, running, callVars, reconVars, tracked, queue, ghosts>>

\* A loop notices: triggerReconnect starts a reconnect goroutine.
Trigger(r) ==
    /\ ~link /\ connected /\ running /\ ~cancelled
    /\ recon[r] = "none"
    /\ recon' = [recon EXCEPT ![r] = "wait"]
    /\ connected' = FALSE
    /\ cancelled' = TRUE
    /\ stale' = [p \in Callers |-> pc[p] = "write"]
    /\ UNCHANGED <<link, running, server, losses, pc, call, todo, tracked, queue, ghosts>>

LoopsReturn ==
    /\ running
    /\ cancelled
    /\ running' = FALSE
    /\ UNCHANGED <<connected, link, cancelled, server, losses, callVars, reconVars, tracked, queue, ghosts>>

-----------------------------------------------------------------------------
(* reconnect.                                                              *)

\* loopWg.Wait and drainWriteChan.
Drain(r) ==
    /\ recon[r] = "wait"
    /\ ~running
    /\ queue' = <<>>
    /\ recon' = [recon EXCEPT ![r] = "dial"]
    /\ UNCHANGED <<connVars, callVars, todo, tracked, ghosts>>

\* connect succeeds: setState(Connected), while loopCtx is still the old one.
Dial(r) ==
    /\ recon[r] = "dial"
    /\ recon' = [recon EXCEPT ![r] = "up"]
    /\ connected' = TRUE
    /\ link' = TRUE
    /\ server' = {}
    /\ UNCHANGED <<cancelled, running, losses, callVars, todo, tracked, queue, ghosts>>

\* A new loopCtx and new loops.
Restart(r) ==
    /\ recon[r] = "up"
    /\ recon' = [recon EXCEPT ![r] = "resubscribe"]
    /\ cancelled' = FALSE
    /\ running' = TRUE
    /\ UNCHANGED <<connected, link, server, losses, callVars, todo, tracked, queue, ghosts>>

\* Mutant: the goroutine returns without resubscribing.
ResubscribeNothing(r) ==
    /\ recon[r] = "resubscribe"
    /\ recon' = [recon EXCEPT ![r] = "none"]
    /\ UNCHANGED <<connVars, callVars, todo, tracked, queue, ghosts>>

\* resubscribe copies the map ...
Resubscribe(r) ==
    /\ recon[r] = "resubscribe"
    /\ recon' = [recon EXCEPT ![r] = "subscribing"]
    /\ todo' = [todo EXCEPT ![r] = tracked]
    /\ UNCHANGED <<connVars, callVars, tracked, queue, ghosts>>

\* ... and calls Subscribe for each entry, whatever the calls return.
ResubscribeNext(r, channel) ==
    /\ recon[r] = "subscribing"
    /\ pc[r] = "idle"
    /\ channel \in todo[r]
    /\ todo' = [todo EXCEPT ![r] = @ \ {channel}]
    /\ pc' = [pc EXCEPT ![r] = "check"]
    /\ call' = [call EXCEPT ![r] = [action |-> "subscribe", channel |-> channel]]
    /\ UNCHANGED <<connVars, recon, stale, tracked, queue, ghosts>>

ResubscribeDone(r) ==
    /\ recon[r] = "subscribing"
    /\ pc[r] = "idle"
    /\ todo[r] = {}
    /\ recon' = [recon EXCEPT ![r] = "none"]
    /\ UNCHANGED <<connVars, callVars, todo, tracked, queue, ghosts>>

Step(p) == Check(p) \/ Track(p) \/ ReadCtx(p) \/ Send(p) \/ Refuse(p) \/ GiveUp(p)

Reconnect(r) ==
    \/ Drain(r) \/ Dial(r) \/ Restart(r) \/ Resubscribe(r) \/ ResubscribeDone(r)
    \/ \E channel \in Channels : ResubscribeNext(r, channel)

Next ==
    \/ \E u \in Users, action \in Actions, channel \in Channels : Call(u, action, channel)
    \/ \E p \in Callers : Step(p)
    \/ WriteLoop \/ Lose \/ LoopsReturn
    \/ \E r \in Recons : Trigger(r) \/ Reconnect(r)

Spec == Init /\ [][Next]_vars

\* Goroutines that can run do; the network and the users do as they please.
FairSpec ==
    /\ Spec
    /\ \A p \in Callers : SF_vars(Step(p))
    /\ WF_vars(WriteLoop) /\ WF_vars(LoopsReturn)
    /\ WF_vars(\E r \in Recons : Trigger(r))
    /\ \A r \in Recons : WF_vars(Reconnect(r))

-----------------------------------------------------------------------------
(* Properties.                                                             *)

Settled ==
    /\ link /\ connected /\ queue = <<>>
    /\ \A p \in Callers : pc[p] = "idle"
    /\ \A r \in Recons : recon[r] = "none"

\* Left alone by the other calls for the channel, and by errors.
Undisturbed == Channels \ (failed \union contended)

\* A channel that is tracked is subscribed at the server once everything has
\* settled, whatever losses, drains and refused writes lie behind: this is what
\* lets Subscribe return an error and leave its channel in the map.  Only a write
\* that waited its five seconds in vain leaves a channel out.
Served == Settled => tracked \intersect Undisturbed \subseteq server

\* The same as a promise: what stays tracked is subscribed in the end.
ServedInTheEnd ==
    \A c \in Channels : <>[](c \in tracked \intersect Undisturbed) => <>[](c \in server)

\* "Unsubscribe unsubscribes from a channel": what a user unsubscribed is neither
\* tracked nor subscribed at the server, and no reconnection brings it back,
\* unless a call or a resubscription was subscribing it at that very time.
UnsubscribeSticks ==
    Settled => unwanted \intersect Undisturbed \intersect (tracked \union server) = {}
=============================================================================
