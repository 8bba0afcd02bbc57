------------------------- MODULE Subscriptions_proof -------------------------
(***************************************************************************)
(* Subscriptions for any number of users, reconnect goroutines, channels     *)
(* and losses.                                                             *)
(*                                                                         *)
(* The argument: whatever happens to a message on its way, somebody still    *)
(* owes the server the state of the map.  For a channel that is tracked this *)
(* is the message in the queue, the call that will write it, or the          *)
(* reconnection that will subscribe whatever is tracked; for one that was    *)
(* unsubscribed it is the message or the call, and a lost connection forgets *)
(* it anyway.  An error that leaves nobody in charge, and calls in the        *)
(* opposite direction at the same time, are what failed and contended record.*)
(***************************************************************************)
EXTENDS Subscriptions, SequenceTheorems, TLAPS

\* The message of this action for a channel.
Message(a, c) == [action |-> a, channel |-> c]

\* p has changed the map and not yet written its message.
Writing(p, a, c) == pc[p] \in {"ctx", "write"} /\ call[p] = Message(a, c)

\* r will subscribe the channel, whether it is tracked or not.
WillSubscribe(r, c) ==
    \/ c \in todo[r]
    \/ pc[r] \in {"check", "track"} /\ call[r].channel = c

\* What the server has once the queue is written to it.
Ends(a, c) ==
    \/ \E i \in 1..Len(queue) : /\ queue[i] = Message(a, c)
                                /\ \A j \in i+1..Len(queue) : queue[j].channel # c
    \/ /\ \A j \in 1..Len(queue) : queue[j].channel # c
       /\ (a = "subscribe") <=> (c \in server)

\* Calls have a message as long as they last, and a reconnect goroutine's is a
\* subscription; it has nothing to subscribe before it resubscribes.
Called ==
    /\ \A p \in Callers : pc[p] # "idle" => call[p] \in Messages
    /\ \A r \in Recons : /\ pc[r] # "idle" => call[r].action = "subscribe"
                         /\ recon[r] # "subscribing" => todo[r] = {}

\* The connection and the goroutine that replaces it.
Connection ==
    /\ ~link => server = {}
    /\ ~connected => ~link
    /\ cancelled <=> \E r \in Recons : recon[r] \in {"wait", "dial", "up"}
    /\ \A r \in Recons : recon[r] \in {"wait", "dial"} => ~link
    /\ \A r, s \in Recons :
          recon[r] \in {"wait", "dial", "up"} /\ recon[s] \in {"wait", "dial", "up"} => r = s

\* Nobody writes the opposite of what the map says.
Agreed ==
    \A c \in Channels \ contended :
        /\ c \in tracked => \A p \in Callers : ~Writing(p, "unsubscribe", c)
        /\ c \notin tracked => /\ \A p \in Callers : ~Writing(p, "subscribe", c)
                               /\ \A r \in Recons : ~WillSubscribe(r, c)
        /\ c \in unwanted => c \notin tracked

\* Somebody sees to it that c will be subscribed.
Owed(c) ==
    \/ ~link
    \/ \E r \in Recons : recon[r] \in {"up", "resubscribe"} \/ WillSubscribe(r, c)
    \/ \E p \in Callers : Writing(p, "subscribe", c) /\ (pc[p] = "write" => ~stale[p])
    \/ Ends("subscribe", c)

\* Somebody sees to it that c will not be.
Withdrawn(c) ==
    \/ \E p \in Callers : Writing(p, "unsubscribe", c)
    \/ Ends("unsubscribe", c)

Safe ==
    \A c \in Undisturbed : /\ c \in tracked => Owed(c)
                           /\ c \in unwanted => Withdrawn(c)

IInv == TypeOK /\ Called /\ Connection /\ Agreed /\ Safe

-----------------------------------------------------------------------------
(* Types.                                                                  *)

USE DEF Callers

LEMMA TypeInit == Init => TypeOK
<1>1. Init => queue \in Seq(Messages) /\ Len(queue) <= Capacity
  <2>1. <<>> \in Seq(Messages) /\ Len(<<>>) = 0
    BY EmptySeq
  <2> QED  BY <2>1, SubscriptionsAssumption DEF Init
<1>2. Init => {connected, link, cancelled, running} \subseteq BOOLEAN
  BY DEF Init
<1>3. Init => losses \in 0..MaxLosses
  BY SubscriptionsAssumption DEF Init
<1> QED  BY <1>1, <1>2, <1>3 DEF Init, TypeOK

\* The queue without its first message.
LEMMA Removed ==
  ASSUME TypeOK, queue # <<>>
  PROVE  /\ Head(queue) \in Messages /\ Head(queue).channel \in Channels
         /\ Tail(queue) \in Seq(Messages) /\ Len(Tail(queue)) = Len(queue) - 1
         /\ Len(queue) \in Nat \ {0} /\ Head(queue) = queue[1]
         /\ \A i \in 1..Len(Tail(queue)) : Tail(queue)[i] = queue[i + 1]
<1>1. queue \in Seq(Messages)
  BY DEF TypeOK
<1>2. /\ Head(queue) \in Messages /\ Tail(queue) \in Seq(Messages)
      /\ Len(Tail(queue)) = Len(queue) - 1
      /\ \A i \in 1..Len(Tail(queue)) : Tail(queue)[i] = queue[i + 1]
  BY <1>1, HeadTailProperties
<1>3. Len(queue) \in Nat \ {0} /\ Head(queue) = queue[1]
  BY <1>1, EmptySeq
<1>4. Head(queue).channel \in Channels
  BY <1>2 DEF Messages
<1> QED  BY <1>2, <1>3, <1>4

LEMMA TypeNext == TypeOK /\ Called /\ Next => TypeOK'
<1> SUFFICES ASSUME TypeOK, Called, Next  PROVE TypeOK'
  OBVIOUS
<1> USE DEF TypeOK, Called
<1>1. ASSUME NEW u \in Users, NEW action \in Actions, NEW channel \in Channels, Call(u, action, channel)
      PROVE  TypeOK'
  BY <1>1, SubscriptionsAssumption DEF Messages, Call, connVars, reconVars, ghosts
<1>2. ASSUME NEW p \in Callers, Check(p)
      PROVE  TypeOK'
  <2>1. /\ pc' \in [Callers -> {"idle", "check", "track", "ctx", "write"}]
        /\ call' \in [Callers -> Messages \union {NoCall}]
        /\ stale' \in [Callers -> BOOLEAN]
    BY <1>2 DEF Check, Return
  <2>2. UNCHANGED <<connVars, reconVars, tracked, queue, ghosts>>
    BY <1>2 DEF Check, Return, ghosts
  <2> QED  BY <2>1, <2>2 DEF connVars, reconVars, ghosts
<1>3. ASSUME NEW p \in Callers, Track(p)
      PROVE  TypeOK'
  <2>1. tracked' \subseteq Channels /\ unwanted' \subseteq Channels /\ contended' \subseteq Channels
    <3>1. call[p] \in Messages /\ call[p].channel \in Channels
      BY <1>3 DEF Track, Messages
    <3>2. tracked' \subseteq tracked \union {call[p].channel}
      BY <1>3 DEF Track
    <3>3. /\ unwanted' \subseteq unwanted \union {call[p].channel}
          /\ contended' \subseteq contended \union {call[p].channel}
      BY <1>3 DEF Track, Wish
    <3> QED  BY <3>1, <3>2, <3>3
  <2>2. /\ pc' \in [Callers -> {"idle", "check", "track", "ctx", "write"}]
        /\ queue' = queue /\ failed' = failed
    BY <1>3 DEF Track
  <2> QED  BY <1>3, <2>1, <2>2 DEF Track, connVars, reconVars
<1>4. ASSUME NEW p \in Callers, ReadCtx(p)
      PROVE  TypeOK'
  BY <1>4 DEF ReadCtx, connVars, reconVars, ghosts
<1>5. ASSUME NEW p \in Callers, Send(p)
      PROVE  TypeOK'
  BY <1>5, SubscriptionsAssumption DEF Messages, Send, Return, connVars, reconVars
<1>6. ASSUME NEW p \in Callers, Refuse(p)
      PROVE  TypeOK'
  BY <1>6, SubscriptionsAssumption DEF Messages, Refuse, Return, connVars, reconVars
<1>7. ASSUME NEW p \in Callers, GiveUp(p)
      PROVE  TypeOK'
  BY <1>7, SubscriptionsAssumption DEF Messages, GiveUp, Return, connVars, reconVars
<1>8. ASSUME WriteLoop
      PROVE  TypeOK'
  <2>1. queue' \in Seq(Messages) /\ Len(queue') <= Capacity
    <3>1. /\ Tail(queue) \in Seq(Messages) /\ Len(Tail(queue)) = Len(queue) - 1
          /\ Len(queue) \in Nat
      BY <1>8, Removed DEF WriteLoop
    <3> QED  BY <1>8, <3>1, SubscriptionsAssumption DEF WriteLoop
  <2>2. server' \subseteq Channels
    BY <1>8, Removed DEF WriteLoop
  <2> QED  BY <1>8, <2>1, <2>2 DEF WriteLoop, callVars, reconVars, ghosts
<1>9. ASSUME Lose
      PROVE  TypeOK'
  <2>1. losses' \in 0..MaxLosses
    BY <1>9, SubscriptionsAssumption DEF Lose
  <2>2. {connected', link', cancelled', running'} \subseteq BOOLEAN /\ server' \subseteq Channels
    BY <1>9 DEF Lose
  <2> QED  BY <1>9, <2>1, <2>2 DEF Lose, callVars, reconVars, ghosts
<1>10. ASSUME LoopsReturn
       PROVE  TypeOK'
  BY <1>10 DEF LoopsReturn, callVars, reconVars, ghosts
<1>11. ASSUME NEW r \in Recons, Trigger(r)
       PROVE  TypeOK'
  BY <1>11 DEF Trigger, ghosts
<1>12. ASSUME NEW r \in Recons, Drain(r)
       PROVE  TypeOK'
  BY <1>12, SubscriptionsAssumption DEF Messages, Drain, connVars, callVars, ghosts
<1>13. ASSUME NEW r \in Recons, Dial(r)
       PROVE  TypeOK'
  BY <1>13 DEF Dial, callVars, ghosts
<1>14. ASSUME NEW r \in Recons, Restart(r)
       PROVE  TypeOK'
  BY <1>14 DEF Restart, callVars, ghosts
<1>15. ASSUME NEW r \in Recons, Resubscribe(r)
       PROVE  TypeOK'
  BY <1>15 DEF Resubscribe, connVars, callVars, ghosts
<1>16. ASSUME NEW r \in Recons, NEW channel \in Channels, ResubscribeNext(r, channel)
       PROVE  TypeOK'
  BY <1>16, SubscriptionsAssumption DEF Messages, ResubscribeNext, connVars, ghosts
<1>17. ASSUME NEW r \in Recons, ResubscribeDone(r)
       PROVE  TypeOK'
  BY <1>17 DEF ResubscribeDone, connVars, callVars, ghosts
<1>18. ASSUME UNCHANGED vars
       PROVE  TypeOK'
  BY <1>18 DEF vars, connVars, callVars, reconVars, ghosts
<1> QED
  BY <1>1, <1>2, <1>3, <1>4, <1>5, <1>6, <1>7, <1>8, <1>9, <1>10, <1>11, <1>12, <1>13, <1>14,
     <1>15, <1>16, <1>17, <1>18 DEF Next, Step, Reconnect

LEMMA CalledNext == TypeOK /\ Called /\ Next => Called'
<1> SUFFICES ASSUME TypeOK, Called, Next  PROVE Called'
  OBVIOUS
<1> USE DEF TypeOK, Called
<1>1. ASSUME NEW u \in Users, NEW action \in Actions, NEW channel \in Channels, Call(u, action, channel)
      PROVE  Called'
  BY <1>1, SubscriptionsAssumption DEF Messages, Call, connVars, reconVars, ghosts
<1>2. ASSUME NEW p \in Callers, Check(p)
      PROVE  Called'
  BY <1>2 DEF Check, Return, connVars, reconVars
<1>3. ASSUME NEW p \in Callers, Track(p)
      PROVE  Called'
  BY <1>3 DEF Track, connVars, reconVars
<1>4. ASSUME NEW p \in Callers, ReadCtx(p)
      PROVE  Called'
  BY <1>4 DEF ReadCtx, connVars, reconVars, ghosts
<1>5. ASSUME NEW p \in Callers, Send(p)
      PROVE  Called'
  BY <1>5 DEF Send, Return, connVars, reconVars
<1>6. ASSUME NEW p \in Callers, Refuse(p)
      PROVE  Called'
  BY <1>6 DEF Refuse, Return, connVars, reconVars
<1>7. ASSUME NEW p \in Callers, GiveUp(p)
      PROVE  Called'
  BY <1>7 DEF GiveUp, Return, connVars, reconVars
<1>8. ASSUME WriteLoop
      PROVE  Called'
  BY <1>8 DEF WriteLoop, callVars, reconVars, ghosts
<1>9. ASSUME Lose
      PROVE  Called'
  BY <1>9 DEF Lose, callVars, reconVars, ghosts
<1>10. ASSUME LoopsReturn
       PROVE  Called'
  BY <1>10 DEF LoopsReturn, callVars, reconVars, ghosts
<1>11. ASSUME NEW r \in Recons, Trigger(r)
       PROVE  Called'
  BY <1>11 DEF Trigger, ghosts
<1>12. ASSUME NEW r \in Recons, Drain(r)
       PROVE  Called'
  BY <1>12 DEF Drain, connVars, callVars, ghosts
<1>13. ASSUME NEW r \in Recons, Dial(r)
       PROVE  Called'
  BY <1>13 DEF Dial, callVars, ghosts
<1>14. ASSUME NEW r \in Recons, Restart(r)
       PROVE  Called'
  BY <1>14 DEF Restart, callVars, ghosts
<1>15. ASSUME NEW r \in Recons, Resubscribe(r)
       PROVE  Called'
  BY <1>15 DEF Resubscribe, connVars, callVars, ghosts
<1>16. ASSUME NEW r \in Recons, NEW channel \in Channels, ResubscribeNext(r, channel)
       PROVE  Called'
  BY <1>16, SubscriptionsAssumption DEF Messages, ResubscribeNext, connVars, ghosts
<1>17. ASSUME NEW r \in Recons, ResubscribeDone(r)
       PROVE  Called'
  BY <1>17 DEF ResubscribeDone, connVars, callVars, ghosts
<1>18. ASSUME UNCHANGED vars
       PROVE  Called'
  BY <1>18 DEF vars, connVars, callVars, reconVars, ghosts
<1> QED
  BY <1>1, <1>2, <1>3, <1>4, <1>5, <1>6, <1>7, <1>8, <1>9, <1>10, <1>11, <1>12, <1>13, <1>14,
     <1>15, <1>16, <1>17, <1>18 DEF Next, Step, Reconnect

LEMMA ConnectionNext == TypeOK /\ Connection /\ Next => Connection'
<1> SUFFICES ASSUME TypeOK, Connection, Next  PROVE Connection'
  OBVIOUS
<1> USE DEF TypeOK, Connection
<1>1. ASSUME WriteLoop
      PROVE  Connection'
  <2>1. ~link => server' = {}
    BY <1>1 DEF WriteLoop
  <2> QED  BY <1>1, <2>1 DEF WriteLoop, connVars, callVars, reconVars, ghosts
<1>2. ASSUME Lose
      PROVE  Connection'
  BY <1>2 DEF Lose, callVars, reconVars, ghosts
<1>3. ASSUME LoopsReturn
      PROVE  Connection'
  BY <1>3 DEF LoopsReturn, callVars, reconVars, ghosts
<1>4. ASSUME NEW r \in Recons, Trigger(r)
      PROVE  Connection'
  BY <1>4 DEF Trigger, ghosts
<1>5. ASSUME NEW r \in Recons, Drain(r)
      PROVE  Connection'
  BY <1>5 DEF Drain, connVars, callVars, ghosts
<1>6. ASSUME NEW r \in Recons, Dial(r)
      PROVE  Connection'
  BY <1>6 DEF Dial, callVars, ghosts
<1>7. ASSUME NEW r \in Recons, Restart(r)
      PROVE  Connection'
  BY <1>7 DEF Restart, callVars, ghosts
<1>8. ASSUME NEW r \in Recons, Resubscribe(r)
      PROVE  Connection'
  BY <1>8 DEF Resubscribe, connVars, callVars, ghosts
<1>9. ASSUME NEW r \in Recons, ResubscribeDone(r)
      PROVE  Connection'
  BY <1>9 DEF ResubscribeDone, connVars, callVars, ghosts
<1>10. ASSUME \/ \E u \in Users, action \in Actions, channel \in Channels : Call(u, action, channel)
              \/ \E p \in Callers : Check(p)
              \/ \E p \in Callers : Track(p)
              \/ \E p \in Callers : ReadCtx(p)
              \/ \E p \in Callers : Send(p)
              \/ \E p \in Callers : Refuse(p)
              \/ \E p \in Callers : GiveUp(p)
              \/ \E r \in Recons, channel \in Channels : ResubscribeNext(r, channel)
              \/ UNCHANGED vars
       PROVE  Connection'
  <2>1. UNCHANGED <<connected, link, cancelled, server, recon>>
    BY <1>10 DEF Call, connVars, reconVars, ghosts, Check, Return, Track, ReadCtx, Send,
       Refuse, GiveUp, ResubscribeNext, vars, callVars
  <2> QED  BY <2>1 DEF Connection
<1> QED
  BY <1>1, <1>2, <1>3, <1>4, <1>5, <1>6, <1>7, <1>8, <1>9, <1>10 DEF Next, Step, Reconnect

-----------------------------------------------------------------------------
(* The map and the calls.                                                  *)

LEMMA AgreedNext == TypeOK /\ Called /\ Agreed /\ Next => Agreed'
<1> SUFFICES ASSUME TypeOK, Called, Agreed, Next  PROVE Agreed'
  OBVIOUS
<1> USE DEF TypeOK, Called, Agreed
<1>1. ASSUME NEW u \in Users, NEW action \in Actions, NEW channel \in Channels, Call(u, action, channel)
      PROVE  Agreed'
  BY <1>1, SubscriptionsAssumption DEF Writing, WillSubscribe, Message, Wish, Contended,
     Messages, Call, connVars, reconVars, ghosts
<1>2. ASSUME NEW p \in Callers, Check(p)
      PROVE  Agreed'
  BY <1>2 DEF Writing, WillSubscribe, Message, Wish, Contended, Check, Return, connVars,
     reconVars
<1>3. ASSUME NEW p \in Callers, Track(p)
      PROVE  Agreed'
  <2>1. /\ pc[p] = "track" /\ pc' = [pc EXCEPT ![p] = "ctx"] /\ call' = call /\ todo' = todo
        /\ tracked' = IF call[p].action = "subscribe" THEN tracked \union {call[p].channel}
                      ELSE tracked \ {call[p].channel}
        /\ call[p] \in Messages /\ Wish(p)
    BY <1>3 DEF Track, callVars, reconVars
  <2> SUFFICES ASSUME NEW c \in Channels \ contended'
               PROVE  /\ c \in tracked' => \A q \in Callers : ~Writing(q, "unsubscribe", c)'
                      /\ c \notin tracked' => /\ \A q \in Callers : ~Writing(q, "subscribe", c)'
                                             /\ \A r \in Recons : ~WillSubscribe(r, c)'
                      /\ c \in unwanted' => c \notin tracked'
    OBVIOUS
  <2>2. CASE call[p].channel # c
    <3>1. /\ c \notin contended /\ (c \in tracked' <=> c \in tracked)
          /\ (c \in unwanted' <=> c \in unwanted)
      BY <2>1, <2>2 DEF Wish
    <3>2. \A q \in Callers, a \in {"subscribe", "unsubscribe"} :
             Writing(q, a, c)' => Writing(q, a, c)
      BY <2>1, <2>2 DEF Writing, Message
    <3>3. \A r \in Recons : WillSubscribe(r, c)' => WillSubscribe(r, c)
      BY <2>1 DEF WillSubscribe
    <3> QED  BY <3>1, <3>2, <3>3
  <2>3. CASE call[p].channel = c
    <3>1. ~Contended(p) /\ (p \notin Users => c \notin contended)
      BY <2>1, <2>3 DEF Wish
    <3>2. \A q \in Callers, a \in {"subscribe", "unsubscribe"} :
             Writing(q, a, c)' => a = call[p].action
      BY <2>1, <2>3, <3>1 DEF Writing, Message, Contended
    <3>3. CASE call[p].action = "subscribe"
      <4>1. c \in tracked'
        BY <2>1, <2>3, <3>3
      <4>2. c \notin unwanted'
        <5>1. CASE p \in Users
          BY <2>1, <2>3, <3>3, <5>1 DEF Wish
        <5>2. CASE p \notin Users
          <6>1. WillSubscribe(p, c) /\ p \in Recons
            BY <2>1, <2>3, <5>2 DEF WillSubscribe
          <6> QED  BY <2>1, <3>1, <5>2, <6>1 DEF Wish
        <5> QED  BY <5>1, <5>2
      <4> QED  BY <3>2, <3>3, <4>1, <4>2
    <3>4. CASE call[p].action = "unsubscribe"
      <4>1. c \notin tracked'
        BY <2>1, <2>3, <3>4
      <4>2. \A r \in Recons : ~WillSubscribe(r, c)
        BY <2>1, <2>3, <3>1, <3>4 DEF WillSubscribe, Contended
      <4>3. \A r \in Recons : ~WillSubscribe(r, c)'
        BY <2>1, <4>2 DEF WillSubscribe
      <4> QED  BY <3>2, <3>4, <4>1, <4>3
    <3> QED  BY <2>1, <3>3, <3>4 DEF Messages
  <2> QED  BY <2>2, <2>3
<1>4. ASSUME NEW p \in Callers, ReadCtx(p)
      PROVE  Agreed'
  BY <1>4 DEF Writing, WillSubscribe, Message, Wish, Contended, ReadCtx, connVars, reconVars,
     ghosts
<1>5. ASSUME NEW p \in Callers, Send(p)
      PROVE  Agreed'
  BY <1>5 DEF Writing, WillSubscribe, Message, Wish, Contended, Send, Return, connVars,
     reconVars
<1>6. ASSUME NEW p \in Callers, Refuse(p)
      PROVE  Agreed'
  BY <1>6 DEF Writing, WillSubscribe, Message, Wish, Contended, Refuse, Return, connVars,
     reconVars
<1>7. ASSUME NEW p \in Callers, GiveUp(p)
      PROVE  Agreed'
  BY <1>7 DEF Writing, WillSubscribe, Message, Wish, Contended, GiveUp, Return, connVars,
     reconVars
<1>8. ASSUME NEW r \in Recons, Resubscribe(r)
      PROVE  Agreed'
  BY <1>8 DEF Writing, WillSubscribe, Message, Wish, Contended, Resubscribe, connVars,
     callVars, ghosts
<1>9. ASSUME NEW r \in Recons, NEW channel \in Channels, ResubscribeNext(r, channel)
      PROVE  Agreed'
  BY <1>9, SubscriptionsAssumption DEF Writing, WillSubscribe, Message, Wish, Contended,
     Messages, ResubscribeNext, connVars, ghosts
<1>10. ASSUME \/ WriteLoop
              \/ Lose
              \/ LoopsReturn
              \/ \E r \in Recons : Trigger(r)
              \/ \E r \in Recons : Drain(r)
              \/ \E r \in Recons : Dial(r)
              \/ \E r \in Recons : Restart(r)
              \/ \E r \in Recons : ResubscribeDone(r)
              \/ UNCHANGED vars
       PROVE  Agreed'
  <2>1. UNCHANGED <<pc, call, todo, tracked, unwanted, contended>>
    BY <1>10 DEF WriteLoop, callVars, reconVars, ghosts, Lose, LoopsReturn, Trigger, Drain,
       connVars, Dial, Restart, ResubscribeDone, vars
  <2> QED  BY <2>1 DEF Agreed, Writing, WillSubscribe
<1> QED
  BY <1>1, <1>2, <1>3, <1>4, <1>5, <1>6, <1>7, <1>8, <1>9, <1>10 DEF Next, Step, Reconnect

-----------------------------------------------------------------------------
(* The queue.                                                              *)

Actual == {"subscribe", "unsubscribe"}

\* The last word in the queue counts.
LEMMA EndsAppend ==
  ASSUME TypeOK, NEW m \in Messages, queue' = Append(queue, m), server' = server,
         NEW c \in Channels, NEW a \in Actual
  PROVE  /\ m = Message(a, c) => Ends(a, c)'
         /\ m.channel # c /\ Ends(a, c) => Ends(a, c)'
<1> DEFINE n == Len(queue)
<1>1. /\ n \in Nat /\ Len(queue') = n + 1 /\ queue'[n + 1] = m
      /\ \A i \in 1..n : queue'[i] = queue[i]
  BY AppendProperties, LenProperties DEF TypeOK
<1> HIDE DEF n
<1>2. m = Message(a, c) => Ends(a, c)'
  BY <1>1 DEF Ends
<1>3. ASSUME m.channel # c, Ends(a, c)  PROVE Ends(a, c)'
  <2>1. CASE \E i \in 1..n : queue[i] = Message(a, c) /\ \A j \in i+1..n : queue[j].channel # c
    <3>1. PICK i \in 1..n : queue[i] = Message(a, c) /\ \A j \in i+1..n : queue[j].channel # c
      BY <2>1
    <3>2. i \in 1..n+1 /\ queue'[i] = Message(a, c)
      BY <1>1, <3>1
    <3>3. \A j \in i+1..n+1 : queue'[j].channel # c
      BY <1>1, <1>3, <3>1
    <3> QED  BY <1>1, <3>2, <3>3 DEF Ends, Message
  <2>2. CASE /\ \A j \in 1..n : queue[j].channel # c
             /\ (a = "subscribe") <=> (c \in server)
    <3>1. \A j \in 1..n+1 : queue'[j].channel # c
      BY <1>1, <1>3, <2>2
    <3> QED  BY <1>1, <2>2, <3>1 DEF Ends
  <2> QED  BY <1>3, <2>1, <2>2 DEF Ends, n
<1> QED  BY <1>2, <1>3

\* The write loop does what the queue says.
LEMMA EndsWrite ==
  ASSUME TypeOK, Connection, WriteLoop, NEW c \in Channels, NEW a \in Actual, Ends(a, c),
         link \/ a = "unsubscribe"
  PROVE  Ends(a, c)'
<1> DEFINE n == Len(queue)
           m == Head(queue)
<1>1. /\ n \in Nat \ {0} /\ m \in Messages /\ m = queue[1]
      /\ Len(queue') = n - 1
      /\ \A i \in 1..n-1 : queue'[i] = queue[i + 1]
  BY Removed DEF WriteLoop
<1>2. server' = IF ~link THEN server
                ELSE IF m.action = "subscribe" THEN server \union {m.channel}
                ELSE server \ {m.channel}
  BY DEF WriteLoop
<1>3. ~link => server = {}
  BY DEF Connection
<1> HIDE DEF n, m
<1>4. CASE \E i \in 1..n : queue[i] = Message(a, c) /\ \A j \in i+1..n : queue[j].channel # c
  <2>1. PICK i \in 1..n : queue[i] = Message(a, c) /\ \A j \in i+1..n : queue[j].channel # c
    BY <1>4
  <2>2. CASE i = 1
    <3>1. \A j \in 1..n-1 : queue'[j].channel # c
      BY <1>1, <2>1, <2>2
    <3>2. m.action = a /\ m.channel = c
      BY <1>1, <2>1, <2>2 DEF Message
    <3>3. (a = "subscribe") <=> (c \in server')
      BY <1>2, <1>3, <3>2 DEF Actual
    <3> QED  BY <1>1, <3>1, <3>3 DEF Ends
  <2>3. CASE i # 1
    <3>1. i - 1 \in 1..n-1 /\ queue'[i - 1] = Message(a, c)
      BY <1>1, <2>1, <2>3
    <3>2. \A j \in (i-1)+1..n-1 : queue'[j].channel # c
      BY <1>1, <2>1, <2>3
    <3> QED  BY <1>1, <3>1, <3>2 DEF Ends, Message
  <2> QED  BY <2>2, <2>3
<1>5. CASE /\ \A j \in 1..n : queue[j].channel # c
           /\ (a = "subscribe") <=> (c \in server)
  <2>1. \A j \in 1..n-1 : queue'[j].channel # c
    BY <1>1, <1>5
  <2>2. m.channel # c
    BY <1>1, <1>5
  <2>3. c \in server' <=> c \in server
    BY <1>2, <2>2
  <2> QED  BY <1>1, <1>5, <2>1, <2>3 DEF Ends
<1> QED  BY <1>4, <1>5 DEF Ends, n

\* Nothing else touches it.
LEMMA EndsSame ==
  ASSUME queue' = queue, server' = server, NEW c, NEW a
  PROVE  Ends(a, c)' <=> Ends(a, c)
  BY DEF Ends, Message

\* What the server has forgotten it need not be told to forget.
LEMMA EndsForgotten ==
  ASSUME server' = {}, NEW c
  PROVE  /\ queue' = queue /\ Ends("unsubscribe", c) => Ends("unsubscribe", c)'
         /\ queue' = <<>> => Ends("unsubscribe", c)'
<1>1. queue' = queue /\ Ends("unsubscribe", c) => Ends("unsubscribe", c)'
  BY DEF Ends, Message
<1>2. ASSUME queue' = <<>>  PROVE Ends("unsubscribe", c)'
  <2>1. Len(queue') = 0
    BY <1>2, EmptySeq
  <2> QED  BY <2>1 DEF Ends
<1> QED  BY <1>1, <1>2

-----------------------------------------------------------------------------
(* Somebody is in charge.                                                  *)

LEMMA OwedNext ==
  ASSUME IInv, Next, NEW c \in Channels, c \in Undisturbed', c \in tracked'
  PROVE  Owed(c)'
<1>a. queue' = queue /\ server' = server => (Ends("subscribe", c)' <=> Ends("subscribe", c))
  BY EndsSame
<1>b. c \in tracked /\ c \notin failed /\ c \notin contended => Owed(c)
  <2>1. Safe
    BY DEF IInv
  <2>2. c \notin failed /\ c \notin contended => c \in Undisturbed
    BY DEF Undisturbed
  <2> QED  BY <2>1, <2>2 DEF Safe
<1>c. c \notin failed' /\ c \notin contended'
  BY DEF Undisturbed
<1>d. /\ pc \in [Callers -> {"idle", "check", "track", "ctx", "write"}] /\ todo \in [Recons -> SUBSET Channels]
      /\ call \in [Callers -> Messages \union {NoCall}] /\ stale \in [Callers -> BOOLEAN]
      /\ recon \in [Recons -> {"none", "wait", "dial", "up", "resubscribe", "subscribing"}]
      /\ Connection
  BY DEF IInv, TypeOK
<1>e. TypeOK /\ \A p \in Callers : pc[p] # "idle" => call[p] \in Messages
  BY DEF IInv, Called
<1>f. Connection /\ Agreed
  BY DEF IInv
<1>1. ASSUME NEW u \in Users, NEW action \in Actions, NEW channel \in Channels, Call(u, action, channel)
      PROVE  Owed(c)'
  BY <1>1, <1>a, <1>b, <1>c, <1>d DEF Owed, Writing, WillSubscribe, Connection, Call, connVars,
     reconVars, ghosts
<1>2. ASSUME NEW p \in Callers, Check(p)
      PROVE  Owed(c)'
  BY <1>2, <1>a, <1>b, <1>c, <1>d DEF Owed, Writing, WillSubscribe, Connection, Check, Return,
     connVars, reconVars
<1>3. ASSUME NEW p \in Callers, Track(p)
      PROVE  Owed(c)'
  <2>1. /\ pc[p] = "track" /\ pc' = [pc EXCEPT ![p] = "ctx"] /\ call' = call
        /\ tracked' = IF call[p].action = "subscribe" THEN tracked \union {call[p].channel}
                      ELSE tracked \ {call[p].channel}
        /\ call[p] \in Messages /\ Wish(p)
        /\ UNCHANGED <<queue, server, link, stale, recon, todo, failed>>
    BY <1>3, <1>e DEF Track, connVars, callVars, reconVars
  <2>2. CASE call[p].channel # c
    <3>1. c \in tracked /\ c \notin contended /\ c \notin failed
      BY <2>1, <2>2, <1>c DEF Wish
    <3>2. Owed(c)
      BY <3>1, <1>b
    <3>3. \A q \in Callers : Writing(q, "subscribe", c) => Writing(q, "subscribe", c)' /\ q # p
      BY <2>1, <1>d DEF Writing, Message
    <3>4. \A r \in Recons : WillSubscribe(r, c) => WillSubscribe(r, c)'
      BY <2>1, <2>2, <1>d DEF WillSubscribe
    <3> QED  BY <2>1, <3>2, <3>3, <3>4, <1>a, <1>d DEF Owed
  <2>3. CASE call[p].channel = c
    <3>1. call[p].action = "subscribe"
      BY <2>1, <2>3
    <3>2. Writing(p, "subscribe", c)'
      BY <2>1, <2>3, <3>1, <1>d DEF Writing, Message, Messages
    <3> QED  BY <2>1, <3>2, <1>d DEF Owed
  <2> QED  BY <2>2, <2>3
<1>4. ASSUME NEW p \in Callers, ReadCtx(p)
      PROVE  Owed(c)'
  BY <1>4, <1>a, <1>b, <1>c, <1>d DEF Owed, Writing, WillSubscribe, Connection, ReadCtx,
     connVars, reconVars, ghosts
<1>5. ASSUME NEW p \in Callers, Send(p)
      PROVE  Owed(c)'
  <2>1. /\ pc[p] = "write" /\ call[p] \in Messages
        /\ pc' = [pc EXCEPT ![p] = "idle"] /\ call' = [call EXCEPT ![p] = NoCall]
        /\ stale' = [stale EXCEPT ![p] = FALSE]
        /\ UNCHANGED <<link, server, recon, todo, tracked, unwanted, contended>>
    BY <1>5, <1>e DEF Send, Return, connVars, reconVars
  <2>2. queue' = Append(queue, call[p]) /\ failed' = failed \ {call[p].channel}
    BY <1>5 DEF Send
  <2>3. CASE call[p].channel = c
    <3>1. call[p] = Message("subscribe", c)
      <4>1. ~Writing(p, "unsubscribe", c)
        BY <2>1, <1>c, <1>f DEF Agreed
      <4> QED  BY <2>1, <2>3, <4>1 DEF Writing, Message, Messages
    <3> QED  BY <2>1, <2>2, <3>1, <1>e, EndsAppend DEF Owed, Actual
  <2>4. CASE call[p].channel # c
    <3>1. Owed(c)
      BY <2>1, <2>2, <2>4, <1>b, <1>c
    <3>2. Ends("subscribe", c) => Ends("subscribe", c)'
      BY <2>1, <2>2, <2>4, <1>e, EndsAppend DEF Actual
    <3>3. call[p] # Message("subscribe", c)
      BY <2>4 DEF Message
    <3>4. \A q \in Callers : Writing(q, "subscribe", c) => Writing(q, "subscribe", c)' /\ q # p
      BY <2>1, <3>3, <1>d DEF Writing, Message
    <3> QED  BY <2>1, <3>1, <3>2, <3>4, <1>d DEF Owed, WillSubscribe
  <2> QED  BY <2>3, <2>4
<1>6. ASSUME NEW p \in Callers, Refuse(p)
      PROVE  Owed(c)'
  BY <1>6, <1>a, <1>b, <1>c, <1>d DEF Owed, Writing, WillSubscribe, Connection, Refuse, Return,
     connVars, reconVars
<1>7. ASSUME NEW p \in Callers, GiveUp(p)
      PROVE  Owed(c)'
  <2>1. /\ pc[p] = "write" /\ call[p] \in Messages
        /\ pc' = [pc EXCEPT ![p] = "idle"] /\ call' = [call EXCEPT ![p] = NoCall]
        /\ stale' = [stale EXCEPT ![p] = FALSE]
        /\ UNCHANGED <<link, server, recon, todo, tracked, unwanted, contended>>
    BY <1>7, <1>e DEF GiveUp, Return, connVars, reconVars
  <2>2. queue' = queue /\ c \notin failed /\ call[p].channel # c
    BY <1>7, <1>c DEF GiveUp
  <2>3. Owed(c)
    BY <2>1, <2>2, <1>b, <1>c
  <2>4. call[p] # Message("subscribe", c)
    BY <2>2 DEF Message
  <2>5. \A q \in Callers : Writing(q, "subscribe", c) => Writing(q, "subscribe", c)' /\ q # p
    BY <2>1, <2>4, <1>d DEF Writing, Message
  <2> QED  BY <2>1, <2>2, <2>3, <2>5, <1>a, <1>d DEF Owed, WillSubscribe
<1>8. ASSUME WriteLoop
      PROVE  Owed(c)'
  <2>1. UNCHANGED <<link, pc, call, stale, recon, todo, tracked, unwanted, contended, failed>>
    BY <1>8 DEF WriteLoop, callVars, reconVars, ghosts
  <2>2. Owed(c)
    BY <2>1, <1>b, <1>c
  <2>3. link /\ Ends("subscribe", c) => Ends("subscribe", c)'
    BY <1>8, <1>e, <1>f, EndsWrite DEF Actual
  <2>4. \A q \in Callers : Writing(q, "subscribe", c) => Writing(q, "subscribe", c)'
    BY <2>1 DEF Writing, Message
  <2> QED  BY <2>1, <2>2, <2>3, <2>4 DEF Owed, WillSubscribe
<1>9. ASSUME Lose
      PROVE  Owed(c)'
  BY <1>9, <1>a, <1>b, <1>c, <1>d DEF Owed, Writing, WillSubscribe, Connection, Lose, callVars,
     reconVars, ghosts
<1>10. ASSUME LoopsReturn
       PROVE  Owed(c)'
  BY <1>10, <1>a, <1>b, <1>c, <1>d DEF Owed, Writing, WillSubscribe, Connection, LoopsReturn,
     callVars, reconVars, ghosts
<1>11. ASSUME NEW r \in Recons, Trigger(r)
       PROVE  Owed(c)'
  BY <1>11, <1>a, <1>b, <1>c, <1>d DEF Owed, Writing, WillSubscribe, Connection, Trigger, ghosts
<1>12. ASSUME NEW r \in Recons, Drain(r)
       PROVE  Owed(c)'
  BY <1>12, <1>a, <1>b, <1>c, <1>d DEF Owed, Writing, WillSubscribe, Connection, Drain,
     connVars, callVars, ghosts
<1>13. ASSUME NEW r \in Recons, Dial(r)
       PROVE  Owed(c)'
  BY <1>13, <1>a, <1>b, <1>c, <1>d DEF Owed, Writing, WillSubscribe, Connection, Dial,
     callVars, ghosts
<1>14. ASSUME NEW r \in Recons, Restart(r)
       PROVE  Owed(c)'
  BY <1>14, <1>a, <1>b, <1>c, <1>d DEF Owed, Writing, WillSubscribe, Connection, Restart,
     callVars, ghosts
<1>15. ASSUME NEW r \in Recons, Resubscribe(r)
       PROVE  Owed(c)'
  BY <1>15, <1>a, <1>b, <1>c, <1>d DEF Owed, Writing, WillSubscribe, Connection, Resubscribe,
     connVars, callVars, ghosts
<1>16. ASSUME NEW r \in Recons, NEW channel \in Channels, ResubscribeNext(r, channel)
       PROVE  Owed(c)'
  BY <1>16, <1>a, <1>b, <1>c, <1>d DEF Owed, Writing, WillSubscribe, Connection,
     ResubscribeNext, connVars, ghosts
<1>17. ASSUME NEW r \in Recons, ResubscribeDone(r)
       PROVE  Owed(c)'
  BY <1>17, <1>a, <1>b, <1>c, <1>d DEF Owed, Writing, WillSubscribe, Connection,
     ResubscribeDone, connVars, callVars, ghosts
<1>18. ASSUME UNCHANGED vars
       PROVE  Owed(c)'
  BY <1>18, <1>a, <1>b, <1>c, <1>d DEF Owed, Writing, WillSubscribe, Connection, vars,
     connVars, callVars, reconVars, ghosts
<1> QED
  BY <1>1, <1>2, <1>3, <1>4, <1>5, <1>6, <1>7, <1>8, <1>9, <1>10, <1>11, <1>12, <1>13, <1>14,
     <1>15, <1>16, <1>17, <1>18 DEF Next, Step, Reconnect

LEMMA WithdrawnNext ==
  ASSUME IInv, Next, NEW c \in Channels, c \in Undisturbed', c \in unwanted'
  PROVE  Withdrawn(c)'
<1>a. queue' = queue /\ server' = server => (Ends("unsubscribe", c)' <=> Ends("unsubscribe", c))
  BY EndsSame
<1>b. c \in unwanted /\ c \notin failed /\ c \notin contended => Withdrawn(c)
  <2>1. Safe
    BY DEF IInv
  <2>2. c \notin failed /\ c \notin contended => c \in Undisturbed
    BY DEF Undisturbed
  <2> QED  BY <2>1, <2>2 DEF Safe
<1>c. c \notin failed' /\ c \notin contended'
  BY DEF Undisturbed
<1>d. /\ pc \in [Callers -> {"idle", "check", "track", "ctx", "write"}]
      /\ call \in [Callers -> Messages \union {NoCall}]
  BY DEF IInv, TypeOK
<1>e. TypeOK /\ \A p \in Callers : pc[p] # "idle" => call[p] \in Messages
  BY DEF IInv, Called
<1>f. Connection /\ Agreed
  BY DEF IInv
<1>1. ASSUME NEW u \in Users, NEW action \in Actions, NEW channel \in Channels, Call(u, action, channel)
      PROVE  Withdrawn(c)'
  BY <1>1, <1>a, <1>b, <1>c, <1>d DEF Withdrawn, Writing, Call, connVars, reconVars, ghosts
<1>2. ASSUME NEW p \in Callers, Check(p)
      PROVE  Withdrawn(c)'
  BY <1>2, <1>a, <1>b, <1>c, <1>d DEF Withdrawn, Writing, Check, Return, connVars, reconVars
<1>3. ASSUME NEW p \in Callers, Track(p)
      PROVE  Withdrawn(c)'
  <2>1. /\ pc[p] = "track" /\ pc' = [pc EXCEPT ![p] = "ctx"] /\ call' = call
        /\ tracked' = IF call[p].action = "subscribe" THEN tracked \union {call[p].channel}
                      ELSE tracked \ {call[p].channel}
        /\ call[p] \in Messages /\ Wish(p)
        /\ UNCHANGED <<queue, server, link, stale, recon, todo, failed>>
    BY <1>3, <1>e DEF Track, connVars, callVars, reconVars
  <2>2. CASE call[p].channel # c
    <3>1. c \in unwanted /\ c \notin contended /\ c \notin failed
      BY <2>1, <2>2, <1>c DEF Wish
    <3>2. Withdrawn(c)
      BY <3>1, <1>b
    <3>3. \A q \in Callers : Writing(q, "unsubscribe", c) => Writing(q, "unsubscribe", c)' /\ q # p
      BY <2>1, <1>d DEF Writing, Message
    <3> QED  BY <2>1, <3>2, <3>3, <1>a, <1>d DEF Withdrawn
  <2>3. CASE call[p].channel = c
    <3>1. call[p].action = "unsubscribe"
      <4>1. CASE p \in Users
        BY <2>1, <2>3, <4>1 DEF Wish, Messages
      <4>2. CASE p \notin Users
        <5>1. p \in Recons /\ WillSubscribe(p, c)
          BY <2>1, <2>3, <4>2 DEF WillSubscribe
        <5>2. c \in unwanted /\ c \notin contended
          BY <2>1, <2>3, <4>2, <1>c DEF Wish
        <5> QED  BY <5>1, <5>2, <1>f DEF Agreed
      <4> QED  BY <4>1, <4>2
    <3>2. Writing(p, "unsubscribe", c)'
      BY <2>1, <2>3, <3>1, <1>d DEF Writing, Message, Messages
    <3> QED  BY <2>1, <3>2, <1>d DEF Withdrawn
  <2> QED  BY <2>2, <2>3
<1>4. ASSUME NEW p \in Callers, ReadCtx(p)
      PROVE  Withdrawn(c)'
  BY <1>4, <1>a, <1>b, <1>c, <1>d DEF Withdrawn, Writing, ReadCtx, connVars, reconVars, ghosts
<1>5. ASSUME NEW p \in Callers, Send(p)
      PROVE  Withdrawn(c)'
  <2>1. /\ pc[p] = "write" /\ call[p] \in Messages
        /\ pc' = [pc EXCEPT ![p] = "idle"] /\ call' = [call EXCEPT ![p] = NoCall]
        /\ stale' = [stale EXCEPT ![p] = FALSE]
        /\ UNCHANGED <<link, server, recon, todo, tracked, unwanted, contended>>
    BY <1>5, <1>e DEF Send, Return, connVars, reconVars
  <2>2. queue' = Append(queue, call[p]) /\ failed' = failed \ {call[p].channel}
    BY <1>5 DEF Send
  <2>3. CASE call[p].channel = c
    <3>1. call[p] = Message("unsubscribe", c)
      <4>1. ~Writing(p, "subscribe", c)
        BY <2>1, <1>c, <1>f DEF Agreed
      <4> QED  BY <2>1, <2>3, <4>1 DEF Writing, Message, Messages
    <3> QED  BY <2>1, <2>2, <3>1, <1>e, EndsAppend DEF Withdrawn, Actual
  <2>4. CASE call[p].channel # c
    <3>1. Withdrawn(c)
      BY <2>1, <2>2, <2>4, <1>b, <1>c
    <3>2. Ends("unsubscribe", c) => Ends("unsubscribe", c)'
      BY <2>1, <2>2, <2>4, <1>e, EndsAppend DEF Actual
    <3>3. call[p] # Message("unsubscribe", c)
      BY <2>4 DEF Message
    <3>4. \A q \in Callers : Writing(q, "unsubscribe", c) => Writing(q, "unsubscribe", c)' /\ q # p
      BY <2>1, <3>3, <1>d DEF Writing, Message
    <3> QED  BY <2>1, <3>1, <3>2, <3>4, <1>d DEF Withdrawn
  <2> QED  BY <2>3, <2>4
<1>6. ASSUME NEW p \in Callers, Refuse(p)
      PROVE  Withdrawn(c)'
  <2>1. /\ pc[p] = "write" /\ call[p] \in Messages
        /\ pc' = [pc EXCEPT ![p] = "idle"] /\ call' = [call EXCEPT ![p] = NoCall]
        /\ stale' = [stale EXCEPT ![p] = FALSE]
        /\ UNCHANGED <<link, server, recon, todo, tracked, unwanted, contended>>
    BY <1>6, <1>e DEF Refuse, Return, connVars, reconVars
  <2>2. queue' = queue /\ c \notin failed /\ call[p] # Message("unsubscribe", c)
    BY <1>6, <1>c DEF Refuse, Message
  <2>3. Withdrawn(c)
    BY <2>1, <2>2, <1>b, <1>c
  <2>5. \A q \in Callers : Writing(q, "unsubscribe", c) => Writing(q, "unsubscribe", c)' /\ q # p
    BY <2>1, <2>2, <1>d DEF Writing, Message
  <2> QED  BY <2>1, <2>2, <2>3, <2>5, <1>a DEF Withdrawn
<1>7. ASSUME NEW p \in Callers, GiveUp(p)
      PROVE  Withdrawn(c)'
  <2>1. /\ pc[p] = "write" /\ call[p] \in Messages
        /\ pc' = [pc EXCEPT ![p] = "idle"] /\ call' = [call EXCEPT ![p] = NoCall]
        /\ stale' = [stale EXCEPT ![p] = FALSE]
        /\ UNCHANGED <<link, server, recon, todo, tracked, unwanted, contended>>
    BY <1>7, <1>e DEF GiveUp, Return, connVars, reconVars
  <2>2. queue' = queue /\ c \notin failed /\ call[p].channel # c
    BY <1>7, <1>c DEF GiveUp
  <2>3. Withdrawn(c)
    BY <2>1, <2>2, <1>b, <1>c
  <2>4. call[p] # Message("unsubscribe", c)
    BY <2>2 DEF Message
  <2>5. \A q \in Callers : Writing(q, "unsubscribe", c) => Writing(q, "unsubscribe", c)' /\ q # p
    BY <2>1, <2>4, <1>d DEF Writing, Message
  <2> QED  BY <2>1, <2>2, <2>3, <2>5, <1>a, <1>d DEF Withdrawn
<1>8. ASSUME WriteLoop
      PROVE  Withdrawn(c)'
  <2>1. UNCHANGED <<link, pc, call, stale, recon, todo, tracked, unwanted, contended, failed>>
    BY <1>8 DEF WriteLoop, callVars, reconVars, ghosts
  <2>2. Withdrawn(c)
    BY <2>1, <1>b, <1>c
  <2>3. Ends("unsubscribe", c) => Ends("unsubscribe", c)'
    BY <1>8, <1>e, <1>f, EndsWrite DEF Actual
  <2>4. \A q \in Callers : Writing(q, "unsubscribe", c) => Writing(q, "unsubscribe", c)'
    BY <2>1 DEF Writing, Message
  <2> QED  BY <2>1, <2>2, <2>3, <2>4 DEF Withdrawn
<1>9. ASSUME Lose
      PROVE  Withdrawn(c)'
  <2>1. /\ server' = {} /\ queue' = queue
        /\ UNCHANGED <<pc, call, unwanted, contended, failed>>
    BY <1>9 DEF Lose, callVars, ghosts
  <2>2. \A q \in Callers : Writing(q, "unsubscribe", c) => Writing(q, "unsubscribe", c)'
    BY <2>1 DEF Writing, Message
  <2> QED  BY <2>1, <2>2, <1>b, <1>c, EndsForgotten DEF Withdrawn
<1>10. ASSUME NEW r \in Recons, Drain(r)
       PROVE  Withdrawn(c)'
  <2>1. server' = {} /\ queue' = <<>>
    BY <1>10, <1>f DEF Drain, Connection, connVars
  <2> QED  BY <2>1, EndsForgotten DEF Withdrawn
<1>11. ASSUME NEW r \in Recons, Dial(r)
       PROVE  Withdrawn(c)'
  <2>1. /\ server' = {} /\ queue' = queue
        /\ UNCHANGED <<pc, call, unwanted, contended, failed>>
    BY <1>11 DEF Dial, callVars, ghosts
  <2>2. \A q \in Callers : Writing(q, "unsubscribe", c) => Writing(q, "unsubscribe", c)'
    BY <2>1 DEF Writing, Message
  <2> QED  BY <2>1, <2>2, <1>b, <1>c, EndsForgotten DEF Withdrawn
<1>12. ASSUME NEW r \in Recons, NEW channel \in Channels, ResubscribeNext(r, channel)
       PROVE  Withdrawn(c)'
  BY <1>12, <1>a, <1>b, <1>c, <1>d DEF Withdrawn, Writing, ResubscribeNext, connVars, ghosts
<1>13. ASSUME \/ LoopsReturn
              \/ \E r \in Recons : Trigger(r)
              \/ \E r \in Recons : Restart(r)
              \/ \E r \in Recons : Resubscribe(r)
              \/ \E r \in Recons : ResubscribeDone(r)
              \/ UNCHANGED vars
       PROVE  Withdrawn(c)'
  <2>1. UNCHANGED <<queue, server, pc, call, unwanted, contended, failed>>
    BY <1>13 DEF LoopsReturn, callVars, reconVars, ghosts, Trigger, Restart, Resubscribe,
       connVars, ResubscribeDone, vars
  <2> QED  BY <2>1, <1>a, <1>b, <1>c DEF Withdrawn, Writing
<1> QED
  BY <1>1, <1>2, <1>3, <1>4, <1>5, <1>6, <1>7, <1>8, <1>9, <1>10, <1>11, <1>12, <1>13 DEF Next,
     Step, Reconnect

-----------------------------------------------------------------------------
(* The theorems.                                                           *)

LEMMA InitInv == Init => IInv
<1> SUFFICES ASSUME Init  PROVE IInv
  OBVIOUS
<1>1. TypeOK
  BY TypeInit
<1>2. Called /\ Connection /\ Agreed
  BY DEF Init, Called, Connection, Agreed, Writing, WillSubscribe
<1>3. Safe
  BY DEF Init, Safe
<1> QED  BY <1>1, <1>2, <1>3 DEF IInv

\* Whatever calls, losses and reconnections do, the channels that the map tracks are
\* owed to the server and those unsubscribed are withdrawn.
THEOREM Invariance == Spec => []IInv
<1>1. IInv /\ [Next]_vars => IInv'
  <2> SUFFICES ASSUME IInv, [Next]_vars  PROVE IInv'
    OBVIOUS
  <2>1. CASE Next
    <3>1. TypeOK' /\ Called' /\ Connection' /\ Agreed'
      BY <2>1, TypeNext, CalledNext, ConnectionNext, AgreedNext DEF IInv
    <3>2. ASSUME NEW c \in Channels, c \in Undisturbed'
          PROVE  (c \in tracked' => Owed(c)') /\ (c \in unwanted' => Withdrawn(c)')
      <4>1. ASSUME c \in tracked'  PROVE Owed(c)'
        BY <2>1, <3>2, <4>1, OwedNext
      <4>2. ASSUME c \in unwanted'  PROVE Withdrawn(c)'
        BY <2>1, <3>2, <4>2, WithdrawnNext
      <4> QED  BY <4>1, <4>2
    <3>3. Safe'
      BY <3>2 DEF Safe, Undisturbed
    <3> QED  BY <3>1, <3>3 DEF IInv
  <2>2. CASE UNCHANGED vars
    BY <2>2 DEF vars, connVars, callVars, reconVars, ghosts, IInv, TypeOK, Called, Connection, Agreed,
                Safe, Owed, Withdrawn, Undisturbed, Writing, WillSubscribe, Ends
  <2> QED  BY <2>1, <2>2
<1> QED  BY <1>1, InitInv, PTL DEF Spec

\* The variables of the client keep their types; writeChan keeps its bound.
THEOREM TypeCorrect == Spec => []TypeOK
<1>1. IInv => TypeOK
  BY DEF IInv
<1> QED  BY Invariance, <1>1, PTL

\* What is tracked is subscribed at the server when everything has settled.
THEOREM TrackedIsServed == Spec => []Served
<1>1. IInv => Served
  <2> SUFFICES ASSUME IInv, Settled, NEW c \in tracked \intersect Undisturbed
               PROVE  c \in server
    BY DEF Served
  <2>1. Owed(c) /\ c \in Channels
    BY DEF IInv, Safe, Undisturbed
  <2>2. Ends("subscribe", c)
    BY <2>1 DEF Settled, Owed, Writing, WillSubscribe, IInv, Called
  <2>3. Len(queue) = 0
    BY EmptySeq DEF Settled
  <2> QED  BY <2>2, <2>3 DEF Ends
<1> QED  BY Invariance, <1>1, PTL

\* What a user unsubscribed stays unsubscribed.
THEOREM UnsubscriptionSticks == Spec => []UnsubscribeSticks
<1>1. IInv => UnsubscribeSticks
  <2> SUFFICES ASSUME IInv, Settled, NEW c \in unwanted \intersect Undisturbed
               PROVE  c \notin tracked /\ c \notin server
    BY DEF UnsubscribeSticks
  <2>1. Withdrawn(c) /\ c \in Channels \ contended
    BY DEF IInv, Safe, Undisturbed
  <2>2. c \notin tracked
    BY <2>1 DEF IInv, Agreed
  <2>3. Ends("unsubscribe", c)
    BY <2>1 DEF Settled, Withdrawn, Writing
  <2>4. Len(queue) = 0
    BY EmptySeq DEF Settled
  <2> QED  BY <2>2, <2>3, <2>4 DEF Ends
<1> QED  BY Invariance, <1>1, PTL
=============================================================================
