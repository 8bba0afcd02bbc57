------------------------------ MODULE Sync_proof ------------------------------
(***************************************************************************)
(* Sync for any levels, sizes, refreshes and events.                        *)
(*                                                                         *)
(* StreamKeepsStep needs to know that what a fetcher may apply is a book     *)
(* (Fetched: were it Unset, a fetch for one token could stop the stream of   *)
(* the other), and that a connection that is lost serves nothing (Linked:    *)
(* else a reconnection could throw away diffs of a market that is served).   *)
(***************************************************************************)
EXTENDS Sync, SequenceTheorems, TLAPS

Fetched ==
    \A f \in Fetchers, t \in Tokens :
        stage[f][t] \in {"answered", "correct"} => answer[f][t] \in Books

Linked == served => link

IInv == TypeOK /\ Fetched /\ Linked

-----------------------------------------------------------------------------
(* The stages of the fetchers.                                             *)

Stages == {"idle", "queued", "asked", "answered", "correct"}

\* A fetcher but the subscriber has one token at most under way.
OneByOne == \A f \in Fetchers \ {"subscriber"} : \E t \in Tokens : stage[f][t] \in {"idle", "queued"}

StageOK == stage \in [Fetchers -> [Tokens -> Stages]] /\ OneByOne

\* Going on to the other token is a stage of both, with one of them at rest; a
\* token whose answer is there is not disturbed.
LEMMA OnwardStage ==
  ASSUME StageOK, NEW f \in Fetchers, NEW t \in Tokens
  PROVE  /\ Onward(f, t) \in [Tokens -> Stages]
         /\ Onward(f, t)[t] = "idle"
         /\ \A u \in Tokens : Onward(f, t)[u] \in {"answered", "correct"} => u # t /\ Onward(f, t)[u] = stage[f][u]
  BY DEF StageOK, Onward, Stages

\* A fetcher may move as long as one of its tokens stays at rest.
LEMMA StageStep ==
  ASSUME StageOK, NEW f \in Fetchers, NEW s \in [Tokens -> Stages],
         f # "subscriber" => \E t \in Tokens : s[t] \in {"idle", "queued"},
         stage' = [stage EXCEPT ![f] = s]
  PROVE  StageOK'
  BY DEF StageOK, OneByOne

\* So it may where it was not at rest.
LEMMA StageMove ==
  ASSUME StageOK, NEW f \in Fetchers, NEW t \in Tokens, NEW s \in Stages,
         f # "subscriber" => stage[f][t] \notin {"idle", "queued"},
         stage' = [stage EXCEPT ![f][t] = s]
  PROVE  StageOK'
  BY DEF StageOK, OneByOne

LEMMA StageInTurn ==
  ASSUME StageOK, NEW f \in Fetchers, InTurn(f)
  PROVE  /\ StageOK'
         /\ \A g \in Fetchers, t \in Tokens : stage'[g][t] \in {"answered", "correct"} => stage'[g][t] = stage[g][t]
<1> DEFINE s == [t \in Tokens |-> IF t = "YES" THEN "asked" ELSE "queued"]
<1>1. s \in [Tokens -> Stages] /\ s["NO"] = "queued" /\ stage' = [stage EXCEPT ![f] = s] /\ "NO" \in Tokens
  BY DEF InTurn, Tokens, Stages
<1>2. \A t \in Tokens : s[t] \notin {"answered", "correct"}
  OBVIOUS
<1> HIDE DEF s
<1>3. StageOK'
  BY <1>1, StageStep
<1> QED
  BY <1>1, <1>2, <1>3 DEF StageOK

LEMMA StageAtOnce ==
  ASSUME StageOK, AtOnce("subscriber")
  PROVE  /\ StageOK'
         /\ \A g \in Fetchers, t \in Tokens : stage'[g][t] \in {"answered", "correct"} => stage'[g][t] = stage[g][t]
<1> DEFINE s == [t \in Tokens |-> "asked"]
<1>1. s \in [Tokens -> Stages] /\ stage' = [stage EXCEPT !["subscriber"] = s] /\ "subscriber" \in Fetchers
  BY DEF AtOnce, Tokens, Stages, Fetchers
<1>2. \A t \in Tokens : s[t] \notin {"answered", "correct"}
  OBVIOUS
<1> HIDE DEF s
<1>3. StageOK'
  BY <1>1, StageStep
<1> QED
  BY <1>1, <1>2, <1>3 DEF StageOK

LEMMA TypeParts ==
  TypeOK <=> /\ truth \in Books
             /\ {served, link, connected, registered, tracked} \subseteq BOOLEAN
             /\ wire \in Seq(Diffs)
             /\ hand \in Diffs \union {Unset}
             /\ books \in [Tokens -> Books \union {Unset}]
             /\ StageOK
             /\ answer \in [Fetchers -> [Tokens -> Books \union {Unset}]]
             /\ events \in 0..MaxEvents
  BY DEF TypeOK, StageOK, OneByOne, Stages

LEMMA TypeNext ==
  ASSUME truth' \in Books,
         {served', link', connected', registered', tracked'} \subseteq BOOLEAN,
         wire' \in Seq(Diffs),
         hand' \in Diffs \union {Unset},
         books' \in [Tokens -> Books \union {Unset}],
         StageOK',
         answer' \in [Fetchers -> [Tokens -> Books \union {Unset}]],
         events' \in 0..MaxEvents
  PROVE  TypeOK'
  BY DEF TypeOK, StageOK, OneByOne, Stages

-----------------------------------------------------------------------------
(* The invariant.                                                          *)

LEMMA InitIInv == Init => IInv
<1> SUFFICES ASSUME Init PROVE IInv
  OBVIOUS
<1>1. Books # {}
  <2>1. PICK z \in Sizes : TRUE
    BY SyncAssumption
  <2>2. [l \in Levels |-> z] \in Books
    BY DEF Books
  <2> QED  BY <2>2
<1>2. truth \in Books
  BY <1>1 DEF Init
<1>3. StageOK
  BY DEF Init, StageOK, OneByOne, Stages, Tokens
<1>4. wire \in Seq(Diffs)
  BY DEF Init
<1>5. /\ {served, link, connected, registered, tracked} \subseteq BOOLEAN
      /\ books \in [Tokens -> Books \union {Unset}]
      /\ answer \in [Fetchers -> [Tokens -> Books \union {Unset}]]
      /\ events \in 0..MaxEvents
  <2>1. {served, link, connected, registered, tracked} \subseteq BOOLEAN
    BY DEF Init
  <2>2. books \in [Tokens -> Books \union {Unset}]
    BY DEF Init
  <2>3. answer \in [Fetchers -> [Tokens -> Books \union {Unset}]]
    BY DEF Init
  <2>4. events \in 0..MaxEvents
    BY SyncAssumption DEF Init
  <2> QED  BY <2>1, <2>2, <2>3, <2>4
<1>6. TypeOK
  BY <1>2, <1>3, <1>4, <1>5, TypeParts DEF Init
<1> QED
  BY <1>6 DEF Init, IInv, Fetched, Linked

\* What the fetchers were answered stays a book where a fetcher still holds it.
LEMMA FetchedStays ==
  ASSUME Fetched, UNCHANGED answer,
         \A g \in Fetchers, t \in Tokens :
             stage'[g][t] \in {"answered", "correct"} => stage'[g][t] = stage[g][t]
  PROVE  Fetched'
  BY DEF Fetched

LEMMA UpdatedIsBook ==
  ASSUME NEW b \in Books, NEW d \in Diffs
  PROVE  Updated(b, d) \in Books
  BY DEF Books, Diffs, Updated

\* The end of a fetch.
LEMMA DoneStep ==
  ASSUME IInv, NEW f \in Fetchers, NEW t \in Tokens, Done(f, t)
  PROVE  /\ StageOK' /\ Fetched'
         /\ answer' \in [Fetchers -> [Tokens -> Books \union {Unset}]]
<1> DEFINE s == Onward(f, t)
<1>1. /\ StageOK
      /\ answer \in [Fetchers -> [Tokens -> Books \union {Unset}]]
  BY TypeParts DEF IInv
<1>2. s \in [Tokens -> Stages] /\ s[t] = "idle"
  BY <1>1, OnwardStage
<1>3. \A u \in Tokens : s[u] \in {"answered", "correct"} => u # t /\ s[u] = stage[f][u]
  BY <1>1, OnwardStage
<1>4. /\ stage' = [stage EXCEPT ![f] = s]
      /\ answer' = [answer EXCEPT ![f][t] = Unset]
  BY DEF Done
<1> HIDE DEF s
<1>5. StageOK'
  BY <1>1, <1>2, <1>4, StageStep
<1>6. answer' \in [Fetchers -> [Tokens -> Books \union {Unset}]]
  BY <1>1, <1>4
<1>7. ASSUME NEW g \in Fetchers, NEW u \in Tokens, stage'[g][u] \in {"answered", "correct"}
      PROVE  answer'[g][u] \in Books
  <2>1. stage'[g][u] = stage[g][u] /\ ~(g = f /\ u = t)
    BY <1>1, <1>2, <1>3, <1>4, <1>7 DEF StageOK
  <2>2. answer'[g][u] = answer[g][u]
    BY <1>1, <1>4, <2>1
  <2> QED
    BY <1>7, <2>1, <2>2 DEF IInv, Fetched
<1> QED
  BY <1>5, <1>6, <1>7 DEF Fetched

LEMMA IInvStep == IInv /\ [Next]_vars => IInv'
<1> SUFFICES ASSUME IInv, [Next]_vars PROVE IInv'
  OBVIOUS
<1> USE DEF IInv
<1>0. /\ truth \in Books
      /\ {served, link, connected, registered, tracked} \subseteq BOOLEAN
      /\ wire \in Seq(Diffs)
      /\ hand \in Diffs \union {Unset}
      /\ books \in [Tokens -> Books \union {Unset}]
      /\ StageOK
      /\ answer \in [Fetchers -> [Tokens -> Books \union {Unset}]]
      /\ events \in 0..MaxEvents
  BY TypeParts
<1>ev. Event => events' \in 0..MaxEvents
  BY <1>0, SyncAssumption DEF Event
<1>fs. fetchVars' = fetchVars => Fetched'
  BY DEF fetchVars, Fetched
<1>so. stage' = stage => StageOK'
  BY <1>0 DEF StageOK, OneByOne
<1>1. ASSUME NEW d \in Diffs, Change(d) PROVE IInv'
  <2>1. truth' \in Books /\ wire' \in Seq(Diffs)
    BY <1>0, <1>1, UpdatedIsBook DEF Change
  <2> QED
    BY <1>0, <1>1, <1>ev, <1>fs, <1>so, <2>1, TypeNext DEF Change, marketVars, fetchVars, Linked
<1>2. CASE Serve
  BY <1>0, <1>2, <1>fs, <1>so, TypeNext DEF Serve, marketVars, fetchVars, Linked
<1>3. CASE Lose
  BY <1>0, <1>3, <1>ev, <1>fs, <1>so, TypeNext DEF Lose, marketVars, fetchVars, Linked
<1>4. CASE Reconnecting
  <2>1. wire' \in Seq(Diffs) /\ books' \in [Tokens -> Books \union {Unset}]
    BY <1>4 DEF Reconnecting
  <2> QED
    BY <1>0, <1>4, <2>1, <1>fs, <1>so, TypeNext DEF Reconnecting, marketVars, fetchVars, Linked
<1>5. CASE Reconnected
  <2>1. StageOK' /\ \A g \in Fetchers, t \in Tokens :
            stage'[g][t] \in {"answered", "correct"} => stage'[g][t] = stage[g][t]
    <3>1. CASE registered
      BY <1>0, <1>5, <3>1, StageInTurn DEF Reconnected, Fetchers
    <3>2. CASE ~registered
      BY <1>0, <1>5, <3>2, <1>so DEF Reconnected
    <3> QED  BY <3>1, <3>2
  <2>2. Fetched'
    BY <1>5, <2>1, FetchedStays DEF Reconnected
  <2> QED
    BY <1>0, <1>5, <2>1, <2>2, TypeNext DEF Reconnected, marketVars, Linked
<1>6. CASE Read
  <2>1. wire' \in Seq(Diffs) /\ hand' \in Diffs
    BY <1>0, <1>6, HeadTailProperties DEF Read
  <2> QED
    BY <1>0, <1>6, <2>1, <1>fs, <1>so, TypeNext DEF Read, marketVars, fetchVars, Linked
<1>7. CASE Handle
  <2>1. hand \in Diffs
    BY <1>0, <1>7 DEF Handle, Handled
  <2>2. books' \in [Tokens -> Books \union {Unset}]
    BY <1>0, <1>7, <2>1, UpdatedIsBook DEF Handle, Handled
  <2> QED
    BY <1>0, <1>7, <2>2, <1>fs, <1>so, TypeNext DEF Handle, Handled, marketVars, fetchVars, Linked
<1>8. ASSUME NEW f \in Fetchers, NEW t \in Tokens, Answer(f, t) PROVE IInv'
  <2>1. StageOK'
    BY <1>0, <1>8, StageMove, "answered" \in Stages DEF Answer, Stages
  <2>2. answer' \in [Fetchers -> [Tokens -> Books \union {Unset}]]
    BY <1>0, <1>8 DEF Answer
  <2>3. Fetched'
    BY <1>0, <1>8 DEF Answer, Fetched, StageOK
  <2> QED
    BY <1>0, <1>8, <2>1, <2>2, <2>3, TypeNext DEF Answer, netVars, marketVars, Linked
<1>9. ASSUME NEW f \in Fetchers, NEW t \in Tokens, Fail(f, t) PROVE IInv'
  <2> DEFINE s == Onward(f, t)
  <2>1. s \in [Tokens -> Stages] /\ s[t] = "idle"
    BY <1>0, OnwardStage
  <2>2. \A u \in Tokens : s[u] \in {"answered", "correct"} => s[u] = stage[f][u]
    BY <1>0, OnwardStage
  <2>3. stage' = [stage EXCEPT ![f] = s]
    BY <1>9 DEF Fail
  <2> HIDE DEF s
  <2>4. StageOK'
    BY <1>0, <2>1, <2>3, StageStep
  <2>5. \A g \in Fetchers, u \in Tokens :
            stage'[g][u] \in {"answered", "correct"} => stage'[g][u] = stage[g][u]
    BY <1>0, <2>1, <2>2, <2>3 DEF StageOK
  <2>6. Fetched'
    BY <1>9, <2>5, FetchedStays DEF Fail
  <2> QED
    BY <1>0, <1>9, <1>ev, <2>4, <2>6, TypeNext DEF Fail, netVars, marketVars, Linked
<1>10. ASSUME NEW f \in Fetchers, GiveUp(f) PROVE IInv'
  <2> DEFINE s == [t \in Tokens |-> "idle"]
  <2>1. s \in [Tokens -> Stages] /\ s["YES"] = "idle" /\ "YES" \in Tokens
    BY DEF Stages, Tokens
  <2>2. \A u \in Tokens : s[u] \notin {"answered", "correct"}
    OBVIOUS
  <2>3. stage' = [stage EXCEPT ![f] = s]
    BY <1>10 DEF GiveUp
  <2> HIDE DEF s
  <2>4. StageOK'
    BY <1>0, <2>1, <2>3, StageStep
  <2>5. \A g \in Fetchers, u \in Tokens :
            stage'[g][u] \in {"answered", "correct"} => stage'[g][u] = stage[g][u]
    BY <1>0, <2>1, <2>2, <2>3 DEF StageOK
  <2>6. Fetched'
    BY <1>10, <2>5, FetchedStays DEF GiveUp
  <2> QED
    BY <1>0, <1>10, <1>ev, <2>4, <2>6, TypeNext DEF GiveUp, netVars, marketVars, Linked
<1>11. CASE SubscribeMarketWithSnapshot
  <2>1. StageOK' /\ \A g \in Fetchers, t \in Tokens :
            stage'[g][t] \in {"answered", "correct"} => stage'[g][t] = stage[g][t]
    <3>1. CASE AtOnce("subscriber")
      BY <1>0, <3>1, StageAtOnce
    <3>2. CASE UNCHANGED stage
      BY <1>0, <3>2, <1>so
    <3> QED  BY <1>11, <3>1, <3>2 DEF SubscribeMarketWithSnapshot
  <2>2. Fetched'
    BY <1>11, <2>1, FetchedStays DEF SubscribeMarketWithSnapshot
  <2> QED
    BY <1>0, <1>11, <2>1, <2>2, TypeNext DEF SubscribeMarketWithSnapshot, netVars, Linked
<1>12. CASE Unsubscribe
  BY <1>0, <1>12, <1>ev, <1>fs, <1>so, TypeNext DEF Unsubscribe, netVars, fetchVars, Linked
<1>13. ASSUME NEW t \in Tokens, ClearOrderBook(t) PROVE IInv'
  <2>1. books' \in [Tokens -> Books \union {Unset}]
    BY <1>0, <1>13 DEF ClearOrderBook
  <2> QED
    BY <1>0, <1>13, <1>ev, <1>fs, <1>so, <2>1, TypeNext DEF ClearOrderBook, netVars, marketVars, fetchVars, Linked
<1>14. CASE Validate
  <2>1. "validator" \in Fetchers /\ InTurn("validator")
    BY <1>14 DEF Validate, Fetchers
  <2>2. StageOK' /\ \A g \in Fetchers, t \in Tokens :
            stage'[g][t] \in {"answered", "correct"} => stage'[g][t] = stage[g][t]
    BY <1>0, <2>1, StageInTurn
  <2>3. Fetched'
    BY <1>14, <2>2, FetchedStays DEF Validate
  <2> QED
    BY <1>0, <1>14, <2>2, <2>3, TypeNext DEF Validate, netVars, marketVars, Linked
<1>15. ASSUME NEW f \in Fetchers, NEW t \in Tokens,
              books' = [books EXCEPT ![t] = answer[f][t]], Done(f, t)
       PROVE  IInv'
  <2>1. books' \in [Tokens -> Books \union {Unset}]
    BY <1>0, <1>15
  <2>2. /\ StageOK' /\ Fetched'
        /\ answer' \in [Fetchers -> [Tokens -> Books \union {Unset}]]
    BY <1>15, DoneStep
  <2> QED
    BY <1>0, <1>15, <2>1, <2>2, TypeNext DEF Done, netVars, marketVars, Linked
<1>16. ASSUME NEW f \in Fetchers, NEW t \in Tokens, Apply(f, t) PROVE IInv'
  BY <1>15, <1>16 DEF Apply
<1>17. ASSUME NEW t \in Tokens, Compare(t) PROVE IInv'
  <2>0. "validator" \in Fetchers
    BY DEF Fetchers
  <2>1. CASE books[t] \in {Unset, answer["validator"][t]}
    BY <1>15, <1>17, <2>0, <2>1 DEF Compare
  <2>2. CASE books[t] \notin {Unset, answer["validator"][t]}
    <3>1. /\ stage["validator"][t] = "answered"
          /\ stage' = [stage EXCEPT !["validator"][t] = "correct"]
          /\ UNCHANGED <<truth, netVars, books, marketVars, answer, events>>
      BY <1>17, <2>2 DEF Compare
    <3>2. StageOK'
      BY <1>0, <2>0, <3>1, StageMove, "correct" \in Stages DEF Stages
    <3>3. Fetched'
      BY <1>0, <2>0, <3>1 DEF Fetched, StageOK
    <3> QED
      BY <1>0, <3>1, <3>2, <3>3, TypeNext DEF netVars, marketVars, Linked
  <2> QED  BY <2>1, <2>2
<1>18. ASSUME NEW t \in Tokens, Correct(t) PROVE IInv'
  BY <1>15, <1>18 DEF Correct, Fetchers
<1>19. CASE UNCHANGED vars
  BY <1>0, <1>19, <1>fs, <1>so, TypeNext DEF vars, netVars, marketVars, fetchVars, Linked
<1> QED
  BY <1>1, <1>2, <1>3, <1>4, <1>5, <1>6, <1>7, <1>8, <1>9, <1>10, <1>11, <1>12, <1>13, <1>14,
     <1>16, <1>17, <1>18, <1>19 DEF Next, Goes

\* The inductive invariant, for any levels, sizes, refreshes and events.
THEOREM Invariance == Spec => []IInv
  BY InitIInv, IInvStep, PTL DEF Spec

\* The books, the stream and the fetches keep their types, and a refresh or a
\* validation never has both tokens' requests under way.
THEOREM TypeCorrect == Spec => []TypeOK
<1>1. IInv => TypeOK
  BY DEF IInv
<1> QED
  BY Invariance, <1>1, PTL

-----------------------------------------------------------------------------
(* The stream.                                                             *)

\* Between two diffs the pending ones are those on the wire, else the one in
\* hand comes first.
LEMMA PendingIs ==
  ASSUME NEW w \in Seq(Diffs), NEW h \in Diffs \union {Unset}, NEW p,
         p = (IF h = Unset THEN <<>> ELSE <<h>>) \o w
  PROVE  /\ p \in Seq(Diffs)
         /\ h = Unset => p = w
         /\ h # Unset => /\ Len(p) = Len(w) + 1
                         /\ p[1] = h
                         /\ \A i \in 1..Len(w) : p[i+1] = w[i]
<1>1. CASE h = Unset
  <2>1. p = <<>> \o w
    BY <1>1
  <2>2. p = w
    BY <2>1, ConcatEmptySeq
  <2> QED  BY <1>1, <2>2
<1>2. CASE h # Unset
  <2>1. h \in Diffs /\ <<h>> \in Seq(Diffs) /\ Len(<<h>>) = 1 /\ <<h>>[1] = h
    BY <1>2
  <2>2. p = <<h>> \o w
    BY <1>2
  <2>3. p \in Seq(Diffs) /\ Len(p) = 1 + Len(w)
    BY <2>1, <2>2, ConcatProperties
  <2>4. \A i \in 1..1 + Len(w) : p[i] = IF i <= 1 THEN <<h>>[i] ELSE w[i - 1]
    BY <2>1, <2>2, ConcatProperties
  <2>5. Len(w) \in Nat
    BY LenProperties
  <2>6. \A i \in 1..Len(w) : i + 1 \in 1..1 + Len(w) /\ ~(i + 1 <= 1) /\ (i + 1) - 1 = i
    BY <2>5
  <2> QED
    BY <1>2, <2>1, <2>3, <2>4, <2>5, <2>6
<1> QED  BY <1>1, <1>2

\* What the pending diffs say of a book's level stays true as long as they, the
\* exchange and the book stay.
LEMMA FollowsStays ==
  ASSUME NEW t \in Tokens, Follows(t), truth' = truth, Pending' = Pending, books'[t] = books[t]
  PROVE  Follows(t)'
  BY DEF Follows, Settles

\* A change sent to the client settles its level, whatever settled it before, and
\* disturbs no other.
LEMMA ChangeFollows ==
  ASSUME IInv, NEW t \in Tokens, Follows(t), NEW d \in Diffs, Change(d), served
  PROVE  Follows(t)'
<1>0. truth \in Books /\ wire \in Seq(Diffs) /\ hand \in Diffs \union {Unset}
  BY DEF IInv, TypeOK
<1>1. wire' = Append(wire, d) /\ hand' = hand /\ truth' = Updated(truth, d) /\ books' = books
  BY DEF Change
<1>2. /\ wire' \in Seq(Diffs) /\ Len(wire) \in Nat /\ Len(wire') = Len(wire) + 1
      /\ wire'[Len(wire) + 1] = d /\ \A i \in 1..Len(wire) : wire'[i] = wire[i]
  BY <1>0, <1>1
<1>3. /\ Pending \in Seq(Diffs)
      /\ hand = Unset => Pending = wire
      /\ hand # Unset => /\ Len(Pending) = Len(wire) + 1
                         /\ Pending[1] = hand
                         /\ \A i \in 1..Len(wire) : Pending[i+1] = wire[i]
  BY <1>0, PendingIs DEF Pending
<1>4. /\ Pending' \in Seq(Diffs)
      /\ hand' = Unset => Pending' = wire'
      /\ hand' # Unset => /\ Len(Pending') = Len(wire') + 1
                          /\ Pending'[1] = hand'
                          /\ \A i \in 1..Len(wire') : Pending'[i+1] = wire'[i]
  BY <1>0, <1>1, <1>2, PendingIs DEF Pending
<1>5. /\ Len(Pending) \in Nat
      /\ Len(Pending') = Len(Pending) + 1
      /\ Pending'[Len(Pending) + 1] = d
      /\ \A i \in 1..Len(Pending) : Pending'[i] = Pending[i]
  <2>1. CASE hand = Unset
    BY <1>1, <1>2, <1>3, <1>4, <2>1
  <2>2. CASE hand # Unset
    <3>1. Len(Pending) \in Nat /\ Len(Pending') = Len(Pending) + 1
      BY <1>1, <1>2, <1>3, <1>4, <2>2
    <3>2. Pending'[Len(Pending) + 1] = d
      BY <1>1, <1>2, <1>3, <1>4, <2>2
    <3>3. ASSUME NEW i \in 1..Len(Pending) PROVE Pending'[i] = Pending[i]
      <4>1. CASE i = 1
        BY <1>1, <1>3, <1>4, <2>2, <4>1
      <4>2. CASE i # 1
        <5>1. i - 1 \in 1..Len(wire) /\ i - 1 \in 1..Len(wire') /\ (i - 1) + 1 = i
          BY <1>2, <1>3, <2>2, <3>3, <4>2
        <5>2. Pending'[(i-1) + 1] = wire'[i-1] /\ Pending[(i-1)+1] = wire[i-1]
          BY <1>1, <1>3, <1>4, <2>2, <5>1
        <5> QED  BY <1>2, <5>1, <5>2
      <4> QED  BY <4>1, <4>2
    <3> QED  BY <3>1, <3>2, <3>3
  <2> QED  BY <2>1, <2>2
<1>6. d.level \in Levels /\ truth'[d.level] = d.size /\ \A l \in Levels : l # d.level => truth'[l] = truth[l]
  BY <1>0, <1>1 DEF Books, Diffs, Updated
<1>7. ASSUME NEW l \in Levels
      PROVE  \/ \E i \in 1..Len(Pending') : Settles(i, l)'
             \/ books'[t][l] = truth'[l] /\ \A i \in 1..Len(Pending') : Pending'[i].level # l
  <2>1. CASE l = d.level
    BY <1>5, <1>6, <2>1 DEF Settles
  <2>2. CASE l # d.level /\ \E i \in 1..Len(Pending) : Settles(i, l)
    <3>1. PICK i \in 1..Len(Pending) : Settles(i, l)
      BY <2>2
    <3>2. i \in 1..Len(Pending') /\ Pending'[i] = Pending[i]
      BY <1>5
    <3>3. \A j \in i+1..Len(Pending') : Pending'[j].level # l
      BY <1>5, <2>2, <3>1 DEF Settles
    <3> QED  BY <1>6, <2>2, <3>1, <3>2, <3>3 DEF Settles
  <2>3. CASE l # d.level /\ books[t][l] = truth[l] /\ \A i \in 1..Len(Pending) : Pending[i].level # l
    BY <1>1, <1>5, <1>6, <2>3
  <2> QED  BY <2>1, <2>2, <2>3 DEF Follows
<1> QED  BY <1>7 DEF Follows

\* Handling the oldest diff makes of the book what it said of it.
LEMMA HandleFollows ==
  ASSUME IInv, NEW t \in Tokens, Follows(t), Handle, \A u \in Tokens : books[u] # Unset
  PROVE  Follows(t)' /\ \A u \in Tokens : books'[u] # Unset
<1>0. /\ truth \in Books /\ wire \in Seq(Diffs) /\ hand \in Diffs
      /\ books \in [Tokens -> Books \union {Unset}]
  BY DEF IInv, TypeOK, Handle, Handled
<1>1. /\ wire' = wire /\ hand' = Unset /\ truth' = truth /\ hand # Unset
      /\ \A u \in Tokens : books'[u] = Updated(books[u], hand)
  BY <1>0 DEF Handle, Handled, Diffs
<1>2. /\ Pending \in Seq(Diffs)
      /\ Len(Pending) = Len(wire) + 1
      /\ Pending[1] = hand
      /\ \A i \in 1..Len(wire) : Pending[i+1] = wire[i]
  BY <1>0, <1>1, PendingIs DEF Pending
<1>3. Pending' = wire /\ Len(wire) \in Nat
  BY <1>0, <1>1, PendingIs DEF Pending
<1>4. \A u \in Tokens : books[u] \in Books /\ books'[u] \in Books
  BY <1>0, <1>1, UpdatedIsBook
<1>5. hand.level \in Levels /\ books'[t][hand.level] = hand.size
      /\ \A l \in Levels : l # hand.level => books'[t][l] = books[t][l]
  <2>1. books[t] \in [Levels -> Sizes] /\ books'[t] = [books[t] EXCEPT ![hand.level] = hand.size]
    BY <1>1, <1>4 DEF Books, Updated
  <2>2. hand.level \in Levels
    BY <1>0 DEF Diffs
  <2> QED  BY <2>1, <2>2
<1>6. ASSUME NEW l \in Levels
      PROVE  \/ \E i \in 1..Len(Pending') : Settles(i, l)'
             \/ books'[t][l] = truth'[l] /\ \A i \in 1..Len(Pending') : Pending'[i].level # l
  <2>1. \A i \in 1..Len(wire) : i + 1 \in 1..Len(Pending) /\ Pending'[i] = Pending[i+1]
    BY <1>2, <1>3
  <2>2. CASE \E i \in 1..Len(Pending) : Settles(i, l)
    <3>1. PICK i \in 1..Len(Pending) : Settles(i, l)
      BY <2>2
    <3>2. CASE i = 1
      <4>1. hand.level = l /\ hand.size = truth[l]
        BY <1>2, <3>1, <3>2 DEF Settles
      <4>2. \A j \in 1..Len(wire) : Pending'[j].level # l
        BY <1>2, <1>3, <2>1, <3>1, <3>2 DEF Settles
      <4> QED  BY <1>1, <1>3, <1>5, <4>1, <4>2
    <3>3. CASE i # 1
      <4>1. i - 1 \in 1..Len(wire) /\ (i - 1) + 1 = i
        BY <1>2, <1>3, <3>3
      <4>2. Pending'[i-1] = Pending[i]
        BY <2>1, <4>1
      <4>3. \A j \in (i-1)+1..Len(Pending') : Pending'[j].level # l
        <5>1. TAKE j \in (i-1)+1..Len(Pending')
        <5>2. j \in 1..Len(wire) /\ j + 1 \in i+1..Len(Pending)
          BY <1>2, <1>3, <4>1
        <5> QED  BY <2>1, <3>1, <5>2 DEF Settles
      <4>4. Settles(i-1, l)'
        BY <1>1, <3>1, <4>1, <4>2, <4>3 DEF Settles
      <4> QED  BY <1>3, <4>1, <4>4
    <3> QED  BY <3>2, <3>3
  <2>3. CASE books[t][l] = truth[l] /\ \A i \in 1..Len(Pending) : Pending[i].level # l
    <3>1. l # hand.level
      BY <1>2, <1>3, <2>3
    <3> QED  BY <1>1, <1>3, <1>5, <2>1, <2>3, <3>1
  <2> QED  BY <2>2, <2>3 DEF Follows
<1> QED  BY <1>4, <1>6, SyncAssumption DEF Follows

\* The property of one step, for one token.
Kept(t) ==
    Streaming /\ Follows(t) /\ ~(Streaming /\ Follows(t))' =>
        \/ Lose \/ Serve \/ \E u \in Tokens : ClearOrderBook(u) \/ Correct(t)
        \/ \E f \in Fetchers : Apply(f, t)

LEMMA KeptStep == ASSUME IInv, [Next]_vars, NEW t \in Tokens PROVE Kept(t)
<1> SUFFICES ASSUME Streaming, Follows(t), ~(Streaming /\ Follows(t))',
                    ~Lose, ~Serve, ~(\E u \in Tokens : ClearOrderBook(u)), ~Correct(t),
                    ~(\E f \in Fetchers : Apply(f, t))
             PROVE  FALSE
  BY DEF Kept
<1>0. /\ wire \in Seq(Diffs) /\ hand \in Diffs \union {Unset}
      /\ books \in [Tokens -> Books \union {Unset}]
      /\ link /\ connected
  BY DEF IInv, TypeOK, Linked, Streaming
<1>1. Tokens # {}
  OBVIOUS
\* A step that leaves the diffs alone may only overwrite the other book, with a book.
<1>2. ASSUME UNCHANGED <<truth, served, connected, wire, hand>>, books'[t] = books[t],
             \A u \in Tokens : books'[u] # Unset
      PROVE  FALSE
  <2>1. Pending' = Pending
    BY <1>2 DEF Pending
  <2> QED  BY <1>2, <2>1, FollowsStays DEF Streaming
<1>3. ASSUME UNCHANGED <<truth, netVars, books>> PROVE FALSE
  BY <1>2, <1>3 DEF netVars, Streaming
<1>4. ASSUME NEW u \in Tokens, NEW f \in Fetchers, u # t, answer[f][u] \in Books,
             UNCHANGED <<truth, netVars>>, books' = [books EXCEPT ![u] = answer[f][u]]
      PROVE  FALSE
  BY <1>0, <1>2, <1>4, SyncAssumption DEF netVars, Streaming
<1>5. ASSUME NEW d \in Diffs, Change(d) PROVE FALSE
  BY <1>5, ChangeFollows DEF Change, Streaming
<1>6. CASE Reconnecting
  BY <1>0, <1>6 DEF Reconnecting
<1>7. CASE Reconnected
  BY <1>0, <1>7 DEF Reconnected
<1>8. CASE Read
  <2>1. hand = Unset /\ wire # <<>> /\ hand' = Head(wire) /\ wire' = Tail(wire)
    BY <1>8 DEF Read
  <2>2. Head(wire) \in Diffs /\ Tail(wire) \in Seq(Diffs) /\ Head(wire) # Unset
    BY <1>0, <2>1, HeadTailProperties, SyncAssumption
  <2>3. Pending = wire
    BY <1>0, <2>1, PendingIs DEF Pending
  <2>4. Pending' = <<Head(wire)>> \o Tail(wire)
    BY <2>1, <2>2 DEF Pending
  <2>5. <<Head(wire)>> \o Tail(wire) = wire
    BY <1>0, <2>1
  <2> QED  BY <1>8, <2>3, <2>4, <2>5, FollowsStays DEF Read, Streaming
<1>9. CASE Handle
  BY <1>9, HandleFollows DEF Handle, Handled, Streaming
<1>10. ASSUME NEW f \in Fetchers, NEW u \in Tokens, Apply(f, u) PROVE FALSE
  <2>1. u # t
    BY <1>10
  <2> QED  BY <1>4, <1>10, <2>1 DEF Apply, Done, IInv, Fetched
<1>11. ASSUME NEW u \in Tokens, Compare(u) PROVE FALSE
  <2>1. CASE books[u] \in {Unset, answer["validator"][u]}
    <3>1. books[u] = answer["validator"][u] /\ UNCHANGED <<truth, netVars>>
      BY <1>11, <2>1 DEF Compare, Done, Streaming
    <3>2. books' = books
      BY <1>0, <1>11, <2>1, <3>1 DEF Compare
    <3> QED  BY <1>3, <3>1, <3>2
  <2>2. CASE books[u] \notin {Unset, answer["validator"][u]}
    BY <1>3, <1>11, <2>2 DEF Compare
  <2> QED  BY <2>1, <2>2
<1>12. ASSUME NEW u \in Tokens, Correct(u) PROVE FALSE
  <2>1. u # t
    BY <1>12
  <2> QED  BY <1>4, <1>12, <2>1 DEF Correct, Done, IInv, Fetched, Fetchers
<1>13. ASSUME NEW f \in Fetchers, NEW u \in Tokens, Answer(f, u) \/ Fail(f, u) PROVE FALSE
  BY <1>3, <1>13 DEF Answer, Fail
<1>14. ASSUME NEW f \in Fetchers, GiveUp(f) PROVE FALSE
  BY <1>3, <1>14 DEF GiveUp
<1>15. CASE SubscribeMarketWithSnapshot \/ Unsubscribe \/ Validate
  BY <1>3, <1>15 DEF SubscribeMarketWithSnapshot, Unsubscribe, Validate
<1>16. CASE UNCHANGED vars
  BY <1>3, <1>16 DEF vars
<1> QED
  BY <1>5, <1>6, <1>7, <1>8, <1>9, <1>10, <1>11, <1>12, <1>13, <1>14, <1>15, <1>16 DEF Next, Goes

\* A book in step with the exchange falls out of step only when the connection is
\* lost, the market unsubscribed, a book of it cleared or itself overwritten by a
\* fetch: for any levels, sizes, refreshes and events, and any number of diffs.
THEOREM StreamIsKept == Spec => StreamKeepsStep
<1>1. IInv /\ [Next]_vars =>
        \A t \in Tokens : Streaming /\ Follows(t) /\ ~(Streaming /\ Follows(t))' =>
          \/ Lose \/ Serve \/ \E u \in Tokens : ClearOrderBook(u) \/ Correct(t)
          \/ \E f \in Fetchers : Apply(f, t)
  BY KeptStep DEF Kept
<1> QED
  BY <1>1, Invariance, PTL DEF Spec, StreamKeepsStep

=============================================================================
