-------------------------------- MODULE Sync --------------------------------
(***************************************************************************)
(* How the local books of a market's two tokens follow the exchange's:      *)
(* snapshots fetched over HTTP by orderbook/sdk.go, one per token, diffs     *)
(* received over the WebSocket and handled by manager.go, each for both      *)
(* tokens, and the connection's losses.  Three kinds of goroutine fetch      *)
(* snapshots, none of them in step with the diffs:                          *)
(*   - SubscribeMarketWithSnapshot, called by a user: both tokens at once;  *)
(*   - refreshAllSnapshots, started at every StateConnected: one after the   *)
(*     other;                                                               *)
(*   - validateAllOrderBooks, once per tick of the periodic validation, one  *)
(*     after the other.                                                     *)
(* The exchange has one book for the market.  Both tokens' books are written *)
(* in its terms: the mirror rule is Manager's, the life of the connection    *)
(* WSClient's, the subscription's Subscriptions'.                           *)
(***************************************************************************)
EXTENDS Naturals, Sequences

CONSTANTS Levels,       \* price levels
          Sizes,        \* sizes at a level, one of which is no entry
          Unset,        \* the book that is not initialized, or not there
          Refreshers,   \* bound: refreshes under way at a time
          Validation,   \* StartPeriodicValidation has been called
          MaxEvents     \* bound: changes of the exchange's book, lost connections, failed
                        \* fetches, unsubscriptions and cleared books, together

Tokens == {"YES", "NO"}
Books == [Levels -> Sizes]

\* A diff is sent for one of the two tokens.
Diffs == [token : Tokens, level : Levels, size : Sizes]

ASSUME SyncAssumption ==
    /\ Sizes # {}
    /\ Unset \notin Books
    /\ Unset \notin Diffs
    /\ Validation \in BOOLEAN
    /\ {"subscriber", "validator"} \intersect Refreshers = {}
    /\ MaxEvents \in Nat

Fetchers == Refreshers \union {"subscriber", "validator"}

VARIABLES
    truth,      \* the exchange's book
    served,     \* the exchange sends this connection the market's diffs
    wire,       \* diffs sent, oldest first
    hand,       \* the diff the read loop is about to handle, or Unset
    link,       \* the connection carries messages
    connected,  \* state = StateConnected; Reconnecting otherwise
    books,      \* the local book of each token, or Unset
    registered, \* the pair is registered
    tracked,    \* its channel is in the subscriptions
    stage,      \* where a fetcher stands with each token
    answer,     \* the snapshot it was answered, or Unset
    events

netVars == <<served, wire, hand, link, connected>>
fetchVars == <<stage, answer>>
marketVars == <<registered, tracked>>
vars == <<truth, netVars, books, marketVars, fetchVars, events>>

TypeOK ==
    /\ truth \in Books
    /\ {served, link, connected, registered, tracked} \subseteq BOOLEAN
    /\ wire \in Seq(Diffs)
    /\ hand \in Diffs \union {Unset}
    /\ books \in [Tokens -> Books \union {Unset}]
    /\ stage \in [Fetchers -> [Tokens -> {"idle", "queued", "asked", "answered", "correct"}]]
    /\ answer \in [Fetchers -> [Tokens -> Books \union {Unset}]]
    /\ events \in 0..MaxEvents
    /\ \A f \in Fetchers \ {"subscriber"} : \E t \in Tokens : stage[f][t] \in {"idle", "queued"}

\* SDK.Start has returned; no market is subscribed.  Sizes are interchangeable, and
\* changes lead to every book: the exchange's may as well start with any.
Init ==
    /\ truth = CHOOSE b \in Books : TRUE
    /\ served = FALSE /\ wire = <<>> /\ hand = Unset
    /\ link = TRUE /\ connected = TRUE
    /\ books = [t \in Tokens |-> Unset]
    /\ registered = FALSE /\ tracked = FALSE
    /\ stage = [f \in Fetchers |-> [t \in Tokens |-> "idle"]]
    /\ answer = [f \in Fetchers |-> [t \in Tokens |-> Unset]]
    /\ events = 0

Event ==
    /\ events < MaxEvents
    /\ events' = events + 1

-----------------------------------------------------------------------------
(* The exchange.                                                           *)

Updated(b, d) == [b EXCEPT ![d.level] = d.size]

\* The book changes at one level, and a subscriber is sent the diff.
Change(d) ==
    /\ truth[d.level] # d.size
    /\ Event
    /\ truth' = Updated(truth, d)
    /\ wire' = IF served THEN Append(wire, d) ELSE wire
    /\ UNCHANGED <<served, hand, link, connected, books, marketVars, fetchVars>>

\* A subscribe or an unsubscribe message arrives.
Serve ==
    /\ link /\ connected
    /\ served # tracked
    /\ served' = tracked
    /\ UNCHANGED <<truth, wire, hand, link, connected, books, marketVars, fetchVars, events>>

\* The order book request for a token is answered ...
Answer(f, t) ==
    /\ stage[f][t] = "asked"
    /\ stage' = [stage EXCEPT ![f][t] = "answered"]
    /\ answer' = [answer EXCEPT ![f][t] = truth]
    /\ UNCHANGED <<truth, netVars, books, marketVars, events>>

\* f goes on to the other token, if that is its turn.
Onward(f, t) ==
    [u \in Tokens |-> CASE u = t -> "idle"
                        [] u # t /\ stage[f][u] = "queued" -> "asked"
                        [] OTHER -> stage[f][u]]

\* ... or it fails ...
Fail(f, t) ==
    /\ stage[f][t] = "asked"
    /\ Event
    /\ stage' = [stage EXCEPT ![f] = Onward(f, t)]
    /\ UNCHANGED <<truth, netVars, books, marketVars, answer>>

\* ... or a refresh gives up waiting for the rate limiter, for both tokens.
GiveUp(f) ==
    /\ f \in Refreshers
    /\ \E t \in Tokens : stage[f][t] = "asked"
    /\ Event
    /\ stage' = [stage EXCEPT ![f] = [t \in Tokens |-> "idle"]]
    /\ UNCHANGED <<truth, netVars, books, marketVars, answer>>

-----------------------------------------------------------------------------
(* The connection.                                                         *)

Lose ==
    /\ link
    /\ Event
    /\ link' = FALSE
    /\ served' = FALSE
    /\ UNCHANGED <<truth, wire, hand, connected, books, marketVars, fetchVars>>

\* triggerReconnect: handleStateChange(StateReconnecting) clears the books.
Reconnecting ==
    /\ ~link
    /\ connected
    /\ connected' = FALSE
    /\ wire' = <<>>
    /\ books' = [t \in Tokens |-> Unset]
    /\ UNCHANGED <<truth, served, hand, link, marketVars, fetchVars, events>>

Idle(f) == \A t \in Tokens : stage[f][t] = "idle"

AtOnce(f) ==
    /\ Idle(f)
    /\ stage' = [stage EXCEPT ![f] = [t \in Tokens |-> "asked"]]

\* YES first, then NO.  (AtOnce in its place is a mutant: a goroutine per token.)
InTurn(f) ==
    /\ Idle(f)
    /\ stage' = [stage EXCEPT ![f] = [t \in Tokens |-> IF t = "YES" THEN "asked" ELSE "queued"]]

\* reconnect, once the read loop has returned: handleStateChange(StateConnected)
\* starts a refresh, which does nothing if no pair is registered.
Reconnected ==
    /\ ~connected
    /\ hand = Unset
    /\ connected' = TRUE
    /\ link' = TRUE
    /\ IF registered THEN \E f \in Refreshers : InTurn(f) ELSE UNCHANGED stage
    /\ UNCHANGED <<truth, served, wire, hand, books, marketVars, answer, events>>

\* The read loop reads a message ...
Read ==
    /\ connected
    /\ hand = Unset
    /\ wire # <<>>
    /\ hand' = Head(wire)
    /\ wire' = Tail(wire)
    /\ UNCHANGED <<truth, served, link, connected, books, marketVars, fetchVars, events>>

Handled(newBooks) ==
    /\ hand # Unset
    /\ hand' = Unset
    /\ books' = newBooks
    /\ UNCHANGED <<truth, served, wire, link, connected, marketVars, fetchVars, events>>

\* Mutant: the other token is left to its own diffs.
HandleOneToken ==
    Handled([t \in Tokens |-> IF t # hand.token \/ books[t] = Unset THEN books[t]
                              ELSE Updated(books[t], hand)])

\* ... and handleSingleDepthDiff handles it for the token it names and for the
\* other, unless the book of the first, or that of the other, is not initialized.
Handle ==
    Handled([t \in Tokens |-> IF books[hand.token] = Unset \/ books[t] = Unset THEN books[t]
                              ELSE Updated(books[t], hand)])

-----------------------------------------------------------------------------
(* The application.                                                        *)

\* SubscribeMarketWithSnapshot: the pair is registered; if the client is not
\* connected the call returns, otherwise the channel is tracked and the snapshots
\* are asked for, unless the write is refused.
SubscribeMarketWithSnapshot ==
    /\ Idle("subscriber")
    /\ ~tracked
    /\ registered' = TRUE
    /\ IF connected
       THEN tracked' = TRUE /\ (AtOnce("subscriber") \/ UNCHANGED stage)
       ELSE UNCHANGED <<tracked, stage>>
    /\ UNCHANGED <<truth, netVars, books, answer, events>>

\* The pair stays registered, and the books stay.
Unsubscribe ==
    /\ connected
    /\ tracked
    /\ Event
    /\ tracked' = FALSE
    /\ UNCHANGED <<truth, netVars, books, registered, fetchVars>>

\* ClearOrderBook, MarkUninitialized or RemoveOrderBook.
ClearOrderBook(t) ==
    /\ books[t] # Unset
    /\ Event
    /\ books' = [books EXCEPT ![t] = Unset]
    /\ UNCHANGED <<truth, netVars, marketVars, fetchVars>>

-----------------------------------------------------------------------------
(* The snapshots.                                                          *)

\* The periodic validation looks at the tokens.
Validate ==
    /\ Validation
    /\ registered
    /\ InTurn("validator")
    /\ UNCHANGED <<truth, netVars, books, marketVars, answer, events>>

\* The fetch for a token is over.
Done(f, t) ==
    /\ stage' = [stage EXCEPT ![f] = Onward(f, t)]
    /\ answer' = [answer EXCEPT ![f][t] = Unset]
    /\ UNCHANGED <<truth, netVars, marketVars, events>>

\* A subscription waits for both answers and takes YES first.
Turn(f, t) ==
    f = "subscriber" => /\ \A u \in Tokens : stage[f][u] # "asked"
                        /\ t = "NO" => stage[f]["YES"] # "answered"

\* ApplySnapshot, whatever has happened since the snapshot was taken.
Apply(f, t) ==
    /\ f # "validator"
    /\ stage[f][t] = "answered"
    /\ Turn(f, t)
    /\ books' = [books EXCEPT ![t] = answer[f][t]]
    /\ Done(f, t)

\* Mutant: only a book that is not initialized is corrected.
CompareInitialized(t) ==
    /\ stage["validator"][t] = "answered"
    /\ books' = IF books[t] = Unset THEN [books EXCEPT ![t] = answer["validator"][t]] ELSE books
    /\ Done("validator", t)

\* ValidateOrderBook compares; a book that is not initialized it sets at once ...
Compare(t) ==
    /\ stage["validator"][t] = "answered"
    /\ IF books[t] \in {Unset, answer["validator"][t]}
       THEN /\ books' = [books EXCEPT ![t] = answer["validator"][t]]
            /\ Done("validator", t)
       ELSE /\ stage' = [stage EXCEPT !["validator"][t] = "correct"]
            /\ UNCHANGED <<truth, netVars, books, marketVars, answer, events>>

\* ... and a book that differed is overwritten.
Correct(t) ==
    /\ stage["validator"][t] = "correct"
    /\ books' = [books EXCEPT ![t] = answer["validator"][t]]
    /\ Done("validator", t)

\* A fetcher goes on.
Goes(f) ==
    \/ f = "validator" /\ Validate
    \/ \E t \in Tokens :
          \/ Answer(f, t) \/ Apply(f, t)
          \/ f = "validator" /\ (Compare(t) \/ Correct(t))

Next ==
    \/ \E d \in Diffs : Change(d)
    \/ Serve \/ Lose \/ Reconnecting \/ Reconnected \/ Read \/ Handle
    \/ \E f \in Fetchers : Goes(f) \/ GiveUp(f) \/ \E t \in Tokens : Fail(f, t)
    \/ SubscribeMarketWithSnapshot \/ Unsubscribe
    \/ \E t \in Tokens : ClearOrderBook(t)

Spec == Init /\ [][Next]_vars

\* Goroutines run, a lost connection is noticed, a dial succeeds in the end,
\* messages and requests arrive, and the validation's ticker keeps firing.  The
\* book need not change, no connection need be lost and no fetch need fail.
FairSpec ==
    /\ Spec
    /\ WF_vars(Serve) /\ WF_vars(Reconnecting \/ Reconnected) /\ WF_vars(Read \/ Handle)
    /\ \A f \in Fetchers : WF_vars(Goes(f))

-----------------------------------------------------------------------------
(* Properties.                                                             *)

\* The diffs received and not handled yet, oldest first.
Pending == (IF hand = Unset THEN <<>> ELSE <<hand>>) \o wire

\* What they leave at a level in the end: the size the last of them for it carries.
Settles(i, l) == /\ Pending[i].level = l /\ Pending[i].size = truth[l]
                 /\ \A j \in i+1..Len(Pending) : Pending[j].level # l

\* The local book is the exchange's once they are handled.
Follows(t) ==
    \A l \in Levels :
        \/ \E i \in 1..Len(Pending) : Settles(i, l)
        \/ books[t][l] = truth[l] /\ \A i \in 1..Len(Pending) : Pending[i].level # l

\* The diffs reach both books.
Streaming == served /\ connected /\ \A t \in Tokens : books[t] # Unset

\* A book in step with the exchange falls out of step only when the connection
\* is lost, the market unsubscribed, one of its two books cleared, or when a fetch
\* overwrites it: not one diff is lost, applied twice or out of order, whichever
\* token it is for, on this connection or across a reconnection.
StreamKeepsStep ==
    [][\A t \in Tokens : Streaming /\ Follows(t) /\ ~(Streaming /\ Follows(t))' =>
          \/ Lose \/ Serve \/ \E u \in Tokens : ClearOrderBook(u) \/ Correct(t)
          \/ \E f \in Fetchers : Apply(f, t)]_vars

\* What a book that is not in step owes to the races between diffs and
\* snapshots, to a token whose fetch failed, or to an unsubscription that left the
\* pair registered, the periodic validation repairs: once the exchange is quiet and
\* the connection stays up, both books are the exchange's and remain so.
RepairedInTheEnd == <>[]registered => <>[](\A t \in Tokens : books[t] = truth)
=============================================================================
