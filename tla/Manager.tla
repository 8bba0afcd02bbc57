------------------------------ MODULE Manager ------------------------------
(***************************************************************************)
(* orderbook/manager.go for one market: the books of its two tokens, the    *)
(* token pair, and the notification channel updateChan with the consumer    *)
(* that ranges over Updates().                                             *)
(*                                                                         *)
(* Every handler holds m.mu while it changes books and while sendUpdate     *)
(* runs, so handlers exclude each other: outbox holds the notifications the *)
(* handler in progress has still to send, and the lock is free when it is   *)
(* empty.  The consumer and Stop need no lock: they interleave with the     *)
(* three selects of sendUpdate.                                            *)
(***************************************************************************)
EXTENDS Books, Sequences

CONSTANT Capacity  \* of updateChan; 100 in the code

ASSUME ManagerAssumption == Capacity \in Nat \ {0}

VARIABLES
    paired,    \* the pair is in marketTokenPairs
    books,     \* orderbooks: the book of every token that has one
    updates,   \* updateChan: the tokens notified, oldest first
    stopped,   \* updateChan is closed
    outbox,    \* notifications left to the handler that holds m.mu
    sending,   \* which select of sendUpdate is next
    panicked,  \* a send hit the closed channel: the process is gone
    reading,   \* woken by a notification, the consumer has yet to read these books
    unseen     \* history: tokens whose book changed, in any way, since it was read

sendVars == <<outbox, sending, panicked>>
consumerVars == <<reading, unseen>>
vars == <<paired, books, updates, stopped, sendVars, consumerVars>>

TypeOK ==
    /\ paired \in BOOLEAN
    /\ DOMAIN books \subseteq Tokens
    /\ books \in [DOMAIN books -> Book]
    /\ updates \in Seq(Tokens) /\ Len(updates) <= Capacity
    /\ stopped \in BOOLEAN
    /\ outbox \in Seq(Tokens) /\ Len(outbox) <= 2
    /\ sending \in {"send", "drop", "retry"}
    /\ panicked \in BOOLEAN
    /\ reading \subseteq Tokens
    /\ unseen \subseteq Tokens

Init ==
    /\ paired = FALSE
    /\ books = [t \in {} |-> EmptyBook]
    /\ updates = <<>>
    /\ stopped = FALSE
    /\ outbox = <<>>
    /\ sending = "send"
    /\ panicked = FALSE
    /\ reading = {}
    /\ unseen = {}

-----------------------------------------------------------------------------
Initialized(t) == t \in DOMAIN books /\ books[t].initialized

\* m.mu can be taken.
Free == ~panicked /\ outbox = <<>>

\* Mutant: the notification is forgotten.
NotifyNobody(tokens, changed) ==
    /\ unseen' = unseen \union changed
    /\ UNCHANGED <<paired, updates, stopped, outbox, sending, panicked, reading>>

\* The handler changed these books, and leaves these notifications to the steps of
\* sendUpdate.
Notify(tokens, changed) ==
    /\ outbox' = tokens
    /\ unseen' = unseen \union changed
    /\ UNCHANGED <<paired, updates, stopped, sending, panicked, reading>>

\* The handler changed these books and tells nobody.
Silently(changed) ==
    /\ unseen' = unseen \union changed
    /\ UNCHANGED <<paired, updates, stopped, sendVars, reading>>

RegisterMarketTokenPair ==
    /\ Free
    /\ paired' = TRUE
    /\ UNCHANGED <<books, updates, stopped, sendVars, consumerVars>>

ApplySnapshot(t, bids, asks) ==
    /\ Free
    /\ books' = [u \in DOMAIN books \union {t} |->
                    IF u = t THEN SnapshotBook(bids, asks) ELSE books[u]]
    /\ Notify(<<t>>, {t})

\* handleSingleDepthDiff: the token's book, then its mirror if it is ready.
HandleDepthDiff(t, side, price, size) ==
    /\ Free
    /\ Initialized(t)
    /\ LET m == MirrorToken(t)
           both == paired /\ Initialized(m)
       IN  /\ books' = [u \in DOMAIN books |->
                 CASE u = t -> DiffBook(books[t], side, price, size)
                   [] u = m /\ both -> DiffBook(books[m], MirrorSide(side), MirrorPrice(price), size)
                   [] OTHER -> books[u]]
           /\ IF both THEN Notify(<<t, m>>, {t, m}) ELSE Notify(<<t>>, {t})

\* Mutant: only the flag is reset.
ForgetAllOrderBooks ==
    /\ Free
    /\ books' = [t \in DOMAIN books |-> [books[t] EXCEPT !.initialized = FALSE]]
    /\ Silently(DOMAIN books)

\* clearAllOrderBooks, on StateDisconnected and StateReconnecting.
ClearAllOrderBooks ==
    /\ Free
    /\ books' = [t \in DOMAIN books |-> EmptyBook]
    /\ Silently(DOMAIN books)

\* ClearOrderBook and MarkUninitialized.
ClearOrderBook(t) ==
    /\ Free
    /\ t \in DOMAIN books
    /\ books' = [books EXCEPT ![t] = EmptyBook]
    /\ Silently({t})

RemoveOrderBook(t) ==
    /\ Free
    /\ t \in DOMAIN books
    /\ books' = [u \in DOMAIN books \ {t} |-> books[u]]
    /\ Silently({t})

\* GetOrCreateOrderBook on a token without a book.
GetOrCreateOrderBook(t) ==
    /\ Free
    /\ t \notin DOMAIN books
    /\ books' = [u \in DOMAIN books \union {t} |-> IF u = t THEN EmptyBook ELSE books[u]]
    /\ Silently({t})

-----------------------------------------------------------------------------
(* sendUpdate, one select after the other.                                 *)

Sent == /\ outbox' = Tail(outbox)
        /\ sending' = "send"

\* A send on the closed channel panics.
SendPanics ==
    /\ ~panicked
    /\ stopped
    /\ outbox # <<>>
    /\ sending # "drop"
    /\ panicked' = TRUE
    /\ UNCHANGED <<paired, books, updates, stopped, outbox, sending, consumerVars>>

\* Mutant: the channel has no bound.
SendAlways ==
    /\ ~panicked /\ ~stopped
    /\ outbox # <<>>
    /\ sending = "send"
    /\ updates' = Append(updates, Head(outbox))
    /\ Sent
    /\ UNCHANGED <<paired, books, stopped, panicked, consumerVars>>

\* The first select: send, or go on to drop the oldest.
SendTry ==
    /\ ~panicked /\ ~stopped
    /\ outbox # <<>>
    /\ sending = "send"
    /\ IF Len(updates) < Capacity
       THEN updates' = Append(updates, Head(outbox)) /\ Sent
       ELSE sending' = "drop" /\ UNCHANGED <<updates, outbox>>
    /\ UNCHANGED <<paired, books, stopped, panicked, consumerVars>>

\* Mutant: nothing is dropped.
SendDropNothing ==
    /\ ~panicked
    /\ sending = "drop"
    /\ sending' = "retry"
    /\ UNCHANGED <<paired, books, updates, stopped, outbox, panicked, consumerVars>>

\* The second: receive the oldest, if the consumer has not emptied the channel.
SendDrop ==
    /\ ~panicked
    /\ sending = "drop"
    /\ sending' = "retry"
    /\ updates' = IF updates = <<>> THEN <<>> ELSE Tail(updates)
    /\ UNCHANGED <<paired, books, stopped, outbox, panicked, consumerVars>>

\* The third: send again, or give the notification up.
SendRetry ==
    /\ ~panicked /\ ~stopped
    /\ sending = "retry"
    /\ updates' = IF Len(updates) < Capacity THEN Append(updates, Head(outbox)) ELSE updates
    /\ Sent
    /\ UNCHANGED <<paired, books, stopped, panicked, consumerVars>>

-----------------------------------------------------------------------------
\* The consumer receives a notification, and goes on to read every book: the
\* notifications of other books may be those that were dropped.
Consume ==
    /\ ~panicked
    /\ reading = {}
    /\ updates # <<>>
    /\ updates' = Tail(updates)
    /\ reading' = Tokens
    /\ UNCHANGED <<paired, books, stopped, sendVars, unseen>>

\* It reads the book of t, in any order of the books and at any time: m.mu is held
\* to find a book and not to read it.  One whose notification is still to be sent
\* may be read before the handler has written it.
Read(t) ==
    /\ ~panicked
    /\ t \in reading
    /\ reading' = reading \ {t}
    /\ \/ unseen' = unseen \ {t}
       \/ (\E i \in DOMAIN outbox : outbox[i] = t) /\ unseen' = unseen
    /\ UNCHANGED <<paired, books, updates, stopped, sendVars>>

\* Stop closes the channel without taking m.mu.
Stop ==
    /\ ~panicked
    /\ ~stopped
    /\ stopped' = TRUE
    /\ UNCHANGED <<paired, books, updates, sendVars, consumerVars>>

Handle ==
    \/ RegisterMarketTokenPair
    \/ ClearAllOrderBooks
    \/ \E t \in Tokens :
          \/ \E bids, asks \in Answers : ApplySnapshot(t, bids, asks)
          \/ \E side \in Sides, p \in Prices, z \in Sizes : HandleDepthDiff(t, side, p, z)
          \/ ClearOrderBook(t)
          \/ RemoveOrderBook(t)
          \/ GetOrCreateOrderBook(t)

SendUpdate == SendPanics \/ SendTry \/ SendDrop \/ SendRetry

Next == Handle \/ SendUpdate \/ Consume \/ (\E t \in Tokens : Read(t)) \/ Stop

Spec == Init /\ [][Next]_vars

-----------------------------------------------------------------------------
(* Properties.                                                             *)

\* The books of the two tokens say the same.
Mirrored == books["NO"].bids = MirrorOf(books["YES"]).bids
            /\ books["NO"].asks = MirrorOf(books["YES"]).asks

\* A diff for either token of a registered pair keeps two mirrored books
\* mirrored, although it writes each of them separately with another side and
\* another price.
DiffKeepsMirror ==
    [][paired /\ Initialized("YES") /\ Initialized("NO") /\ Mirrored =>
          \A t \in Tokens, side \in Sides, p \in Prices, z \in Sizes :
              HandleDepthDiff(t, side, p, z) => Mirrored']_vars

\* A book that is not initialized shows nothing: what was quoted before a
\* reconnect, a clear or an ignored diff never remains visible.
UninitializedIsEmpty == \A t \in DOMAIN books : ~books[t].initialized => books[t] = EmptyBook

\* No missed wake-up: however many notifications the full channel drops, a
\* consumer that reads every book when it is woken is not left with an old view of
\* an initialized book: if one changed since it was read, even by being removed or
\* cleared and filled again, a notification is waiting or about to be sent, or the
\* consumer has yet to read that book.  (Of a book that is cleared or removed and
\* not filled again nobody is told.)
NoMissedUpdate ==
    \A t \in unseen : Initialized(t) => updates # <<>> \/ outbox # <<>> \/ t \in reading

\* The newest notification is never the one that is dropped: when sendUpdate
\* is done with it, it is in the channel.
NewestIsSent ==
    [][Len(outbox') < Len(outbox) => /\ updates' # <<>>
                                     /\ updates'[Len(updates')] = Head(outbox)]_vars

\* "Stop disconnects and stops processing events": it does not crash the
\* handlers that are still at work.
NoPanic == ~panicked
=============================================================================
