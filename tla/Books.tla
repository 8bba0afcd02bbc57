------------------------------- MODULE Books -------------------------------
(***************************************************************************)
(* The data of orderbook/orderbook.go and the mirror rule of manager.go:    *)
(* a market has two outcome tokens whose prices add up to one, so a bid for *)
(* one token at price p is an ask for the other at 1 - p.                   *)
(*                                                                         *)
(* Prices are counted in ticks, One of them making 1.  A side of a book is  *)
(* the size at every price, 0 where the code's map has no entry.            *)
(***************************************************************************)
EXTENDS Naturals

CONSTANTS One,        \* how many ticks make 1
          MaxSize,    \* bound on the size at a level
          Absent      \* in an answer: the price is not listed

ASSUME BooksAssumption == One \in Nat /\ MaxSize \in Nat /\ Absent \notin Nat

Tokens == {"YES", "NO"}
Sides == {"bids", "asks"}
Prices == 0..One
Sizes == 0..MaxSize
Levels == [Prices -> Sizes]

\* A side of the exchange's book as the API lists it: a size may be zero.
Answers == [Prices -> Sizes \union {Absent}]

Book == [initialized : BOOLEAN, bids : Levels, asks : Levels]

EmptySide == [p \in Prices |-> 0]

\* NewOrderBook, and what Clear leaves.
EmptyBook == [initialized |-> FALSE, bids |-> EmptySide, asks |-> EmptySide]

\* What ApplySnapshot keeps of a side: the levels of positive size.
Positive(answer) == [p \in Prices |-> IF answer[p] = Absent THEN 0 ELSE answer[p]]

\* OrderBook.ApplySnapshot: whatever was there is replaced.
SnapshotBook(bids, asks) ==
    [initialized |-> TRUE, bids |-> Positive(bids), asks |-> Positive(asks)]

\* applyPriceUpdate and OrderBook.ApplyDiff for one level (sequence 0, as the
\* manager passes it): an uninitialized book is left alone, size 0 removes the
\* level, and a side that is not "bids" means the asks.
DiffBook(b, side, price, size) ==
    IF ~b.initialized THEN b
    ELSE IF side = "bids" THEN [b EXCEPT !.bids[price] = size]
    ELSE [b EXCEPT !.asks[price] = size]

MirrorToken(t) == IF t = "YES" THEN "NO" ELSE "YES"

\* Mutant: the mirror of a bid is a bid.
SameSide(side) == side

\* getMirrorSide
MirrorSide(side) == IF side = "asks" THEN "bids" ELSE "asks"

MirrorPrice(p) == One - p

\* The book of the other token that says the same as b.
MirrorOf(b) == [b EXCEPT !.bids = [p \in Prices |-> b.asks[MirrorPrice(p)]],
                         !.asks = [p \in Prices |-> b.bids[MirrorPrice(p)]]]
=============================================================================
