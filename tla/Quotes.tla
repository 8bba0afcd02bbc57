------------------------------- MODULE Quotes -------------------------------
(***************************************************************************)
(* What an application reads from the books of Manager: the queries of      *)
(* orderbook.go, their manager.go counterparts, and the comparison with the *)
(* exchange's book that sdk.go makes before it corrects one.                *)
(*                                                                         *)
(* A list of orders is the sequence of their prices: a price has one size.  *)
(***************************************************************************)
EXTENDS Manager, Integers, SequencesExt

-----------------------------------------------------------------------------
(* OrderBook's queries.                                                    *)

Orders(side) == {p \in Prices : side[p] # 0}

\* What sort.Slice leaves: the order at i is the one that i - 1 others precede.
Descending(S) ==
    [i \in 1..Cardinality(S) |-> CHOOSE p \in S : Cardinality({q \in S : q > p}) = i - 1]
Ascending(S) ==
    [i \in 1..Cardinality(S) |-> CHOOSE p \in S : Cardinality({q \in S : q < p}) = i - 1]

GetAllBids(b) == Descending(Orders(b.bids))
GetAllAsks(b) == Ascending(Orders(b.asks))

\* Mutant: one order too many.
CutLate(orders, n) == IF Len(orders) > n THEN SubSeq(orders, 1, n + 1) ELSE orders

Cut(orders, n) == IF Len(orders) > n THEN SubSeq(orders, 1, n) ELSE orders

GetDepth(b, n) == [bids |-> Cut(GetAllBids(b), n), asks |-> Cut(GetAllAsks(b), n)]

\* Mutant: the bound itself is left out.
ScanStrictlyAbove(b, price) == Descending({p \in Orders(b.bids) : p > price})

ScanBidsAbove(b, price) == Descending({p \in Orders(b.bids) : p >= price})
ScanAsksBelow(b, price) == Ascending({p \in Orders(b.asks) : p <= price})

\* The loop of GetBBO, one order after the other in the order of the map's
\* iteration, which is any.
Higher(p, best) == IF best = Absent \/ p > best THEN p ELSE best
Lower(p, best) == IF best = Absent \/ p < best THEN p ELSE best

BestBid(b) == FoldSet(Higher, Absent, Orders(b.bids))
BestAsk(b) == FoldSet(Lower, Absent, Orders(b.asks))

Quoted(b) == BestBid(b) # Absent /\ BestAsk(b) # Absent

\* In half ticks: the mid price is the sum divided by two.
GetMidPrice(b) == IF Quoted(b) THEN BestBid(b) + BestAsk(b) ELSE 0

GetSpread(b) == IF Quoted(b) THEN BestAsk(b) - BestBid(b) ELSE 0

\* In ticks per half tick of the mid price; zero if there is none.
GetSpreadBps(b) == IF GetMidPrice(b) = 0 THEN <<0, 1>> ELSE <<GetSpread(b), GetMidPrice(b)>>

TotalSize(side) == FoldFunction(+, 0, side)

IsEmpty(b) == Orders(b.bids) = {} /\ Orders(b.asks) = {}

-----------------------------------------------------------------------------
(* Manager's queries.                                                      *)

\* A token without a book is answered as an empty one is.
BookOf(t) == IF t \in DOMAIN books THEN books[t] ELSE EmptyBook

GetMarketSummary(t) ==
    LET b == BookOf(t)
    IN  [bestBid |-> BestBid(b), bestAsk |-> BestAsk(b), mid |-> GetMidPrice(b),
         spread |-> GetSpread(b), bps |-> GetSpreadBps(b),
         bidCount |-> Cardinality(Orders(b.bids)), askCount |-> Cardinality(Orders(b.asks))]

-----------------------------------------------------------------------------
(* The health of the manager.  The ages of the initialized books are an        *)
(* argument: time passes in any way, and a snapshot carries the timestamp its  *)
(* caller gives it, which may be zero ("unset").                               *)

Ages == {"fresh", "old", "unset"}

Ready == {t \in DOMAIN books : books[t].initialized}

\* Mutant: the first book decides, initialized or not.
FirstBookDecides(connected, age) ==
    CASE ~connected -> {FALSE}
      [] connected /\ DOMAIN books = {} -> {TRUE}
      [] OTHER -> {(t \in Ready /\ age[t] = "fresh") : t \in DOMAIN books}

\* HealthCheck's possible answers: the first initialized book decides, in the order
\* of the map's iteration, which is any.  A timestamp of zero is more than five
\* minutes ago.
HealthCheck(connected, age) ==
    CASE ~connected -> {FALSE}
      [] connected /\ DOMAIN books = {} -> {TRUE}
      [] connected /\ DOMAIN books # {} /\ Ready = {} -> {FALSE}
      [] OTHER -> {age[t] = "fresh" : t \in Ready}

\* Only a positive timestamp can be stale here.
GetHealthStatus(age) ==
    [count |-> Cardinality(DOMAIN books),
     uninitialized |-> Cardinality(DOMAIN books \ Ready),
     stale |-> Cardinality({t \in Ready : age[t] = "old"}),
     healthy |-> Cardinality({t \in Ready : age[t] # "old"})]

-----------------------------------------------------------------------------
(* The comparison of ValidateOrderBook.                                    *)

\* Mutant: the levels that only the API has are not counted.
DifferencesOfLocal(side, answer) == Cardinality({p \in Orders(side) : answer[p] # side[p]})

\* countDifferences: a listed price the book has not got counts, even at size 0.
CountDifferences(side, answer) ==
    Cardinality({p \in Orders(side) : answer[p] # side[p]})
    + Cardinality({p \in Prices \ Orders(side) : answer[p] # Absent})

-----------------------------------------------------------------------------
(* Properties.                                                             *)

MirrorQuote(p) == IF p = Absent THEN Absent ELSE MirrorPrice(p)
MirrorOrders(orders) == [i \in DOMAIN orders |-> MirrorPrice(orders[i])]

\* Two mirrored books are one market seen from its two sides: the bids for one
\* token are the asks for the other, best first, the spreads are the same and the
\* mid prices add up to one, whichever query is asked.
QuotesMirror ==
    \A t \in Tokens : LET b == BookOf(t)
                          m == BookOf(MirrorToken(t)) IN
        m = [MirrorOf(b) EXCEPT !.initialized = m.initialized] =>
            /\ BestBid(m) = MirrorQuote(BestAsk(b))
            /\ GetSpread(m) = GetSpread(b)
            /\ Quoted(b) => GetMidPrice(m) + GetMidPrice(b) = 2 * One
            /\ GetAllBids(m) = MirrorOrders(GetAllAsks(b))
            /\ TotalSize(m.bids) = TotalSize(b.asks)
            /\ \A p \in Prices : ScanBidsAbove(m, MirrorPrice(p)) = MirrorOrders(ScanAsksBelow(b, p))

\* The queries tell one story about a book, although each walks the map in an
\* order of its own: the best order heads every depth, a depth and a scan are the
\* head of the list, and only an empty book has no best order.
QueriesAgree ==
    \A t \in Tokens : LET b == BookOf(t) s == GetMarketSummary(t) IN
        /\ \A n \in 1..One + 1 : LET d == GetDepth(b, n) IN
              /\ IsPrefix(d.bids, GetAllBids(b)) /\ IsPrefix(d.asks, GetAllAsks(b))
              /\ Len(d.bids) = (IF s.bidCount < n THEN s.bidCount ELSE n)
              /\ Len(d.asks) = (IF s.askCount < n THEN s.askCount ELSE n)
              /\ s.bestBid # Absent => d.bids[1] = s.bestBid
              /\ s.bestAsk # Absent => d.asks[1] = s.bestAsk
        /\ \A p \in Prices : /\ IsPrefix(ScanBidsAbove(b, p), GetAllBids(b))
                             /\ IsPrefix(ScanAsksBelow(b, p), GetAllAsks(b))
        /\ s.bestBid # Absent => ScanBidsAbove(b, s.bestBid) = <<s.bestBid>>
        /\ IsEmpty(b) <=> s.bestBid = Absent /\ s.bestAsk = Absent

\* A validation that finds no difference leaves a book that is the answer: no
\* level escapes countDifferences, which the API lists and the book lacks or the
\* other way round.
ValidMeansEqual ==
    \A t \in Tokens, answer \in Answers :
        /\ CountDifferences(BookOf(t).bids, answer) = 0 => Positive(answer) = BookOf(t).bids
        /\ CountDifferences(BookOf(t).asks, answer) = 0 => Positive(answer) = BookOf(t).asks

\* HealthCheck and GetHealthStatus differ only about a book without a timestamp,
\* which the first calls stale and the second healthy.  But for that, whichever book
\* the iteration starts with, a healthy answer has a healthy book behind it and an
\* unhealthy one a book that is not; only a manager that has both may give either.
HealthAgrees ==
    \A connected \in BOOLEAN, age \in [Tokens -> Ages] :
        LET answers == HealthCheck(connected, age)
            status == GetHealthStatus(age)
            unset == \E t \in Ready : age[t] = "unset"
        IN  /\ TRUE \in answers => connected /\ (status.healthy > 0 \/ status.count = 0)
            /\ connected /\ FALSE \in answers => status.healthy < status.count \/ unset
            /\ answers = BOOLEAN => status.healthy > 0 /\ (status.stale > 0 \/ unset)
            /\ status.healthy + status.stale + status.uninitialized = status.count
=============================================================================
