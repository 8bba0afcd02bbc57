--------------------------- MODULE Manager_proof ---------------------------
(***************************************************************************)
(* Theorems about Manager and Quotes, for every tick, size bound and       *)
(* capacity.                                                               *)
(***************************************************************************)
EXTENDS Quotes, FiniteSetTheorems, WellFoundedInduction, TLAPS

-----------------------------------------------------------------------------
(* The mirror rule.                                                        *)

\* Mirroring a price twice gives it back, and stays within the prices.
LEMMA MirrorPriceInvolution ==
  ASSUME NEW p \in Prices
  PROVE  MirrorPrice(p) \in Prices /\ MirrorPrice(MirrorPrice(p)) = p
  BY BooksAssumption DEF Prices, MirrorPrice

\* An initialized book stays a book under a diff.
LEMMA DiffIsBook ==
  ASSUME NEW b \in Book, NEW side \in Sides, NEW p \in Prices, NEW z \in Sizes
  PROVE  DiffBook(b, side, p, z) \in Book
  BY DEF Book, DiffBook, Levels

\* Writing a level and its mirror into two mirrored books keeps them mirrored.
LEMMA DiffMirror ==
  ASSUME NEW b \in Book, NEW c \in Book, b.initialized, c.initialized,
         NEW side \in Sides, NEW p \in Prices, NEW z \in Sizes,
         \A q \in Prices : c.bids[q] = b.asks[MirrorPrice(q)] /\ c.asks[q] = b.bids[MirrorPrice(q)]
  PROVE  LET b2 == DiffBook(b, side, p, z)
             c2 == DiffBook(c, MirrorSide(side), MirrorPrice(p), z)
         IN  \A q \in Prices : c2.bids[q] = b2.asks[MirrorPrice(q)] /\ c2.asks[q] = b2.bids[MirrorPrice(q)]
<1>1. \A q \in Prices : MirrorPrice(q) \in Prices /\ (MirrorPrice(q) = p <=> q = MirrorPrice(p))
  BY BooksAssumption DEF Prices, MirrorPrice
<1>2. CASE side = "bids"
  BY <1>1, <1>2 DEF DiffBook, MirrorSide, Book, Levels
<1>3. CASE side = "asks"
  BY <1>1, <1>3 DEF DiffBook, MirrorSide, Book, Levels
<1> QED  BY <1>2, <1>3 DEF Sides

-----------------------------------------------------------------------------
(* The notification channel.                                               *)

\* After the second select there is room in the channel: m.mu keeps every
\* other sender out, and the consumer only makes more room.
Room == /\ sending # "send" => outbox # <<>>
        /\ sending = "retry" => Len(updates) < Capacity

IInv == TypeOK /\ UninitializedIsEmpty /\ NoMissedUpdate /\ Room

LEMMA BookFacts ==
  /\ EmptyBook \in Book /\ ~EmptyBook.initialized
  /\ \A bids, asks \in Answers : /\ SnapshotBook(bids, asks) \in Book
                                 /\ SnapshotBook(bids, asks).initialized
<1>1. \A answer \in Answers : Positive(answer) \in Levels
  BY BooksAssumption DEF Positive, Answers, Levels, Sizes
<1>2. EmptySide \in Levels
  BY BooksAssumption DEF EmptySide, Levels, Sizes
<1> QED
  BY <1>1, <1>2 DEF EmptyBook, SnapshotBook, Book

\* An initialized book stays initialized under a diff, another one unchanged.
LEMMA DiffFlag ==
  ASSUME NEW b \in Book, NEW side \in Sides, NEW p \in Prices, NEW z \in Sizes
  PROVE  LET d == DiffBook(b, side, p, z)
         IN  d.initialized = b.initialized /\ (~b.initialized => d = b)
  BY DEF Book, DiffBook, Levels

LEMMA MirrorArguments ==
  ASSUME NEW t \in Tokens, NEW side \in Sides
  PROVE  MirrorToken(t) \in Tokens \ {t} /\ MirrorSide(side) \in Sides
  BY DEF MirrorToken, MirrorSide, Tokens, Sides

\* What sendUpdate is given fits the outbox.
LEMMA OutboxFacts ==
  ASSUME NEW t \in Tokens, NEW u \in Tokens
  PROVE  /\ <<t>> \in Seq(Tokens) /\ Len(<<t>>) = 1 /\ <<t>> # <<>>
         /\ <<t, u>> \in Seq(Tokens) /\ Len(<<t, u>>) = 2 /\ <<t, u>> # <<>>
  OBVIOUS

\* A handler that changes books properly and notifies keeps the invariant.
LEMMA NotifyKeeps ==
  ASSUME IInv, Free, outbox' \in Seq(Tokens), outbox' # <<>>, Len(outbox') <= 2,
         unseen' \subseteq Tokens, UNCHANGED <<paired, updates, stopped, sending, panicked, reading>>,
         DOMAIN books' \subseteq Tokens, books' \in [DOMAIN books' -> Book],
         UninitializedIsEmpty'
  PROVE  IInv'
  BY DEF IInv, TypeOK, NoMissedUpdate, Room, Free

\* One that notifies nobody leaves the books it changes uninitialized.
LEMMA SilentKeeps ==
  ASSUME IInv, NEW changed \in SUBSET Tokens, Silently(changed),
         DOMAIN books' \subseteq Tokens, books' \in [DOMAIN books' -> Book],
         \A u \in DOMAIN books' : \/ u \in changed /\ books'[u] = EmptyBook
                                  \/ u \in DOMAIN books \ changed /\ books'[u] = books[u]
  PROVE  IInv'
<1>1. UninitializedIsEmpty'
  BY BookFacts DEF IInv, UninitializedIsEmpty
<1>2. \A u \in Tokens : Initialized(u)' => Initialized(u) /\ u \notin changed
  BY BookFacts DEF Initialized
<1>3. NoMissedUpdate'
  <2> SUFFICES ASSUME NEW u \in unseen', Initialized(u)'
               PROVE  updates' # <<>> \/ outbox' # <<>> \/ u \in reading'
    BY DEF NoMissedUpdate
  <2>1. u \in Tokens /\ u \in unseen /\ Initialized(u)
    BY <1>2 DEF Silently, IInv, TypeOK
  <2> QED  BY <2>1 DEF Silently, sendVars, IInv, NoMissedUpdate
<1> QED  BY <1>1, <1>3 DEF IInv, TypeOK, Room, Silently, sendVars

LEMMA HandleKeeps == ASSUME IInv, Handle PROVE IInv'
<1> USE DEF IInv, TypeOK, UninitializedIsEmpty
<1>1. CASE RegisterMarketTokenPair
  BY <1>1 DEF RegisterMarketTokenPair, NoMissedUpdate, Initialized, Room, sendVars, consumerVars
<1>2. CASE ClearAllOrderBooks
  <2>1. DOMAIN books \in SUBSET Tokens /\ Silently(DOMAIN books)
        /\ books' = [t \in DOMAIN books |-> EmptyBook]
    BY <1>2 DEF ClearAllOrderBooks
  <2> HIDE DEF IInv, TypeOK, UninitializedIsEmpty
  <2> QED  BY <2>1, SilentKeeps, BookFacts
<1>3. ASSUME NEW t \in Tokens, NEW bids \in Answers, NEW asks \in Answers, ApplySnapshot(t, bids, asks)
      PROVE  IInv'
  <2>1. SnapshotBook(bids, asks) \in Book /\ SnapshotBook(bids, asks).initialized
    BY BookFacts
  <2>2. /\ DOMAIN books' \subseteq Tokens /\ books' \in [DOMAIN books' -> Book]
        /\ UninitializedIsEmpty'
    BY <1>3, <2>1 DEF ApplySnapshot
  <2>3. Free /\ Notify(<<t>>, {t})
    BY <1>3 DEF ApplySnapshot
  <2>4. /\ outbox' \in Seq(Tokens) /\ outbox' # <<>> /\ Len(outbox') <= 2
        /\ unseen' \subseteq Tokens
        /\ UNCHANGED <<paired, updates, stopped, sending, panicked, reading>>
    BY <2>3, OutboxFacts DEF Notify
  <2> HIDE DEF IInv, TypeOK, UninitializedIsEmpty
  <2> QED  BY <2>2, <2>3, <2>4, NotifyKeeps
<1>4. ASSUME NEW t \in Tokens, NEW side \in Sides, NEW p \in Prices, NEW z \in Sizes,
             HandleDepthDiff(t, side, p, z)
      PROVE  IInv'
  <2> DEFINE m == MirrorToken(t)
             both == paired /\ Initialized(m)
             d == DiffBook(books[t], side, p, z)
             e == DiffBook(books[m], MirrorSide(side), MirrorPrice(p), z)
  <2>1. t \in DOMAIN books /\ m \in Tokens /\ m # t
    BY <1>4, MirrorArguments DEF HandleDepthDiff, Initialized
  <2>2. d \in Book /\ (~d.initialized => d = EmptyBook)
    BY <2>1, DiffIsBook, DiffFlag
  <2>3. both => m \in DOMAIN books /\ e \in Book /\ (~e.initialized => e = EmptyBook)
    <3> SUFFICES ASSUME both PROVE m \in DOMAIN books /\ e \in Book /\ (~e.initialized => e = EmptyBook)
      OBVIOUS
    <3>1. m \in DOMAIN books /\ books[m] \in Book /\ books[m].initialized
      BY DEF Initialized
    <3> QED  BY <3>1, MirrorArguments, MirrorPriceInvolution, DiffIsBook, DiffFlag
  <2>4. books' = [u \in DOMAIN books |-> CASE u = t -> d [] u = m /\ both -> e [] OTHER -> books[u]]
    BY <1>4 DEF HandleDepthDiff
  <2> HIDE DEF d, e, both, m
  <2>5. \A u \in DOMAIN books : \/ u = t /\ books'[u] = d
                                \/ u = m /\ both /\ books'[u] = e
                                \/ books'[u] = books[u]
    BY <2>1, <2>4
  <2>6. /\ DOMAIN books' = DOMAIN books /\ books' \in [DOMAIN books' -> Book]
        /\ UninitializedIsEmpty'
    BY <2>2, <2>3, <2>4, <2>5
  <2>7. Notify(<<t, m>>, {t, m}) \/ Notify(<<t>>, {t})
    BY <1>4 DEF HandleDepthDiff, both, m
  <2>8. /\ outbox' \in Seq(Tokens) /\ outbox' # <<>> /\ Len(outbox') <= 2
        /\ unseen' \subseteq Tokens
        /\ UNCHANGED <<paired, updates, stopped, sending, panicked, reading>>
    <3>1. /\ <<t, m>> \in Seq(Tokens) /\ <<t, m>> # <<>> /\ Len(<<t, m>>) = 2
          /\ <<t>> \in Seq(Tokens) /\ <<t>> # <<>> /\ Len(<<t>>) = 1
          /\ {t, m} \subseteq Tokens /\ {t} \subseteq Tokens /\ unseen \subseteq Tokens
      BY <2>1, OutboxFacts
    <3>2. /\ \/ outbox' = <<t, m>> /\ unseen' = unseen \union {t, m}
             \/ outbox' = <<t>> /\ unseen' = unseen \union {t}
          /\ UNCHANGED <<paired, updates, stopped, sending, panicked, reading>>
      BY <2>7 DEF Notify
    <3>3. CASE outbox' = <<t, m>> /\ unseen' = unseen \union {t, m}
      BY <3>1, <3>2, <3>3
    <3>4. CASE outbox' = <<t>> /\ unseen' = unseen \union {t}
      BY <3>1, <3>2, <3>4
    <3> QED  BY <3>2, <3>3, <3>4
  <2>9. Free
    BY <1>4 DEF HandleDepthDiff
  <2> HIDE DEF IInv, TypeOK, UninitializedIsEmpty
  <2>10. IInv /\ DOMAIN books' \subseteq Tokens
    BY <2>6 DEF IInv, TypeOK
  <2> QED  BY <2>6, <2>8, <2>9, <2>10, NotifyKeeps
<1>5. ASSUME NEW t \in Tokens, ClearOrderBook(t) PROVE IInv'
  <2>1. /\ {t} \in SUBSET Tokens /\ Silently({t})
        /\ DOMAIN books' \subseteq Tokens /\ books' \in [DOMAIN books' -> Book]
        /\ \A u \in DOMAIN books' : \/ u \in {t} /\ books'[u] = EmptyBook
                                    \/ u \in DOMAIN books \ {t} /\ books'[u] = books[u]
    BY <1>5, BookFacts DEF ClearOrderBook
  <2> HIDE DEF IInv, TypeOK, UninitializedIsEmpty
  <2> QED  BY <2>1, SilentKeeps
<1>6. ASSUME NEW t \in Tokens, RemoveOrderBook(t) PROVE IInv'
  <2>1. /\ {t} \in SUBSET Tokens /\ Silently({t})
        /\ DOMAIN books' \subseteq Tokens /\ books' \in [DOMAIN books' -> Book]
        /\ \A u \in DOMAIN books' : \/ u \in {t} /\ books'[u] = EmptyBook
                                    \/ u \in DOMAIN books \ {t} /\ books'[u] = books[u]
    BY <1>6, BookFacts DEF RemoveOrderBook
  <2> HIDE DEF IInv, TypeOK, UninitializedIsEmpty
  <2> QED  BY <2>1, SilentKeeps
<1>7. ASSUME NEW t \in Tokens, GetOrCreateOrderBook(t) PROVE IInv'
  <2>1. /\ {t} \in SUBSET Tokens /\ Silently({t})
        /\ DOMAIN books' \subseteq Tokens /\ books' \in [DOMAIN books' -> Book]
        /\ \A u \in DOMAIN books' : \/ u \in {t} /\ books'[u] = EmptyBook
                                    \/ u \in DOMAIN books \ {t} /\ books'[u] = books[u]
    BY <1>7, BookFacts DEF GetOrCreateOrderBook
  <2> HIDE DEF IInv, TypeOK, UninitializedIsEmpty
  <2> QED  BY <2>1, SilentKeeps
<1> QED  BY <1>1, <1>2, <1>3, <1>4, <1>5, <1>6, <1>7 DEF Handle

\* The sends, the consumer and Stop.
LEMMA SendKeeps ==
  ASSUME IInv, SendUpdate \/ Consume \/ (\E t \in Tokens : Read(t)) \/ Stop
  PROVE  IInv'
<1> USE ManagerAssumption DEF IInv, TypeOK, UninitializedIsEmpty, NoMissedUpdate, Initialized,
        Room, sendVars, consumerVars
<1>1. CASE SendPanics  BY <1>1 DEF SendPanics
<1>2. CASE SendTry
  <2>1. CASE Len(updates) < Capacity
    <3>1. /\ outbox # <<>> /\ Head(outbox) \in Tokens
          /\ Tail(outbox) \in Seq(Tokens) /\ Len(Tail(outbox)) <= 2
      BY <1>2 DEF SendTry
    <3>2. /\ Append(updates, Head(outbox)) \in Seq(Tokens)
          /\ Append(updates, Head(outbox)) # <<>>
          /\ Len(Append(updates, Head(outbox))) <= Capacity
      <4>1. updates \in Seq(Tokens) /\ Len(updates) \in Nat
        OBVIOUS
      <4>2. /\ Append(updates, Head(outbox)) \in Seq(Tokens)
            /\ Len(Append(updates, Head(outbox))) = Len(updates) + 1
        BY <3>1, <4>1
      <4>3. \A s \in Seq(Tokens) : Len(s) # 0 => s # <<>>
        OBVIOUS
      <4> HIDE DEF IInv, TypeOK, UninitializedIsEmpty, NoMissedUpdate, Room
      <4> QED  BY <2>1, <4>1, <4>2, <4>3, ManagerAssumption
    <3>3. /\ updates' = Append(updates, Head(outbox))
          /\ outbox' = Tail(outbox) /\ sending' = "send"
          /\ UNCHANGED <<paired, books, stopped, panicked, reading, unseen>>
      BY <1>2, <2>1 DEF SendTry, Sent
    <3> QED  BY <3>1, <3>2, <3>3
  <2>2. CASE ~(Len(updates) < Capacity)
    BY <1>2, <2>2 DEF SendTry
  <2> QED  BY <2>1, <2>2
<1>3. CASE SendDrop  BY <1>3 DEF SendDrop
<1>4. CASE SendRetry  BY <1>4 DEF SendRetry, Sent
<1>5. CASE Consume  BY <1>5 DEF Consume
<1>6. ASSUME NEW t \in Tokens, Read(t) PROVE IInv'
  BY <1>6 DEF Read
<1>7. CASE Stop  BY <1>7 DEF Stop
<1> QED  BY <1>1, <1>2, <1>3, <1>4, <1>5, <1>6, <1>7 DEF SendUpdate

\* No handler takes notifications away from the outbox.
LEMMA OutboxShrinksNot == ASSUME IInv, Handle PROVE ~(Len(outbox') < Len(outbox))
<1>1. outbox = <<>> /\ Len(outbox) = 0
  BY DEF Handle, Free, RegisterMarketTokenPair, ClearAllOrderBooks, ApplySnapshot,
         HandleDepthDiff, ClearOrderBook, RemoveOrderBook, GetOrCreateOrderBook
<1>2. outbox' \in Seq(Tokens)
  BY HandleKeeps DEF IInv, TypeOK
<1> QED  BY <1>1, <1>2

\* Mirrored, level by level, seen from either token.
LEMMA MirroredMeans ==
  ASSUME Mirrored, books["YES"] \in Book, books["NO"] \in Book
  PROVE  \A q \in Prices :
            /\ books["NO"].bids[q] = books["YES"].asks[MirrorPrice(q)]
            /\ books["NO"].asks[q] = books["YES"].bids[MirrorPrice(q)]
            /\ books["YES"].bids[q] = books["NO"].asks[MirrorPrice(q)]
            /\ books["YES"].asks[q] = books["NO"].bids[MirrorPrice(q)]
  BY MirrorPriceInvolution DEF Mirrored, MirrorOf, Book, Levels

LEMMA MirroredFrom ==
  ASSUME books["YES"]' \in Book, books["NO"]' \in Book,
         \/ \A q \in Prices : /\ books["NO"].bids[q]' = books["YES"].asks[MirrorPrice(q)]'
                              /\ books["NO"].asks[q]' = books["YES"].bids[MirrorPrice(q)]'
         \/ \A q \in Prices : /\ books["YES"].bids[q]' = books["NO"].asks[MirrorPrice(q)]'
                              /\ books["YES"].asks[q]' = books["NO"].bids[MirrorPrice(q)]'
  PROVE  Mirrored'
  BY MirrorPriceInvolution DEF Mirrored, MirrorOf, Book, Levels

\* The manager's inductive invariant: what TypeOK, UninitializedIsEmpty and NoMissedUpdate
\* need of each other, and of the room in the channel.
THEOREM Invariance == Spec => []IInv
<1>1. Init => IInv
  <2> SUFFICES ASSUME Init PROVE IInv
    OBVIOUS
  <2>1. /\ DOMAIN books = {} /\ books \in [DOMAIN books -> Book]
        /\ updates = <<>> /\ outbox = <<>> /\ unseen = {} /\ sending = "send"
        /\ ~paired /\ ~stopped /\ ~panicked /\ reading = {}
    BY DEF Init
  <2>2. Len(<<>>) = 0 /\ <<>> \in Seq(Tokens)
    OBVIOUS
  <2>3. TypeOK
    <3>1. updates \in Seq(Tokens) /\ Len(updates) <= Capacity
          /\ outbox \in Seq(Tokens) /\ Len(outbox) <= 2
      BY <2>1, <2>2, ManagerAssumption
    <3>2. {paired, stopped, panicked} \subseteq BOOLEAN /\ reading \subseteq Tokens
      BY DEF Init
    <3> QED  BY <2>1, <3>1, <3>2 DEF TypeOK
  <2> QED  BY <2>1, <2>3 DEF IInv, UninitializedIsEmpty, NoMissedUpdate, Room
<1>2. IInv /\ UNCHANGED vars => IInv'
  BY DEF IInv, TypeOK, UninitializedIsEmpty, NoMissedUpdate, Initialized, Room, vars, sendVars,
         consumerVars
<1>3. IInv /\ [Next]_vars => IInv'
  BY <1>2, HandleKeeps, SendKeeps DEF Next
<1> QED  BY <1>1, <1>3, PTL DEF Spec

\* The notification just sent is at the end of the channel, never dropped.
THEOREM NewestArrives == Spec => NewestIsSent
<1>1. ASSUME IInv, [Next]_vars, Len(outbox') < Len(outbox)
      PROVE  updates' # <<>> /\ updates'[Len(updates')] = Head(outbox)
  <2>1. SendTry \/ SendRetry
    <3>1. CASE Handle
      BY <1>1, <3>1, OutboxShrinksNot
    <3>2. CASE UNCHANGED vars
      BY <1>1, <3>2 DEF IInv, TypeOK, vars, sendVars
    <3>3. CASE SendPanics \/ SendDrop \/ Consume \/ (\E t \in Tokens : Read(t)) \/ Stop
      BY <1>1, <3>3 DEF IInv, TypeOK, SendPanics, SendDrop, Consume, Read, Stop, sendVars
    <3> QED  BY <1>1, <3>1, <3>2, <3>3 DEF Next, SendUpdate
  <2>2. /\ Len(updates) < Capacity
        /\ updates' = Append(updates, Head(outbox))
    BY <1>1, <2>1 DEF IInv, TypeOK, Room, SendTry, SendRetry
  <2>3. updates \in Seq(Tokens) /\ outbox \in Seq(Tokens) /\ outbox # <<>>
    BY <1>1, <2>1 DEF IInv, TypeOK, Room, SendTry, SendRetry
  <2> QED  BY <2>2, <2>3
<1> QED  BY Invariance, <1>1, PTL DEF Spec, NewestIsSent

\* A diff for one token of a registered pair keeps the two books mirrored.
THEOREM DiffsMirror == Spec => DiffKeepsMirror
<1>1. ASSUME IInv, NEW t \in Tokens, NEW side \in Sides, NEW p \in Prices, NEW z \in Sizes,
             HandleDepthDiff(t, side, p, z), paired, Initialized("YES"), Initialized("NO"), Mirrored
      PROVE  Mirrored'
  <2> DEFINE m == MirrorToken(t)
  <2>1. /\ t \in DOMAIN books /\ m \in DOMAIN books /\ m # t
        /\ books[t] \in Book /\ books[t].initialized
        /\ books[m] \in Book /\ books[m].initialized
    BY <1>1 DEF IInv, TypeOK, Initialized, MirrorToken, Tokens
  <2>2. /\ books'[t] = DiffBook(books[t], side, p, z)
        /\ books'[m] = DiffBook(books[m], MirrorSide(side), MirrorPrice(p), z)
    BY <1>1, <2>1 DEF HandleDepthDiff, Initialized
  <2>3. \A q \in Prices : /\ books[m].bids[q] = books[t].asks[MirrorPrice(q)]
                          /\ books[m].asks[q] = books[t].bids[MirrorPrice(q)]
    BY <1>1, MirroredMeans DEF MirrorToken, Tokens, IInv, TypeOK, Initialized
  <2>4. \A q \in Prices : /\ books'[m].bids[q] = books'[t].asks[MirrorPrice(q)]
                          /\ books'[m].asks[q] = books'[t].bids[MirrorPrice(q)]
    BY <2>1, <2>2, <2>3, DiffMirror
  <2>5. books'[t] \in Book /\ books'[m] \in Book
    BY <2>1, <2>2, DiffIsBook, MirrorArguments, MirrorPriceInvolution
  <2>6. CASE t = "YES"
    BY <2>4, <2>5, <2>6, MirroredFrom DEF MirrorToken
  <2>7. CASE t = "NO"
    BY <2>4, <2>5, <2>7, MirroredFrom DEF MirrorToken
  <2> QED  BY <2>6, <2>7 DEF Tokens
<1>2. IInv /\ [Next]_vars =>
        [paired /\ Initialized("YES") /\ Initialized("NO") /\ Mirrored =>
            \A t \in Tokens, side \in Sides, p \in Prices, z \in Sizes :
                HandleDepthDiff(t, side, p, z) => Mirrored']_vars
  BY <1>1
<1> QED  BY Invariance, <1>2, PTL DEF Spec, DiffKeepsMirror

\* A book that is not initialized shows no level.
THEOREM UninitializedShowsNothing == Spec => []UninitializedIsEmpty
<1>1. IInv => UninitializedIsEmpty
  BY DEF IInv
<1> QED  BY Invariance, <1>1, PTL

\* Dropping notifications never leaves a consumer with an old view of an initialized
\* book.
THEOREM WakeUps == Spec => []NoMissedUpdate
<1>1. IInv => NoMissedUpdate
  BY DEF IInv
<1> QED  BY Invariance, <1>1, PTL

\* The variables keep their types: updateChan holds no more than its capacity, and a
\* handler has at most two notifications to send.
THEOREM TypeCorrect == Spec => []TypeOK
<1>1. IInv => TypeOK
  BY DEF IInv
<1> QED  BY Invariance, <1>1, PTL

-----------------------------------------------------------------------------
(* What is read from the books.                                            *)

\* Prices are finitely many, so nothing but an empty set of differences counts as 0.
LEMMA NothingDiffers ==
  ASSUME NEW side \in [Prices -> Sizes], NEW answer \in Answers, CountDifferences(side, answer) = 0
  PROVE  /\ \A p \in Orders(side) : answer[p] = side[p]
         /\ \A p \in Prices \ Orders(side) : answer[p] = Absent
<1> DEFINE D == {p \in Orders(side) : answer[p] # side[p]}
           N == {p \in Prices \ Orders(side) : answer[p] # Absent}
<1>1. IsFiniteSet(Prices)
  BY FS_Interval, BooksAssumption DEF Prices
<1>2. IsFiniteSet(D) /\ IsFiniteSet(N)
  BY <1>1, FS_Subset DEF Orders
<1>3. Cardinality(D) \in Nat /\ Cardinality(N) \in Nat /\ Cardinality(D) + Cardinality(N) = 0
  BY <1>2, FS_CardinalityType DEF CountDifferences
<1>4. D = {} /\ N = {}
  BY <1>2, <1>3, FS_EmptySet
<1> QED
  BY <1>4

\* sdk.go's validation calls a book valid only if it is the API's.
THEOREM ValidIsEqual == Spec => []ValidMeansEqual
<1>1. ASSUME IInv, NEW t \in Tokens, NEW answer \in Answers
      PROVE  \A side \in [Prices -> Sizes] :
                CountDifferences(side, answer) = 0 => Positive(answer) = side
  <2> SUFFICES ASSUME NEW side \in [Prices -> Sizes], CountDifferences(side, answer) = 0
               PROVE  Positive(answer) = side
    OBVIOUS
  <2>1. /\ \A p \in Orders(side) : answer[p] = side[p]
        /\ \A p \in Prices \ Orders(side) : answer[p] = Absent
    BY NothingDiffers
  <2>2. \A p \in Prices : Positive(answer)[p] = side[p]
    <3>1. \A p \in Prices : side[p] # Absent
      BY BooksAssumption DEF Sizes
    <3>2. \A p \in Prices \ Orders(side) : side[p] = 0
      BY DEF Orders
    <3> QED  BY <2>1, <3>1, <3>2 DEF Positive
  <2>3. /\ Positive(answer) = [p \in Prices |-> Positive(answer)[p]]
        /\ side = [p \in Prices |-> side[p]]
    BY DEF Positive
  <2> QED  BY <2>2, <2>3
<1>2. IInv => ValidMeansEqual
  <2> SUFFICES ASSUME IInv, NEW t \in Tokens
               PROVE  BookOf(t).bids \in [Prices -> Sizes] /\ BookOf(t).asks \in [Prices -> Sizes]
    BY <1>1 DEF ValidMeansEqual
  <2> QED
    BY BookFacts DEF IInv, TypeOK, BookOf, Book, Levels
<1> QED  BY Invariance, <1>2, PTL

\* How the books divide into those not initialized, stale and healthy.
LEMMA HealthCounts ==
  ASSUME IInv, NEW age \in [Tokens -> Ages]
  PROVE  LET status == GetHealthStatus(age)
         IN  /\ {status.count, status.uninitialized, status.stale, status.healthy} \subseteq Nat
             /\ status.healthy + status.stale + status.uninitialized = status.count
             /\ status.count = 0 <=> DOMAIN books = {}
             /\ status.stale = 0 <=> \A t \in Ready : age[t] # "old"
             /\ status.healthy = 0 <=> \A t \in Ready : age[t] = "old"
<1> DEFINE D == DOMAIN books
           R == Ready
           O == {t \in Ready : age[t] = "old"}
           H == {t \in Ready : age[t] # "old"}
<1>1. IsFiniteSet(D) /\ R \subseteq D
  <2>1. IsFiniteSet(Tokens)
    <3>1. IsFiniteSet({"YES"}) /\ IsFiniteSet({"NO"})
      BY FS_Singleton
    <3>2. Tokens = {"YES"} \union {"NO"}
      BY DEF Tokens
    <3> QED  BY <3>1, <3>2, FS_Union
  <2> QED  BY <2>1, FS_Subset DEF IInv, TypeOK, Ready
<1>2. /\ O \subseteq R /\ H = R \ O
      /\ O = {} <=> \A t \in Ready : age[t] # "old"
      /\ H = {} <=> \A t \in Ready : age[t] = "old"
  OBVIOUS
<1> DEFINE status == GetHealthStatus(age)
<1>3. /\ status.count = Cardinality(D) /\ status.uninitialized = Cardinality(D \ R)
      /\ status.stale = Cardinality(O) /\ status.healthy = Cardinality(H)
  BY DEF GetHealthStatus
<1> HIDE DEF D, R, O, H, status
<1>4. IsFiniteSet(R) /\ IsFiniteSet(D \ R) /\ IsFiniteSet(O) /\ IsFiniteSet(H)
  BY <1>1, <1>2, FS_Subset
<1>5. /\ Cardinality(D) \in Nat /\ Cardinality(R) \in Nat /\ Cardinality(D \ R) \in Nat
      /\ Cardinality(O) \in Nat /\ Cardinality(H) \in Nat
  BY <1>1, <1>4, FS_CardinalityType
<1>6. D \intersect R = R /\ R \intersect O = O
  BY <1>1, <1>2
<1>7. Cardinality(D \ R) = Cardinality(D) - Cardinality(R)
  <2>1. Cardinality(D \ R) = Cardinality(D) - Cardinality(D \intersect R)
    BY <1>1, FS_Difference
  <2> QED  BY <1>6, <2>1
<1>8. Cardinality(H) = Cardinality(R) - Cardinality(O)
  BY <1>2, <1>4, <1>6, FS_Difference
<1>9. /\ Cardinality(D) = 0 <=> D = {}
      /\ Cardinality(O) = 0 <=> O = {}
      /\ Cardinality(H) = 0 <=> H = {}
  BY <1>1, <1>4, FS_EmptySet
<1>10. /\ {status.count, status.uninitialized, status.stale, status.healthy} \subseteq Nat
       /\ status.healthy + status.stale + status.uninitialized = status.count
  BY <1>3, <1>5, <1>7, <1>8
<1>11. /\ status.count = 0 <=> D = {}
       /\ status.stale = 0 <=> \A t \in Ready : age[t] # "old"
       /\ status.healthy = 0 <=> \A t \in Ready : age[t] = "old"
  BY <1>2, <1>3, <1>9
<1> QED  BY <1>10, <1>11 DEF status, D

\* HealthCheck and GetHealthStatus differ only about a book without a timestamp.
THEOREM HealthChecksAgree == Spec => []HealthAgrees
<1>1. IInv => HealthAgrees
  <2> SUFFICES ASSUME IInv, NEW connected \in BOOLEAN, NEW age \in [Tokens -> Ages]
               PROVE  LET answers == HealthCheck(connected, age)
                          status == GetHealthStatus(age)
                          unset == \E t \in Ready : age[t] = "unset"
                      IN  /\ TRUE \in answers => connected /\ (status.healthy > 0 \/ status.count = 0)
                          /\ connected /\ FALSE \in answers => status.healthy < status.count \/ unset
                          /\ answers = BOOLEAN => status.healthy > 0 /\ (status.stale > 0 \/ unset)
                          /\ status.healthy + status.stale + status.uninitialized = status.count
    BY DEF HealthAgrees
  <2> DEFINE answers == HealthCheck(connected, age)
             status == GetHealthStatus(age)
             unset == \E t \in Ready : age[t] = "unset"
  <2>1. /\ {status.count, status.uninitialized, status.stale, status.healthy} \subseteq Nat
        /\ status.healthy + status.stale + status.uninitialized = status.count
        /\ status.count = 0 <=> DOMAIN books = {}
        /\ status.stale = 0 <=> \A t \in Ready : age[t] # "old"
        /\ status.healthy = 0 <=> \A t \in Ready : age[t] = "old"
    BY HealthCounts
  <2>2. \A t \in Ready : age[t] \in Ages
    BY DEF Ready, IInv, TypeOK
  <2>3. TRUE \in answers =>
           connected /\ (DOMAIN books = {} \/ \E t \in Ready : age[t] = "fresh")
    BY DEF HealthCheck
  <2>4. connected /\ FALSE \in answers =>
           DOMAIN books # {} /\ (Ready = {} \/ \E t \in Ready : age[t] # "fresh")
    BY DEF HealthCheck
  <2>5. answers = BOOLEAN => /\ \E t \in Ready : age[t] = "fresh"
                             /\ \E t \in Ready : age[t] # "fresh"
    BY DEF HealthCheck
  <2>6. ASSUME \E t \in Ready : age[t] # "fresh" PROVE status.stale > 0 \/ unset
    <3>1. \/ \E t \in Ready : age[t] = "old"
          \/ \E t \in Ready : age[t] = "unset"
      BY <2>2, <2>6 DEF Ages
    <3> HIDE DEF status
    <3> QED  BY <2>1, <3>1
  <2> HIDE DEF answers, status, unset
  <2>7. TRUE \in answers => connected /\ (status.healthy > 0 \/ status.count = 0)
    BY <2>1, <2>3
  <2>8. connected /\ FALSE \in answers => status.healthy < status.count \/ unset
    <3>1. Ready = {} => status.healthy = 0
      BY <2>1
    <3> QED  BY <2>1, <2>4, <2>6, <3>1
  <2>9. answers = BOOLEAN => status.healthy > 0 /\ (status.stale > 0 \/ unset)
    BY <2>1, <2>5, <2>6
  <2> QED  BY <2>1, <2>7, <2>8, <2>9 DEF answers, status, unset
<1> QED  BY Invariance, <1>1, PTL

-----------------------------------------------------------------------------
(* Least elements.                                                         *)

\* A set of numbers has a least one.
LEMMA Least ==
  ASSUME NEW T, T \subseteq Nat, T # {}
  PROVE  \E n \in T : \A m \in T : n <= m
<1> DEFINE R == OpToRel(<, Nat)
<1>1. \A x, y \in Nat : <<y, x>> \in R <=> y < x
  BY DEF OpToRel
<1>2. IsWellFoundedOn(R, Nat)
  BY NatLessThanWellFounded
<1> HIDE DEF R
<1>3. \E x \in T : \A y \in T : ~ (<<y, x>> \in R)
  BY <1>2, WFMin, Zenon
<1>4. PICK n \in T : \A m \in T : ~ (<<m, n>> \in R)
  BY <1>3
<1>5. \A m \in T : n <= m
  <2> TAKE m \in T
  <2>1. m \in Nat /\ n \in Nat
    OBVIOUS
  <2>2. ~(m < n)
    BY <1>1, <1>4, <2>1, Zenon
  <2> QED  BY <2>1, <2>2
<1> QED  BY <1>5

\* Induction over a finite set: of some of its subsets, one loses its place among
\* them with any element it loses.
LEMMA SmallestSubset ==
  ASSUME NEW S, IsFiniteSet(S), NEW Bad \in SUBSET (SUBSET S), Bad # {}
  PROVE  \E s \in Bad : \A x \in s : s \ {x} \notin Bad
<1> DEFINE T == {Cardinality(s) : s \in Bad}
<1>1. \A s \in Bad : IsFiniteSet(s) /\ Cardinality(s) \in Nat
  BY FS_Subset, FS_CardinalityType
<1>2. PICK n \in T : \A m \in T : n <= m
  <2>1. T \subseteq Nat /\ T # {}
    BY <1>1
  <2> HIDE DEF T
  <2> QED  BY <2>1, Least
<1>3. PICK s \in Bad : Cardinality(s) = n
  OBVIOUS
<1>4. ASSUME NEW x \in s, s \ {x} \in Bad PROVE FALSE
  <2>1. Cardinality(s \ {x}) = Cardinality(s) - 1
    BY <1>1, FS_RemoveElement
  <2>2. Cardinality(s \ {x}) \in T
    BY <1>4
  <2>3. n <= Cardinality(s \ {x})
    BY <1>2, <2>2
  <2> HIDE DEF T
  <2> QED  BY <1>1, <1>3, <2>1, <2>3
<1> QED  BY <1>4

-----------------------------------------------------------------------------
(* Sorting.  An order of the prices is the set of the pairs of which the first *)
(* comes before the second.                                                *)

\* Of two prices exactly one is before the other, and this is transitive.
IsOrder(before) ==
    /\ \A p \in Prices : <<p, p>> \notin before
    /\ \A p, q \in Prices : p # q => <<p, q>> \in before \/ <<q, p>> \in before
    /\ \A p, q, r \in Prices : <<p, q>> \in before /\ <<q, r>> \in before => <<p, r>> \in before

\* The elements of S that come before p.
Before(S, p, before) == {q \in S : <<q, p>> \in before}

\* d lists S in the order.
Lists(d, S, before) ==
    /\ d \in [1..Cardinality(S) -> S]
    /\ \A i \in 1..Cardinality(S) : Cardinality(Before(S, d[i], before)) = i - 1

\* The orders of the bids and of the asks.
FromHigh == {x \in Prices \X Prices : x[1] > x[2]}
FromLow == {x \in Prices \X Prices : x[1] < x[2]}

\* From the highest down and from the lowest up are orders of the prices.
LEMMA OrdersOfPrices == IsOrder(FromHigh) /\ IsOrder(FromLow)
  BY BooksAssumption DEF IsOrder, FromHigh, FromLow, Prices

\* There are finitely many prices.
LEMMA PricesFinite ==
  ASSUME NEW S \in SUBSET Prices
  PROVE  IsFiniteSet(S) /\ Cardinality(S) \in Nat
<1>1. IsFiniteSet(Prices)
  BY FS_Interval, BooksAssumption DEF Prices
<1> QED  BY <1>1, FS_Subset, FS_CardinalityType

\* No two prices have the same number of others before them, and every number
\* has its price.
LEMMA Ranks ==
  ASSUME NEW S \in SUBSET Prices, NEW before, IsOrder(before)
  PROVE  /\ \A p \in S : Cardinality(Before(S, p, before)) + 1 \in 1..Cardinality(S)
         /\ \A p, q \in S : Cardinality(Before(S, p, before)) = Cardinality(Before(S, q, before)) => p = q
         /\ \A i \in 1..Cardinality(S) : \E p \in S : Cardinality(Before(S, p, before)) = i - 1
<1> DEFINE rank(p) == Cardinality(Before(S, p, before))
           n == Cardinality(S)
           f == [p \in S |-> rank(p) + 1]
<1>0. IsFiniteSet(S) /\ n \in Nat
  BY PricesFinite
<1>1. \A p \in S : Before(S, p, before) \subseteq S /\ p \notin Before(S, p, before)
  BY DEF Before, IsOrder
<1>2. \A p \in S : IsFiniteSet(Before(S, p, before)) /\ rank(p) \in Nat
  BY <1>0, <1>1, FS_Subset, FS_CardinalityType
<1>3. ASSUME NEW p \in S PROVE rank(p) + 1 \in 1..n
  <2>1. rank(p) <= n /\ (n = rank(p) => S = Before(S, p, before))
    BY <1>0, <1>1, FS_Subset
  <2> QED  BY <1>0, <1>1, <1>2, <2>1
<1>4. ASSUME NEW p \in S, NEW q \in S, <<p, q>> \in before PROVE rank(p) < rank(q)
  <2>1. Before(S, p, before) \subseteq Before(S, q, before)
    BY <1>4 DEF Before, IsOrder
  <2>2. p \in Before(S, q, before)
    BY <1>4 DEF Before
  <2>3. rank(p) <= rank(q) /\ (rank(q) = rank(p) => Before(S, q, before) = Before(S, p, before))
    BY <1>2, <2>1, FS_Subset
  <2> QED  BY <1>1, <1>2, <2>2, <2>3
<1>5. \A p, q \in S : rank(p) = rank(q) => p = q
  <2> SUFFICES ASSUME NEW p \in S, NEW q \in S, rank(p) = rank(q), p # q PROVE FALSE
    OBVIOUS
  <2>1. p \in Prices /\ q \in Prices
    OBVIOUS
  <2>2. <<p, q>> \in before \/ <<q, p>> \in before
    BY <2>1 DEF IsOrder
  <2>3. rank(p) < rank(q) \/ rank(q) < rank(p)
    BY <1>4, <2>2
  <2> QED  BY <1>2, <2>3
<1>6. f \in Injection(S, 1..n)
  <2>1. f \in [S -> 1..n]
    BY <1>3
  <2>2. \A p, q \in S : f[p] = f[q] => p = q
    BY <1>2, <1>5
  <2> QED  BY <2>1, <2>2 DEF Injection, IsInjective
<1>7. IsFiniteSet(1..n) /\ Cardinality(1..n) = n
  BY <1>0, FS_Interval
<1>8. f \in Surjection(S, 1..n)
  BY <1>6, <1>7, FS_Injection
<1>9. ASSUME NEW i \in 1..n PROVE \E p \in S : rank(p) = i - 1
  <2>1. PICK p \in S : f[p] = i
    BY <1>8 DEF Surjection
  <2> QED  BY <1>2, <2>1
<1> QED  BY <1>3, <1>5, <1>9

\* What Descending makes of a set lists it from the highest down,
LEMMA DescendingLists ==
  ASSUME NEW S \in SUBSET Prices
  PROVE  Lists(Descending(S), S, FromHigh)
<1>1. \A p \in S : Before(S, p, FromHigh) = {q \in S : q > p}
  BY DEF Before, FromHigh
<1>2. \A i \in 1..Cardinality(S) : \E p \in S : Cardinality({q \in S : q > p}) = i - 1
  <2> TAKE i \in 1..Cardinality(S)
  <2>1. PICK p \in S : Cardinality(Before(S, p, FromHigh)) = i - 1
    BY Ranks, OrdersOfPrices
  <2> QED  BY <1>1, <2>1
<1>3. \A i \in 1..Cardinality(S) : /\ Descending(S)[i] \in S
                                  /\ Cardinality({q \in S : q > Descending(S)[i]}) = i - 1
  BY <1>2 DEF Descending
<1>4. Descending(S) \in [1..Cardinality(S) -> S]
  BY <1>3 DEF Descending
<1> QED  BY <1>1, <1>3, <1>4 DEF Lists

\* and what Ascending makes of it lists it from the lowest up.
LEMMA AscendingLists ==
  ASSUME NEW S \in SUBSET Prices
  PROVE  Lists(Ascending(S), S, FromLow)
<1>1. \A p \in S : Before(S, p, FromLow) = {q \in S : q < p}
  BY DEF Before, FromLow
<1>2. \A i \in 1..Cardinality(S) : \E p \in S : Cardinality({q \in S : q < p}) = i - 1
  <2> TAKE i \in 1..Cardinality(S)
  <2>1. PICK p \in S : Cardinality(Before(S, p, FromLow)) = i - 1
    BY Ranks, OrdersOfPrices
  <2> QED  BY <1>1, <2>1
<1>3. \A i \in 1..Cardinality(S) : /\ Ascending(S)[i] \in S
                                  /\ Cardinality({q \in S : q < Ascending(S)[i]}) = i - 1
  BY <1>2 DEF Ascending
<1>4. Ascending(S) \in [1..Cardinality(S) -> S]
  BY <1>3 DEF Ascending
<1> QED  BY <1>1, <1>3, <1>4 DEF Lists

\* A list is a sequence, and there is one list only.
LEMMA ListFacts ==
  ASSUME NEW S \in SUBSET Prices, NEW before, IsOrder(before), NEW d, Lists(d, S, before)
  PROVE  /\ d \in Seq(S) /\ Len(d) = Cardinality(S) /\ DOMAIN d = 1..Cardinality(S)
         /\ \A i \in 1..Cardinality(S), p \in S : Cardinality(Before(S, p, before)) = i - 1 => d[i] = p
<1>1. d \in [1..Cardinality(S) -> S] /\ Cardinality(S) \in Nat
  BY PricesFinite DEF Lists
<1>2. d \in Seq(S) /\ Len(d) = Cardinality(S)
  BY <1>1
<1> QED  BY <1>1, <1>2, Ranks DEF Lists

\* The first of a list.
LEMMA ListHead ==
  ASSUME NEW S \in SUBSET Prices, NEW before, IsOrder(before), NEW d, Lists(d, S, before),
         NEW p \in S, \A q \in S : <<q, p>> \notin before
  PROVE  Cardinality(S) >= 1 /\ d[1] = p
<1>1. Before(S, p, before) = {}
  BY DEF Before
<1>2. Cardinality(Before(S, p, before)) = 0
  BY <1>1, FS_EmptySet
<1>3. IsFiniteSet(S) /\ Cardinality(S) \in Nat
  BY PricesFinite
<1>4. Cardinality(S) # 0
  BY <1>3, FS_EmptySet
<1>5. 1 \in 1..Cardinality(S) /\ 1 - 1 = 0
  BY <1>3, <1>4
<1>6. d[1] = p
  BY <1>2, <1>5, ListFacts
<1> QED  BY <1>5, <1>6

\* A set that has, with a price, all that come before it makes the list's head.
LEMMA ListPrefix ==
  ASSUME NEW S \in SUBSET Prices, NEW before, IsOrder(before), NEW d, Lists(d, S, before),
         NEW T \in SUBSET S, NEW e, Lists(e, T, before),
         \A p \in T, q \in S : <<q, p>> \in before => q \in T
  PROVE  IsPrefix(e, d)
<1>0. IsFiniteSet(S) /\ Cardinality(S) \in Nat /\ Cardinality(T) \in Nat /\ Cardinality(T) <= Cardinality(S)
  BY PricesFinite, FS_Subset
<1>1. /\ d \in Seq(S) /\ Len(d) = Cardinality(S) /\ e \in Seq(T) /\ Len(e) = Cardinality(T)
  BY ListFacts
<1>2. ASSUME NEW i \in 1..Cardinality(T) PROVE d[i] = e[i]
  <2>1. e[i] \in T /\ Cardinality(Before(T, e[i], before)) = i - 1
    BY DEF Lists
  <2>2. Before(S, e[i], before) = Before(T, e[i], before)
    BY <2>1 DEF Before
  <2>3. i \in 1..Cardinality(S) /\ e[i] \in S
    BY <1>0, <2>1
  <2> QED  BY <2>1, <2>2, <2>3, ListFacts
<1>3. SubSeq(e, 1, Len(e)) = SubSeq(d, 1, Len(e))
  BY <1>0, <1>1, <1>2
<1> QED  BY <1>0, <1>1, <1>3 DEF IsPrefix

-----------------------------------------------------------------------------
(* Mirrored sets of prices.                                                *)

\* T has the mirrored prices of S.
Mirrors(S, T) == \A p \in Prices : p \in T <=> MirrorPrice(p) \in S

\* A mirrored side has as many orders.
LEMMA MirrorCount ==
  ASSUME NEW S \in SUBSET Prices, NEW T \in SUBSET Prices, Mirrors(S, T)
  PROVE  Cardinality(T) = Cardinality(S)
<1> DEFINE f == [p \in S |-> MirrorPrice(p)]
<1>1. \A p \in Prices : MirrorPrice(p) \in Prices /\ MirrorPrice(MirrorPrice(p)) = p
  BY BooksAssumption DEF Prices, MirrorPrice
<1>2. f \in [S -> T]
  BY <1>1 DEF Mirrors
<1>3. \A p, q \in S : f[p] = f[q] => p = q
  BY <1>1
<1>4. ASSUME NEW p \in T PROVE MirrorPrice(p) \in S /\ f[MirrorPrice(p)] = p
  BY <1>1, <1>4 DEF Mirrors
<1>5. f \in Bijection(S, T)
  BY <1>2, <1>3, <1>4 DEF Bijection, Injection, Surjection, IsInjective
<1>6. IsFiniteSet(S) /\ ExistsBijection(S, T)
  BY <1>5, PricesFinite DEF ExistsBijection
<1> QED  BY <1>6, FS_Bijection

\* The list of one side from above is that of the other from below, mirrored.
LEMMA MirrorLists ==
  ASSUME NEW S \in SUBSET Prices, NEW T \in SUBSET Prices, Mirrors(S, T)
  PROVE  Descending(T) = MirrorOrders(Ascending(S))
<1> DEFINE d == Descending(T)
           e == Ascending(S)
           n == Cardinality(S)
<1>1. Lists(d, T, FromHigh) /\ Lists(e, S, FromLow) /\ IsOrder(FromHigh) /\ IsOrder(FromLow)
  BY DescendingLists, AscendingLists, OrdersOfPrices
<1>2. Cardinality(T) = n
  BY MirrorCount
<1> HIDE DEF d, e
<1>3. /\ d \in [1..n -> T] /\ e \in [1..n -> S]
      /\ \A i \in 1..n : Cardinality(Before(S, e[i], FromLow)) = i - 1
  BY <1>1, <1>2 DEF Lists
<1>4. \A p \in Prices : MirrorPrice(p) \in Prices /\ MirrorPrice(MirrorPrice(p)) = p
  BY BooksAssumption DEF Prices, MirrorPrice
<1>5. ASSUME NEW i \in 1..n PROVE d[i] = MirrorPrice(e[i])
  <2>1. e[i] \in S /\ e[i] \in Prices /\ MirrorPrice(e[i]) \in T
    BY <1>3, <1>4 DEF Mirrors
  <2> DEFINE A == Before(S, e[i], FromLow)
             C == Before(T, MirrorPrice(e[i]), FromHigh)
  <2>2. A \in SUBSET Prices /\ C \in SUBSET Prices
    BY DEF Before
  <2>3. Mirrors(A, C)
    <3>1. \A p \in Prices : MirrorPrice(p) < e[i] <=> p > MirrorPrice(e[i])
      BY <2>1, BooksAssumption DEF Prices, MirrorPrice
    <3>2. \A p \in Prices : p \in C <=> p \in T /\ p > MirrorPrice(e[i])
      BY <1>4, <2>1 DEF Before, FromHigh
    <3>3. \A p \in Prices : MirrorPrice(p) \in A <=> MirrorPrice(p) \in S /\ MirrorPrice(p) < e[i]
      BY <1>4, <2>1 DEF Before, FromLow
    <3> HIDE DEF A, C
    <3> QED  BY <3>1, <3>2, <3>3 DEF Mirrors
  <2>4. Cardinality(C) = i - 1
    BY <1>3, <2>2, <2>3, MirrorCount
  <2> QED  BY <1>1, <1>2, <2>1, <2>4, ListFacts
<1>6. DOMAIN e = 1..n /\ DOMAIN d = 1..n
  BY <1>3
<1>7. d = [i \in 1..n |-> d[i]]
  BY <1>3
<1>8. MirrorOrders(e) = [i \in 1..n |-> MirrorPrice(e[i])]
  BY <1>6 DEF MirrorOrders
<1> QED  BY <1>5, <1>7, <1>8 DEF d, e

-----------------------------------------------------------------------------
(* The loop of GetBBO.                                                     *)

\* m is the first of S in the order, Absent if there is none.
IsBest(m, S, before) ==
    IF S = {} THEN m = Absent ELSE m \in S /\ \A q \in S : <<q, m>> \notin before

\* The loop keeps the better of two.
IsBetter(p, best, m, before) ==
    m = IF best = Absent \/ <<p, best>> \in before THEN p ELSE best

\* One more price taken by the loop: the best so far becomes the best with it.
LEMMA BestStep ==
  ASSUME NEW S \in SUBSET Prices, NEW before, IsOrder(before), NEW x \in S,
         NEW best, IsBest(best, S \ {x}, before), NEW m, IsBetter(x, best, m, before)
  PROVE  IsBest(m, S, before)
<1>0. x \in Prices /\ x # Absent
  BY BooksAssumption DEF Prices
<1>1. CASE S \ {x} = {}
  BY <1>0, <1>1 DEF IsBest, IsBetter, IsOrder
<1>2. CASE S \ {x} # {}
  <2>1. best \in S /\ best \in Prices /\ best # Absent /\ best # x /\ \A q \in S \ {x} : <<q, best>> \notin before
    <3>1. best \in S \ {x} /\ \A q \in S \ {x} : <<q, best>> \notin before
      BY <1>2 DEF IsBest
    <3> QED  BY <3>1, BooksAssumption DEF Prices
  <2>2. CASE <<x, best>> \in before
    <3>1. m = x
      BY <2>2 DEF IsBetter
    <3>2. ASSUME NEW q \in S, <<q, x>> \in before PROVE FALSE
      <4>1. q \in Prices /\ q # x
        BY <1>0, <3>2 DEF IsOrder
      <4>2. <<q, best>> \in before
        BY <1>0, <2>1, <2>2, <3>2, <4>1 DEF IsOrder
      <4> QED  BY <2>1, <4>1, <4>2
    <3> QED  BY <3>1, <3>2 DEF IsBest
  <2>3. CASE <<x, best>> \notin before
    BY <2>1, <2>3 DEF IsBest, IsBetter
  <2> QED  BY <2>2, <2>3
<1> QED  BY <1>1, <1>2

\* A non-empty set has a first.
LEMMA BestExists ==
  ASSUME NEW S \in SUBSET Prices, NEW before, IsOrder(before), S # {}
  PROVE  \E m \in S : \A q \in S : <<q, m>> \notin before
<1>1. IsFiniteSet(S) /\ Cardinality(S) \in Nat /\ Cardinality(S) # 0
  BY PricesFinite, FS_EmptySet
<1>2. PICK m \in S : Cardinality(Before(S, m, before)) = 1 - 1
  BY <1>1, Ranks
<1>3. Before(S, m, before) = {}
  <2>1. Before(S, m, before) \in SUBSET Prices
    BY DEF Before
  <2> QED  BY <1>2, <2>1, PricesFinite, FS_EmptySet
<1> QED  BY <1>3 DEF Before

\* A set has one best price only.
LEMMA BestUnique ==
  ASSUME NEW S \in SUBSET Prices, NEW before, IsOrder(before),
         NEW m, IsBest(m, S, before), NEW n, IsBest(n, S, before)
  PROVE  m = n
  BY DEF IsBest, IsOrder

\* What a loop over S keeps, in whatever order it takes the elements.
LEMMA BestFold ==
  ASSUME NEW S \in SUBSET Prices, NEW before, IsOrder(before), NEW it, it[{}] = Absent,
         \A s \in SUBSET S : s # {} => \E x \in s : IsBetter(x, it[s \ {x}], it[s], before)
  PROVE  IsBest(it[S], S, before)
<1> DEFINE Bad == {s \in SUBSET S : ~IsBest(it[s], s, before)}
<1>1. SUFFICES ASSUME Bad # {} PROVE FALSE
  OBVIOUS
<1>2. PICK s \in Bad : \A x \in s : s \ {x} \notin Bad
  <2>1. Bad \in SUBSET (SUBSET S) /\ IsFiniteSet(S)
    BY PricesFinite
  <2> HIDE DEF Bad
  <2> QED  BY <1>1, <2>1, SmallestSubset
<1>3. s # {}
  BY DEF IsBest
<1>4. PICK x \in s : IsBetter(x, it[s \ {x}], it[s], before)
  BY <1>3
<1>5. IsBest(it[s \ {x}], s \ {x}, before) /\ s \in SUBSET Prices
  BY <1>2
<1>6. IsBest(it[s], s, before)
  BY <1>4, <1>5, BestStep
<1> QED  BY <1>6

\* The element by which the folds of the library start: any one.
Chosen(s) == CHOOSE x \in s : TRUE

\* it is the function of the subsets of S by which FoldSet folds Higher over S.
HigherLoop(it, S) ==
    it = [s \in SUBSET S |-> IF s = {} THEN Absent ELSE Higher(Chosen(s), it[s \ {Chosen(s)}])]

\* Higher keeps the better of two from the highest down.
LEMMA HigherIsBetter ==
  ASSUME NEW p \in Prices, NEW best \in Prices \union {Absent}
  PROVE  IsBetter(p, best, Higher(p, best), FromHigh)
  BY DEF IsBetter, Higher, FromHigh

\* There is such a function: the one that gives every subset its highest.
LEMMA HigherLoopExists == ASSUME NEW S \in SUBSET Prices PROVE \E it : HigherLoop(it, S)
<1> DEFINE g == [s \in SUBSET S |-> IF s = {} THEN Absent
                                   ELSE CHOOSE m \in s : \A q \in s : <<q, m>> \notin FromHigh]
<1>1. ASSUME NEW s \in SUBSET S PROVE IsBest(g[s], s, FromHigh)
  <2>1. CASE s = {}
    BY <2>1 DEF IsBest
  <2>2. CASE s # {}
    <3>1. \E m \in s : \A q \in s : <<q, m>> \notin FromHigh
      BY <2>2, BestExists, OrdersOfPrices
    <3> QED  BY <2>2, <3>1 DEF IsBest
  <2> QED  BY <2>1, <2>2
<1> DEFINE h == [s \in SUBSET S |-> IF s = {} THEN Absent ELSE Higher(Chosen(s), g[s \ {Chosen(s)}])]
<1> HIDE DEF g
<1>2. ASSUME NEW s \in SUBSET S, s # {} PROVE g[s] = Higher(Chosen(s), g[s \ {Chosen(s)}])
  <2> DEFINE x == Chosen(s)
             r == s \ {x}
  <2>1. x \in s
    BY <1>2 DEF Chosen
  <2> HIDE DEF x
  <2>2. r \in SUBSET S /\ x \in Prices /\ r \in SUBSET Prices /\ s \in SUBSET Prices
    BY <2>1
  <2>3. IsBest(g[r], r, FromHigh)
    BY <1>1, <2>2
  <2>4. g[r] \in Prices \union {Absent}
    BY <2>2, <2>3 DEF IsBest
  <2>5. IsBest(Higher(x, g[r]), s, FromHigh)
    BY <2>1, <2>2, <2>3, <2>4, HigherIsBetter, BestStep, OrdersOfPrices
  <2>6. IsBest(g[s], s, FromHigh)
    BY <1>1
  <2>7. g[s] = Higher(x, g[r])
    BY <2>2, <2>5, <2>6, BestUnique, OrdersOfPrices
  <2> QED  BY <2>7 DEF x
<1>3. g[{}] = Absent
  BY <1>1 DEF IsBest
<1>4. g = [s \in SUBSET S |-> g[s]]
  BY DEF g
<1>5. g = h
  BY <1>2, <1>3, <1>4
<1> QED  BY <1>5 DEF HigherLoop

\* GetBBO finds the highest bid, whichever way it walks the map.
LEMMA HighestIs ==
  ASSUME NEW S \in SUBSET Prices
  PROVE  IsBest(FoldSet(Higher, Absent, S), S, FromHigh)
<1> DEFINE it == CHOOSE it : HigherLoop(it, S)
<1>1. FoldSet(Higher, Absent, S) = it[S]
  BY DEF FoldSet, MapThenFoldSet, HigherLoop, Chosen
<1>2. HigherLoop(it, S)
  BY HigherLoopExists
<1> HIDE DEF it
<1>3. it[{}] = Absent
  BY <1>2 DEF HigherLoop
<1>4. ASSUME NEW s \in SUBSET S PROVE it[s] \in Prices \union {Absent}
  <2> DEFINE Bad == {u \in SUBSET S : it[u] \notin Prices \union {Absent}}
  <2>1. SUFFICES ASSUME Bad # {} PROVE FALSE
    OBVIOUS
  <2>2. PICK u \in Bad : \A x \in u : u \ {x} \notin Bad
    <3>1. Bad \in SUBSET (SUBSET S) /\ IsFiniteSet(S)
      BY PricesFinite
    <3> HIDE DEF Bad
    <3> QED  BY <2>1, <3>1, SmallestSubset
  <2>3. u # {} /\ Chosen(u) \in u
    BY <1>3 DEF Chosen
  <2>4. it[u] = Higher(Chosen(u), it[u \ {Chosen(u)}])
    BY <1>2, <2>3 DEF HigherLoop
  <2> QED  BY <2>2, <2>3, <2>4 DEF Higher
<1>5. ASSUME NEW s \in SUBSET S, s # {} PROVE \E x \in s : IsBetter(x, it[s \ {x}], it[s], FromHigh)
  <2>1. Chosen(s) \in s
    BY <1>5 DEF Chosen
  <2>2. it[s] = Higher(Chosen(s), it[s \ {Chosen(s)}])
    BY <1>2, <1>5 DEF HigherLoop
  <2>3. it[s \ {Chosen(s)}] \in Prices \union {Absent}
    BY <1>4
  <2> QED  BY <2>1, <2>2, <2>3, HigherIsBetter
<1>6. IsBest(it[S], S, FromHigh)
  BY <1>3, <1>5, BestFold, OrdersOfPrices
<1> QED  BY <1>1, <1>6

\* The same for Lower.
LowerLoop(it, S) ==
    it = [s \in SUBSET S |-> IF s = {} THEN Absent ELSE Lower(Chosen(s), it[s \ {Chosen(s)}])]

\* Lower keeps the better of two from the lowest up.
LEMMA LowerIsBetter ==
  ASSUME NEW p \in Prices, NEW best \in Prices \union {Absent}
  PROVE  IsBetter(p, best, Lower(p, best), FromLow)
  BY DEF IsBetter, Lower, FromLow

\* There is such a function: the one that gives every subset its lowest.
LEMMA LowerLoopExists == ASSUME NEW S \in SUBSET Prices PROVE \E it : LowerLoop(it, S)
<1> DEFINE g == [s \in SUBSET S |-> IF s = {} THEN Absent
                                   ELSE CHOOSE m \in s : \A q \in s : <<q, m>> \notin FromLow]
<1>1. ASSUME NEW s \in SUBSET S PROVE IsBest(g[s], s, FromLow)
  <2>1. CASE s = {}
    BY <2>1 DEF IsBest
  <2>2. CASE s # {}
    <3>1. \E m \in s : \A q \in s : <<q, m>> \notin FromLow
      BY <2>2, BestExists, OrdersOfPrices
    <3> QED  BY <2>2, <3>1 DEF IsBest
  <2> QED  BY <2>1, <2>2
<1> DEFINE h == [s \in SUBSET S |-> IF s = {} THEN Absent ELSE Lower(Chosen(s), g[s \ {Chosen(s)}])]
<1> HIDE DEF g
<1>2. ASSUME NEW s \in SUBSET S, s # {} PROVE g[s] = Lower(Chosen(s), g[s \ {Chosen(s)}])
  <2> DEFINE x == Chosen(s)
             r == s \ {x}
  <2>1. x \in s
    BY <1>2 DEF Chosen
  <2> HIDE DEF x
  <2>2. r \in SUBSET S /\ x \in Prices /\ r \in SUBSET Prices /\ s \in SUBSET Prices
    BY <2>1
  <2>3. IsBest(g[r], r, FromLow)
    BY <1>1, <2>2
  <2>4. g[r] \in Prices \union {Absent}
    BY <2>2, <2>3 DEF IsBest
  <2>5. IsBest(Lower(x, g[r]), s, FromLow)
    BY <2>1, <2>2, <2>3, <2>4, LowerIsBetter, BestStep, OrdersOfPrices
  <2>6. IsBest(g[s], s, FromLow)
    BY <1>1
  <2>7. g[s] = Lower(x, g[r])
    BY <2>2, <2>5, <2>6, BestUnique, OrdersOfPrices
  <2> QED  BY <2>7 DEF x
<1>3. g[{}] = Absent
  BY <1>1 DEF IsBest
<1>4. g = [s \in SUBSET S |-> g[s]]
  BY DEF g
<1>5. g = h
  BY <1>2, <1>3, <1>4
<1> QED  BY <1>5 DEF LowerLoop

\* GetBBO finds the lowest ask, whichever way it walks the map.
LEMMA LowestIs ==
  ASSUME NEW S \in SUBSET Prices
  PROVE  IsBest(FoldSet(Lower, Absent, S), S, FromLow)
<1> DEFINE it == CHOOSE it : LowerLoop(it, S)
<1>1. FoldSet(Lower, Absent, S) = it[S]
  BY DEF FoldSet, MapThenFoldSet, LowerLoop, Chosen
<1>2. LowerLoop(it, S)
  BY LowerLoopExists
<1> HIDE DEF it
<1>3. it[{}] = Absent
  BY <1>2 DEF LowerLoop
<1>4. ASSUME NEW s \in SUBSET S PROVE it[s] \in Prices \union {Absent}
  <2> DEFINE Bad == {u \in SUBSET S : it[u] \notin Prices \union {Absent}}
  <2>1. SUFFICES ASSUME Bad # {} PROVE FALSE
    OBVIOUS
  <2>2. PICK u \in Bad : \A x \in u : u \ {x} \notin Bad
    <3>1. Bad \in SUBSET (SUBSET S) /\ IsFiniteSet(S)
      BY PricesFinite
    <3> HIDE DEF Bad
    <3> QED  BY <2>1, <3>1, SmallestSubset
  <2>3. u # {} /\ Chosen(u) \in u
    BY <1>3 DEF Chosen
  <2>4. it[u] = Lower(Chosen(u), it[u \ {Chosen(u)}])
    BY <1>2, <2>3 DEF LowerLoop
  <2> QED  BY <2>2, <2>3, <2>4 DEF Lower
<1>5. ASSUME NEW s \in SUBSET S, s # {} PROVE \E x \in s : IsBetter(x, it[s \ {x}], it[s], FromLow)
  <2>1. Chosen(s) \in s
    BY <1>5 DEF Chosen
  <2>2. it[s] = Lower(Chosen(s), it[s \ {Chosen(s)}])
    BY <1>2, <1>5 DEF LowerLoop
  <2>3. it[s \ {Chosen(s)}] \in Prices \union {Absent}
    BY <1>4
  <2> QED  BY <2>1, <2>2, <2>3, LowerIsBetter
<1>6. IsBest(it[S], S, FromLow)
  BY <1>3, <1>5, BestFold, OrdersOfPrices
<1> QED  BY <1>1, <1>6

-----------------------------------------------------------------------------
(* The loop of TotalBidSize and TotalAskSize.                              *)

\* The sizes of the prices in s, unit by unit: their number is the total, which
\* takes no recursion to say.
Units(f, s) == {u \in s \X (1..MaxSize) : u[2] <= f[u[1]]}

\* The units can be counted.
LEMMA UnitsFinite ==
  ASSUME NEW f \in Levels, NEW s \in SUBSET Prices
  PROVE  IsFiniteSet(Units(f, s)) /\ Cardinality(Units(f, s)) \in Nat
<1>1. IsFiniteSet(1..MaxSize) /\ IsFiniteSet(s)
  BY PricesFinite, FS_Interval, BooksAssumption
<1>2. IsFiniteSet(s \X (1..MaxSize))
  BY <1>1, FS_Product
<1>3. Units(f, s) \in SUBSET (s \X (1..MaxSize))
  BY DEF Units
<1> QED  BY <1>2, <1>3, FS_Subset, FS_CardinalityType

\* A level has as many as its size,
LEMMA UnitsOfOne ==
  ASSUME NEW f \in Levels, NEW x \in Prices
  PROVE  Cardinality(Units(f, {x})) = f[x]
<1> DEFINE T == Units(f, {x})
           h == [i \in 1..f[x] |-> <<x, i>>]
<1>1. f[x] \in Nat /\ f[x] <= MaxSize /\ MaxSize \in Nat
  BY BooksAssumption DEF Levels, Sizes
<1>2. \A u : u \in T <=> \E i \in 1..f[x] : u = <<x, i>>
  BY <1>1 DEF Units
<1> HIDE DEF T
<1>3. h \in [1..f[x] -> T]
  BY <1>2
<1>4. \A i, j \in 1..f[x] : h[i] = h[j] => i = j
  OBVIOUS
<1>5. \A u \in T : \E i \in 1..f[x] : h[i] = u
  BY <1>2
<1>6. h \in Bijection(1..f[x], T)
  BY <1>3, <1>4, <1>5 DEF Bijection, Injection, Surjection, IsInjective
<1>7. ExistsBijection(1..f[x], T)
  BY <1>6 DEF ExistsBijection
<1> QED  BY <1>1, <1>7, FS_CountingElements DEF T

\* and one more level adds its own.
LEMMA UnitsStep ==
  ASSUME NEW f \in Levels, NEW s \in SUBSET Prices, NEW x \in s
  PROVE  Cardinality(Units(f, s)) = f[x] + Cardinality(Units(f, s \ {x}))
<1> DEFINE A == Units(f, {x})
           C == Units(f, s \ {x})
<1>1. Units(f, s) = A \union C /\ A \intersect C = {}
  BY DEF Units
<1>2. /\ IsFiniteSet(A) /\ IsFiniteSet(C) /\ Cardinality(A) = f[x]
      /\ Cardinality(A) \in Nat /\ Cardinality(C) \in Nat
  BY UnitsFinite, UnitsOfOne
<1>3. Cardinality(A \union C) = Cardinality(A) + Cardinality(C) - Cardinality(A \intersect C)
  BY <1>2, FS_Union
<1>4. Cardinality(A \intersect C) = 0
  BY <1>1, FS_EmptySet
<1> HIDE DEF A, C
<1> QED  BY <1>1, <1>2, <1>3, <1>4 DEF A, C

\* it is the function of the sets of prices by which FoldFunction adds up f.
SumLoop(it, f) ==
    it = [s \in SUBSET (DOMAIN f) |-> IF s = {} THEN 0 ELSE f[Chosen(s)] + it[s \ {Chosen(s)}]]

\* There is such a function: the one that counts the units.
LEMMA SumLoopExists == ASSUME NEW f \in Levels PROVE \E it : SumLoop(it, f)
<1> DEFINE g == [s \in SUBSET (DOMAIN f) |-> Cardinality(Units(f, s))]
<1>0. DOMAIN f = Prices
  BY DEF Levels
<1>1. ASSUME NEW s \in SUBSET (DOMAIN f), s # {} PROVE g[s] = f[Chosen(s)] + g[s \ {Chosen(s)}]
  <2>1. Chosen(s) \in s
    BY <1>1 DEF Chosen
  <2>2. Cardinality(Units(f, s)) = f[Chosen(s)] + Cardinality(Units(f, s \ {Chosen(s)}))
    BY <1>0, <2>1, UnitsStep
  <2> QED  BY <2>1, <2>2
<1>2. g[{}] = 0
  <2>1. Units(f, {}) = {}
    BY DEF Units
  <2> QED  BY <2>1, FS_EmptySet
<1>3. g = [s \in SUBSET (DOMAIN f) |-> g[s]]
  OBVIOUS
<1> HIDE DEF g
<1>4. g = [s \in SUBSET (DOMAIN f) |-> IF s = {} THEN 0 ELSE f[Chosen(s)] + g[s \ {Chosen(s)}]]
  BY <1>1, <1>2, <1>3
<1> QED  BY <1>4 DEF SumLoop

\* The total of a side is the number of its units.
LEMMA TotalIs ==
  ASSUME NEW f \in Levels
  PROVE  TotalSize(f) = Cardinality(Units(f, Prices))
<1> DEFINE it == CHOOSE it : SumLoop(it, f)
<1>0. DOMAIN f = Prices
  BY DEF Levels
<1>1. TotalSize(f) = it[Prices]
  BY <1>0 DEF TotalSize, FoldFunction, FoldFunctionOnSet, MapThenFoldSet, SumLoop, Chosen
<1>2. SumLoop(it, f)
  BY SumLoopExists
<1> HIDE DEF it
<1> DEFINE Bad == {s \in SUBSET Prices : it[s] # Cardinality(Units(f, s))}
<1>3. SUFFICES ASSUME Bad # {} PROVE FALSE
  BY <1>1
<1>4. PICK s \in Bad : \A x \in s : s \ {x} \notin Bad
  <2>1. Bad \in SUBSET (SUBSET Prices) /\ IsFiniteSet(Prices)
    BY PricesFinite
  <2> HIDE DEF Bad
  <2> QED  BY <1>3, <2>1, SmallestSubset
<1>5. s # {}
  <2>1. Units(f, {}) = {}
    BY DEF Units
  <2>2. it[{}] = 0
    BY <1>2 DEF SumLoop
  <2> QED  BY <2>1, <2>2, FS_EmptySet
<1>6. Chosen(s) \in s
  BY <1>5 DEF Chosen
<1>7. it[s] = f[Chosen(s)] + it[s \ {Chosen(s)}]
  BY <1>0, <1>2, <1>5 DEF SumLoop
<1>8. it[s \ {Chosen(s)}] = Cardinality(Units(f, s \ {Chosen(s)}))
  BY <1>4, <1>6
<1>9. Cardinality(Units(f, s)) = f[Chosen(s)] + Cardinality(Units(f, s \ {Chosen(s)}))
  BY <1>6, UnitsStep
<1> QED  BY <1>4, <1>7, <1>8, <1>9

\* Mirroring a side moves its sizes, it does not change their sum.
LEMMA MirrorTotal ==
  ASSUME NEW f \in Levels, NEW g \in Levels, \A p \in Prices : g[p] = f[MirrorPrice(p)]
  PROVE  TotalSize(g) = TotalSize(f)
<1> DEFINE S == Units(f, Prices)
           T == Units(g, Prices)
           h == [u \in S |-> <<MirrorPrice(u[1]), u[2]>>]
<1>1. \A p \in Prices : MirrorPrice(p) \in Prices /\ MirrorPrice(MirrorPrice(p)) = p
  BY BooksAssumption DEF Prices, MirrorPrice
<1>2. ASSUME NEW u \in S PROVE h[u] \in T
  BY <1>1 DEF Units
<1>3. ASSUME NEW u \in S, NEW v \in S, h[u] = h[v] PROVE u = v
  <2>1. MirrorPrice(u[1]) = MirrorPrice(v[1]) /\ u[2] = v[2]
    BY <1>3
  <2>2. u[1] \in Prices /\ v[1] \in Prices /\ u = <<u[1], u[2]>> /\ v = <<v[1], v[2]>>
    BY DEF Units
  <2> QED  BY <1>1, <2>1, <2>2
<1>4. ASSUME NEW v \in T PROVE \E u \in S : h[u] = v
  <2> DEFINE u == <<MirrorPrice(v[1]), v[2]>>
  <2>1. v[1] \in Prices /\ v[2] \in 1..MaxSize /\ v[2] <= g[v[1]] /\ v = <<v[1], v[2]>>
    BY DEF Units
  <2>2. u \in S
    BY <1>1, <2>1 DEF Units
  <2>3. h[u] = v
    BY <1>1, <2>1, <2>2
  <2> QED  BY <2>2, <2>3
<1>5. h \in Bijection(S, T)
  BY <1>2, <1>3, <1>4 DEF Bijection, Injection, Surjection, IsInjective
<1>6. ExistsBijection(S, T) /\ IsFiniteSet(S)
  BY <1>5, UnitsFinite DEF ExistsBijection
<1>7. Cardinality(T) = Cardinality(S)
  BY <1>6, FS_Bijection
<1> QED  BY <1>7, TotalIs

-----------------------------------------------------------------------------
(* The queries of a book.                                                  *)

\* The orders of a book are prices, and its quotes the best of them.
LEMMA BookOrders ==
  ASSUME NEW b \in Book
  PROVE  /\ Orders(b.bids) \in SUBSET Prices /\ Orders(b.asks) \in SUBSET Prices
         /\ IsBest(BestBid(b), Orders(b.bids), FromHigh)
         /\ IsBest(BestAsk(b), Orders(b.asks), FromLow)
<1>1. Orders(b.bids) \in SUBSET Prices /\ Orders(b.asks) \in SUBSET Prices
  BY DEF Orders
<1> QED  BY <1>1, HighestIs, LowestIs DEF BestBid, BestAsk

\* The best of one side, mirrored, is the best of the mirrored side.
LEMMA BestMirror ==
  ASSUME NEW S \in SUBSET Prices, NEW T \in SUBSET Prices, Mirrors(S, T), NEW a
  PROVE  /\ IsBest(a, S, FromLow) => IsBest(MirrorQuote(a), T, FromHigh)
         /\ IsBest(a, S, FromHigh) => IsBest(MirrorQuote(a), T, FromLow)
<1>0. \A p \in Prices : MirrorPrice(p) \in Prices /\ MirrorPrice(MirrorPrice(p)) = p /\ p # Absent
  BY BooksAssumption DEF Prices, MirrorPrice
<1>1. S = {} <=> T = {}
  BY <1>0 DEF Mirrors
<1>2. CASE S = {}
  BY <1>1, <1>2 DEF IsBest, MirrorQuote
<1>3. CASE S # {} /\ a \in S
  <2>1. MirrorQuote(a) = MirrorPrice(a) /\ MirrorPrice(a) \in T
    BY <1>0, <1>3 DEF MirrorQuote, Mirrors
  <2>2. ASSUME NEW q \in T
        PROVE  /\ MirrorPrice(q) \in S
               /\ <<q, MirrorPrice(a)>> \in FromHigh => <<MirrorPrice(q), a>> \in FromLow
               /\ <<q, MirrorPrice(a)>> \in FromLow => <<MirrorPrice(q), a>> \in FromHigh
    <3>1. MirrorPrice(q) \in S
      BY <1>0 DEF Mirrors
    <3>2. q \in Prices /\ a \in Prices
      BY <1>3
    <3>3. (q > MirrorPrice(a) => MirrorPrice(q) < a) /\ (q < MirrorPrice(a) => MirrorPrice(q) > a)
      BY <3>2, BooksAssumption DEF Prices, MirrorPrice
    <3> QED  BY <1>0, <3>1, <3>2, <3>3 DEF FromHigh, FromLow
  <2> QED  BY <1>1, <1>3, <2>1, <2>2 DEF IsBest
<1> QED  BY <1>2, <1>3 DEF IsBest

\* QuotesMirror of two books, wherever they come from.
LEMMA MirroredQuotes ==
  ASSUME NEW b \in Book, NEW m \in Book, m = [MirrorOf(b) EXCEPT !.initialized = m.initialized]
  PROVE  /\ BestBid(m) = MirrorQuote(BestAsk(b))
         /\ GetSpread(m) = GetSpread(b)
         /\ Quoted(b) => GetMidPrice(m) + GetMidPrice(b) = 2 * One
         /\ GetAllBids(m) = MirrorOrders(GetAllAsks(b))
         /\ TotalSize(m.bids) = TotalSize(b.asks)
         /\ \A p \in Prices : ScanBidsAbove(m, MirrorPrice(p)) = MirrorOrders(ScanAsksBelow(b, p))
<1>0. \A p \in Prices : MirrorPrice(p) \in Prices /\ MirrorPrice(MirrorPrice(p)) = p /\ p # Absent
  BY BooksAssumption DEF Prices, MirrorPrice
<1>1. /\ m.bids = [p \in Prices |-> b.asks[MirrorPrice(p)]]
      /\ m.asks = [p \in Prices |-> b.bids[MirrorPrice(p)]]
  BY DEF MirrorOf, Book
<1>2. Mirrors(Orders(b.asks), Orders(m.bids)) /\ Mirrors(Orders(b.bids), Orders(m.asks))
  BY <1>0, <1>1 DEF Mirrors, Orders
<1>3. BestBid(m) = MirrorQuote(BestAsk(b)) /\ BestAsk(m) = MirrorQuote(BestBid(b))
  <2>1. /\ IsBest(BestBid(m), Orders(m.bids), FromHigh) /\ IsBest(BestAsk(m), Orders(m.asks), FromLow)
        /\ Orders(m.bids) \in SUBSET Prices /\ Orders(m.asks) \in SUBSET Prices
    BY BookOrders
  <2>2. /\ IsBest(BestBid(b), Orders(b.bids), FromHigh) /\ IsBest(BestAsk(b), Orders(b.asks), FromLow)
        /\ Orders(b.bids) \in SUBSET Prices /\ Orders(b.asks) \in SUBSET Prices
    BY BookOrders
  <2>3. IsBest(MirrorQuote(BestAsk(b)), Orders(m.bids), FromHigh)
    BY <1>2, <2>1, <2>2, BestMirror
  <2>4. IsBest(MirrorQuote(BestBid(b)), Orders(m.asks), FromLow)
    BY <1>2, <2>1, <2>2, BestMirror
  <2>5. BestBid(m) = MirrorQuote(BestAsk(b))
    BY <2>1, <2>3, BestUnique, OrdersOfPrices
  <2>6. BestAsk(m) = MirrorQuote(BestBid(b))
    BY <2>1, <2>4, BestUnique, OrdersOfPrices
  <2> QED  BY <2>5, <2>6
<1>4. BestBid(b) \in Prices \union {Absent} /\ BestAsk(b) \in Prices \union {Absent}
  BY BookOrders DEF IsBest
<1>5. Quoted(m) <=> Quoted(b)
  BY <1>0, <1>3, <1>4 DEF Quoted, MirrorQuote
<1>6. Quoted(b) => /\ BestBid(m) = One - BestAsk(b) /\ BestAsk(m) = One - BestBid(b)
                   /\ BestBid(b) \in Nat /\ BestAsk(b) \in Nat /\ One \in Nat
  BY <1>3, <1>4, BooksAssumption DEF Quoted, MirrorQuote, MirrorPrice, Prices
<1>7. GetSpread(m) = GetSpread(b)
  BY <1>5, <1>6 DEF GetSpread
<1>8. Quoted(b) => GetMidPrice(m) + GetMidPrice(b) = 2 * One
  BY <1>5, <1>6 DEF GetMidPrice
<1>9. GetAllBids(m) = MirrorOrders(GetAllAsks(b))
  BY <1>2, BookOrders, MirrorLists DEF GetAllBids, GetAllAsks
<1>10. TotalSize(m.bids) = TotalSize(b.asks)
  BY <1>1, MirrorTotal DEF Book
<1>11. ASSUME NEW p \in Prices
       PROVE  ScanBidsAbove(m, MirrorPrice(p)) = MirrorOrders(ScanAsksBelow(b, p))
  <2> DEFINE S == {q \in Orders(b.asks) : q <= p}
             T == {q \in Orders(m.bids) : q >= MirrorPrice(p)}
  <2>1. S \in SUBSET Prices /\ T \in SUBSET Prices
    BY BookOrders
  <2>2. \A q \in Prices : q >= MirrorPrice(p) <=> MirrorPrice(q) <= p
    BY BooksAssumption DEF Prices, MirrorPrice
  <2>3. Mirrors(S, T)
    BY <1>0, <1>2, <2>2 DEF Mirrors
  <2>4. Descending(T) = MirrorOrders(Ascending(S))
    BY <2>1, <2>3, MirrorLists
  <2> QED  BY <2>4 DEF ScanBidsAbove, ScanAsksBelow
<1> QED  BY <1>3, <1>7, <1>8, <1>9, <1>10, <1>11

\* What is cut of a list is its head.
LEMMA CutFacts ==
  ASSUME NEW S, NEW d \in Seq(S), NEW n \in Nat
  PROVE  /\ IsPrefix(Cut(d, n), d)
         /\ Len(Cut(d, n)) = IF Len(d) < n THEN Len(d) ELSE n
         /\ n >= 1 /\ Len(d) >= 1 => Cut(d, n)[1] = d[1]
<1>1. CASE Len(d) > n
  <2>1. /\ SubSeq(d, 1, n) \in Seq(S) /\ Len(SubSeq(d, 1, n)) = n
        /\ \A i \in 1..n : SubSeq(d, 1, n)[i] = d[i]
    BY <1>1
  <2>2. SubSeq(SubSeq(d, 1, n), 1, n) = SubSeq(d, 1, n)
    BY <2>1
  <2>3. Cut(d, n) = SubSeq(d, 1, n)
    BY <1>1 DEF Cut
  <2> QED  BY <1>1, <2>1, <2>2, <2>3 DEF IsPrefix
<1>2. CASE ~(Len(d) > n)
  <2>1. Cut(d, n) = d /\ Len(d) \in Nat
    BY <1>2 DEF Cut
  <2>2. IsPrefix(d, d)
    BY DEF IsPrefix
  <2> QED  BY <1>2, <2>1, <2>2
<1> QED  BY <1>1, <1>2

\* best is absent, or the first of the orders.
Heads(best, orders) == best # Absent => orders[1] = best

\* A list from the best, a depth and a scan of one side of a book.
LEMMA SideAgrees ==
  ASSUME NEW S \in SUBSET Prices, NEW before, IsOrder(before), NEW d, Lists(d, S, before),
         NEW best, IsBest(best, S, before), NEW n \in 1..One + 1
  PROVE  /\ IsPrefix(Cut(d, n), d)
         /\ Len(Cut(d, n)) = IF Cardinality(S) < n THEN Cardinality(S) ELSE n
         /\ Heads(best, Cut(d, n))
<1>1. d \in Seq(S) /\ Len(d) = Cardinality(S)
  BY ListFacts
<1>2. n \in Nat /\ n >= 1
  BY BooksAssumption
<1>3. best # Absent => Cardinality(S) >= 1 /\ d[1] = best
  <2> SUFFICES ASSUME best # Absent PROVE Cardinality(S) >= 1 /\ d[1] = best
    OBVIOUS
  <2>1. best \in S /\ \A q \in S : <<q, best>> \notin before
    BY DEF IsBest
  <2> QED  BY <2>1, ListHead
<1> QED  BY <1>1, <1>2, <1>3, CutFacts DEF Heads

\* A scan from the best order up, or down, finds that order alone.
LEMMA BestAlone ==
  ASSUME NEW S \in SUBSET Prices, NEW before, IsOrder(before), NEW best \in S,
         \A q \in S : <<q, best>> \notin before,
         NEW d, Lists(d, {q \in S : q = best \/ <<q, best>> \in before}, before)
  PROVE  d = <<best>>
<1>1. {q \in S : q = best \/ <<q, best>> \in before} = {best}
  OBVIOUS
<1>2. Cardinality({best}) = 1
  BY FS_Singleton
<1>3. d \in [1..1 -> {best}]
  BY <1>1, <1>2 DEF Lists
<1> QED  BY <1>3

\* A token without a book is answered as an empty book is.
LEMMA BookOfIsBook ==
  ASSUME TypeOK, NEW t \in Tokens
  PROVE  BookOf(t) \in Book
<1>1. EmptyBook \in Book
  BY BookFacts
<1> QED  BY <1>1 DEF BookOf, TypeOK

\* QueriesAgree of a book, wherever it comes from.
LEMMA QueriesTell ==
  ASSUME NEW b \in Book
  PROVE  /\ \A n \in 1..One + 1 :
              /\ IsPrefix(Cut(GetAllBids(b), n), GetAllBids(b))
              /\ IsPrefix(Cut(GetAllAsks(b), n), GetAllAsks(b))
              /\ Len(Cut(GetAllBids(b), n)) =
                    (IF Cardinality(Orders(b.bids)) < n THEN Cardinality(Orders(b.bids)) ELSE n)
              /\ Len(Cut(GetAllAsks(b), n)) =
                    (IF Cardinality(Orders(b.asks)) < n THEN Cardinality(Orders(b.asks)) ELSE n)
              /\ BestBid(b) # Absent => Cut(GetAllBids(b), n)[1] = BestBid(b)
              /\ BestAsk(b) # Absent => Cut(GetAllAsks(b), n)[1] = BestAsk(b)
         /\ \A p \in Prices : /\ IsPrefix(ScanBidsAbove(b, p), GetAllBids(b))
                              /\ IsPrefix(ScanAsksBelow(b, p), GetAllAsks(b))
         /\ BestBid(b) # Absent => ScanBidsAbove(b, BestBid(b)) = <<BestBid(b)>>
         /\ IsEmpty(b) <=> BestBid(b) = Absent /\ BestAsk(b) = Absent
<1> DEFINE B == Orders(b.bids)
           A == Orders(b.asks)
<1>1. /\ B \in SUBSET Prices /\ A \in SUBSET Prices
      /\ IsBest(BestBid(b), B, FromHigh) /\ IsBest(BestAsk(b), A, FromLow)
  BY BookOrders
<1>2. Lists(GetAllBids(b), B, FromHigh) /\ Lists(GetAllAsks(b), A, FromLow)
  BY <1>1, DescendingLists, AscendingLists DEF GetAllBids, GetAllAsks
<1> HIDE DEF A, B
<1>3. ASSUME NEW n \in 1..One + 1
      PROVE  /\ IsPrefix(Cut(GetAllBids(b), n), GetAllBids(b))
             /\ Len(Cut(GetAllBids(b), n)) = IF Cardinality(B) < n THEN Cardinality(B) ELSE n
             /\ BestBid(b) # Absent => Cut(GetAllBids(b), n)[1] = BestBid(b)
  <2> DEFINE d == GetAllBids(b)
             best == BestBid(b)
  <2>1. Lists(d, B, FromHigh) /\ IsBest(best, B, FromHigh) /\ B \in SUBSET Prices /\ IsOrder(FromHigh)
    BY <1>1, <1>2, OrdersOfPrices
  <2> HIDE DEF d, best
  <2>2. /\ IsPrefix(Cut(d, n), d)
        /\ Len(Cut(d, n)) = IF Cardinality(B) < n THEN Cardinality(B) ELSE n
        /\ Heads(best, Cut(d, n))
    BY <2>1, SideAgrees
  <2> QED  BY <2>2 DEF d, best, Heads
<1>4. ASSUME NEW n \in 1..One + 1
      PROVE  /\ IsPrefix(Cut(GetAllAsks(b), n), GetAllAsks(b))
             /\ Len(Cut(GetAllAsks(b), n)) = IF Cardinality(A) < n THEN Cardinality(A) ELSE n
             /\ BestAsk(b) # Absent => Cut(GetAllAsks(b), n)[1] = BestAsk(b)
  <2> DEFINE d == GetAllAsks(b)
             best == BestAsk(b)
  <2>1. Lists(d, A, FromLow) /\ IsBest(best, A, FromLow) /\ A \in SUBSET Prices /\ IsOrder(FromLow)
    BY <1>1, <1>2, OrdersOfPrices
  <2> HIDE DEF d, best
  <2>2. /\ IsPrefix(Cut(d, n), d)
        /\ Len(Cut(d, n)) = IF Cardinality(A) < n THEN Cardinality(A) ELSE n
        /\ Heads(best, Cut(d, n))
    BY <2>1, SideAgrees
  <2> QED  BY <2>2 DEF d, best, Heads
<1>5. ASSUME NEW p \in Prices
      PROVE  IsPrefix(ScanBidsAbove(b, p), GetAllBids(b))
  <2> DEFINE T == {q \in B : q >= p}
  <2>1. T \in SUBSET B /\ T \in SUBSET Prices
    BY <1>1
  <2>2. Lists(ScanBidsAbove(b, p), T, FromHigh)
    BY <2>1, DescendingLists DEF ScanBidsAbove, B
  <2>3. \A q \in T, r \in B : <<r, q>> \in FromHigh => r \in T
    BY BooksAssumption DEF FromHigh, Prices
  <2> HIDE DEF T
  <2> QED  BY <1>1, <1>2, <2>1, <2>2, <2>3, ListPrefix, OrdersOfPrices
<1>6. ASSUME NEW p \in Prices
      PROVE  IsPrefix(ScanAsksBelow(b, p), GetAllAsks(b))
  <2> DEFINE T == {q \in A : q <= p}
  <2>1. T \in SUBSET A /\ T \in SUBSET Prices
    BY <1>1
  <2>2. Lists(ScanAsksBelow(b, p), T, FromLow)
    BY <2>1, AscendingLists DEF ScanAsksBelow, A
  <2>3. \A q \in T, r \in A : <<r, q>> \in FromLow => r \in T
    BY BooksAssumption DEF FromLow, Prices
  <2> HIDE DEF T
  <2> QED  BY <1>1, <1>2, <2>1, <2>2, <2>3, ListPrefix, OrdersOfPrices
<1>7. ASSUME BestBid(b) # Absent PROVE ScanBidsAbove(b, BestBid(b)) = <<BestBid(b)>>
  <2> DEFINE best == BestBid(b)
             T == {q \in B : q = best \/ <<q, best>> \in FromHigh}
  <2>1. best \in B /\ best \in Prices /\ \A q \in B : <<q, best>> \notin FromHigh
    BY <1>1, <1>7 DEF IsBest
  <2>2. {q \in B : q >= best} = T
    <3>1. \A q \in B : q >= best <=> q = best \/ <<q, best>> \in FromHigh
      <4> HIDE DEF best
      <4> QED  BY <1>1, <2>1, BooksAssumption DEF FromHigh, Prices
    <3> QED  BY <3>1
  <2>3. T \in SUBSET Prices
    BY <1>1
  <2>4. Lists(ScanBidsAbove(b, best), T, FromHigh)
    BY <2>2, <2>3, DescendingLists DEF ScanBidsAbove, B
  <2> QED  BY <1>1, <2>1, <2>4, BestAlone, OrdersOfPrices
<1>8. IsEmpty(b) <=> BestBid(b) = Absent /\ BestAsk(b) = Absent
  <2>1. Absent \notin A /\ Absent \notin B
    <3>1. Absent \notin Prices
      BY BooksAssumption DEF Prices
    <3> QED  BY <1>1, <3>1
  <2>2. (B = {} <=> BestBid(b) = Absent) /\ (A = {} <=> BestAsk(b) = Absent)
    BY <1>1, <2>1 DEF IsBest
  <2> QED  BY <2>2 DEF IsEmpty, A, B
<1> QED  BY <1>3, <1>4, <1>5, <1>6, <1>7, <1>8 DEF A, B

\* The quotes, spreads, mid prices, lists, totals and scans of two mirrored books are
\* mirrored, however many ticks and whatever the sizes.
THEOREM QuotesAreMirrored == Spec => []QuotesMirror
<1>1. TypeOK => QuotesMirror
  <2> SUFFICES ASSUME TypeOK, NEW t \in Tokens PROVE
        LET b == BookOf(t)
            m == BookOf(MirrorToken(t))
        IN  m = [MirrorOf(b) EXCEPT !.initialized = m.initialized] =>
            /\ BestBid(m) = MirrorQuote(BestAsk(b))
            /\ GetSpread(m) = GetSpread(b)
            /\ Quoted(b) => GetMidPrice(m) + GetMidPrice(b) = 2 * One
            /\ GetAllBids(m) = MirrorOrders(GetAllAsks(b))
            /\ TotalSize(m.bids) = TotalSize(b.asks)
            /\ \A p \in Prices : ScanBidsAbove(m, MirrorPrice(p)) = MirrorOrders(ScanAsksBelow(b, p))
    BY DEF QuotesMirror
  <2>1. BookOf(t) \in Book
    BY BookOfIsBook
  <2>2. MirrorToken(t) \in Tokens
    BY DEF MirrorToken, Tokens
  <2>3. BookOf(MirrorToken(t)) \in Book
    BY <2>2, BookOfIsBook
  <2> QED  BY <2>1, <2>3, MirroredQuotes
<1> QED  BY <1>1, TypeCorrect, PTL

\* The queries of a book agree: the best order, the depths, the scans and the lists.
THEOREM QueriesTellOneStory == Spec => []QueriesAgree
<1>1. TypeOK => QueriesAgree
  <2> SUFFICES ASSUME TypeOK, NEW t \in Tokens PROVE
        LET b == BookOf(t)
            s == GetMarketSummary(t)
        IN  /\ \A n \in 1..One + 1 : LET d == GetDepth(b, n) IN
                  /\ IsPrefix(d.bids, GetAllBids(b)) /\ IsPrefix(d.asks, GetAllAsks(b))
                  /\ Len(d.bids) = (IF s.bidCount < n THEN s.bidCount ELSE n)
                  /\ Len(d.asks) = (IF s.askCount < n THEN s.askCount ELSE n)
                  /\ s.bestBid # Absent => d.bids[1] = s.bestBid
                  /\ s.bestAsk # Absent => d.asks[1] = s.bestAsk
            /\ \A p \in Prices : /\ IsPrefix(ScanBidsAbove(b, p), GetAllBids(b))
                                 /\ IsPrefix(ScanAsksBelow(b, p), GetAllAsks(b))
            /\ s.bestBid # Absent => ScanBidsAbove(b, s.bestBid) = <<s.bestBid>>
            /\ IsEmpty(b) <=> s.bestBid = Absent /\ s.bestAsk = Absent
    BY DEF QueriesAgree
  <2> DEFINE b == BookOf(t)
             s == GetMarketSummary(t)
  <2>1. b \in Book
    BY BookOfIsBook
  <2>2. /\ s.bestBid = BestBid(b) /\ s.bestAsk = BestAsk(b)
        /\ s.bidCount = Cardinality(Orders(b.bids)) /\ s.askCount = Cardinality(Orders(b.asks))
    BY DEF GetMarketSummary
  <2>3. \A n \in 1..One + 1 : /\ GetDepth(b, n).bids = Cut(GetAllBids(b), n)
                              /\ GetDepth(b, n).asks = Cut(GetAllAsks(b), n)
    BY DEF GetDepth
  <2> HIDE DEF b, s
  <2>4. \A n \in 1..One + 1 : LET d == GetDepth(b, n) IN
          /\ IsPrefix(d.bids, GetAllBids(b)) /\ IsPrefix(d.asks, GetAllAsks(b))
          /\ Len(d.bids) = (IF s.bidCount < n THEN s.bidCount ELSE n)
          /\ Len(d.asks) = (IF s.askCount < n THEN s.askCount ELSE n)
          /\ s.bestBid # Absent => d.bids[1] = s.bestBid
          /\ s.bestAsk # Absent => d.asks[1] = s.bestAsk
    BY <2>1, <2>2, <2>3, QueriesTell
  <2>5. /\ \A p \in Prices : /\ IsPrefix(ScanBidsAbove(b, p), GetAllBids(b))
                             /\ IsPrefix(ScanAsksBelow(b, p), GetAllAsks(b))
        /\ s.bestBid # Absent => ScanBidsAbove(b, s.bestBid) = <<s.bestBid>>
        /\ IsEmpty(b) <=> s.bestBid = Absent /\ s.bestAsk = Absent
    BY <2>1, <2>2, QueriesTell
  <2> QED  BY <2>4, <2>5 DEF b, s
<1> QED  BY <1>1, TypeCorrect, PTL
=============================================================================
