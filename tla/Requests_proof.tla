--------------------------- MODULE Requests_proof ---------------------------
(***************************************************************************)
(* Requests.tla for any calls, orders, batches and numbers of retries.      *)
(*                                                                         *)
(* None of the three properties is inductive.  Signed says that whatever was *)
(* accepted bore the salt of its order; Bounded ties the requests under way  *)
(* to the attempts made; FirstRequest says where the only request of a first *)
(* attempt can be; Closed says that a cancel is answered after it was done.  *)
(***************************************************************************)
EXTENDS Requests, TLAPS

Begun(c) == pc[c] \notin {"idle", "ready"}

Signed ==
    /\ \A a \in accepted : a.salt = <<a.order, 0>> /\ Begun(a.call)
    /\ \A m \in executed : Begun(m.call)

Bounded ==
    /\ \A m \in net : Begun(m.call) /\ m.attempt <= attempt[m.call]
    /\ \A c \in Calls : /\ ~Begun(c) => attempt[c] = 0 /\ reply[c] = "none"
                        /\ pc[c] = "delay" => attempt[c] > 0
                        /\ pc[c] = "done" <=> result[c] # "none"
                        /\ result[c] = "refused" => reply[c] = "refused"
                        /\ result[c] = "ok" =>
                              reply[c] = "ok" \/ (body[c].kind = "cancel" /\ reply[c] = "refused")

Nothing(c) == (\A a \in accepted : a.call # c) /\ (\A m \in executed : m.call # c)

FirstRequest ==
    \A c \in Calls : attempt[c] = 0 =>
        /\ (\E m \in net : m.call = c) => Nothing(c) /\ reply[c] \in {"none", "error"}
        /\ reply[c] = "refused" => Nothing(c)

\* The cancels whose success means that their orders are closed.
Definite(c) == body[c].kind \in {"cancel", "cancelAll"}

Closed ==
    \A c \in Calls :
        /\ known[c] \subseteq body[c].orders
        /\ \A o \in known[c] : \E a \in accepted : a.order = o
        /\ Dedupes /\ Definite(c) /\ reply[c] = "ok" => known[c] \intersect open = {}

IInv == TypeOK /\ Signed /\ Bounded /\ FirstRequest /\ Closed /\ AcceptedOnce

LEMMA InitIInv == Init => IInv
<1> SUFFICES ASSUME Init PROVE IInv
  OBVIOUS
<1>1. 0 \in Attempts
  BY RequestsAssumption DEF Attempts
<1>2. TypeOK
  <2>1. body \in [Calls -> Bodies]
    BY DEF Init, Bodies
  <2>2. reply \in [Calls -> {"none", "ok", "refused", "error"}]
    BY DEF Init
  <2>3. result \in [Calls -> {"none", "ok", "refused", "failed", "cancelled"}]
    BY DEF Init
  <2>4. pc \in [Calls -> {"idle", "ready", "flight", "delay", "done"}]
    BY DEF Init
  <2> QED
    BY <1>1, <2>1, <2>2, <2>3, <2>4 DEF Init, TypeOK
<1>3. Signed /\ Bounded /\ FirstRequest /\ Closed /\ AcceptedOnce
  BY DEF Init, Signed, Bounded, FirstRequest, Closed, AcceptedOnce, Begun, Nothing
<1> QED
  BY <1>2, <1>3 DEF IInv

\* The bodies of the calls are bodies.
LEMMA CallBodies ==
  ASSUME TypeOK, NEW c \in Calls, Call(c)
  PROVE  \/ \E kind \in {"place", "batch", "cancel", "cancelList", "cancelAll", "transact"},
              orders \in SUBSET Orders : Begin(c, kind, orders)
         \/ CreateSignedOrderFails(c)
<1>1. CASE PlaceOrder(c)
  <2>1. {<<c, 1>>} \in SUBSET Orders
    BY RequestsAssumption DEF Orders
  <2> QED
    BY <1>1, <2>1 DEF PlaceOrder
<1>2. CASE PlaceOrdersBatch(c)
  <2>1. PICK n \in 2..BatchSize : Begin(c, "batch", {c} \X (1..n))
    BY <1>2 DEF PlaceOrdersBatch
  <2>2. {c} \X (1..n) \in SUBSET Orders
    BY RequestsAssumption DEF Orders
  <2> QED
    BY <2>1, <2>2
<1>3. CASE CreateSignedOrderFails(c)
  BY <1>3
<1>4. CASE SubmitPreSignedOrder(c)
  BY <1>4 DEF SubmitPreSignedOrder, Orders
<1>5. CASE SubmitPreSignedOrders(c)
  BY <1>5 DEF SubmitPreSignedOrders, Orders
<1>6. Placed \subseteq Orders
  BY DEF TypeOK, Placed, Acceptances
<1>7. CASE CancelOrder(c)
  BY <1>6, <1>7 DEF CancelOrder
<1>8. CASE CancelOrders(c)
  BY <1>6, <1>8 DEF CancelOrders
<1>9. CASE CancelAllOrders(c)
  BY <1>9, RequestsAssumption DEF CancelAllOrders
<1>10. CASE Transact(c)
  BY <1>10 DEF Transact
<1> QED
  BY <1>1, <1>2, <1>3, <1>4, <1>5, <1>7, <1>8, <1>9, <1>10 DEF Call

\* A call is made, or fails before it asks for anything.
LEMMA CallStep ==
  ASSUME IInv, NEW c \in Calls, Call(c)
  PROVE  IInv'
<1> USE DEF IInv, TypeOK, Signed, Bounded, FirstRequest, Closed, AcceptedOnce, Begun, Nothing,
        exchangeVars
<1>1. CASE CreateSignedOrderFails(c)
  <2>1. /\ pc[c] = "idle" /\ pc' = [pc EXCEPT ![c] = "done"]
        /\ result' = [result EXCEPT ![c] = "failed"]
        /\ UNCHANGED <<body, attempt, reply, net, accepted, open, executed, known>>
    BY <1>1 DEF CreateSignedOrderFails
  <2>2. TypeOK'
    BY <2>1
  <2>3. Signed' /\ FirstRequest' /\ Closed' /\ AcceptedOnce'
    BY <2>1 DEF Definite
  <2>4. Bounded'
    BY <2>1
  <2> QED
    BY <2>2, <2>3, <2>4
<1>2. ASSUME NEW kind \in {"place", "batch", "cancel", "cancelList", "cancelAll", "transact"},
             NEW orders \in SUBSET Orders, Begin(c, kind, orders)
      PROVE  IInv'
  <2>1. [kind |-> kind, orders |-> orders] \in Bodies
    BY DEF Bodies
  <2>2. TypeOK'
    BY <1>2, <2>1 DEF Begin
  <2>3. Signed' /\ Bounded' /\ FirstRequest' /\ AcceptedOnce'
    BY <1>2 DEF Begin
  <2>4. Closed'
    BY <1>2 DEF Begin, Acknowledged, Definite
  <2> QED
    BY <2>2, <2>3, <2>4
<1> QED
  BY <1>1, <1>2, CallBodies

\* doRequest.
LEMMA RequestStep ==
  ASSUME IInv, NEW c \in Calls, Step(c) \/ Misread(c) \/ MissingData(c) \/ Cancel(c) \/ Fail(c)
  PROVE  IInv'
<1> USE RequestsAssumption DEF IInv, TypeOK, Signed, Bounded, FirstRequest, Closed, AcceptedOnce,
        Begun, Nothing, Definite, exchangeVars, Attempts
<1>1. CASE Send(c)
  <2>1. [call |-> c, attempt |-> attempt[c]] \in Posts
    BY DEF Posts
  <2>2. TypeOK'
    BY <1>1, <2>1 DEF Send
  <2>3. Signed' /\ AcceptedOnce' /\ Closed'
    BY <1>1 DEF Send
  <2>4. Bounded'
    BY <1>1 DEF Send, Posts
  <2>5. FirstRequest'
    BY <1>1 DEF Send
  <2> QED
    BY <2>2, <2>3, <2>4, <2>5
<1>2. CASE Final(c)
  BY <1>2 DEF Final, Return
<1>3. CASE Retry(c)
  <2>1. CASE attempt[c] = MaxRetries /\ Return(c, "failed")
    BY <1>3, <2>1 DEF Retry, Return
  <2>2. CASE attempt[c] < MaxRetries /\ attempt' = [attempt EXCEPT ![c] = @ + 1]
    <3>1. pc' = [pc EXCEPT ![c] = "delay"] /\ pc[c] = "flight"
      BY <1>3, <2>2 DEF Retry, Return
    <3>2. UNCHANGED <<body, reply, result, net, accepted, open, executed, known>>
      BY <1>3, <2>2 DEF Retry, Return
    <3>3. attempt'[c] > 0 /\ attempt'[c] \in Attempts /\ attempt'[c] = attempt[c] + 1
      BY <2>2
    <3>4. TypeOK'
      BY <2>2, <3>1, <3>2, <3>3
    <3>5. Signed' /\ AcceptedOnce' /\ Closed'
      BY <3>1, <3>2
    <3>6. FirstRequest'
      BY <2>2, <3>2, <3>3
    <3>7. Bounded'
      BY <2>2, <3>1, <3>2, <3>3 DEF Posts
    <3> QED
      BY <3>4, <3>5, <3>6, <3>7
  <2> QED
    BY <1>3, <2>1, <2>2 DEF Retry
<1>4. CASE Cancel(c)
  BY <1>4 DEF Cancel, Return
<1>5. CASE Fail(c)
  BY <1>5 DEF Fail
<1>6. CASE MissingData(c)
  BY <1>6 DEF MissingData, Return
<1>7. CASE Misread(c)
  BY <1>7 DEF Misread, Return
<1> QED
  BY <1>1, <1>2, <1>3, <1>4, <1>5, <1>6, <1>7 DEF Step

\* A request arrives and is answered, whatever the answer, if what it did to the
\* exchange keeps the account of it.
LEMMA AnswerStep ==
  ASSUME IInv, NEW m \in net, NEW r \in {"ok", "refused", "error"}, Answer(m, r),
         accepted' \subseteq Acceptances, open' \subseteq Orders, executed' \subseteq Posts,
         r = "refused" => accepted' = accepted /\ executed' = executed,
         \A c \in Calls : c # m.call => (Nothing(c) => Nothing(c)'),
         Signed', AcceptedOnce', Closed'
  PROVE  IInv'
<1> USE DEF IInv, TypeOK, Bounded, FirstRequest, Begun, Nothing
<1>1. TypeOK'
  BY DEF Answer, Posts
<1>2. Bounded'
  BY DEF Answer, Posts
<1>3. FirstRequest'
  <2> SUFFICES ASSUME NEW c \in Calls, attempt[c] = 0
               PROVE  /\ (\E n \in net' : n.call = c) =>
                            Nothing(c)' /\ reply'[c] \in {"none", "error"}
                      /\ reply'[c] = "refused" => Nothing(c)'
    BY DEF Answer
  <2>1. CASE c = m.call
    <3>1. \A n \in net : n.call = c => n = m
      BY <2>1 DEF Posts, Attempts
    <3>2. \A n \in net' : n.call # c
      BY <3>1 DEF Answer
    <3>3. Nothing(c) /\ reply[c] \in {"none", "error"}
      BY <2>1
    <3> QED
      BY <2>1, <3>2, <3>3 DEF Answer
  <2>2. CASE c # m.call
    BY <2>2 DEF Answer
  <2> QED
    BY <2>1, <2>2
<1> QED
  BY <1>1, <1>2, <1>3

\* The exchange accepts orders.
LEMMA AcceptStep ==
  ASSUME IInv, NEW m \in net, Accept(m)
  PROVE  IInv'
<1> USE DEF IInv
<1> DEFINE bought(S) == {[call |-> m.call, order |-> o, salt |-> Salt(m, o)] : o \in S}
<1>1. PICK S \in SUBSET {o \in body[m.call].orders : Fresh(m, o)} :
         accepted' = accepted \union bought(S) /\ open' = open \union S
  BY DEF Accept
<1>2. m.call \in Calls /\ body[m.call] \in Bodies
  BY DEF TypeOK, Posts
<1>3. S \subseteq Orders /\ \A o \in S : Fresh(m, o)
  BY <1>2 DEF Bodies
<1>4. Answer(m, "ok") /\ executed' = executed /\ ~Definite(m.call)
  BY DEF Accept, Definite
<1>5. 0 \in Attempts
  BY RequestsAssumption DEF Attempts
<1>6. bought(S) \subseteq Acceptances
  BY <1>2, <1>3, <1>5 DEF Acceptances, Salt
<1>7. \A a \in bought(S) : a.call = m.call /\ a.order \in S /\ a.salt = <<a.order, 0>>
  BY DEF Salt
<1>8. Dedupes => \A a \in bought(S), b \in accepted : a.order # b.order
  BY <1>3, <1>7 DEF Fresh, Salt, Signed
<1>9. accepted' \subseteq Acceptances /\ open' \subseteq Orders /\ executed' \subseteq Posts
  BY <1>1, <1>3, <1>4, <1>6 DEF TypeOK
<1>10. Signed'
  BY <1>1, <1>4, <1>7 DEF Signed, Bounded, Answer, Begun
<1>11. AcceptedOnce'
  <2>1. \A a, b \in bought(S) : a.order = b.order => a = b
    OBVIOUS
  <2> QED
    BY <1>1, <1>8, <2>1 DEF AcceptedOnce
<1>12. Closed'
  <2> SUFFICES ASSUME NEW c \in Calls
               PROVE  /\ known'[c] \subseteq body'[c].orders
                      /\ \A o \in known'[c] : \E a \in accepted' : a.order = o
                      /\ Dedupes /\ Definite(c)' /\ reply'[c] = "ok" =>
                            known'[c] \intersect open' = {}
    BY DEF Closed
  <2>1. known' = known /\ body' = body
    BY <1>4 DEF Answer
  <2>2. \A o \in known[c] : \E a \in accepted : a.order = o
    BY DEF Closed
  <2>3. Dedupes => known[c] \intersect S = {}
    <3> SUFFICES ASSUME Dedupes, NEW o \in S, NEW b \in accepted, b.order = o
                 PROVE  FALSE
      BY <2>2
    <3>1. [call |-> m.call, order |-> o, salt |-> Salt(m, o)] \in bought(S)
      OBVIOUS
    <3> QED
      BY <1>8, <3>1
  <2>4. Definite(c) /\ reply'[c] = "ok" => reply[c] = "ok"
    BY <1>2, <1>4 DEF Answer, TypeOK
  <2>5. Definite(c)' <=> Definite(c)
    BY <2>1 DEF Definite
  <2> QED
    BY <1>1, <2>1, <2>2, <2>3, <2>4, <2>5 DEF Closed
<1>13. \A c \in Calls : c # m.call => (Nothing(c) => Nothing(c)')
  BY <1>1, <1>4, <1>7 DEF Nothing
<1> HIDE DEF bought, IInv
<1> QED
  BY <1>4, <1>9, <1>10, <1>11, <1>12, <1>13, AnswerStep

\* The exchange carries out a transaction.
LEMMA ExecuteStep ==
  ASSUME IInv, NEW m \in net, Execute(m)
  PROVE  IInv'
<1>1. /\ Answer(m, "ok") /\ body[m.call].kind = "transact"
      /\ executed' = executed \union {m} /\ accepted' = accepted /\ open' = open
  BY DEF Execute
<1>2. m \in Posts /\ Begun(m.call)
  BY DEF IInv, TypeOK, Bounded
<1>3. Signed' /\ AcceptedOnce'
  BY <1>1, <1>2 DEF IInv, Signed, AcceptedOnce, Begun, Answer
<1>4. Closed'
  <2>1. known' = known /\ body' = body
    BY <1>1 DEF Answer
  <2>2. \A c \in Calls : reply'[c] = "ok" /\ Definite(c) => reply[c] = "ok"
    BY <1>1, <1>2 DEF Answer, IInv, TypeOK, Posts, Definite
  <2> QED
    BY <1>1, <2>1, <2>2 DEF IInv, Closed, Definite
<1>5. accepted' \subseteq Acceptances /\ open' \subseteq Orders /\ executed' \subseteq Posts
  BY <1>1, <1>2 DEF IInv, TypeOK
<1>6. \A c \in Calls : c # m.call => (Nothing(c) => Nothing(c)')
  BY <1>1 DEF Nothing
<1> QED
  BY <1>1, <1>3, <1>4, <1>5, <1>6, AnswerStep

\* The exchange cancels orders, refuses a request, or is too busy for it.
LEMMA OtherAnswers ==
  ASSUME IInv, NEW m \in net, Close(m) \/ Refuse(m) \/ Busy(m)
  PROVE  IInv'
<1>1. PICK r \in {"ok", "refused", "error"} :
         /\ Answer(m, r)
         /\ r = "ok" => Close(m)
         /\ r # "ok" => UNCHANGED open
  BY DEF Close, Refuse, Busy, exchangeVars
<1>2. accepted' = accepted /\ open' \subseteq open /\ executed' = executed
  BY DEF Close, Refuse, Busy, exchangeVars
<1>3. Signed' /\ AcceptedOnce'
  BY <1>1, <1>2 DEF IInv, Signed, Begun, AcceptedOnce, Answer
<1>4. Closed'
  <2>1. known' = known /\ body' = body
    BY <1>1 DEF Answer
  <2>2. \A c \in Calls : reply'[c] = "ok" => reply[c] = "ok" \/ (r = "ok" /\ c = m.call)
    <3>1. reply' = reply \/ reply' = [reply EXCEPT ![m.call] = r]
      BY <1>1 DEF Answer
    <3>2. reply \in [Calls -> {"none", "ok", "refused", "error"}]
      BY DEF IInv, TypeOK
    <3> QED
      BY <3>1, <3>2
  <2>3. r = "ok" /\ Definite(m.call) => open' = open \ body[m.call].orders
    BY <1>1 DEF Close, Definite
  <2> QED
    BY <1>2, <2>1, <2>2, <2>3 DEF IInv, Closed, Definite
<1>5. accepted' \subseteq Acceptances /\ open' \subseteq Orders /\ executed' \subseteq Posts
  BY <1>2 DEF IInv, TypeOK
<1>6. \A c \in Calls : Nothing(c) => Nothing(c)'
  BY <1>2 DEF Nothing
<1> QED
  BY <1>1, <1>2, <1>3, <1>4, <1>5, <1>6, AnswerStep

LEMMA LostStep ==
  ASSUME IInv, NEW m \in net, Lost(m)
  PROVE  IInv'
BY DEF Lost, exchangeVars, IInv, TypeOK, Signed, Bounded, FirstRequest, Closed, AcceptedOnce,
       Begun, Nothing, Definite

LEMMA NextIInv == IInv /\ [Next]_vars => IInv'
<1> SUFFICES ASSUME IInv, [Next]_vars PROVE IInv'
  OBVIOUS
<1>1. CASE UNCHANGED vars
  BY <1>1 DEF vars, exchangeVars, IInv, TypeOK, Signed, Bounded, FirstRequest, Closed,
              AcceptedOnce, Begun, Nothing, Definite
<1>2. CASE \E c \in Calls : Call(c) \/ Step(c) \/ Misread(c) \/ MissingData(c) \/ Cancel(c) \/ Fail(c)
  BY <1>2, CallStep, RequestStep
<1>3. CASE \E m \in net : Accept(m) \/ Close(m) \/ Execute(m) \/ Refuse(m) \/ Busy(m) \/ Lost(m)
  BY <1>3, AcceptStep, ExecuteStep, OtherAnswers, LostStep
<1> QED
  BY <1>1, <1>2, <1>3 DEF Next

\* The inductive invariant holds throughout.
THEOREM Invariance == Spec => []IInv
BY InitIInv, NextIInv, PTL DEF Spec

\* The variables keep their types: no more attempts are made than there are retries.
THEOREM TypeCorrect == Spec => []TypeOK
<1>1. IInv => TypeOK
  BY DEF IInv
<1> QED
  BY <1>1, Invariance, PTL

\* However an order is repeated or submitted, an exchange that accepts a salt once
\* accepts it once.
THEOREM OrdersAcceptedOnce == Spec => []AcceptedOnce
<1>1. IInv => AcceptedOnce
  BY DEF IInv
<1> QED
  BY <1>1, Invariance, PTL

\* A call that was answered at its first request has nothing under way.
THEOREM FirstAnswersAreDefinite == Spec => []FirstAnswerIsDefinite
<1>1. IInv => FirstAnswerIsDefinite
  BY DEF IInv, TypeOK, Bounded, FirstRequest, Nothing, FirstAnswerIsDefinite
<1> QED
  BY <1>1, Invariance, PTL

\* What was acknowledged before CancelOrder or CancelAllOrders is closed after it, unless
\* a refusal was misread.
THEOREM CancelsStick == Spec => []CancelSticks
<1>1. IInv => CancelSticks
  BY DEF IInv, TypeOK, Bounded, Closed, Definite, CancelSticks
<1> QED
  BY <1>1, Invariance, PTL
=============================================================================
