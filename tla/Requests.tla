------------------------------ MODULE Requests ------------------------------
(***************************************************************************)
(* common/http.go under clob/orders.go and clob/account.go: doRequest repeats *)
(* a POST that may already have been carried out.  Calls place orders,       *)
(* submit orders signed before (an order may be submitted by several calls), *)
(* cancel them, or split, merge and redeem tokens; each hands one body to    *)
(* doRequest, which sends it until an answer is final, the retries are used  *)
(* up or the context is done.                                               *)
(*                                                                         *)
(* The exchange is outside the repository.  It carries a request out, refuses *)
(* it (a 4xx but 429, or an error in the body) or is too busy for it (429,    *)
(* 5xx); of the orders of a batch it accepts any, and of a list to cancel it  *)
(* closes any.  A salt it has accepted it does not accept again, if Dedupes;  *)
(* a split, a merge or a redemption bears none.  The network delays and loses *)
(* requests and answers.                                                    *)
(***************************************************************************)
EXTENDS Naturals, FiniteSets

CONSTANTS Calls,       \* calls of the client's methods
          PreSigned,   \* orders made by CreatePreSignedOrder
          BatchSize,   \* bound: orders in a call of PlaceOrdersBatch
          MaxRetries,  \* config.MaxRetries
          Dedupes,     \* the exchange accepts a salt once
          Filters      \* the orders that a MarketID and a Side may select

Orders == (Calls \X (1..BatchSize)) \union PreSigned

ASSUME RequestsAssumption ==
    /\ (Calls \X (1..BatchSize)) \intersect PreSigned = {}
    /\ BatchSize \in Nat \ {0}
    /\ MaxRetries \in Nat
    /\ Dedupes \in BOOLEAN
    /\ Filters \subseteq SUBSET Orders

Attempts == 0..MaxRetries

\* What a call asks for: to place an order or a batch, to cancel an order, a list or
\* all that a filter selects, or a transaction.
Bodies == [kind : {"none", "place", "batch", "cancel", "cancelList", "cancelAll", "transact"},
           orders : SUBSET Orders]

\* A request: an attempt of a call.
Posts == [call : Calls, attempt : Attempts]

\* An order accepted, by the request that brought it and the salt it bore.
Acceptances == [call : Calls, order : Orders, salt : Orders \X Attempts]

VARIABLES
    body,      \* what a call asks for
    pc,        \* "idle", "ready", "flight", "delay" or "done"
    attempt,   \* the loop variable of doRequest
    reply,     \* what client.Do returned for this attempt
    result,    \* what the call returned
    net,       \* requests that have not reached the exchange
    accepted,  \* orders the exchange has accepted
    open,      \* those of them that are not cancelled
    executed,  \* requests for a transaction that were carried out
    known      \* of the orders a call is about, those acknowledged when it began

exchangeVars == <<accepted, open, executed>>
vars == <<body, pc, attempt, reply, result, net, exchangeVars, known>>

TypeOK ==
    /\ body \in [Calls -> Bodies]
    /\ pc \in [Calls -> {"idle", "ready", "flight", "delay", "done"}]
    /\ attempt \in [Calls -> Attempts]
    /\ reply \in [Calls -> {"none", "ok", "refused", "error"}]
    /\ result \in [Calls -> {"none", "ok", "refused", "failed", "cancelled"}]
    /\ net \subseteq Posts
    /\ accepted \subseteq Acceptances
    /\ open \subseteq Orders
    /\ executed \subseteq Posts
    /\ known \in [Calls -> SUBSET Orders]

Init ==
    /\ body = [c \in Calls |-> [kind |-> "none", orders |-> {}]]
    /\ pc = [c \in Calls |-> "idle"]
    /\ attempt = [c \in Calls |-> 0]
    /\ reply = [c \in Calls |-> "none"]
    /\ result = [c \in Calls |-> "none"]
    /\ net = {}
    /\ accepted = {}
    /\ open = {}
    /\ executed = {}
    /\ known = [c \in Calls |-> {}]

Placed == {a.order : a \in accepted}

-----------------------------------------------------------------------------
(* The calls.                                                              *)

\* The caller knows that the order was accepted.
Acknowledged(o) == \E a \in accepted : a.order = o /\ result[a.call] = "ok"

Begin(c, kind, orders) ==
    /\ pc[c] = "idle"
    /\ pc' = [pc EXCEPT ![c] = "ready"]
    /\ body' = [body EXCEPT ![c] = [kind |-> kind, orders |-> orders]]
    /\ known' = [known EXCEPT ![c] = {o \in orders : Acknowledged(o)}]
    /\ UNCHANGED <<attempt, reply, result, net, exchangeVars>>

\* One order is signed ...
PlaceOrder(c) == Begin(c, "place", {<<c, 1>>})

\* ... or several, for one request.
PlaceOrdersBatch(c) == \E n \in 2..BatchSize : Begin(c, "batch", {c} \X (1..n))

\* CreateSignedOrder refuses the price, or one of a batch, or an argument is
\* missing: nothing is sent.
CreateSignedOrderFails(c) ==
    /\ pc[c] = "idle"
    /\ pc' = [pc EXCEPT ![c] = "done"]
    /\ result' = [result EXCEPT ![c] = "failed"]
    /\ UNCHANGED <<body, attempt, reply, net, exchangeVars, known>>

SubmitPreSignedOrder(c) == \E o \in PreSigned : Begin(c, "place", {o})

SubmitPreSignedOrders(c) == \E S \in SUBSET PreSigned \ {{}} : Begin(c, "batch", S)

\* The application has the identifiers of orders the exchange has accepted.
CancelOrder(c) == \E o \in Placed : Begin(c, "cancel", {o})

CancelOrders(c) == \E S \in SUBSET Placed \ {{}} : Begin(c, "cancelList", S)

CancelAllOrders(c) == \E S \in Filters : Begin(c, "cancelAll", S)

\* EnableTrading, Split, Merge or Redeem.
Transact(c) == Begin(c, "transact", {})

Call(c) ==
    \/ PlaceOrder(c) \/ PlaceOrdersBatch(c) \/ CreateSignedOrderFails(c)
    \/ SubmitPreSignedOrder(c) \/ SubmitPreSignedOrders(c)
    \/ CancelOrder(c) \/ CancelOrders(c) \/ CancelAllOrders(c) \/ Transact(c)

-----------------------------------------------------------------------------
(* doRequest.                                                              *)

Send(c) ==
    /\ pc[c] \in {"ready", "delay"}
    /\ pc' = [pc EXCEPT ![c] = "flight"]
    /\ reply' = [reply EXCEPT ![c] = "none"]
    /\ net' = net \union {[call |-> c, attempt |-> attempt[c]]}
    /\ UNCHANGED <<body, attempt, result, exchangeVars, known>>

Return(c, r) ==
    /\ pc' = [pc EXCEPT ![c] = "done"]
    /\ result' = [result EXCEPT ![c] = r]
    /\ UNCHANGED <<body, attempt, reply, net, exchangeVars, known>>

\* Mutant: no method looks at the error in the body of an answer.
FinalUnread(c) ==
    /\ pc[c] = "flight"
    /\ reply[c] \in {"ok", "refused"}
    /\ Return(c, "ok")

\* A final answer: success, or an error that is not retried, in the status or in the
\* field of the body that the method reads.
Final(c) ==
    /\ pc[c] = "flight"
    /\ reply[c] \in {"ok", "refused"}
    /\ Return(c, reply[c])

\* CancelOrder reads `code`.  A refusal that its endpoint reports as `errno`, as the
\* other endpoints under /openapi do, it takes for success.
Misread(c) ==
    /\ pc[c] = "flight"
    /\ reply[c] = "refused"
    /\ body[c].kind = "cancel"
    /\ Return(c, "ok")

\* PlaceOrder and SubmitPreSignedOrder: a success that lacks the order's data is an
\* error, although the order may have been accepted.
MissingData(c) ==
    /\ pc[c] = "flight"
    /\ reply[c] = "ok"
    /\ body[c].kind = "place"
    /\ Return(c, "failed")

\* Mutant: the retries are not counted.
RetryForEver(c) ==
    /\ pc[c] = "flight"
    /\ reply[c] = "error"
    /\ pc' = [pc EXCEPT ![c] = "delay"]
    /\ UNCHANGED <<body, attempt, reply, result, net, exchangeVars, known>>

\* Mutant: no answer is taken for a refusal.
RetryNever(c) ==
    /\ pc[c] = "flight"
    /\ reply[c] = "error"
    /\ Return(c, "refused")

\* Any other error: wait and try again, or return the last one.
Retry(c) ==
    /\ pc[c] = "flight"
    /\ reply[c] = "error"
    /\ \/ /\ attempt[c] < MaxRetries
          /\ attempt' = [attempt EXCEPT ![c] = @ + 1]
          /\ pc' = [pc EXCEPT ![c] = "delay"]
          /\ UNCHANGED <<body, reply, result, net, exchangeVars, known>>
       \/ attempt[c] = MaxRetries /\ Return(c, "failed")

\* The context is done while doRequest waits to try again.
Cancel(c) ==
    /\ pc[c] = "delay"
    /\ Return(c, "cancelled")

\* client.Do fails: a timeout, a broken connection, a body that cannot be read
\* or parsed.  The request may have arrived, or may arrive later.
Fail(c) ==
    /\ pc[c] = "flight"
    /\ reply[c] \in {"none", "ok", "refused"}
    /\ reply' = [reply EXCEPT ![c] = "error"]
    /\ UNCHANGED <<body, pc, attempt, result, net, exchangeVars, known>>

-----------------------------------------------------------------------------
(* The exchange and the network.                                           *)

\* The answer reaches the client if it still waits for it.
Answer(m, r) ==
    /\ net' = net \ {m}
    /\ reply' = IF pc[m.call] = "flight" /\ attempt[m.call] = m.attempt /\ reply[m.call] = "none"
                THEN [reply EXCEPT ![m.call] = r] ELSE reply
    /\ UNCHANGED <<body, pc, attempt, result, known>>

\* Mutant: every attempt signs the orders again.
SaltOfAttempt(m, o) == <<o, m.attempt>>

\* The salt an order bears in a request: it was signed before doRequest.
Salt(m, o) == <<o, 0>>

Fresh(m, o) == Dedupes => \A a \in accepted : a.salt # Salt(m, o)

\* Orders are accepted: that of the request, or any of a batch but none it knows.
Accept(m) ==
    /\ body[m.call].kind \in {"place", "batch"}
    /\ \E S \in SUBSET {o \in body[m.call].orders : Fresh(m, o)} \ {{}} :
          /\ accepted' = accepted \union
                {[call |-> m.call, order |-> o, salt |-> Salt(m, o)] : o \in S}
          /\ open' = open \union S
    /\ UNCHANGED executed
    /\ Answer(m, "ok")

\* Orders are closed: the order, all that are selected, or any of a list, whose
\* results CancelOrders does not read.
Close(m) ==
    /\ body[m.call].kind \in {"cancel", "cancelList", "cancelAll"}
    /\ \E S \in SUBSET body[m.call].orders :
          /\ body[m.call].kind # "cancelList" => S = body[m.call].orders
          /\ open' = open \ S
    /\ UNCHANGED <<accepted, executed>>
    /\ Answer(m, "ok")

\* A transaction is carried out, again if it was before: it bears no salt.
Execute(m) ==
    /\ body[m.call].kind = "transact"
    /\ executed' = executed \union {m}
    /\ UNCHANGED <<accepted, open>>
    /\ Answer(m, "ok")

\* A refusal, for a salt it knows or for a reason of its own ...
Refuse(m) == UNCHANGED exchangeVars /\ Answer(m, "refused")

\* ... or an answer that is retried.
Busy(m) == UNCHANGED exchangeVars /\ Answer(m, "error")

Lost(m) ==
    /\ net' = net \ {m}
    /\ UNCHANGED <<body, pc, attempt, reply, result, exchangeVars, known>>

Step(c) == Send(c) \/ Final(c) \/ Retry(c)

Next ==
    \/ \E c \in Calls : Call(c) \/ Step(c) \/ Misread(c) \/ MissingData(c) \/ Cancel(c) \/ Fail(c)
    \/ \E m \in net : Accept(m) \/ Close(m) \/ Execute(m) \/ Refuse(m) \/ Busy(m) \/ Lost(m)

Spec == Init /\ [][Next]_vars

\* The goroutine of a call runs and client.Timeout bounds client.Do; the exchange
\* and the network owe nothing.
FairSpec ==
    /\ Spec
    /\ \A c \in Calls : WF_vars(Step(c)) /\ WF_vars(Fail(c))

-----------------------------------------------------------------------------
(* Properties.                                                             *)

\* However often an order is sent, alone or in a batch, it is accepted at most
\* once by an exchange that accepts a salt once: doRequest repeats the body it was
\* given, a retry never signs anew, and a pre-signed order may be submitted by call
\* after call.
AcceptedOnce ==
    Dedupes => \A a, b \in accepted : a.order = b.order => a = b

\* The answer to a first request is the last word of a call: no request of it can
\* still arrive, to place an order, to cancel those placed meanwhile or to split
\* once more, and after a refusal it has left nothing at the exchange.  (After a
\* retry neither is so, and a transaction may have been carried out twice.)
FirstAnswerIsDefinite ==
    \A c \in Calls : result[c] \in {"ok", "refused"} /\ attempt[c] = 0 =>
        /\ \A m \in net : m.call # c
        /\ result[c] = "refused" => /\ \A a \in accepted : a.call # c
                                    /\ \A m \in executed : m.call # c

\* An order that was acknowledged when CancelOrder or CancelAllOrders was called is
\* closed once that has returned without error, and stays closed, whatever requests for
\* it are still on their way: what is open of those selected was placed later or by a
\* call that had no answer yet.  (Not so when CancelOrder misread a refusal; and of a
\* list CancelOrders does not know what was closed.)
CancelSticks ==
    Dedupes => \A c \in Calls :
        /\ body[c].kind \in {"cancel", "cancelAll"} /\ result[c] = "ok"
        /\ ~(body[c].kind = "cancel" /\ reply[c] = "refused")
        => known[c] \intersect open = {}

\* Every call returns, although no answer ever need arrive.
Returns == \A c \in Calls : pc[c] = "flight" ~> pc[c] = "done"
=============================================================================
