----------------------------- MODULE Lifecycle -----------------------------
(***************************************************************************)
(* orderbook/sdk.go: Start, Stop and the periodic validation, called by     *)
(* goroutines of the application in any order, on the client of ws_client.go: *)
(* what Start's Connect and Stop's Close make of it, and its reconnections.   *)
(*                                                                         *)
(* s.mu protects started and validationCancel; Start connects and sets      *)
(* s.ctx without it, and Stop cancels, stops the manager and closes the     *)
(* client after releasing it.  The context of a Start and the validation of *)
(* a StartPeriodicValidation are numbered in the order they are made.       *)
(***************************************************************************)
EXTENDS Naturals

CONSTANTS Callers,        \* goroutines of the application
          MaxContexts,    \* bound: how many calls of Start connect
          MaxValidations  \* bound: how many validations are started

ASSUME LifecycleAssumption == MaxContexts \in Nat /\ MaxValidations \in Nat

Contexts == 1..MaxContexts
Validations == 1..MaxValidations

VARIABLES
    started,      \* s.started
    ctx,          \* s.ctx with s.cancel: the context made last, 0 if none
    cancelled,    \* contexts that are cancelled
    validation,   \* s.validationCancel: the validation it cancels, 0 if none
    validator,    \* where the goroutine of a validation stands
    parent,       \* the context a validation's own is derived from
    revoked,      \* validations whose own context was cancelled
    pc,           \* where a call to Start or Stop stands
    client,       \* the client's state; Disconnected is "lost" if it gave up, else "down"
    reconnecting, \* its reconnect goroutine runs
    closed,       \* its closeChan is closed
    told,         \* a Start has returned an error since the last one looked at the client
    stopped,      \* updateChan of the manager is closed
    panicked      \* a notification was sent on it

clientVars == <<client, reconnecting, closed, told>>
mainVars == <<started, ctx, cancelled, pc, stopped, clientVars>>
validationVars == <<validation, validator, parent, revoked>>
vars == <<mainVars, validationVars, panicked>>

TypeOK ==
    /\ started \in BOOLEAN /\ stopped \in BOOLEAN /\ panicked \in BOOLEAN
    /\ client \in {"down", "dialling", "serving", "recovering", "lost"}
    /\ reconnecting \in BOOLEAN /\ closed \in BOOLEAN /\ told \in BOOLEAN
    /\ ctx \in 0..MaxContexts
    /\ cancelled \subseteq Contexts
    /\ validation \in 0..MaxValidations
    /\ validator \in [Validations -> {"none", "waiting", "fetching", "ended"}]
    /\ parent \in [Validations -> 0..MaxContexts]
    /\ revoked \subseteq Validations
    /\ pc \in [Callers -> {"idle", "connect", "connecting", "dial", "context", "mark",
                           "cancel", "manager", "close"}]

\* NewSDK
Init ==
    /\ started = FALSE /\ stopped = FALSE /\ panicked = FALSE
    /\ client = "down" /\ reconnecting = FALSE /\ closed = FALSE /\ told = FALSE
    /\ ctx = 0 /\ cancelled = {}
    /\ validation = 0 /\ revoked = {}
    /\ validator = [v \in Validations |-> "none"]
    /\ parent = [v \in Validations |-> 0]
    /\ pc = [p \in Callers |-> "idle"]

Goes(p, from, to) == /\ ~panicked
                     /\ pc[p] = from
                     /\ pc' = [pc EXCEPT ![p] = to]

-----------------------------------------------------------------------------
(* Start.                                                                  *)

Start(p) ==
    /\ ~started
    /\ Goes(p, "idle", "connect")
    /\ UNCHANGED <<started, ctx, cancelled, stopped, clientVars, validationVars, panicked>>

\* Connect returns nil if the client is connected or somebody is connecting it.
StartConnect(p) ==
    /\ IF client \in {"serving", "dialling"}
       THEN Goes(p, "connect", "context") ELSE Goes(p, "connect", "connecting")
    /\ told' = FALSE
    /\ UNCHANGED <<started, ctx, cancelled, stopped, client, reconnecting, closed,
                   validationVars, panicked>>

StartConnecting(p) ==
    /\ Goes(p, "connecting", "dial")
    /\ client' = "dialling"
    /\ UNCHANGED <<started, ctx, cancelled, stopped, reconnecting, closed, told,
                   validationVars, panicked>>

\* Mutant: the state is left at Connecting when the dial has failed.
StartDialStuck(p) ==
    /\ \/ Goes(p, "dial", "context") /\ client' = "serving" /\ UNCHANGED told
       \/ Goes(p, "dial", "idle") /\ UNCHANGED client /\ told' = TRUE
    /\ UNCHANGED <<started, ctx, cancelled, stopped, reconnecting, closed,
                   validationVars, panicked>>

\* The dial succeeds, on a closed client too, or fails.
StartDial(p) ==
    /\ \/ Goes(p, "dial", "context") /\ client' = "serving" /\ UNCHANGED told
       \/ Goes(p, "dial", "idle") /\ client' = "down" /\ told' = TRUE
    /\ UNCHANGED <<started, ctx, cancelled, stopped, reconnecting, closed,
                   validationVars, panicked>>

StartContext(p) ==
    /\ ctx < MaxContexts
    /\ Goes(p, "context", "mark")
    /\ ctx' = ctx + 1
    /\ UNCHANGED <<started, cancelled, stopped, clientVars, validationVars, panicked>>

StartMark(p) ==
    /\ Goes(p, "mark", "idle")
    /\ started' = TRUE
    /\ UNCHANGED <<ctx, cancelled, stopped, clientVars, validationVars, panicked>>

\* The application is done with the context it gave Start.
ContextEnds ==
    /\ ~panicked
    /\ \E k \in 1..ctx : cancelled' = cancelled \union {k}
    /\ UNCHANGED <<started, ctx, stopped, pc, clientVars, validationVars, panicked>>

-----------------------------------------------------------------------------
(* The client's own steps (WSClient's, where nobody calls it).               *)

\* A closed client's loops are gone: it loses no connection.
Lose ==
    /\ ~panicked
    /\ client = "serving" /\ ~closed /\ ~reconnecting
    /\ client' = "recovering"
    /\ reconnecting' = TRUE
    /\ UNCHANGED <<started, ctx, cancelled, stopped, pc, closed, told, validationVars, panicked>>

\* reconnect ends: with a connection, if a dial was in flight on a closed client
\* too, without one when the attempts are used up, or because it is closed.
Reconnect ==
    /\ ~panicked
    /\ reconnecting
    /\ reconnecting' = FALSE
    /\ \/ client' = "serving"
       \/ ~closed /\ client' = "lost"
       \/ closed /\ UNCHANGED client
    /\ UNCHANGED <<started, ctx, cancelled, stopped, pc, closed, told, validationVars, panicked>>

-----------------------------------------------------------------------------
(* The periodic validation.                                                *)

\* Mutant: it does not matter whether one is already running.
StartAnotherValidation ==
    /\ ~panicked
    /\ started /\ ctx # 0
    /\ \E v \in Validations :
          /\ \A w \in Validations : validator[w] = "none" <=> w >= v
          /\ validation' = v
          /\ validator' = [validator EXCEPT ![v] = "waiting"]
          /\ parent' = [parent EXCEPT ![v] = ctx]
    /\ UNCHANGED <<mainVars, revoked, panicked>>

StartPeriodicValidation ==
    /\ ~panicked
    /\ validation = 0
    /\ started /\ ctx # 0
    /\ \E v \in Validations :
          /\ \A w \in Validations : validator[w] = "none" <=> w >= v
          /\ validation' = v
          /\ validator' = [validator EXCEPT ![v] = "waiting"]
          /\ parent' = [parent EXCEPT ![v] = ctx]
    /\ UNCHANGED <<mainVars, revoked, panicked>>

\* Mutant: the validation is forgotten, not cancelled.
ForgetValidation == /\ validation' = 0
                    /\ UNCHANGED revoked

CancelValidation == /\ validation' = 0
                    /\ revoked' = revoked \union ({validation} \ {0})

StopPeriodicValidation ==
    /\ ~panicked
    /\ validation # 0
    /\ CancelValidation
    /\ UNCHANGED <<mainVars, validator, parent, panicked>>

\* The context of a validation is done.
Revoked(v) == v \in revoked \/ parent[v] \in cancelled

\* runPeriodicValidation: the ticker fires; select may prefer it to a context
\* that is done.
Tick(v) ==
    /\ ~panicked
    /\ validator[v] = "waiting"
    /\ validator' = [validator EXCEPT ![v] = "fetching"]
    /\ UNCHANGED <<mainVars, validation, parent, revoked, panicked>>

\* validateAllOrderBooks, under a context of its own, ends in time; where a book
\* is corrected the manager notifies its consumer.
Validated(v) ==
    /\ ~panicked
    /\ validator[v] = "fetching"
    /\ validator' = [validator EXCEPT ![v] = "waiting"]
    /\ panicked' \in {FALSE, stopped}
    /\ UNCHANGED <<mainVars, validation, parent, revoked>>

\* Mutant: the loop watches only the context of the SDK.
EndWithSDK(v) ==
    /\ ~panicked
    /\ validator[v] = "waiting"
    /\ parent[v] \in cancelled
    /\ validator' = [validator EXCEPT ![v] = "ended"]
    /\ UNCHANGED <<mainVars, validation, parent, revoked, panicked>>

End(v) ==
    /\ ~panicked
    /\ validator[v] = "waiting"
    /\ Revoked(v)
    /\ validator' = [validator EXCEPT ![v] = "ended"]
    /\ UNCHANGED <<mainVars, validation, parent, revoked, panicked>>

-----------------------------------------------------------------------------
(* Stop.                                                                   *)

Stop(p) ==
    /\ started
    /\ Goes(p, "idle", "cancel")
    /\ started' = FALSE
    /\ CancelValidation
    /\ UNCHANGED <<ctx, cancelled, stopped, clientVars, validator, parent, panicked>>

\* The context made last, which may be that of a Start that came after.
StopCancel(p) ==
    /\ Goes(p, "cancel", "manager")
    /\ cancelled' = cancelled \union ({ctx} \ {0})
    /\ UNCHANGED <<started, ctx, stopped, clientVars, validationVars, panicked>>

StopManager(p) ==
    /\ Goes(p, "manager", "close")
    /\ stopped' = TRUE
    /\ UNCHANGED <<started, ctx, cancelled, clientVars, validationVars, panicked>>

\* Close does nothing to a client that is Disconnected.
StopClose(p) ==
    /\ Goes(p, "close", "idle")
    /\ IF client \in {"down", "lost"} THEN UNCHANGED <<client, closed>>
       ELSE client' = "down" /\ closed' = TRUE
    /\ UNCHANGED <<started, ctx, cancelled, stopped, reconnecting, told, validationVars, panicked>>

Call(p) ==
    \/ StartConnect(p) \/ StartConnecting(p) \/ StartDial(p) \/ StartContext(p) \/ StartMark(p)
    \/ StopCancel(p) \/ StopManager(p) \/ StopClose(p)

Validator(v) == Tick(v) \/ Validated(v) \/ End(v)

Next ==
    \/ \E p \in Callers : Start(p) \/ Stop(p) \/ Call(p)
    \/ ContextEnds \/ Lose \/ Reconnect \/ StartPeriodicValidation \/ StopPeriodicValidation
    \/ \E v \in Validations : Validator(v)

Spec == Init /\ [][Next]_vars

\* A goroutine that can run does; select chooses among what is ready at random,
\* so a context that is done is not passed over for ever.
FairSpec ==
    /\ Spec
    /\ \A p \in Callers : WF_vars(Call(p))
    /\ \A v \in Validations : WF_vars(Validated(v)) /\ SF_vars(End(v))

-----------------------------------------------------------------------------
(* Properties.                                                             *)

Working(v) == validator[v] \in {"waiting", "fetching"} /\ ~Revoked(v)

\* "Already running": whatever the order in which the validation is started and
\* stopped and the SDK with it, two validations never overwrite each other's
\* corrections: at most one is at work and has not been told to end.
OneValidation == \A v, w \in Validations : Working(v) /\ Working(w) => v = w

\* A stopped SDK validates nothing: every validation has been told to end, the
\* ones started while another Start or Stop was under way included.
StoppedIsQuiet == ~started => \A v \in Validations : ~Working(v)

\* A validation that was told to end does end: with StopPeriodicValidation, with
\* Stop, or with the process.
ValidationEnds ==
    \A v \in Validations : Revoked(v) ~> (validator[v] = "ended" \/ panicked)

\* A started SDK without a connection is never a surprise to everybody: the client
\* gave up or was closed, or a dial failed and its caller was told after the last
\* Start had looked at the client, and returned nil because of that very dial.
SomebodyWasTold ==
    started /\ (\A p \in Callers : pc[p] = "idle") =>
        client \in {"serving", "recovering", "lost"} \/ closed \/ told
=============================================================================
