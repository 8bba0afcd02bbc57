-------------------------- MODULE Lifecycle_proof --------------------------
(***************************************************************************)
(* Lifecycle.tla for any number of goroutines, contexts and validations.    *)
(*                                                                         *)
(* OneValidation is not inductive: a validation at work that                *)
(* validationCancel has lost sight of would survive the next Stop or be     *)
(* joined by a second one.  Held says that there is none.  SomebodyWasTold    *)
(* needs to know who is at work on the client while calls are under way:     *)
(* Dialled.                                                                 *)
(***************************************************************************)
EXTENDS Lifecycle, TLAPS

\* Whoever is at work is the one that validationCancel cancels, and a stopped SDK
\* holds nobody.
Held == /\ \A v \in Validations : Working(v) => v = validation
        /\ ~started => validation = 0

\* A dial in progress has its caller; and when a Start may count on a client that
\* is down, it is closed, somebody was told, or somebody is about to dial.
Dialled ==
    /\ client = "dialling" => \E q \in Callers : pc[q] = "dial"
    /\ client = "down" /\ (started \/ \E p \in Callers : pc[p] \in {"context", "mark"}) =>
          closed \/ told \/ \E q \in Callers : pc[q] \in {"connecting", "dial"}

Safe == TypeOK /\ Held
IInv == Safe /\ Dialled

LEMMA InitSafe == Init => Safe
<1> SUFFICES ASSUME Init PROVE Safe
  OBVIOUS
<1>1. TypeOK
  <2>1. 0 \in 0..MaxContexts /\ 0 \in 0..MaxValidations
    BY LifecycleAssumption
  <2>2. validator \in [Validations -> {"none", "waiting", "fetching", "ended"}]
    BY DEF Init
  <2>3. parent \in [Validations -> 0..MaxContexts]
    BY <2>1 DEF Init
  <2>4. pc \in [Callers -> {"idle", "connect", "connecting", "dial", "context", "mark",
                          "cancel", "manager", "close"}]
    BY DEF Init
  <2> QED
    BY <2>1, <2>2, <2>3, <2>4 DEF Init, TypeOK
<1>2. Held
  BY DEF Init, Held, Working
<1> QED
  BY <1>1, <1>2 DEF Safe

\* A call of Start or Stop moves on; what it does to s.ctx and started is its own.
LEMMA CallSteps ==
  ASSUME Safe, NEW p \in Callers, Start(p) \/ Call(p)
  PROVE  Safe'
<1> USE LifecycleAssumption DEF Safe, TypeOK, Held, Working, Revoked, Goes, mainVars,
        clientVars, validationVars, Contexts, Validations
<1>1. CASE Start(p)
  BY <1>1 DEF Start
<1>2. CASE StartConnect(p)
  BY <1>2 DEF StartConnect
<1>3. CASE StartConnecting(p)
  BY <1>3 DEF StartConnecting
<1>4. CASE StartDial(p)
  BY <1>4 DEF StartDial
<1>5. CASE StartContext(p)
  BY <1>5 DEF StartContext
<1>6. CASE StartMark(p)
  BY <1>6 DEF StartMark
<1>7. CASE StopCancel(p)
  BY <1>7 DEF StopCancel
<1>8. CASE StopManager(p)
  BY <1>8 DEF StopManager
<1>9. CASE StopClose(p)
  BY <1>9 DEF StopClose
<1> QED
  BY <1>1, <1>2, <1>3, <1>4, <1>5, <1>6, <1>7, <1>8, <1>9 DEF Call

\* The application ends a context; the client loses or restores its connection.
LEMMA EnvironmentStep ==
  ASSUME Safe, ContextEnds \/ Lose \/ Reconnect
  PROVE  Safe'
<1> USE LifecycleAssumption DEF clientVars, Safe, TypeOK, Held, Working, Revoked, validationVars,
        Contexts, Validations
<1>1. CASE ContextEnds
  BY <1>1 DEF ContextEnds
<1>2. CASE Lose
  BY <1>2 DEF Lose
<1>3. CASE Reconnect
  BY <1>3 DEF Reconnect
<1> QED
  BY <1>1, <1>2, <1>3

\* Whoever cancels the validation leaves nobody at work.
LEMMA Cancelling ==
  ASSUME Safe, CancelValidation, UNCHANGED <<validator, parent, cancelled>>
  PROVE  /\ validation' = 0 /\ revoked' \subseteq Validations
         /\ \A v \in Validations : ~Working(v)'
  BY LifecycleAssumption DEF Safe, TypeOK, Held, Working, Revoked, CancelValidation, Validations

LEMMA StopStep ==
  ASSUME Safe, NEW p \in Callers, Stop(p)
  PROVE  Safe'
<1>1. validation' = 0 /\ revoked' \subseteq Validations /\ \A v \in Validations : ~Working(v)'
  BY Cancelling DEF Stop
<1>2. TypeOK'
  <2>1. validation' \in 0..MaxValidations /\ revoked' \subseteq Validations
    BY <1>1, LifecycleAssumption
  <2> QED
    BY <2>1 DEF Stop, Goes, clientVars, Safe, TypeOK
<1> QED
  BY <1>1, <1>2 DEF Safe, Held

LEMMA StopValidationStep ==
  ASSUME Safe, StopPeriodicValidation
  PROVE  Safe'
<1>1. validation' = 0 /\ revoked' \subseteq Validations /\ \A v \in Validations : ~Working(v)'
  BY Cancelling DEF StopPeriodicValidation, mainVars
<1>2. TypeOK'
  BY <1>1, LifecycleAssumption DEF StopPeriodicValidation, mainVars, clientVars, Safe, TypeOK, Contexts, Validations
<1> QED
  BY <1>1, <1>2 DEF Safe, Held

LEMMA StartValidationStep ==
  ASSUME Safe, StartPeriodicValidation
  PROVE  Safe'
<1>1. PICK v \in Validations :
        /\ validation' = v
        /\ validator' = [validator EXCEPT ![v] = "waiting"]
        /\ parent' = [parent EXCEPT ![v] = ctx]
  BY DEF StartPeriodicValidation
<1>2. TypeOK'
  BY <1>1, LifecycleAssumption DEF StartPeriodicValidation, mainVars, clientVars, Safe, TypeOK, Contexts, Validations
<1>3. \A w \in Validations : Working(w)' => w = v
  BY <1>1, LifecycleAssumption
     DEF StartPeriodicValidation, mainVars, clientVars, Safe, TypeOK, Held, Working, Revoked, Validations
<1> QED
  BY <1>1, <1>2, <1>3 DEF Safe, Held, StartPeriodicValidation, mainVars

LEMMA ValidatorSteps ==
  ASSUME Safe, NEW v \in Validations, Validator(v)
  PROVE  Safe'
<1> USE LifecycleAssumption DEF Safe, TypeOK, Held, Working, Revoked, mainVars, clientVars, Contexts, Validations
<1>1. CASE Tick(v)
  BY <1>1 DEF Tick
<1>2. CASE Validated(v)
  BY <1>2 DEF Validated
<1>3. CASE End(v)
  BY <1>3 DEF End
<1> QED
  BY <1>1, <1>2, <1>3 DEF Validator

LEMMA NextSafe == Safe /\ [Next]_vars => Safe'
<1> SUFFICES ASSUME Safe, [Next]_vars PROVE Safe'
  OBVIOUS
<1>1. CASE Next
  BY <1>1, CallSteps, EnvironmentStep, StopStep, StopValidationStep, StartValidationStep, ValidatorSteps DEF Next
<1>2. CASE UNCHANGED vars
  BY <1>2 DEF vars, mainVars, clientVars, validationVars, Safe, TypeOK, Held, Working, Revoked
<1> QED
  BY <1>1, <1>2

\* A call of Start or Stop keeps the account of who is at work on the client.
LEMMA CallDialled ==
  ASSUME IInv, NEW p \in Callers, Start(p) \/ Stop(p) \/ Call(p)
  PROVE  Dialled'
<1> USE DEF IInv, Safe, TypeOK, Dialled, Goes, clientVars
<1>1. CASE Start(p)
  BY <1>1 DEF Start
<1>2. CASE StartConnect(p)
  BY <1>2 DEF StartConnect
<1>3. CASE StartConnecting(p)
  BY <1>3 DEF StartConnecting
<1>4. CASE StartDial(p)
  BY <1>4 DEF StartDial
<1>5. CASE StartContext(p)
  BY <1>5 DEF StartContext
<1>6. CASE StartMark(p)
  BY <1>6 DEF StartMark
<1>7. CASE Stop(p)
  BY <1>7 DEF Stop
<1>8. CASE StopCancel(p)
  BY <1>8 DEF StopCancel
<1>9. CASE StopManager(p)
  BY <1>9 DEF StopManager
<1>10. CASE StopClose(p)
  BY <1>10 DEF StopClose
<1> QED
  BY <1>1, <1>2, <1>3, <1>4, <1>5, <1>6, <1>7, <1>8, <1>9, <1>10 DEF Call

\* So do the client itself, the validations and the application's context.
LEMMA OtherDialled ==
  ASSUME IInv, \/ ContextEnds \/ Lose \/ Reconnect
               \/ StartPeriodicValidation \/ StopPeriodicValidation
               \/ \E v \in Validations : Validator(v)
               \/ UNCHANGED vars
  PROVE  Dialled'
<1> USE DEF IInv, Dialled, clientVars, mainVars
<1>1. CASE Lose
  BY <1>1 DEF Lose
<1>2. CASE Reconnect
  BY <1>2 DEF Reconnect
<1>3. CASE UNCHANGED <<pc, started, client, closed, told>>
  BY <1>3
<1>4. ContextEnds => UNCHANGED <<pc, started, client, closed, told>>
  BY DEF ContextEnds
<1>5. StartPeriodicValidation \/ StopPeriodicValidation => UNCHANGED <<pc, started, client, closed, told>>
  BY DEF StartPeriodicValidation, StopPeriodicValidation
<1>6. \A v \in Validations : Validator(v) => UNCHANGED <<pc, started, client, closed, told>>
  BY DEF Validator, Tick, Validated, End
<1>7. UNCHANGED vars => UNCHANGED <<pc, started, client, closed, told>>
  BY DEF vars
<1> QED
  BY <1>1, <1>2, <1>3, <1>4, <1>5, <1>6, <1>7

LEMMA InitIInv == Init => IInv
  BY InitSafe DEF Init, IInv, Dialled

LEMMA NextIInv == IInv /\ [Next]_vars => IInv'
<1> SUFFICES ASSUME IInv, [Next]_vars PROVE IInv'
  OBVIOUS
<1>1. Safe'
  BY NextSafe DEF IInv
<1>2. Dialled'
  BY CallDialled, OtherDialled DEF Next
<1> QED
  BY <1>1, <1>2 DEF IInv

\* The inductive invariant.
THEOREM Invariance == Spec => []IInv
  BY InitIInv, NextIInv, PTL DEF Spec

\* The variables keep their types: no more contexts and validations are in use than
\* were made.
THEOREM TypeCorrect == Spec => []TypeOK
<1>1. IInv => TypeOK
  BY DEF IInv, Safe
<1> QED
  BY <1>1, Invariance, PTL

\* sdk.go: StartPeriodicValidation never starts a second validation beside one
\* that has not been told to end.
THEOREM ValidationIsUnique == Spec => []OneValidation
<1>1. IInv => OneValidation
  BY DEF IInv, Safe, Held, OneValidation
<1> QED
  BY <1>1, Invariance, PTL

\* sdk.go: when Stop has reset started, no validation is left that has not been
\* told to end.
THEOREM StoppedValidatesNothing == Spec => []StoppedIsQuiet
<1>1. IInv => StoppedIsQuiet
  BY DEF IInv, Safe, TypeOK, Held, StoppedIsQuiet, Validations
<1> QED
  BY <1>1, Invariance, PTL

\* sdk.go and ws_client.go: whatever Starts and Stops overlap, nobody is left with
\* a started SDK and no connection without anybody having been told.
THEOREM NobodyIsMisled == Spec => []SomebodyWasTold
<1>1. IInv => SomebodyWasTold
  BY DEF IInv, Safe, TypeOK, Dialled, SomebodyWasTold
<1> QED
  BY <1>1, Invariance, PTL
=============================================================================
