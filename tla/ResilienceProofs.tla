-------------------------- MODULE ResilienceProofs --------------------------
(***************************************************************************)
(* What no interleaving of calls, answers and retries can break in the     *)
(* circuit breaker, for any number of callers and any parameters.          *)
(***************************************************************************)
EXTENDS Resilience, TLAPS

CallStates == [pc : {"idle", "running", "sleeping"},
               attempt : 0..MaxRetries, wait : 0..MaxDelay]

Sleeping(c) == call[c].pc = "sleeping"

-----------------------------------------------------------------------------
(* What one caller's return or next sleep leaves of the calls. *)
LEMMA AfterErrorCalls ==
  ASSUME IInv, NEW c \in Callers, NEW a \in 0..MaxRetries,
         AfterError(c, a) \/ Return(c)
  PROVE  /\ call' \in [Callers -> CallStates]
         /\ ~Running(c)'
         /\ \A d \in Callers \ {c} : call'[d] = call[d]
         /\ SleepersRetry'
<1> USE ResilienceAssumption
<1> Idle \in CallStates
  BY DEF Idle, CallStates
<1>1. CASE Return(c)
  BY <1>1 DEF Return, IInv, TypeOK, CallStates, SleepersRetry, Running, Idle
<1>2. CASE AfterError(c, a) /\ ~Return(c)
  <2>1. PICK d \in 0..MaxDelay :
          call' = [call EXCEPT ![c] = [pc |-> "sleeping", attempt |-> a, wait |-> d]]
    BY <1>2 DEF AfterError, Delays
  <2>2. a < MaxRetries
    BY <1>2 DEF AfterError, LastAttempt
  <2> QED BY <2>1, <2>2 DEF IInv, TypeOK, CallStates, SleepersRetry, Running
<1> QED BY <1>1, <1>2

(* An admitted attempt leaves the invariant in force. *)
LEMMA AdmitKeeps ==
  ASSUME IInv, NEW c \in Callers, NEW a \in 0..MaxRetries, ~Running(c), Admit(c, a)
  PROVE  IInv'
<1> USE ResilienceAssumption
<1> DEFINE admitted == [pc |-> "running", attempt |-> a, wait |-> 0]
<1>1. /\ admitted \in CallStates
      /\ call \in [Callers -> CallStates]
  BY DEF CallStates, IInv, TypeOK
<1>2. /\ call' = [call EXCEPT ![c] = admitted]
      /\ call' \in [Callers -> CallStates]
      /\ Running(c)'
      /\ \A d \in Callers \ {c} : Running(d)' <=> Running(d)
  BY <1>1 DEF Admit, Running
<1>3. TypeOK'
  BY <1>2 DEF Admit, Entered, IInv, TypeOK, CallStates, States
<1>4. TrippedExactly'
  BY <1>2 DEF Admit, Entered, IInv, TypeOK, TrippedExactly, States
<1>5. SleepersRetry'
  BY <1>1, <1>2 DEF IInv, SleepersRetry
<1>6. InTurn'
  <2>1. CASE overlapped'
    BY <2>1 DEF InTurn
  <2>2. CASE ~overlapped'
    <3>1. \A d \in Callers \ {c} : ~Running(d)
      BY <2>2 DEF Admit
    <3>2. state' # "OPEN"
      BY DEF Admit, Entered
    <3> QED BY <1>2, <3>1, <3>2 DEF InTurn
  <2> QED BY <2>1, <2>2
<1> QED BY <1>3, <1>4, <1>5, <1>6 DEF IInv

(* A rejected attempt leaves the breaker alone. *)
LEMMA RejectKeeps ==
  ASSUME IInv, NEW c \in Callers, NEW a \in 0..MaxRetries, ~Running(c), Reject(c, a)
  PROVE  IInv'
<1>1. /\ UNCHANGED <<state, failureCount, sinceFailure, up, overlapped>>
      /\ AfterError(c, a) \/ Return(c)
  BY DEF Reject, AfterRejection, breaker
<1>2. /\ call' \in [Callers -> CallStates]
      /\ \A d \in Callers : Running(d)' <=> Running(d)
      /\ SleepersRetry'
  BY <1>1, AfterErrorCalls DEF Running
<1>3. TypeOK'
  BY <1>1, <1>2 DEF IInv, TypeOK, CallStates
<1>4. TrippedExactly' /\ InTurn'
  BY <1>1, <1>2 DEF IInv, TrippedExactly, InTurn
<1> QED BY <1>2, <1>3, <1>4 DEF IInv

(* An answer that arrives, in time or late, leaves it in force. *)
LEMMA AnswerKeeps ==
  ASSUME IInv, NEW c \in Callers, Succeed(c) \/ Fail(c)
  PROVE  IInv'
<1> USE ResilienceAssumption
<1>1. /\ Running(c) /\ call[c].attempt \in 0..MaxRetries
      /\ OnSuccess \/ OnFailure
      /\ AfterError(c, call[c].attempt) \/ Return(c)
      /\ UNCHANGED <<up, overlapped>>
  BY DEF Succeed, Fail, IInv, TypeOK
<1>2. /\ call' \in [Callers -> CallStates]
      /\ ~Running(c)'
      /\ \A d \in Callers \ {c} : Running(d)' <=> Running(d)
      /\ SleepersRetry'
  BY <1>1, AfterErrorCalls DEF Running
<1>3. /\ failureCount \in 0..(FailureThreshold + 1)
      /\ state \in States
      /\ state = "CLOSED" <=> failureCount < FailureThreshold
      /\ state # "CLOSED" => sinceFailure # Never
  BY DEF IInv, TypeOK, TrippedExactly
<1>4. /\ state' \in {"CLOSED", "OPEN"}
      /\ failureCount' \in 0..(FailureThreshold + 1)
      /\ sinceFailure' \in {Never} \cup 0..(RecoveryTimeout + 1)
      /\ state' = "CLOSED" <=> failureCount' < FailureThreshold
      /\ state' # "CLOSED" => sinceFailure' # Never
  <2>1. CASE OnSuccess
    BY <2>1, <1>3 DEF OnSuccess, breaker, IInv, TypeOK
  <2>2. CASE OnFailure
    BY <2>2, <1>3 DEF OnFailure, Trips, States, Never
  <2> QED BY <1>1, <2>1, <2>2
<1>5. TypeOK'
  BY <1>1, <1>2, <1>4 DEF IInv, TypeOK, CallStates, States
<1>6. TrippedExactly'
  BY <1>4 DEF TrippedExactly
<1>7. InTurn'
  <2>1. CASE overlapped
    BY <2>1, <1>1 DEF InTurn
  <2>2. CASE ~overlapped
    <3>1. \A d \in Callers : ~Running(d)'
      BY <1>1, <1>2, <2>2 DEF IInv, InTurn
    <3> QED BY <3>1 DEF InTurn
  <2> QED BY <2>1, <2>2
<1> QED BY <1>2, <1>5, <1>6, <1>7 DEF IInv

LEMMA TickKeeps ==
  ASSUME IInv, Tick
  PROVE  IInv'
<1> USE ResilienceAssumption
<1>1. call' \in [Callers -> CallStates]
  <2>1. ASSUME NEW c \in Callers
        PROVE  Slept(call[c]) \in CallStates
    <3>1. call[c] \in CallStates
      BY DEF IInv, TypeOK, CallStates
    <3> QED BY <3>1 DEF Slept, CallStates
  <2> QED BY <2>1 DEF Tick
<1>2. \A c \in Callers : call'[c].pc = call[c].pc /\ call'[c].attempt = call[c].attempt
  <2>1. \A c \in Callers : call[c] \in CallStates
    BY DEF IInv, TypeOK, CallStates
  <2> QED BY <2>1 DEF Tick, Slept, CallStates
<1>3. TypeOK'
  BY <1>1 DEF Tick, Aged, IInv, TypeOK, CallStates, Never
<1>4. TrippedExactly'
  BY <1>2 DEF Tick, Aged, IInv, TypeOK, TrippedExactly, Running, Never
<1>5. SleepersRetry' /\ InTurn'
  BY <1>2 DEF Tick, IInv, SleepersRetry, InTurn, Running
<1> QED BY <1>3, <1>4, <1>5 DEF IInv

(* The invariant holds at first and through every step. *)
LEMMA Invariant == Spec => []IInv
<1> USE ResilienceAssumption
<1>1. Init => IInv
  <2> SUFFICES ASSUME Init PROVE IInv
    OBVIOUS
  <2>1. call \in [Callers -> CallStates] /\ \A c \in Callers : call[c].pc = "idle"
    <3>1. Idle \in CallStates /\ Idle.pc = "idle"
      BY DEF Idle, CallStates
    <3> QED BY <3>1 DEF Init
  <2>2. TypeOK
    <3>1. up \in BOOLEAN /\ overlapped \in BOOLEAN
      BY DEF Init
    <3>2. failureCount \in 0..(FailureThreshold + 1)
      BY DEF Init
    <3>3. state \in States /\ sinceFailure = Never
      BY DEF Init, States
    <3> QED BY <2>1, <3>1, <3>2, <3>3 DEF TypeOK, CallStates
  <2>3. TrippedExactly
    BY DEF Init, TrippedExactly
  <2>4. SleepersRetry /\ InTurn
    BY <2>1 DEF SleepersRetry, InTurn, Running
  <2> QED BY <2>2, <2>3, <2>4 DEF IInv
<1>2. IInv /\ [Next]_vars => IInv'
  <2> SUFFICES ASSUME IInv, [Next]_vars PROVE IInv'
    OBVIOUS
  <2>1. ASSUME NEW c \in Callers, Execute(c) PROVE IInv'
    BY <2>1, AdmitKeeps, RejectKeeps DEF Execute, Running
  <2>2. ASSUME NEW c \in Callers, Wake(c) PROVE IInv'
    <3>1. NextAttempt(c) \in 0..MaxRetries
      BY <2>2 DEF Wake, NextAttempt, IInv, TypeOK, SleepersRetry
    <3> QED BY <2>2, <3>1, AdmitKeeps, RejectKeeps DEF Wake, Running
  <2>3. ASSUME NEW c \in Callers, Succeed(c) \/ Fail(c) PROVE IInv'
    BY <2>3, AnswerKeeps
  <2>4. CASE Turn
    BY <2>4 DEF Turn, breaker, IInv, TypeOK, TrippedExactly, SleepersRetry, InTurn, Running
  <2>5. CASE UNCHANGED vars
    BY <2>5 DEF vars, breaker, IInv, TypeOK, TrippedExactly, SleepersRetry, InTurn, Running
  <2> QED BY <2>1, <2>2, <2>3, <2>4, <2>5, TickKeeps DEF Next
<1> QED BY <1>1, <1>2, PTL DEF Spec

-----------------------------------------------------------------------------
(* Every variable has its type: no call is attempted more than MaxRetries + 1 *)
(* times.                                                                     *)
THEOREM TypeCorrect == Spec => []TypeOK
<1>1. IInv => TypeOK
  BY DEF IInv
<1> QED BY <1>1, Invariant, PTL

(* The breaker's state, count and date agree however answers arrive.         *)
THEOREM FieldsAgree == Spec => []TrippedExactly
<1>1. IInv => TrippedExactly
  BY DEF IInv
<1> QED BY <1>1, Invariant, PTL

(* Calls in turn take the breaker along the documented arrows only. *)
THEOREM ArrowsInTurn == Spec => AsDrawnInTurn
<1> DEFINE Drawn == state' # state => overlapped \/ <<state, state'>> \in Arrows
<1>1. IInv /\ [Next]_vars => [Drawn]_vars
  <2> SUFFICES ASSUME IInv, Next, state' # state, ~overlapped
      PROVE  <<state, state'>> \in Arrows
    BY DEF vars, breaker
  <2>1. ASSUME NEW c \in Callers, NEW a, Admit(c, a) PROVE <<state, state'>> \in Arrows
    BY <2>1 DEF Admit, Entered, Arrows
  <2>2. ASSUME NEW c \in Callers, NEW a, Reject(c, a) PROVE FALSE
    BY <2>2 DEF Reject, AfterRejection, breaker
  <2>3. ASSUME NEW c \in Callers, Succeed(c) \/ Fail(c) PROVE <<state, state'>> \in Arrows
    <3>1. state \in {"CLOSED", "HALF_OPEN"}
      BY <2>3 DEF Succeed, Fail, IInv, TypeOK, InTurn, States
    <3>2. state' = "OPEN" \/ (state' = "CLOSED" /\ state = "HALF_OPEN")
      BY <2>3, <3>1 DEF Succeed, Fail, OnSuccess, OnFailure, breaker
    <3> QED BY <3>1, <3>2 DEF Arrows
  <2>4. CASE Turn \/ Tick
    BY <2>4 DEF Turn, Tick, breaker
  <2> QED BY <2>1, <2>2, <2>3, <2>4 DEF Next, Execute, Wake
<1> QED BY <1>1, Invariant, PTL DEF Spec, AsDrawnInTurn
=============================================================================
