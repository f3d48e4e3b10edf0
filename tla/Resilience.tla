----------------------------- MODULE Resilience -----------------------------
(***************************************************************************)
(* The resilience library of libs/core: calls of one process that reach a  *)
(* dependency through the process-wide CircuitBreakerService, each under   *)
(* RetryService.execute. ResilienceModule exports both services; the       *)
(* composition modelled is retry.execute(() => breaker.execute(fn)), and   *)
(* MaxRetries = 0 is the breaker alone.                                    *)
(*                                                                         *)
(* Interleaving: up to `await fn()`, and from its answer to the next sleep *)
(* or return, the code is synchronous and touches the breaker in one piece;*)
(* while fn runs or a retry sleeps, the other callers move.                *)
(*                                                                         *)
(* Time passes in ticks. The breaker only asks how long ago the last       *)
(* failure was and whether that exceeds RecoveryTimeout, so the age stands *)
(* for the date and stops at the first value beyond it; a failure count    *)
(* beyond FailureThreshold + 1 is like FailureThreshold + 1.               *)
(*                                                                         *)
(* Left out: results, error texts, logging.                                *)
(***************************************************************************)
EXTENDS Integers

CONSTANTS
  Callers,           (* chains of calls of the process, one call at a time   *)
  WithFallback,      (* those that pass a fallback                           *)
  Picky,             (* those whose retryOn may refuse an error              *)
  FailureThreshold,  (* FAILURE_THRESHOLD                                    *)
  RecoveryTimeout,   (* RECOVERY_TIMEOUT_MS, in ticks                        *)
  MaxRetries,        (* RetryOptions.maxRetries                              *)
  BaseDelay,         (* baseDelayMs, in ticks                                *)
  MaxDelay,          (* maxDelayMs, in ticks                                 *)
  Jitter             (* jitter, in percent                                   *)

ASSUME ResilienceAssumption ==
  /\ FailureThreshold \in Nat \ {0}
  /\ RecoveryTimeout \in Nat
  /\ MaxRetries \in Nat
  /\ BaseDelay \in Nat /\ MaxDelay \in Nat /\ Jitter \in Nat

VARIABLES
  state,         (* CLOSED, OPEN or HALF_OPEN                                *)
  failureCount,
  sinceFailure,  (* the age of lastFailureTime, Never for null               *)
  call,          (* what each caller does, in which attempt, and how long it *)
                 (* still sleeps                                             *)
  up,            (* external: whether the dependency answers                 *)
  overlapped     (* history: two calls were once in flight together          *)

breaker == <<state, failureCount, sinceFailure>>
vars    == <<breaker, call, up, overlapped>>

States == {"CLOSED", "OPEN", "HALF_OPEN"}
Never  == -1
Idle   == [pc |-> "idle", attempt |-> 0, wait |-> 0]

Running(c) == call[c].pc = "running"

-----------------------------------------------------------------------------
(* CircuitBreakerService. *)

Recovered == sinceFailure > RecoveryTimeout

Blocked == state = "OPEN" /\ ~Recovered

(* The first call after the recovery timeout is the test request. *)
Entered_Closed == IF state = "OPEN" THEN "CLOSED" ELSE state
Entered == IF state = "OPEN" THEN "HALF_OPEN" ELSE state

(* onSuccess: in CLOSED the count of failures stays. *)
OnSuccess ==
  IF state = "CLOSED" THEN UNCHANGED breaker
  ELSE state' = "CLOSED" /\ failureCount' = 0 /\ sinceFailure' = Never

Trips_OneLate(n) == n > FailureThreshold
Trips(n) == n >= FailureThreshold

OnFailure ==
  /\ failureCount' = IF failureCount > FailureThreshold THEN failureCount ELSE failureCount + 1
  /\ sinceFailure' = 0
  /\ state' = IF Trips(failureCount') THEN "OPEN" ELSE state

(* A rejection is thrown before the try block: it is no failure. *)
AfterRejection_Counted == OnFailure
AfterRejection == UNCHANGED breaker

-----------------------------------------------------------------------------
(* RetryService. *)

(* min(round(baseDelay * 2^attempt * (1 + random * jitter)), maxDelay) *)
Delays(attempt) ==
  LET delay   == BaseDelay * 2^attempt
      longest == (delay * (100 + Jitter) + 50) \div 100
  IN  {d \in 0..MaxDelay :
         \E raw \in delay..longest : d = IF raw < MaxDelay THEN raw ELSE MaxDelay}

LastAttempt(attempt) == attempt = MaxRetries

NextAttempt_Uncounted(c) == call[c].attempt
NextAttempt(c) == call[c].attempt + 1

Return(c) == call' = [call EXCEPT ![c] = Idle]

(* The catch block: rethrow, or sleep before the next attempt. *)
AfterError(c, attempt) ==
  \/ (LastAttempt(attempt) \/ c \in Picky) /\ Return(c)
  \/ /\ ~LastAttempt(attempt)
     /\ \E d \in Delays(attempt) :
          call' = [call EXCEPT ![c] = [pc |-> "sleeping", attempt |-> attempt, wait |-> d]]

-----------------------------------------------------------------------------
(* An attempt enters the breaker ... *)
Admit(c, attempt) ==
  /\ ~Blocked
  /\ state' = Entered
  /\ call' = [call EXCEPT ![c] = [pc |-> "running", attempt |-> attempt, wait |-> 0]]
  /\ overlapped' = (overlapped \/ \E d \in Callers \ {c} : Running(d))
  /\ UNCHANGED <<failureCount, sinceFailure, up>>

(* ... or is rejected: the fallback answers, or an error is thrown. *)
Reject(c, attempt) ==
  /\ Blocked
  /\ AfterRejection
  /\ (c \in WithFallback /\ Return(c)) \/ AfterError(c, attempt)
  /\ UNCHANGED <<up, overlapped>>

Execute(c) == call[c].pc = "idle" /\ (Admit(c, 0) \/ Reject(c, 0))

Wake(c) ==
  /\ call[c].pc = "sleeping" /\ call[c].wait = 0
  /\ Admit(c, NextAttempt(c)) \/ Reject(c, NextAttempt(c))

(* fn resolves or rejects, as the dependency does at that moment. *)
Succeed(c) ==
  /\ Running(c) /\ up
  /\ OnSuccess
  /\ Return(c)
  /\ UNCHANGED <<up, overlapped>>

Fail(c) ==
  /\ Running(c) /\ ~up
  /\ OnFailure
  /\ AfterError(c, call[c].attempt)
  /\ UNCHANGED <<up, overlapped>>

Turn == up' = ~up /\ UNCHANGED <<breaker, call, overlapped>>

Aged == IF sinceFailure \in 0..RecoveryTimeout THEN sinceFailure + 1 ELSE sinceFailure

Slept(m) == IF m.wait > 0 THEN [m EXCEPT !.wait = m.wait - 1] ELSE m

Tick ==
  /\ sinceFailure' = Aged
  /\ call' = [c \in Callers |-> Slept(call[c])]
  /\ UNCHANGED <<state, failureCount, up, overlapped>>

Init ==
  /\ state = "CLOSED" /\ failureCount = 0 /\ sinceFailure = Never
  /\ call = [c \in Callers |-> Idle]
  /\ up \in BOOLEAN
  /\ overlapped = FALSE

Next ==
  \/ \E c \in Callers : Execute(c) \/ Wake(c) \/ Succeed(c) \/ Fail(c)
  \/ Turn
  \/ Tick

(* Timers fire, time passes, and every fn settles: the calls the library     *)
(* would wrap are statements and requests with timeouts of their own.        *)
Fairness ==
  /\ WF_vars(Tick)
  /\ \A c \in Callers : WF_vars(Wake(c)) /\ WF_vars(Succeed(c) \/ Fail(c))

Spec == Init /\ [][Next]_vars /\ Fairness

-----------------------------------------------------------------------------
(* Every variable has its type: in particular no call is attempted more than *)
(* MaxRetries + 1 times or sleeps longer than MaxDelay.                      *)
TypeOK ==
  /\ state \in States
  /\ failureCount \in 0..(FailureThreshold + 1)
  /\ sinceFailure \in {Never} \cup 0..(RecoveryTimeout + 1)
  /\ call \in [Callers -> [pc : {"idle", "running", "sleeping"},
                           attempt : 0..MaxRetries, wait : 0..MaxDelay]]
  /\ up \in BOOLEAN
  /\ overlapped \in BOOLEAN

(* The three fields agree after answers in any order, late ones included:    *)
(* the count is below the threshold exactly when the breaker is closed, so   *)
(* one failure of a test opens it again; lastFailureTime, which execute      *)
(* dereferences unchecked, is never null when it does; and the breaker does  *)
(* not stay HALF_OPEN with no test under way that could decide it.           *)
TrippedExactly ==
  /\ state = "CLOSED" <=> failureCount < FailureThreshold
  /\ state # "CLOSED" => sinceFailure # Never
  /\ state = "HALF_OPEN" => \E c \in Callers : Running(c)

(* "CLOSED -(5 failures)-> OPEN -(30s timeout)-> HALF_OPEN -(success)->      *)
(* CLOSED, -(failure)-> OPEN": calls that came one after the other take the  *)
(* breaker along these arrows only. (A call that was let through before the  *)
(* breaker opened and succeeds after it takes it from OPEN to CLOSED.)       *)
Arrows == {<<"CLOSED", "OPEN">>, <<"OPEN", "HALF_OPEN">>,
           <<"HALF_OPEN", "CLOSED">>, <<"HALF_OPEN", "OPEN">>}

AsDrawnInTurn ==
  [][state' # state => overlapped \/ <<state, state'>> \in Arrows]_vars

(* Every execute comes to an end, whatever the dependency does. *)
EveryCallEnds == \A c \in Callers : call[c].pc # "idle" ~> call[c].pc = "idle"

(* If the dependency is up for good, the breaker closes for good or waits,   *)
(* past its timeout, for the next call: rejections and late answers cannot   *)
(* keep it shut.                                                             *)
RecoversWhenUp == <>[]up => <>[](state = "CLOSED" \/ (state = "OPEN" /\ Recovered))

-----------------------------------------------------------------------------
(* What makes TypeOK inductive: who sleeps has an attempt left.              *)
SleepersRetry ==
  \A c \in Callers : call[c].pc = "sleeping" => call[c].attempt < MaxRetries

(* What makes AsDrawnInTurn inductive: as long as calls did not overlap, at  *)
(* most one is in flight, and none when the breaker is open.                 *)
InTurn ==
  overlapped \/ /\ \A c, d \in Callers : Running(c) /\ Running(d) => c = d
                /\ state = "OPEN" => \A c \in Callers : ~Running(c)

IInv == TypeOK /\ TrippedExactly /\ SleepersRetry /\ InTurn
=============================================================================
