-------------------------- MODULE LlmCircuitBreaker --------------------------
(***************************************************************************)
(* The circuit breaker of the AI provider and the calls that go through    *)
(* AssessmentLlmClientService.complete.                                    *)
(*                                                                         *)
(* Time is counted in ticks.  openUntil is kept as the ticks left (0: the  *)
(* window is over but nobody has looked yet), and a call in flight as the  *)
(* ticks since it was sent, because the HTTP client gives up on it after a *)
(* timeout that is shorter than the window.                                *)
(***************************************************************************)
EXTENDS Naturals, FiniteSets

CONSTANTS
  Calls,              \* requests that may ask the provider at once
  FAILURE_THRESHOLD,  \* 5 in the code
  OPEN_DURATION,      \* 300 s, in ticks
  TIMEOUT,            \* 25 s, in ticks
  None                \* null, or not in flight

ASSUME CallsAssumption == IsFiniteSet(Calls)
ASSUME ThresholdAssumption == FAILURE_THRESHOLD \in Nat \ {0}
ASSUME TimeAssumption ==
  /\ OPEN_DURATION \in Nat /\ TIMEOUT \in Nat
  /\ TIMEOUT < OPEN_DURATION
ASSUME NoneAssumption == None \notin Nat

VARIABLES
  consecutiveFailures,
  openFor,      \* ticks until openUntil; None while it is null
  age,          \* ticks since each call was sent; None if not in flight
  stop,         \* ticks left of the stop that the last opening promised
  answered      \* whether a call has succeeded since the last opening

breakerVars == <<consecutiveFailures, openFor, age, stop, answered>>

-----------------------------------------------------------------------------
InFlight == {c \in Calls : age[c] # None}

BreakerInit ==
  /\ consecutiveFailures = 0
  /\ openFor = None
  /\ age = [c \in Calls |-> None]
  /\ stop = 0
  /\ answered = FALSE

(* Mutant: the clock is not looked at. *)
IsOpenForGood == openFor # None

(* isOpen: only a look at the breaker ends a window that is over. *)
IsOpen == openFor # None /\ openFor > 0

(* Mutant: the failures survive the end of the window. *)
SendUncleared(c) ==
  /\ age[c] = None
  /\ ~IsOpen
  /\ age' = [age EXCEPT ![c] = 0]
  /\ openFor' = None
  /\ UNCHANGED <<consecutiveFailures, stop, answered>>

(* complete: the breaker is not open and the provider is called. *)
Send(c) ==
  /\ age[c] = None
  /\ ~IsOpen
  /\ age' = [age EXCEPT ![c] = 0]
  /\ openFor' = None
  /\ consecutiveFailures' = IF openFor = None THEN consecutiveFailures ELSE 0
  /\ UNCHANGED <<stop, answered>>

(* "temporarily disabled": 503 without calling. *)
Reject(c) ==
  /\ age[c] = None
  /\ IsOpen
  /\ UNCHANGED breakerVars

(* recordSuccess *)
Succeed(c) ==
  /\ age[c] # None
  /\ age' = [age EXCEPT ![c] = None]
  /\ consecutiveFailures' = 0
  /\ openFor' = None
  /\ answered' = TRUE
  /\ UNCHANGED stop

(* Mutant: the window opens one failure too late. *)
FailLate(c) ==
  /\ age[c] # None
  /\ age' = [age EXCEPT ![c] = None]
  /\ consecutiveFailures' = consecutiveFailures + 1
  /\ IF consecutiveFailures' > FAILURE_THRESHOLD
     THEN openFor' = OPEN_DURATION
     ELSE UNCHANGED openFor
  /\ IF consecutiveFailures' = FAILURE_THRESHOLD
     THEN stop' = OPEN_DURATION /\ answered' = FALSE
     ELSE UNCHANGED <<stop, answered>>

(* recordFailure: the provider answered 429 or 5xx. *)
Fail(c) ==
  /\ age[c] # None
  /\ age' = [age EXCEPT ![c] = None]
  /\ consecutiveFailures' = consecutiveFailures + 1
  /\ IF consecutiveFailures' >= FAILURE_THRESHOLD
     THEN openFor' = OPEN_DURATION
     ELSE UNCHANGED openFor
  /\ IF consecutiveFailures' = FAILURE_THRESHOLD
     THEN stop' = OPEN_DURATION /\ answered' = FALSE
     ELSE UNCHANGED <<stop, answered>>

(* Another status, no response or a timeout: the breaker is not told. *)
GiveUp(c) ==
  /\ age[c] # None
  /\ age' = [age EXCEPT ![c] = None]
  /\ UNCHANGED <<consecutiveFailures, openFor, stop, answered>>

Sooner(n) == IF n > 0 THEN n - 1 ELSE 0

(* No call outlives its timeout. *)
Tick ==
  /\ \A c \in InFlight : age[c] < TIMEOUT
  /\ age' = [c \in Calls |-> IF age[c] = None THEN None ELSE age[c] + 1]
  /\ openFor' = IF openFor = None THEN None ELSE Sooner(openFor)
  /\ stop' = Sooner(stop)
  /\ UNCHANGED <<consecutiveFailures, answered>>

End(c) == Succeed(c) \/ Fail(c) \/ GiveUp(c)

BreakerNext ==
  \/ \E c \in Calls : Send(c) \/ Reject(c) \/ End(c)
  \/ Tick

BreakerSpec == BreakerInit /\ [][BreakerNext]_breakerVars

(* Time passes and a call ends, by an answer or by its timeout. *)
BreakerFairSpec == BreakerSpec /\ WF_breakerVars(Tick) /\ \A c \in Calls : WF_breakerVars(End(c))

-----------------------------------------------------------------------------
(* Properties.                                                              *)

(* Counters and clocks have their types, and openUntil is set exactly when    *)
(* the threshold has been reached.                                           *)
BreakerTypeOK ==
  /\ consecutiveFailures \in Nat
  /\ openFor \in 0 .. OPEN_DURATION \union {None}
  /\ age \in [Calls -> 0 .. TIMEOUT \union {None}]
  /\ stop \in 0 .. OPEN_DURATION
  /\ answered \in BOOLEAN
  /\ openFor # None <=> consecutiveFailures >= FAILURE_THRESHOLD

(* Past the threshold only the calls that were in flight when the breaker     *)
(* opened can still fail, so the count is bounded.                           *)
FailuresBounded ==
  consecutiveFailures + Cardinality(InFlight)
    <= FAILURE_THRESHOLD - 1 + Cardinality(Calls)

(* While a stop lasts and no call in flight has been answered, the provider   *)
(* is not called: the failures that arrive late only make it longer.          *)
StoppedUnlessAnswered ==
  [][\A c \in Calls : age[c] = None /\ age'[c] # None => stop = 0 \/ answered]_breakerVars

(* The breaker never stays open for good: the late failures that extend the   *)
(* window run out, because an open breaker admits no call.                   *)
Reopens == IsOpen ~> ~IsOpen

=============================================================================
