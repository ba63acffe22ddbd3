--------------------------- MODULE CircuitBreaker ---------------------------
(***************************************************************************)
(* CircuitBreaker of app/core/circuit_breaker.py: the state of one source  *)
(* and what each method makes of it.  Every method runs under the lock of  *)
(* the breaker, so each is one operator on the record.                     *)
(***************************************************************************)
EXTENDS Naturals

CONSTANTS
  FailureThreshold,  \* failure_threshold
  SuccessThreshold,  \* half_open_success_threshold
  Recovery           \* recovery_timeout, in ticks

ASSUME BreakerAssumption ==
  /\ FailureThreshold \in Nat \ {0}
  /\ SuccessThreshold \in Nat \ {0}
  /\ Recovery \in Nat \ {0}

(* age: ticks since last_state_change, which matters up to Recovery.       *)
(* failures: consecutive_failures, which matters up to FailureThreshold.   *)
Breaker ==
  [state : {"closed", "open", "half_open"}, failures : 0 .. FailureThreshold,
   successes : 0 .. SuccessThreshold, age : 0 .. Recovery]

Closed == [state |-> "closed", failures |-> 0, successes |-> 0, age |-> 0]

(* The next request would be refused. *)
Broken(b) == b.state = "open" /\ b.age < Recovery

(* allow_request() that answers yes: a recovered breaker half-opens. *)
Allowed(b) ==
  IF b.state = "open" THEN [b EXCEPT !.state = "half_open", !.successes = 0, !.age = 0]
  ELSE b

(* record_success(). *)
Succeeded(b) ==
  LET served == [b EXCEPT !.failures = 0]
  IN  IF b.state # "half_open" THEN served
      ELSE IF b.successes + 1 < SuccessThreshold
      THEN [served EXCEPT !.successes = @ + 1]
      ELSE [served EXCEPT !.successes = @ + 1, !.state = "closed", !.age = 0]

(* record_failure(). *)
Failed(b) ==
  LET failures == IF b.failures < FailureThreshold THEN b.failures + 1 ELSE b.failures
      failed   == [b EXCEPT !.failures = failures]
      trips    == \/ b.state = "closed" /\ failures = FailureThreshold
                  \/ b.state = "half_open"
  IN  IF trips THEN [failed EXCEPT !.state = "open", !.age = 0] ELSE failed

Aged(b) == [b EXCEPT !.age = IF @ < Recovery THEN @ + 1 ELSE @]
=============================================================================
