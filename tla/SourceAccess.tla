---------------------------- MODULE SourceAccess ----------------------------
(***************************************************************************)
(* Access to one literature source by concurrent threads of the search and *)
(* detail pools: _request_openalex of app/clients/openalex_client.py with  *)
(* the circuit breaker, the token bucket and the cooldown gate that all    *)
(* calls of the process share.                                             *)
(*                                                                         *)
(* One action per hold of a lock, and per attribute the code writes with   *)
(* no lock.  Times are relative: a timer is the ticks it has left.         *)
(***************************************************************************)
EXTENDS CircuitBreaker, TokenBucket

CONSTANTS
  Calls,        \* one element per call of _request_openalex
  MaxRetries,   \* openalex_max_retries
  MaxWait,      \* openalex_max_retry_wait_seconds, in ticks
  Backoff,      \* the local wait before a retry
  Cooldown,     \* openalex_cooldown_seconds
  Ceiling,      \* openalex_max_cooldown_seconds
  RetryAfters,  \* what a 429 may ask for; 0 when it says nothing
  TokenWait,    \* the timeout of acquire()
  Horizon       \* BOUND: ticks for which grants of tokens are remembered

ASSUME AccessAssumption ==
  /\ {MaxRetries, MaxWait, Backoff, Cooldown, Ceiling, TokenWait, Horizon} \subseteq Nat
  /\ RetryAfters \subseteq Nat

VARIABLES
  mailto,    \* is a contact address configured?
  breaker,   \* get_circuit_breaker("openalex")
  bucket,    \* get_rate_limiter("openalex")
  coolLeft,  \* ticks until _COOLDOWN_UNTIL
  stage,     \* where each call stands
  attempt,   \* the loop variable of each call
  left,      \* ticks a call still has to sleep, or may wait for a token
  seen,      \* limiter.tokens as _get_limiter read it
  \* History.
  promised,  \* ticks until the latest time a 429 asked us to wait for
  late,      \* the gates that closed on a call after it had passed them
  grants     \* tokens granted within the last 0 .. Horizon ticks

limiterVars == <<bucket, seen, grants>>
callVars == <<stage, attempt, left>>
accessVars == <<mailto, breaker, coolLeft, promised, late, limiterVars, callVars>>

CallStages ==
  {"new", "rate", "capacity", "read", "write",       \* _get_limiter
   "breaker1", "cooling1", "token",                  \* before the token
   "breaker2", "cooling2", "cleared",                \* after it
   "sent", "sleeping", "done"}

Higher(a, b) == IF a < b THEN b ELSE a

AccessTypeOK ==
  /\ mailto \in BOOLEAN
  /\ breaker \in Breaker
  /\ bucket \in Bucket
  /\ coolLeft \in Nat
  /\ stage \in [Calls -> CallStages]
  /\ attempt \in [Calls -> 0 .. MaxRetries]
  /\ left \in [Calls -> Nat]
  /\ seen \in [Calls -> 0 .. Capacity]
  /\ promised \in Nat
  /\ late \in [Calls -> SUBSET {"breaker", "cooldown"}]
  /\ grants \in [0 .. Horizon -> Nat]

AccessInit ==
  /\ mailto \in BOOLEAN
  /\ breaker = Closed
  /\ bucket = Full
  /\ coolLeft = 0
  /\ stage = [c \in Calls |-> "new"]
  /\ attempt = [c \in Calls |-> 0]
  /\ left = [c \in Calls |-> 0]
  /\ seen = [c \in Calls |-> 0]
  /\ promised = 0
  /\ late = [c \in Calls |-> {}]
  /\ grants = [age \in 0 .. Horizon |-> 0]
-----------------------------------------------------------------------------
Move(c, from, to) ==
  /\ stage[c] = from
  /\ stage' = [stage EXCEPT ![c] = to]

Decreased(n) == IF n = 0 THEN 0 ELSE n - 1

Tick ==
  /\ breaker' = Aged(breaker)
  /\ bucket' = Later(bucket)
  /\ coolLeft' = Decreased(coolLeft)
  /\ promised' = Decreased(promised)
  /\ left' = [c \in Calls |-> Decreased(left[c])]
  /\ grants' = [age \in 0 .. Horizon |-> IF age = 0 THEN 0 ELSE grants[age - 1]]
  /\ UNCHANGED <<mailto, stage, attempt, seen, late>>
-----------------------------------------------------------------------------
(* _get_limiter(), which lowers the shared limiter without its lock.       *)
NeedsLowering == ~mailto /\ bucket.rate > CommonRate

FindLimiter(c) ==
  /\ Move(c, "new", IF NeedsLowering THEN "rate" ELSE "breaker1")
  /\ UNCHANGED <<mailto, breaker, coolLeft, promised, late, limiterVars, attempt, left>>

LowerRate(c) ==
  /\ Move(c, "rate", "capacity")
  /\ bucket' = [bucket EXCEPT !.rate = CommonRate]
  /\ UNCHANGED <<mailto, breaker, coolLeft, promised, late, seen, grants, attempt, left>>

LowerCapacity(c) ==
  /\ Move(c, "capacity", "read")
  /\ bucket' = [bucket EXCEPT !.capacity = CommonCapacity]
  /\ UNCHANGED <<mailto, breaker, coolLeft, promised, late, seen, grants, attempt, left>>

ReadTokens(c) ==
  /\ Move(c, "read", "write")
  /\ seen' = [seen EXCEPT ![c] = bucket.tokens]
  /\ UNCHANGED <<mailto, breaker, coolLeft, promised, late, bucket, grants, attempt, left>>

WriteTokens(c) ==
  /\ Move(c, "write", "breaker1")
  /\ bucket' = [bucket EXCEPT !.tokens = Lower(seen[c], bucket.capacity)]
  /\ seen' = [seen EXCEPT ![c] = 0]
  /\ UNCHANGED <<mailto, breaker, coolLeft, promised, late, grants, attempt, left>>
-----------------------------------------------------------------------------
(* _request_ready(): the breaker, then the cooldown, each under its lock.  *)
CheckBreaker(c, from, to) ==
  /\ \/ Broken(breaker) /\ Move(c, from, "done") /\ UNCHANGED breaker
     \/ ~Broken(breaker) /\ Move(c, from, to) /\ breaker' = Allowed(breaker)
  /\ UNCHANGED <<mailto, coolLeft, promised, late, limiterVars, attempt, left>>

CheckCooldown(c, from, to) ==
  /\ Move(c, from, IF coolLeft > 0 THEN "done" ELSE to)
  /\ late' = [late EXCEPT ![c] = IF coolLeft > 0 THEN {} ELSE @]
  /\ UNCHANGED <<mailto, breaker, coolLeft, promised, limiterVars, attempt>>

(* Before the token: the wait for it starts. *)
ReadyForToken(c) ==
  \/ CheckBreaker(c, "breaker1", "cooling1")
  \/ /\ CheckCooldown(c, "cooling1", "token")
     /\ left' = [left EXCEPT ![c] = IF coolLeft > 0 THEN 0 ELSE TokenWait]

(* FAULT: the gates are not checked again once the token is there. *)
ReadyToSendAlways(c) ==
  \/ CheckBreaker(c, "breaker2", "cooling2")
  \/ /\ Move(c, "cooling2", "cleared")
     /\ UNCHANGED <<mailto, breaker, coolLeft, promised, late, limiterVars, attempt, left>>

(* After it: the state of the source may have changed during the wait. *)
ReadyToSend(c) ==
  \/ CheckBreaker(c, "breaker2", "cooling2")
  \/ CheckCooldown(c, "cooling2", "cleared") /\ UNCHANGED left

(* acquire(): the token is taken under the lock. *)
TakeToken(c) ==
  /\ Move(c, "token", "breaker2")
  /\ HasToken(bucket)
  /\ bucket' = Taken(bucket)
  /\ grants' = [age \in 0 .. Horizon |-> grants[age] + 1]
  /\ left' = [left EXCEPT ![c] = 0]
  /\ UNCHANGED <<mailto, breaker, coolLeft, promised, late, seen, attempt>>

(* A look at the bucket in vain: it is refilled, and the call sleeps on. *)
AwaitToken(c) ==
  /\ stage[c] = "token"
  /\ ~HasToken(bucket)
  /\ left[c] > 0
  /\ bucket' = Refilled(bucket)
  /\ UNCHANGED <<mailto, breaker, coolLeft, promised, late, seen, grants, callVars>>

(* The wait for a token is over: nothing is sent. *)
GiveUpToken(c) ==
  /\ Move(c, "token", "done")
  /\ ~HasToken(bucket)
  /\ left[c] = 0
  /\ bucket' = Refilled(bucket)
  /\ UNCHANGED <<mailto, breaker, coolLeft, promised, late, seen, grants, attempt, left>>

Send(c) ==
  /\ Move(c, "cleared", "sent")
  /\ late' = [late EXCEPT ![c] = {}]
  /\ UNCHANGED <<mailto, breaker, coolLeft, promised, limiterVars, attempt, left>>
-----------------------------------------------------------------------------
(* The calls on which a gate closes that they have passed already. *)
LateFor(gate, passed) ==
  late' = [c \in Calls |-> IF stage[c] \in passed THEN late[c] \cup {gate} ELSE late[c]]

Succeed(c) ==
  /\ Move(c, "sent", "done")
  /\ breaker' = Succeeded(breaker)
  /\ UNCHANGED <<mailto, coolLeft, promised, late, limiterVars, attempt, left>>

(* 404, 401, 403 and other refusals: no result, and no failure either. *)
Refuse(c) ==
  /\ Move(c, "sent", "done")
  /\ UNCHANGED <<mailto, breaker, coolLeft, promised, late, limiterVars, attempt, left>>

(* record_failure(), seen by the calls that are past the breaker. *)
RecordFailure ==
  /\ breaker' = Failed(breaker)
  /\ IF breaker'.state = "open" /\ breaker.state # "open"
     THEN LateFor("breaker", {"cooling2", "cleared"})
     ELSE UNCHANGED late

(* A 5xx, or a request error that is not transient. *)
Fail(c) ==
  /\ Move(c, "sent", "done")
  /\ RecordFailure
  /\ UNCHANGED <<mailto, coolLeft, promised, limiterVars, attempt, left>>

(* FAULT: a wait does not use up an attempt. *)
RetryAgain(c, wait) ==
  /\ Move(c, "sent", "sleeping")
  /\ left' = [left EXCEPT ![c] = wait]
  /\ UNCHANGED attempt

(* The call sleeps and goes through the loop once more. *)
Retry(c, wait) ==
  /\ Move(c, "sent", "sleeping")
  /\ attempt' = [attempt EXCEPT ![c] = @ + 1]
  /\ left' = [left EXCEPT ![c] = wait]

(* A timeout or a lost connection. *)
TimeOut(c) ==
  /\ RecordFailure
  /\ \/ attempt[c] < MaxRetries /\ Retry(c, Lower(MaxWait, Backoff))
     \/ attempt[c] = MaxRetries /\ Move(c, "sent", "done") /\ UNCHANGED <<attempt, left>>
  /\ UNCHANGED <<mailto, coolLeft, promised, limiterVars>>

(* _enter_cooldown(): never shortened, by the local ceiling or by another  *)
(* answer.                                                                 *)
Cooled(seconds, retryAfter) ==
  Higher(coolLeft, Higher(retryAfter, Lower(seconds, Ceiling)))

(* HTTP 429.  A short wait is spent here, a long one is left to the gate;  *)
(* the jitter makes a wait equal to MaxWait too long.                      *)
Limited(c, retryAfter) ==
  LET wait  == IF retryAfter > 0 THEN retryAfter ELSE Lower(MaxWait, Backoff)
      short == attempt[c] < MaxRetries /\ wait < MaxWait
  IN  /\ \/ short /\ Retry(c, wait) /\ coolLeft' = Cooled(wait, retryAfter)
         \/ /\ ~short
            /\ Move(c, "sent", "done")
            /\ coolLeft' = Cooled(Higher(retryAfter, Cooldown), retryAfter)
            /\ UNCHANGED <<attempt, left>>
      /\ promised' = Higher(promised, retryAfter)
      /\ LateFor("cooldown", {"cleared"})
      /\ UNCHANGED <<mailto, breaker, limiterVars>>

WakeUp(c) ==
  /\ left[c] = 0
  /\ Move(c, "sleeping", "breaker1")
  /\ UNCHANGED <<mailto, breaker, coolLeft, promised, late, limiterVars, attempt, left>>

(* check_retrieval_execution() raises: the search was cancelled, or the    *)
(* execution has lost its lease or its budget.                             *)
Stop(c) ==
  /\ stage[c] \in {"breaker1", "token", "breaker2", "sleeping", "cleared"}
  /\ stage' = [stage EXCEPT ![c] = "done"]
  /\ left' = [left EXCEPT ![c] = 0]
  /\ late' = [late EXCEPT ![c] = {}]
  /\ UNCHANGED <<mailto, breaker, coolLeft, promised, limiterVars, attempt>>
-----------------------------------------------------------------------------
CallStep(c) ==
  \/ FindLimiter(c) \/ LowerRate(c) \/ LowerCapacity(c) \/ ReadTokens(c) \/ WriteTokens(c)
  \/ ReadyForToken(c)
  \/ TakeToken(c) \/ AwaitToken(c) \/ GiveUpToken(c)
  \/ ReadyToSend(c)
  \/ Send(c)
  \/ Succeed(c) \/ Refuse(c) \/ Fail(c) \/ TimeOut(c)
  \/ \E retryAfter \in RetryAfters : Limited(c, retryAfter)
  \/ WakeUp(c)

AccessNext == Tick \/ \E c \in Calls : CallStep(c) \/ Stop(c)

AccessSpec == AccessInit /\ [][AccessNext]_accessVars

(* Threads are scheduled, time passes, and a request has its own timeout.  *)
AccessFairSpec == AccessSpec /\ WF_accessVars(Tick) /\ \A c \in Calls : WF_accessVars(CallStep(c))
-----------------------------------------------------------------------------
(* A call about to send saw both gates open after it got its token: with a *)
(* gate closed now, it closed since (docs/retrieval-failure-policy.md:     *)
(* "checked again after the token is acquired"); and a wait the server     *)
(* asked for is cut short neither by the local ceiling nor by a shorter    *)
(* wait asked for later, or answered out of order.                         *)
GatesHold ==
  \A c \in Calls : stage[c] = "cleared" =>
    /\ Broken(breaker) => "breaker" \in late[c]
    /\ coolLeft > 0 \/ promised > 0 => "cooldown" \in late[c]

(* In any interval the source hands out at most a full bucket and what the *)
(* rate brings, however many threads wait (the limiter is not lowered).    *)
RateBounded ==
  mailto => \A age \in 0 .. Horizon : Cost * grants[age] <= Capacity + Rate * age

(* Every call comes back, whatever the source answers. *)
CallsReturn == \A c \in Calls : stage[c] # "new" ~> stage[c] = "done"

(* A source is asked neither before it may be asked nor more often than it *)
(* allows.                                                                 *)
AccessSound == GatesHold /\ RateBounded /\ AccessTypeOK
=============================================================================
