--------------------------- MODULE AgentRunProofs ---------------------------
(***************************************************************************)
(* Proofs about a research run of the agent, in two parts that share no    *)
(* state.                                                                  *)
(*                                                                         *)
(* SourceAccess, for any number of concurrent calls, any limits and any    *)
(* waits: a call that is about to be sent has passed gates that were open  *)
(* after it had its token, waits a server asked for are not cut short, and *)
(* the tokens of any interval are within the rate                          *)
(* (app/clients/openalex_client.py, app/core/rate_limiter.py,              *)
(* app/core/circuit_breaker.py).                                           *)
(*                                                                         *)
(* Delegation, for any number of rounds, runs, delegations and operations: *)
(* what a crash makes a delegation repeat is bounded, a history that is    *)
(* resumed from can be answered, and actions serve the current goal.       *)
(***************************************************************************)
EXTENDS Delegation, SourceAccess, SequenceTheorems, TLAPS

-----------------------------------------------------------------------------
(* The calls to a source.                                                  *)

(* A half-open breaker still waits for successes.                          *)
Testing(b) == b.state = "half_open" => b.successes < SuccessThreshold

(* A breaker that is broken is open, so a call past the breaker may be     *)
(* late for it from then on, and not only once it is cleared.              *)
BreakerSeen(b, st, la) ==
  \A c \in Calls : st[c] \in {"cooling2", "cleared"} /\ Broken(b) => "breaker" \in la[c]

(* The gate is closed at least for as long as a server asked for.          *)
CooldownSeen(cool, pr, st, la) ==
  /\ pr <= cool
  /\ \A c \in Calls : st[c] = "cleared" /\ cool > 0 => "cooldown" \in la[c]

(* With a contact address the limiter is never lowered, and what was       *)
(* granted and what the bucket can still give are within the rate.         *)
Unlowered(m, b, st) ==
  m => /\ b.rate = Rate /\ b.capacity = Capacity
       /\ \A c \in Calls : st[c] \notin {"rate", "capacity", "read", "write"}

Paid(m, b, g) ==
  m => \A age \in 0 .. Horizon : Cost * g[age] + Refilled(b).tokens <= Capacity + Rate * age

AccessInv ==
  /\ AccessTypeOK
  /\ Testing(breaker)
  /\ BreakerSeen(breaker, stage, late)
  /\ CooldownSeen(coolLeft, promised, stage, late)
  /\ Unlowered(mailto, bucket, stage)
  /\ Paid(mailto, bucket, grants)

LEMMA BucketNumbers ==
  /\ Cost \in Nat \ {0} /\ Rate \in Nat \ {0} /\ CommonRate \in Nat \ {0}
  /\ Capacity \in Nat /\ MaxElapsed \in Nat
  /\ CommonCapacity <= Capacity /\ CommonCapacity \in Nat
  /\ CommonRate < Rate
BY BucketAssumption DEF BucketAssumption

LEMMA AccessNumbers ==
  /\ MaxRetries \in Nat /\ MaxWait \in Nat /\ Backoff \in Nat /\ Cooldown \in Nat
  /\ Ceiling \in Nat /\ TokenWait \in Nat /\ Horizon \in Nat
  /\ RetryAfters \subseteq Nat
BY AccessAssumption DEF AccessAssumption

LEMMA BreakerNumbers ==
  FailureThreshold \in Nat \ {0} /\ SuccessThreshold \in Nat \ {0} /\ Recovery \in Nat \ {0}
BY BreakerAssumption DEF BreakerAssumption
-----------------------------------------------------------------------------
(* The bucket                                                              *)

LEMMA RefilledIsBucket ==
  ASSUME NEW b \in Bucket
  PROVE  /\ Refilled(b) \in Bucket
         /\ Refilled(b).tokens <= Capacity
         /\ Refilled(b).rate = b.rate /\ Refilled(b).capacity = b.capacity
         /\ Refilled(Refilled(b)).tokens = Refilled(b).tokens
<1> USE BucketNumbers
<1>1. /\ b.tokens \in Nat /\ b.tokens <= Capacity /\ b.capacity \in Nat /\ b.capacity <= Capacity
      /\ b.rate \in Nat /\ b.elapsed \in Nat
  BY DEF Bucket
<1>2. PICK gain \in Nat : gain = b.elapsed * b.rate
  BY <1>1
<1>3. PICK n : n = Lower(b.capacity, b.tokens + gain)
  OBVIOUS
<1>4. n \in 0 .. Capacity /\ n <= b.capacity
  BY <1>1, <1>2, <1>3 DEF Lower
<1>5. PICK d : d = Refilled(b)
  OBVIOUS
<1>6. d = [b EXCEPT !.tokens = n, !.elapsed = 0]
  BY <1>2, <1>3, <1>5 DEF Refilled
<1>7. d \in Bucket
  <2>1. d = [tokens |-> n, rate |-> b.rate, capacity |-> b.capacity, elapsed |-> 0]
    BY <1>6 DEF Bucket
  <2>2. b.rate \in {Rate, CommonRate} /\ b.capacity \in {Capacity, CommonCapacity}
    BY DEF Bucket
  <2>3. 0 \in 0 .. MaxElapsed
    OBVIOUS
  <2> QED
    BY <1>4, <2>1, <2>2, <2>3 DEF Bucket
<1>8. d.tokens = n /\ d.elapsed = 0 /\ d.rate = b.rate /\ d.capacity = b.capacity
  BY <1>6 DEF Bucket
<1>9. Refilled(d).tokens = Lower(d.capacity, d.tokens + d.elapsed * d.rate)
  BY <1>7 DEF Refilled, Bucket
<1>10. d.elapsed * d.rate = 0
  BY <1>1, <1>8
<1>11. Refilled(d).tokens = n
  BY <1>1, <1>4, <1>8, <1>9, <1>10 DEF Lower
<1> QED
  BY <1>4, <1>5, <1>7, <1>8, <1>11

LEMMA TakenIsBucket ==
  ASSUME NEW b \in Bucket, HasToken(b)
  PROVE  /\ Taken(b) \in Bucket
         /\ Taken(b).rate = b.rate /\ Taken(b).capacity = b.capacity
         /\ Refilled(Taken(b)).tokens = Refilled(b).tokens - Cost
<1> USE BucketNumbers
<1>1. PICK d : d = Refilled(b)
  OBVIOUS
<1>2. /\ d \in Bucket /\ d.rate = b.rate /\ d.capacity = b.capacity
      /\ d.tokens \in Nat /\ d.tokens <= Capacity /\ d.elapsed = 0 /\ d.tokens >= Cost
      /\ d.tokens <= d.capacity
  <2>1. d.elapsed = 0 /\ d.tokens = Lower(b.capacity, b.tokens + b.elapsed * b.rate)
    BY <1>1 DEF Refilled, Bucket
  <2>2. d \in Bucket /\ d.rate = b.rate /\ d.capacity = b.capacity /\ d.tokens <= Capacity
    BY <1>1, RefilledIsBucket
  <2>3. d.tokens \in Nat /\ b.capacity \in Nat /\ b.tokens \in Nat /\ b.elapsed * b.rate \in Nat
    BY <2>2 DEF Bucket
  <2>4. d.tokens <= b.capacity
    BY <2>1, <2>3 DEF Lower
  <2> QED
    BY <1>1, <2>1, <2>2, <2>3, <2>4 DEF HasToken
<1>3. PICK n \in 0 .. Capacity : n = d.tokens - Cost
  BY <1>2
<1>4. PICK t : t = Taken(b)
  OBVIOUS
<1>5. t = [d EXCEPT !.tokens = n]
  BY <1>1, <1>3, <1>4 DEF Taken
<1>6. t \in Bucket
  BY <1>2, <1>5 DEF Bucket
<1>7. t.tokens = n /\ t.elapsed = 0 /\ t.rate = d.rate /\ t.capacity = d.capacity
  BY <1>2, <1>5 DEF Bucket
<1>8. Refilled(t).tokens = Lower(t.capacity, t.tokens + t.elapsed * t.rate)
  BY <1>6 DEF Refilled, Bucket
<1>9. t.elapsed * t.rate = 0 /\ n <= t.capacity /\ t.capacity \in Nat
  BY <1>2, <1>3, <1>6, <1>7 DEF Bucket
<1>10. Refilled(t).tokens = n
  BY <1>7, <1>8, <1>9 DEF Lower
<1> QED
  BY <1>1, <1>2, <1>3, <1>4, <1>6, <1>7, <1>10

(* A tick brings at most the rate.                                         *)
LEMMA LaterIsBucket ==
  ASSUME NEW b \in Bucket
  PROVE  /\ Later(b) \in Bucket
         /\ Later(b).rate = b.rate /\ Later(b).capacity = b.capacity
         /\ Refilled(Later(b)).tokens <= Refilled(b).tokens + b.rate
<1> USE BucketNumbers
<1>1. /\ b.tokens \in Nat /\ b.capacity \in Nat /\ b.rate \in Nat
      /\ b.elapsed \in Nat /\ b.elapsed <= MaxElapsed
  BY DEF Bucket
<1>2. PICK k \in 0 .. MaxElapsed : k = Lower(MaxElapsed, b.elapsed + 1)
  BY <1>1 DEF Lower
<1>3. PICK d : d = Later(b)
  OBVIOUS
<1>4. d = [b EXCEPT !.elapsed = k]
  BY <1>2, <1>3 DEF Later
<1>5. d \in Bucket
  BY <1>2, <1>4 DEF Bucket
<1>6. d.tokens = b.tokens /\ d.elapsed = k /\ d.rate = b.rate /\ d.capacity = b.capacity
  BY <1>4 DEF Bucket
<1>7. /\ Refilled(d).tokens = Lower(b.capacity, b.tokens + k * b.rate)
      /\ Refilled(b).tokens = Lower(b.capacity, b.tokens + b.elapsed * b.rate)
  BY <1>5, <1>6 DEF Refilled, Bucket
<1>8. k * b.rate <= b.elapsed * b.rate + b.rate
  <2>1. k = b.elapsed \/ k = b.elapsed + 1
    BY <1>1, <1>2 DEF Lower
  <2> QED
    BY <1>1, <2>1
<1>9. PICK x \in Nat, y \in Nat : x = k * b.rate /\ y = b.elapsed * b.rate
  BY <1>1, <1>2
<1>10. Lower(b.capacity, b.tokens + x) <= Lower(b.capacity, b.tokens + y) + b.rate
  BY <1>1, <1>8, <1>9 DEF Lower
<1> QED
  BY <1>3, <1>5, <1>6, <1>7, <1>9, <1>10
-----------------------------------------------------------------------------
(* The breaker                                                             *)

LEMMA AllowedIsBreaker ==
  ASSUME NEW b \in Breaker, Testing(b)
  PROVE  Allowed(b) \in Breaker /\ Testing(Allowed(b)) /\ ~Broken(Allowed(b))
<1>1. CASE b.state = "open"
  <2>1. PICK d : d = Allowed(b)
    OBVIOUS
  <2>2. d = [state |-> "half_open", failures |-> b.failures, successes |-> 0, age |-> 0]
    BY <1>1, <2>1 DEF Allowed, Breaker
  <2>3. b.failures \in 0 .. FailureThreshold
    BY DEF Breaker
  <2>4. d \in Breaker /\ Testing(d) /\ ~Broken(d)
    BY <2>2, <2>3, BreakerNumbers DEF Breaker, Testing, Broken
  <2> QED
    BY <2>1, <2>4
<1>2. CASE b.state # "open"
  BY <1>2 DEF Allowed, Broken
<1> QED
  BY <1>1, <1>2

LEMMA SucceededIsBreaker ==
  ASSUME NEW b \in Breaker, Testing(b)
  PROVE  Succeeded(b) \in Breaker /\ Testing(Succeeded(b)) /\ (Broken(Succeeded(b)) => Broken(b))
<1> USE BreakerNumbers
<1>1. /\ b.state \in {"closed", "open", "half_open"} /\ b.failures \in 0 .. FailureThreshold
      /\ b.successes \in 0 .. SuccessThreshold /\ b.age \in 0 .. Recovery
  BY DEF Breaker
<1>2. PICK d : d = Succeeded(b)
  OBVIOUS
<1>3. CASE b.state # "half_open"
  <2>1. d = [state |-> b.state, failures |-> 0, successes |-> b.successes, age |-> b.age]
    BY <1>2, <1>3 DEF Succeeded, Breaker
  <2>2. d \in Breaker /\ Testing(d) /\ (Broken(d) => Broken(b))
    BY <1>1, <1>3, <2>1 DEF Breaker, Testing, Broken
  <2> QED
    BY <1>2, <2>2
<1>4. CASE b.state = "half_open"
  <2>1. PICK n \in 0 .. SuccessThreshold : n = b.successes + 1
    BY <1>1, <1>4 DEF Testing
  <2>2. CASE b.successes + 1 < SuccessThreshold
    <3>1. d = [state |-> "half_open", failures |-> 0, successes |-> n, age |-> b.age]
      BY <1>2, <1>4, <2>1, <2>2 DEF Succeeded, Breaker
    <3>2. d \in Breaker /\ Testing(d) /\ ~Broken(d)
      BY <1>1, <2>1, <2>2, <3>1 DEF Breaker, Testing, Broken
    <3> QED
      BY <1>2, <3>2
  <2>3. CASE ~(b.successes + 1 < SuccessThreshold)
    <3>1. d = [state |-> "closed", failures |-> 0, successes |-> n, age |-> 0]
      BY <1>2, <1>4, <2>1, <2>3 DEF Succeeded, Breaker
    <3>2. d \in Breaker /\ Testing(d) /\ ~Broken(d)
      BY <2>1, <3>1 DEF Breaker, Testing, Broken
    <3> QED
      BY <1>2, <3>2
  <2> QED
    BY <2>2, <2>3
<1> QED
  BY <1>3, <1>4

(* A breaker that is broken by a failure was broken before or opens now.   *)
LEMMA FailedIsBreaker ==
  ASSUME NEW b \in Breaker, Testing(b)
  PROVE  /\ Failed(b) \in Breaker /\ Testing(Failed(b))
         /\ Broken(Failed(b)) => Failed(b).state = "open" /\ (Broken(b) \/ b.state # "open")
<1> USE BreakerNumbers
<1>1. /\ b.state \in {"closed", "open", "half_open"} /\ b.failures \in 0 .. FailureThreshold
      /\ b.successes \in 0 .. SuccessThreshold /\ b.age \in 0 .. Recovery
  BY DEF Breaker
<1>2. PICK d : d = Failed(b)
  OBVIOUS
<1>3. PICK n \in 0 .. FailureThreshold :
        n = IF b.failures < FailureThreshold THEN b.failures + 1 ELSE b.failures
  BY <1>1
<1>4. CASE (b.state = "closed" /\ n = FailureThreshold) \/ b.state = "half_open"
  <2>1. d = [state |-> "open", failures |-> n, successes |-> b.successes, age |-> 0]
    BY <1>2, <1>3, <1>4 DEF Failed, Breaker
  <2>2. d \in Breaker /\ Testing(d) /\ d.state = "open"
    BY <1>1, <1>3, <2>1 DEF Breaker, Testing
  <2> QED
    BY <1>2, <1>4, <2>2
<1>5. CASE ~((b.state = "closed" /\ n = FailureThreshold) \/ b.state = "half_open")
  <2>1. d = [state |-> b.state, failures |-> n, successes |-> b.successes, age |-> b.age]
    BY <1>2, <1>3, <1>5 DEF Failed, Breaker
  <2>2. d \in Breaker /\ Testing(d) /\ (Broken(d) => d.state = "open" /\ Broken(b))
    BY <1>1, <1>3, <1>5, <2>1 DEF Breaker, Testing, Broken
  <2> QED
    BY <1>2, <2>2
<1> QED
  BY <1>4, <1>5

LEMMA RefilledCounts ==
  ASSUME NEW b \in Bucket
  PROVE  Refilled(b).tokens \in Nat /\ Refilled(b).tokens <= Capacity
<1>1. Refilled(b) \in Bucket
  BY RefilledIsBucket
<1> QED
  BY <1>1, BucketNumbers DEF Bucket

LEMMA AgedIsBreaker ==
  ASSUME NEW b \in Breaker, Testing(b)
  PROVE  Aged(b) \in Breaker /\ Testing(Aged(b)) /\ (Broken(Aged(b)) => Broken(b))
<1> USE BreakerNumbers
<1>1. /\ b.state \in {"closed", "open", "half_open"} /\ b.failures \in 0 .. FailureThreshold
      /\ b.successes \in 0 .. SuccessThreshold /\ b.age \in 0 .. Recovery
  BY DEF Breaker
<1>2. PICK d : d = Aged(b)
  OBVIOUS
<1>3. PICK n \in 0 .. Recovery : n = IF b.age < Recovery THEN b.age + 1 ELSE b.age
  BY <1>1
<1>4. d = [state |-> b.state, failures |-> b.failures, successes |-> b.successes, age |-> n]
  BY <1>2, <1>3 DEF Aged, Breaker
<1>5. d \in Breaker /\ Testing(d) /\ (Broken(d) => Broken(b))
  BY <1>1, <1>3, <1>4 DEF Breaker, Testing, Broken
<1> QED
  BY <1>2, <1>5
-----------------------------------------------------------------------------
(* The steps                                                               *)

LEMMA Moved ==
  ASSUME stage \in [Calls -> CallStages], NEW c \in Calls, NEW from, NEW to \in CallStages,
         Move(c, from, to)
  PROVE  /\ stage' \in [Calls -> CallStages]
         /\ stage[c] = from /\ stage'[c] = to
         /\ \A x \in Calls : x # c => stage'[x] = stage[x]
BY DEF Move

LEMMA StartsSound ==
  AccessInit => AccessInv
<1> SUFFICES ASSUME AccessInit
             PROVE  AccessInv
  OBVIOUS
<1> USE BucketNumbers, AccessNumbers, BreakerNumbers DEF AccessInit
<1>1. PICK b : b = Full
  OBVIOUS
<1>2. b \in Bucket /\ b.tokens = Capacity /\ b.rate = Rate /\ b.capacity = Capacity /\ b.elapsed = 0
  <2>1. b = [tokens |-> Capacity, rate |-> Rate, capacity |-> Capacity, elapsed |-> 0]
    BY <1>1 DEF Full
  <2>2. Capacity \in 0 .. Capacity /\ 0 \in 0 .. MaxElapsed
    OBVIOUS
  <2> QED
    BY <2>1, <2>2 DEF Bucket
<1>3. Closed \in Breaker /\ ~Broken(Closed) /\ Testing(Closed)
  BY DEF Closed, Breaker, Broken, Testing
<1>4. AccessTypeOK
  BY <1>1, <1>2, <1>3 DEF AccessTypeOK, CallStages
<1>5. BreakerSeen(breaker, stage, late) /\ CooldownSeen(coolLeft, promised, stage, late)
  BY <1>3 DEF BreakerSeen, CooldownSeen
<1>6. Unlowered(mailto, bucket, stage)
  BY <1>1, <1>2 DEF Unlowered
<1>7. Paid(mailto, bucket, grants)
  <2>1. Refilled(b).tokens \in Nat /\ Refilled(b).tokens <= Capacity
    BY <1>2, RefilledIsBucket DEF Bucket
  <2>2. \A age \in 0 .. Horizon : Cost * grants[age] + Refilled(bucket).tokens <= Capacity + Rate * age
    <3> TAKE age \in 0 .. Horizon
    <3>1. PICK r \in Nat : r = Rate * age
      OBVIOUS
    <3>2. Cost * grants[age] = 0
      OBVIOUS
    <3> QED
      BY <1>1, <2>1, <3>1, <3>2
  <2> QED
    BY <2>2 DEF Paid
<1> QED
  BY <1>3, <1>4, <1>5, <1>6, <1>7 DEF AccessInv

LEMMA TickKeeps ==
  ASSUME AccessInv, Tick
  PROVE  AccessInv'
<1> USE BucketNumbers, AccessNumbers DEF AccessInv, AccessTypeOK, Tick
<1>1. breaker' \in Breaker /\ Testing(breaker)' /\ (Broken(breaker)' => Broken(breaker))
  BY AgedIsBreaker DEF Testing, Broken
<1>2. /\ bucket' \in Bucket /\ bucket'.rate = bucket.rate /\ bucket'.capacity = bucket.capacity
      /\ Refilled(bucket').tokens <= Refilled(bucket).tokens + bucket.rate
  BY LaterIsBucket
<1>3. coolLeft' \in Nat /\ promised' \in Nat /\ promised' <= coolLeft' /\ (coolLeft' > 0 => coolLeft > 0)
  BY DEF Decreased, CooldownSeen
<1>4. left' \in [Calls -> Nat]
  BY DEF Decreased
<1>5. grants' \in [0 .. Horizon -> Nat]
  <2>1. \A age \in 0 .. Horizon : age # 0 => age - 1 \in 0 .. Horizon
    OBVIOUS
  <2> QED
    BY <2>1
<1>6. AccessTypeOK'
  BY <1>1, <1>2, <1>3, <1>4, <1>5
<1>7. BreakerSeen(breaker, stage, late)'
  BY <1>1 DEF BreakerSeen
<1>8. CooldownSeen(coolLeft, promised, stage, late)'
  BY <1>3 DEF CooldownSeen
<1>9. Unlowered(mailto, bucket, stage)'
  BY <1>2 DEF Unlowered
<1>10. Paid(mailto, bucket, grants)'
  <2>1. SUFFICES ASSUME mailto, NEW age \in 0 .. Horizon
                 PROVE  Cost * grants'[age] + Refilled(bucket').tokens <= Capacity + Rate * age
    BY DEF Paid
  <2>2. PICK old \in Nat, new \in Nat :
          old = Refilled(bucket).tokens /\ new = Refilled(bucket').tokens /\ new <= Capacity
    <3>1. bucket \in Bucket /\ bucket' \in Bucket
      BY <1>2
    <3> HIDE BucketNumbers, AccessNumbers DEF AccessInv, AccessTypeOK, Tick
    <3>2. /\ Refilled(bucket).tokens \in Nat /\ Refilled(bucket').tokens \in Nat
          /\ Refilled(bucket').tokens <= Capacity
      BY <3>1, RefilledCounts
    <3> QED
      BY <3>2
  <2>3. new <= old + Rate
    BY <1>2, <2>1, <2>2 DEF Unlowered
  <2>4. PICK r \in Nat : r = Rate * age
    OBVIOUS
  <2>5. CASE age = 0
    <3>1. grants'[age] = 0
      BY <2>5
    <3>2. PICK g \in Nat : g = Cost * grants'[age] /\ g = 0
      BY <3>1
    <3> HIDE DEF Tick, AccessInv, AccessTypeOK
    <3> QED
      BY <2>2, <2>4, <3>2
  <2>6. CASE age # 0
    <3>1. age - 1 \in 0 .. Horizon /\ grants'[age] = grants[age - 1]
      BY <2>6
    <3>2. Cost * grants[age - 1] + old <= Capacity + Rate * (age - 1)
      BY <2>1, <2>2, <3>1 DEF Paid
    <3>3. PICK g \in Nat : g = Cost * grants[age - 1]
      BY <3>1
    <3>4. Rate * (age - 1) = r - Rate
      BY <2>4
    <3>5. g + old <= Capacity + (r - Rate)
      BY <3>2, <3>3, <3>4
    <3>6. g = Cost * grants'[age]
      BY <3>1, <3>3
    <3>7. g + new <= Capacity + r
      <4> HIDE DEF AccessInv, AccessTypeOK, Tick
      <4> QED
        BY <2>2, <2>3, <2>4, <3>3, <3>5
    <3> QED
      BY <2>2, <2>4, <3>6, <3>7
  <2> QED
    BY <2>5, <2>6
<1> QED
  BY <1>1, <1>6, <1>7, <1>8, <1>9, <1>10

(* _get_limiter(): only without a contact address is the limiter lowered.  *)
LEMMA LimiterKeeps ==
  ASSUME AccessInv, NEW c \in Calls,
         FindLimiter(c) \/ LowerRate(c) \/ LowerCapacity(c) \/ ReadTokens(c) \/ WriteTokens(c)
  PROVE  AccessInv'
<1> USE BucketNumbers DEF AccessInv, AccessTypeOK, limiterVars
<1>1. PICK from \in {"new", "rate", "capacity", "read", "write"},
           to \in {"rate", "capacity", "read", "write", "breaker1"} : Move(c, from, to)
  BY DEF FindLimiter, LowerRate, LowerCapacity, ReadTokens, WriteTokens
<1>2. /\ stage' \in [Calls -> CallStages] /\ stage[c] = from /\ stage'[c] = to
      /\ \A x \in Calls : x # c => stage'[x] = stage[x]
  BY <1>1, Moved DEF CallStages
<1>3. UNCHANGED <<mailto, breaker, coolLeft, promised, late, grants, attempt, left>>
  BY DEF FindLimiter, LowerRate, LowerCapacity, ReadTokens, WriteTokens
<1>4. bucket' \in Bucket /\ seen' \in [Calls -> 0 .. Capacity]
  <2>1. CASE LowerRate(c)
    <3>1. bucket' = [tokens |-> bucket.tokens, rate |-> CommonRate, capacity |-> bucket.capacity,
                     elapsed |-> bucket.elapsed]
      BY <2>1 DEF LowerRate, Bucket
    <3> QED
      BY <2>1, <3>1 DEF LowerRate, Bucket
  <2>2. CASE LowerCapacity(c)
    <3>1. bucket' = [tokens |-> bucket.tokens, rate |-> bucket.rate, capacity |-> CommonCapacity,
                     elapsed |-> bucket.elapsed]
      BY <2>2 DEF LowerCapacity, Bucket
    <3> QED
      BY <2>2, <3>1 DEF LowerCapacity, Bucket
  <2>3. CASE WriteTokens(c)
    <3>1. PICK n : n = Lower(seen[c], bucket.capacity)
      OBVIOUS
    <3>2. n \in 0 .. Capacity
      BY <3>1 DEF Lower, Bucket
    <3>3. bucket' = [tokens |-> n, rate |-> bucket.rate, capacity |-> bucket.capacity,
                     elapsed |-> bucket.elapsed]
      BY <2>3, <3>1 DEF WriteTokens, Bucket
    <3>4. seen' \in [Calls -> 0 .. Capacity]
      BY <2>3 DEF WriteTokens
    <3> QED
      BY <3>2, <3>3, <3>4 DEF Bucket
  <2>4. CASE FindLimiter(c)
    BY <2>4 DEF FindLimiter
  <2>5. CASE ReadTokens(c)
    <3>1. bucket' = bucket /\ seen' = [seen EXCEPT ![c] = bucket.tokens]
      BY <2>5 DEF ReadTokens
    <3> QED
      BY <3>1 DEF Bucket
  <2> QED
    BY <2>1, <2>2, <2>3, <2>4, <2>5
<1>5. mailto => to = "breaker1" /\ bucket' = bucket
  <2>1. mailto => from = "new"
    BY <1>2 DEF Unlowered
  <2> QED
    BY <1>1, <1>2, <2>1 DEF FindLimiter, NeedsLowering, Move, LowerRate, LowerCapacity, ReadTokens,
       WriteTokens
<1>6. AccessTypeOK'
  BY <1>2, <1>3, <1>4
<1>7. Testing(breaker)' /\ BreakerSeen(breaker, stage, late)'
  BY <1>2, <1>3 DEF BreakerSeen, Testing, Broken
<1>8. CooldownSeen(coolLeft, promised, stage, late)'
  BY <1>2, <1>3 DEF CooldownSeen
<1>9. Unlowered(mailto, bucket, stage)'
  BY <1>2, <1>3, <1>5 DEF Unlowered
<1>10. Paid(mailto, bucket, grants)'
  BY <1>3, <1>5 DEF Paid
<1> QED
  BY <1>6, <1>7, <1>8, <1>9, <1>10

(* A step of a call that has found the limiter and leaves it alone.        *)
LEMMA LimiterUntouched ==
  ASSUME AccessInv, NEW c \in Calls, UNCHANGED <<mailto, limiterVars>>,
         stage'[c] \notin {"rate", "capacity", "read", "write"},
         \A x \in Calls : x # c => stage'[x] = stage[x]
  PROVE  Unlowered(mailto, bucket, stage)' /\ Paid(mailto, bucket, grants)'
<1>1. Unlowered(mailto, bucket, stage)'
  BY DEF AccessInv, Unlowered, limiterVars
<1>2. Paid(mailto, bucket, grants)'
  BY DEF AccessInv, Paid, limiterVars
<1> QED
  BY <1>1, <1>2

LEMMA BreakerCheckKeeps ==
  ASSUME AccessInv, NEW c \in Calls, NEW from \in {"breaker1", "breaker2"},
         NEW to \in {"cooling1", "cooling2"}, CheckBreaker(c, from, to)
  PROVE  AccessInv'
<1> USE DEF CheckBreaker
<1>1. PICK end \in {"done", to} :
        Move(c, from, end) /\ (end = "done" \/ ~Broken(breaker))
  OBVIOUS
<1>2. /\ stage' \in [Calls -> CallStages] /\ stage[c] = from /\ stage'[c] = end
      /\ \A x \in Calls : x # c => stage'[x] = stage[x]
  BY <1>1, Moved DEF CallStages, AccessInv, AccessTypeOK
<1>3. breaker' \in Breaker /\ Testing(breaker)' /\ (Broken(breaker)' => Broken(breaker) /\ end = "done")
  <2>1. CASE breaker' = breaker /\ Broken(breaker) /\ Move(c, from, "done")
    <3>1. end = "done"
      BY <1>2, <2>1, Moved DEF CallStages, AccessInv, AccessTypeOK
    <3> QED
      BY <2>1, <3>1 DEF AccessInv, AccessTypeOK, Testing, Broken
  <2>2. CASE breaker' = Allowed(breaker)
    BY <2>2, AllowedIsBreaker DEF AccessInv, AccessTypeOK, Testing, Broken
  <2> QED
    BY <2>1, <2>2
<1>4. UNCHANGED <<mailto, coolLeft, promised, late, bucket, seen, grants, attempt, left>>
  BY DEF limiterVars
<1>5. AccessTypeOK'
  BY <1>2, <1>3, <1>4 DEF AccessInv, AccessTypeOK
<1>6. BreakerSeen(breaker, stage, late)'
  BY <1>2, <1>3, <1>4 DEF AccessInv, BreakerSeen
<1>7. CooldownSeen(coolLeft, promised, stage, late)'
  BY <1>2, <1>4 DEF AccessInv, CooldownSeen
<1>8. Unlowered(mailto, bucket, stage)' /\ Paid(mailto, bucket, grants)'
  BY <1>2, <1>4, LimiterUntouched DEF limiterVars
<1> QED
  BY <1>3, <1>5, <1>6, <1>7, <1>8 DEF AccessInv

LEMMA CooldownCheckKeeps ==
  ASSUME AccessInv, NEW c \in Calls, NEW from \in {"cooling1", "cooling2"},
         NEW to \in {"token", "cleared"}, to = "cleared" => from = "cooling2",
         CheckCooldown(c, from, to), left' \in [Calls -> Nat]
  PROVE  AccessInv'
<1> USE DEF CheckCooldown
<1>1. PICK end \in {"done", to} :
        Move(c, from, end) /\ end = IF coolLeft > 0 THEN "done" ELSE to
  OBVIOUS
<1>2. /\ stage' \in [Calls -> CallStages] /\ stage[c] = from /\ stage'[c] = end
      /\ \A x \in Calls : x # c => stage'[x] = stage[x]
  BY <1>1, Moved DEF CallStages, AccessInv, AccessTypeOK
<1>3. UNCHANGED <<mailto, breaker, coolLeft, promised, bucket, seen, grants, attempt>>
  BY DEF limiterVars
<1>4. late' \in [Calls -> SUBSET {"breaker", "cooldown"}]
  BY DEF AccessInv, AccessTypeOK
<1>5. /\ \A x \in Calls : x # c => late'[x] = late[x]
      /\ end # "done" => late'[c] = late[c] /\ ~(coolLeft > 0)
  BY <1>1 DEF AccessInv, AccessTypeOK
<1>6. AccessTypeOK'
  BY <1>2, <1>3, <1>4 DEF AccessInv, AccessTypeOK
<1>7. Testing(breaker)' /\ BreakerSeen(breaker, stage, late)'
  BY <1>2, <1>3, <1>5 DEF AccessInv, BreakerSeen, Testing, Broken
<1>8. CooldownSeen(coolLeft, promised, stage, late)'
  BY <1>2, <1>3, <1>5 DEF AccessInv, CooldownSeen
<1>9. Unlowered(mailto, bucket, stage)' /\ Paid(mailto, bucket, grants)'
  BY <1>2, <1>3, LimiterUntouched DEF limiterVars
<1> QED
  BY <1>6, <1>7, <1>8, <1>9 DEF AccessInv

(* A look at the bucket pays nothing; a token taken costs the bucket what  *)
(* the grant adds.                                                         *)
LEMMA TokenKeeps ==
  ASSUME AccessInv, NEW c \in Calls, TakeToken(c) \/ AwaitToken(c) \/ GiveUpToken(c)
  PROVE  AccessInv'
<1> USE BucketNumbers, AccessNumbers
<1>1. stage[c] = "token" /\ stage' \in [Calls -> CallStages] /\ stage'[c] \in {"token", "breaker2", "done"}
      /\ \A x \in Calls : x # c => stage'[x] = stage[x]
  <2>1. CASE AwaitToken(c)
    BY <2>1 DEF AwaitToken, callVars, AccessInv, AccessTypeOK
  <2>2. CASE TakeToken(c) \/ GiveUpToken(c)
    <3>1. PICK end \in {"breaker2", "done"} : Move(c, "token", end)
      BY <2>2 DEF TakeToken, GiveUpToken
    <3> QED
      BY <3>1, Moved DEF CallStages, AccessInv, AccessTypeOK
  <2> QED
    BY <2>1, <2>2
<1>2. UNCHANGED <<mailto, breaker, coolLeft, promised, late, seen, attempt>> /\ left' \in [Calls -> Nat]
  <2>1. left \in [Calls -> Nat]
    BY DEF AccessInv, AccessTypeOK
  <2>2. left' = left \/ left' = [left EXCEPT ![c] = 0]
    BY DEF TakeToken, AwaitToken, GiveUpToken, callVars
  <2>3. UNCHANGED <<mailto, breaker, coolLeft, promised, late, seen, attempt>>
    BY DEF TakeToken, AwaitToken, GiveUpToken, callVars
  <2> QED
    BY <2>1, <2>2, <2>3
<1>3. bucket \in Bucket /\ grants \in [0 .. Horizon -> Nat]
  BY DEF AccessInv, AccessTypeOK
<1>4. /\ bucket' \in Bucket /\ bucket'.rate = bucket.rate /\ bucket'.capacity = bucket.capacity
      /\ grants' \in [0 .. Horizon -> Nat]
      /\ \A age \in 0 .. Horizon : Cost * grants'[age] + Refilled(bucket').tokens
                                     = Cost * grants[age] + Refilled(bucket).tokens
  <2>1. CASE TakeToken(c)
    <3>1. /\ bucket' \in Bucket /\ bucket'.rate = bucket.rate /\ bucket'.capacity = bucket.capacity
          /\ Refilled(bucket').tokens = Refilled(bucket).tokens - Cost
      BY <1>3, <2>1, TakenIsBucket DEF TakeToken
    <3>2. grants' \in [0 .. Horizon -> Nat] /\ \A age \in 0 .. Horizon : grants'[age] = grants[age] + 1
      BY <1>3, <2>1 DEF TakeToken
    <3>3. ASSUME NEW age \in 0 .. Horizon
          PROVE  Cost * grants'[age] + Refilled(bucket').tokens
                   = Cost * grants[age] + Refilled(bucket).tokens
      <4>1. PICK old \in Nat : old = Refilled(bucket).tokens
        BY <1>3, RefilledIsBucket DEF Bucket
      <4>2. PICK g \in Nat : g = grants[age]
        BY <1>3
      <4>3. Cost * grants'[age] = Cost * g + Cost
        BY <3>2, <4>2
      <4>4. PICK p \in Nat : p = Cost * g
        BY <4>2
      <4> QED
        BY <3>1, <4>1, <4>2, <4>3, <4>4
    <3> QED
      BY <3>1, <3>2, <3>3
  <2>2. CASE AwaitToken(c) \/ GiveUpToken(c)
    <3>1. bucket' = Refilled(bucket) /\ grants' = grants
      BY <2>2 DEF AwaitToken, GiveUpToken
    <3> QED
      BY <1>3, <3>1, RefilledIsBucket
  <2> QED
    BY <2>1, <2>2
<1>5. AccessTypeOK'
  BY <1>1, <1>2, <1>4 DEF AccessInv, AccessTypeOK
<1>6. Testing(breaker)' /\ BreakerSeen(breaker, stage, late)'
  BY <1>1, <1>2 DEF AccessInv, BreakerSeen, Testing, Broken
<1>7. CooldownSeen(coolLeft, promised, stage, late)'
  BY <1>1, <1>2 DEF AccessInv, CooldownSeen
<1>8. Unlowered(mailto, bucket, stage)'
  BY <1>1, <1>2, <1>4 DEF AccessInv, Unlowered
<1>9. Paid(mailto, bucket, grants)'
  BY <1>2, <1>4 DEF AccessInv, Paid
<1> QED
  BY <1>5, <1>6, <1>7, <1>8, <1>9 DEF AccessInv

(* What a call does by itself once it is cleared, and its end.             *)
LEMMA CallKeeps ==
  ASSUME AccessInv, NEW c \in Calls, Send(c) \/ Succeed(c) \/ Refuse(c) \/ WakeUp(c) \/ Stop(c)
  PROVE  AccessInv'
<1>1. /\ stage' \in [Calls -> CallStages] /\ stage'[c] \in {"sent", "done", "breaker1"}
      /\ \A x \in Calls : x # c => stage'[x] = stage[x]
  <2>1. CASE Stop(c)
    BY <2>1 DEF Stop, AccessInv, AccessTypeOK, CallStages
  <2>2. CASE Send(c) \/ Succeed(c) \/ Refuse(c) \/ WakeUp(c)
    <3>1. Move(c, "cleared", "sent") \/ Move(c, "sent", "done") \/ Move(c, "sleeping", "breaker1")
      BY <2>2 DEF Send, Succeed, Refuse, WakeUp
    <3> QED
      BY <3>1, Moved DEF CallStages, AccessInv, AccessTypeOK
  <2> QED
    BY <2>1, <2>2
<1>2. UNCHANGED <<mailto, coolLeft, promised, limiterVars, attempt>>
  BY DEF Send, Succeed, Refuse, WakeUp, Stop
<1>3. breaker' \in Breaker /\ Testing(breaker)' /\ (Broken(breaker)' => Broken(breaker))
  <2>1. CASE Succeed(c)
    BY <2>1, SucceededIsBreaker DEF Succeed, AccessInv, AccessTypeOK, Testing, Broken
  <2>2. CASE Send(c) \/ Refuse(c) \/ WakeUp(c) \/ Stop(c)
    <3>1. breaker' = breaker
      BY <2>2 DEF Send, Refuse, WakeUp, Stop
    <3> QED
      BY <3>1 DEF AccessInv, AccessTypeOK, Testing, Broken
  <2> QED
    BY <2>1, <2>2
<1>4. left' \in [Calls -> Nat]
  <2>1. left \in [Calls -> Nat]
    BY DEF AccessInv, AccessTypeOK
  <2>2. left' = left \/ left' = [left EXCEPT ![c] = 0]
    BY DEF Send, Succeed, Refuse, WakeUp, Stop
  <2> QED
    BY <2>1, <2>2
<1>5. /\ late' \in [Calls -> SUBSET {"breaker", "cooldown"}]
      /\ \A x \in Calls : x # c => late'[x] = late[x]
  <2>1. late \in [Calls -> SUBSET {"breaker", "cooldown"}]
    BY DEF AccessInv, AccessTypeOK
  <2>2. late' = late \/ late' = [late EXCEPT ![c] = {}]
    BY DEF Send, Succeed, Refuse, WakeUp, Stop
  <2> QED
    BY <2>1, <2>2
<1>6. AccessTypeOK'
  BY <1>1, <1>2, <1>3, <1>4, <1>5 DEF AccessInv, AccessTypeOK, limiterVars
<1>7. BreakerSeen(breaker, stage, late)'
  BY <1>1, <1>3, <1>5 DEF AccessInv, BreakerSeen
<1>8. CooldownSeen(coolLeft, promised, stage, late)'
  BY <1>1, <1>2, <1>5 DEF AccessInv, CooldownSeen
<1>9. Unlowered(mailto, bucket, stage)' /\ Paid(mailto, bucket, grants)'
  BY <1>1, <1>2, LimiterUntouched
<1> QED
  BY <1>3, <1>6, <1>7, <1>8, <1>9 DEF AccessInv

LEMMA RetryCounts ==
  ASSUME AccessInv, NEW c \in Calls, NEW wait \in Nat, attempt[c] < MaxRetries, Retry(c, wait)
  PROVE  /\ attempt' \in [Calls -> 0 .. MaxRetries] /\ left' \in [Calls -> Nat]
         /\ Move(c, "sent", "sleeping")
<1>1. attempt \in [Calls -> 0 .. MaxRetries] /\ left \in [Calls -> Nat]
  BY DEF AccessInv, AccessTypeOK
<1>2. attempt[c] + 1 \in 0 .. MaxRetries
  BY <1>1, AccessNumbers
<1> QED
  BY <1>1, <1>2 DEF Retry

(* A failure that breaks the breaker is seen by every call past it.        *)
LEMMA FailureKeeps ==
  ASSUME AccessInv, NEW c \in Calls, Fail(c) \/ TimeOut(c)
  PROVE  AccessInv'
<1>1. UNCHANGED <<mailto, coolLeft, promised, limiterVars>> /\ RecordFailure
  BY DEF Fail, TimeOut
<1>2. PICK end \in {"done", "sleeping"} :
        /\ Move(c, "sent", end)
        /\ attempt' \in [Calls -> 0 .. MaxRetries] /\ left' \in [Calls -> Nat]
  <2>1. CASE Fail(c) \/ (Move(c, "sent", "done") /\ UNCHANGED <<attempt, left>>)
    BY <2>1 DEF Fail, AccessInv, AccessTypeOK
  <2>2. CASE attempt[c] < MaxRetries /\ Retry(c, Lower(MaxWait, Backoff))
    <3>1. Lower(MaxWait, Backoff) \in Nat
      BY AccessNumbers DEF Lower
    <3> QED
      BY <2>2, <3>1, RetryCounts
  <2> QED
    BY <2>1, <2>2 DEF TimeOut
<1>3. /\ stage' \in [Calls -> CallStages] /\ stage'[c] \in {"done", "sleeping"}
      /\ \A x \in Calls : x # c => stage'[x] = stage[x]
  BY <1>2, Moved DEF CallStages, AccessInv, AccessTypeOK
<1>4. /\ breaker' \in Breaker /\ Testing(breaker)'
      /\ Broken(breaker)' => breaker'.state = "open" /\ (Broken(breaker) \/ breaker.state # "open")
  BY <1>1, FailedIsBreaker DEF RecordFailure, AccessInv, AccessTypeOK, Testing, Broken
<1>5. /\ late' \in [Calls -> SUBSET {"breaker", "cooldown"}]
      /\ \A x \in Calls : late[x] \subseteq late'[x]
      /\ breaker'.state = "open" /\ breaker.state # "open" =>
           \A x \in Calls : stage[x] \in {"cooling2", "cleared"} => "breaker" \in late'[x]
  <2>1. late \in [Calls -> SUBSET {"breaker", "cooldown"}]
    BY DEF AccessInv, AccessTypeOK
  <2>2. CASE breaker'.state = "open" /\ breaker.state # "open"
    BY <1>1, <2>1, <2>2 DEF RecordFailure, LateFor
  <2>3. CASE ~(breaker'.state = "open" /\ breaker.state # "open")
    BY <1>1, <2>1, <2>3 DEF RecordFailure
  <2> QED
    BY <2>2, <2>3
<1>6. AccessTypeOK'
  BY <1>1, <1>2, <1>3, <1>4, <1>5 DEF AccessInv, AccessTypeOK, limiterVars
<1>7. BreakerSeen(breaker, stage, late)'
  <2>1. SUFFICES ASSUME NEW x \in Calls, stage'[x] \in {"cooling2", "cleared"}, Broken(breaker')
                 PROVE  "breaker" \in late'[x]
    BY DEF BreakerSeen
  <2>2. stage[x] = stage'[x]
    BY <1>3, <2>1
  <2>3. CASE Broken(breaker)
    BY <1>5, <2>1, <2>2, <2>3 DEF AccessInv, BreakerSeen
  <2>4. CASE ~Broken(breaker)
    BY <1>4, <1>5, <2>1, <2>2, <2>4 DEF Broken
  <2> QED
    BY <2>3, <2>4
<1>8. CooldownSeen(coolLeft, promised, stage, late)'
  BY <1>1, <1>3, <1>5 DEF AccessInv, CooldownSeen
<1>9. Unlowered(mailto, bucket, stage)' /\ Paid(mailto, bucket, grants)'
  BY <1>1, <1>3, LimiterUntouched
<1> QED
  BY <1>4, <1>6, <1>7, <1>8, <1>9 DEF AccessInv

(* A 429 keeps every earlier wait, and cleared calls are late for it.      *)
LEMMA LimitedKeeps ==
  ASSUME AccessInv, NEW c \in Calls, NEW retryAfter \in RetryAfters, Limited(c, retryAfter)
  PROVE  AccessInv'
<1> USE AccessNumbers
<1>1. UNCHANGED <<mailto, breaker, limiterVars>> /\ promised' = Higher(promised, retryAfter)
  BY DEF Limited
<1>2. PICK wait \in Nat : wait = IF retryAfter > 0 THEN retryAfter ELSE Lower(MaxWait, Backoff)
  BY DEF Lower
<1>3. PICK end \in {"done", "sleeping"}, seconds \in Nat :
        /\ Move(c, "sent", end)
        /\ attempt' \in [Calls -> 0 .. MaxRetries] /\ left' \in [Calls -> Nat]
        /\ coolLeft' = Cooled(seconds, retryAfter)
  <2>1. CASE attempt[c] < MaxRetries /\ Retry(c, wait) /\ coolLeft' = Cooled(wait, retryAfter)
    BY <1>2, <2>1, RetryCounts
  <2>2. CASE /\ Move(c, "sent", "done") /\ coolLeft' = Cooled(Higher(retryAfter, Cooldown), retryAfter)
             /\ UNCHANGED <<attempt, left>>
    <3>1. Higher(retryAfter, Cooldown) \in Nat
      BY DEF Higher
    <3> QED
      BY <2>2, <3>1 DEF AccessInv, AccessTypeOK
  <2> QED
    BY <1>2, <2>1, <2>2 DEF Limited
<1>4. /\ stage' \in [Calls -> CallStages] /\ stage'[c] \in {"done", "sleeping"}
      /\ \A x \in Calls : x # c => stage'[x] = stage[x]
  BY <1>3, Moved DEF CallStages, AccessInv, AccessTypeOK
<1>5. coolLeft' \in Nat /\ promised' \in Nat /\ promised' <= coolLeft'
  <2>1. coolLeft \in Nat /\ promised \in Nat /\ promised <= coolLeft
    BY DEF AccessInv, AccessTypeOK, CooldownSeen
  <2>2. PICK low \in Nat : low = Lower(seconds, Ceiling)
    BY DEF Lower
  <2>3. coolLeft' = Higher(coolLeft, Higher(retryAfter, low))
    BY <1>3, <2>2 DEF Cooled
  <2> QED
    BY <1>1, <2>1, <2>2, <2>3 DEF Higher
<1>6. /\ late' \in [Calls -> SUBSET {"breaker", "cooldown"}]
      /\ \A x \in Calls : late[x] \subseteq late'[x]
      /\ \A x \in Calls : stage[x] = "cleared" => "cooldown" \in late'[x]
  <2>1. late \in [Calls -> SUBSET {"breaker", "cooldown"}]
    BY DEF AccessInv, AccessTypeOK
  <2>2. LateFor("cooldown", {"cleared"})
    BY DEF Limited
  <2> QED
    BY <2>1, <2>2 DEF LateFor
<1>7. AccessTypeOK'
  BY <1>1, <1>3, <1>4, <1>5, <1>6 DEF AccessInv, AccessTypeOK, limiterVars
<1>8. Testing(breaker)' /\ BreakerSeen(breaker, stage, late)'
  BY <1>1, <1>4, <1>6 DEF AccessInv, BreakerSeen, Testing, Broken
<1>9. CooldownSeen(coolLeft, promised, stage, late)'
  BY <1>4, <1>5, <1>6 DEF CooldownSeen
<1>10. Unlowered(mailto, bucket, stage)' /\ Paid(mailto, bucket, grants)'
  BY <1>1, <1>4, LimiterUntouched
<1> QED
  BY <1>7, <1>8, <1>9, <1>10 DEF AccessInv
-----------------------------------------------------------------------------
LEMMA StepKeeps ==
  AccessInv /\ [AccessNext]_accessVars => AccessInv'
<1> SUFFICES ASSUME AccessInv, [AccessNext]_accessVars
             PROVE  AccessInv'
  OBVIOUS
<1>1. CASE UNCHANGED accessVars
  <2>1. UNCHANGED <<mailto, breaker, coolLeft, promised, late, bucket, seen, grants, stage, attempt, left>>
    BY <1>1 DEF accessVars, limiterVars, callVars
  <2> QED
    BY <2>1 DEF AccessInv, AccessTypeOK, Testing, BreakerSeen, CooldownSeen, Unlowered, Paid, Broken
<1>2. CASE Tick
  BY <1>2, TickKeeps
<1>3. ASSUME NEW c \in Calls, CallStep(c) \/ Stop(c)
      PROVE  AccessInv'
  <2>1. CASE FindLimiter(c) \/ LowerRate(c) \/ LowerCapacity(c) \/ ReadTokens(c) \/ WriteTokens(c)
    BY <2>1, LimiterKeeps
  <2>2. CASE ReadyForToken(c)
    <3>1. CASE CheckBreaker(c, "breaker1", "cooling1")
      BY <3>1, BreakerCheckKeeps
    <3>2. CASE /\ CheckCooldown(c, "cooling1", "token")
               /\ left' = [left EXCEPT ![c] = IF coolLeft > 0 THEN 0 ELSE TokenWait]
      <4>1. left' \in [Calls -> Nat]
        BY <3>2, AccessNumbers DEF AccessInv, AccessTypeOK
      <4> QED
        BY <3>2, <4>1, CooldownCheckKeeps
    <3> QED
      BY <2>2, <3>1, <3>2 DEF ReadyForToken
  <2>3. CASE TakeToken(c) \/ AwaitToken(c) \/ GiveUpToken(c)
    BY <2>3, TokenKeeps
  <2>4. CASE ReadyToSend(c)
    <3>1. CASE CheckBreaker(c, "breaker2", "cooling2")
      BY <3>1, BreakerCheckKeeps
    <3>2. CASE CheckCooldown(c, "cooling2", "cleared") /\ UNCHANGED left
      <4>1. left' \in [Calls -> Nat]
        BY <3>2 DEF AccessInv, AccessTypeOK
      <4> QED
        BY <3>2, <4>1, CooldownCheckKeeps
    <3> QED
      BY <2>4, <3>1, <3>2 DEF ReadyToSend
  <2>5. CASE Send(c) \/ Succeed(c) \/ Refuse(c) \/ WakeUp(c) \/ Stop(c)
    BY <2>5, CallKeeps
  <2>6. CASE Fail(c) \/ TimeOut(c)
    BY <2>6, FailureKeeps
  <2>7. CASE \E retryAfter \in RetryAfters : Limited(c, retryAfter)
    BY <2>7, LimitedKeeps
  <2> QED
    BY <1>3, <2>1, <2>2, <2>3, <2>4, <2>5, <2>6, <2>7 DEF CallStep
<1> QED
  BY <1>1, <1>2, <1>3 DEF AccessNext

(* Every state is sound; with it, a late gate is the only closed one.      *)
THEOREM AccessInvariant == AccessSpec => []AccessInv
<1>1. AccessInit => AccessInv
  BY StartsSound
<1>2. AccessInv /\ [AccessNext]_accessVars => AccessInv'
  BY StepKeeps
<1> QED
  BY <1>1, <1>2, PTL DEF AccessSpec

(* No request is sent through a gate that was closed when the call looked  *)
(* for the last time, no wait a server asked for is cut short, and, where  *)
(* a mailto keeps the limiter from being lowered, no interval sees more    *)
(* tokens than the bucket and the rate allow (_request_openalex,           *)
(* _enter_cooldown, acquire).                                              *)
THEOREM AccessIsSound == AccessSpec => []AccessSound
<1>1. AccessInv => AccessSound
  <2> SUFFICES ASSUME AccessInv
               PROVE  AccessSound
    OBVIOUS
  <2> USE AccessNumbers, BucketNumbers DEF AccessInv
  <2>1. GatesHold
    BY DEF GatesHold, BreakerSeen, CooldownSeen, AccessTypeOK
  <2>2. RateBounded
    <3>1. SUFFICES ASSUME mailto, NEW age \in 0 .. Horizon
                   PROVE  Cost * grants[age] <= Capacity + Rate * age
      BY DEF RateBounded
    <3>2. bucket \in Bucket /\ grants[age] \in Nat
      BY <3>1 DEF AccessTypeOK
    <3>3. PICK held \in Nat : held = Refilled(bucket).tokens
      BY <3>2, RefilledIsBucket DEF Bucket
    <3>4. PICK g \in Nat, r \in Nat : g = Cost * grants[age] /\ r = Rate * age
      BY <3>1, <3>2
    <3>5. g + held <= Capacity + r
      BY <3>1, <3>3, <3>4 DEF Paid
    <3>6. g <= Capacity + r
      BY <3>3, <3>4, <3>5
    <3> QED
      BY <3>4, <3>6
  <2> QED
    BY <2>1, <2>2 DEF AccessSound
<1> QED
  BY <1>1, AccessInvariant, PTL

-----------------------------------------------------------------------------
(* The main loop and its delegations.                                      *)

(* What holds of a research state s, the one in memory and the one of the  *)
(* last checkpoint alike, when made delegations exist, bill is what they   *)
(* were asked, ended is what they committed and last is the newest run.    *)

(* A pending call of the main agent is the active delegation's. *)
Answerable(s) == s.main # NoOperation => s.active # NoDelegation /\ s.active.op = s.main

(* Every decision paid for was counted, within the limit; and an action    *)
(* that was committed is known to be.                                      *)
Counted(s, made, bill, ended) ==
  s.active # NoDelegation =>
    /\ s.active.id <= made
    /\ bill[s.active.id] <= s.active.rounds
    /\ s.active.rounds <= MaxRounds
    /\ \A i \in DOMAIN ended : ended[i].id = s.active.id => s.active.done

(* The entries of the queue differ from each other and from those served.  *)
QueueFresh(s, ended, last) ==
  /\ \A i, j \in DOMAIN s.queue : s.queue[i] = s.queue[j] => i = j
  /\ \A i \in DOMAIN s.queue : s.queue[i].run <= last
  /\ \A i \in DOMAIN ended, j \in DOMAIN s.queue :
       ended[i].consume => ended[i].entry # s.queue[j]

StateSound(s, made, bill, ended, last) ==
  /\ s \in State
  /\ Answerable(s)
  /\ Counted(s, made, bill, ended)
  /\ QueueFresh(s, ended, last)

MemorySound == StateSound(memory, created, paid, log, runs)
SavedSound == StateSound(saved, created, paid, log, runs)

(* What the thread knows where it stands. *)
AtLoop == pc \notin {"idle", "main"} => memory.active # NoDelegation
AtAsked ==
  pc = "asked" => memory = saved /\ paid[memory.active.id] < memory.active.rounds
SameGoal == pc \in {"asked", "chosen", "running"} => memory.active.goal = memory.goal
AtChosen == pc = "chosen" /\ memory.sub = memory.active.op => ~memory.active.done
AtRunning == pc = "running" => ~memory.active.done /\ MayExecute
PlaceSound == AtLoop /\ AtAsked /\ SameGoal /\ AtChosen /\ AtRunning

(* What was paid for and committed was so for delegations that exist, for  *)
(* entries of the runs so far.                                             *)
HistorySound ==
  /\ \A d \in Delegations : d > created => paid[d] = 0
  /\ \A i \in DOMAIN log : log[i].id <= created
  /\ \A i \in DOMAIN log :
       log[i].consume => log[i].entry \in Entry /\ log[i].entry.run <= runs
  /\ DecisionsBounded /\ EntryServedOnce /\ GoalServed

LoopInv == LoopTypeOK /\ MemorySound /\ SavedSound /\ PlaceSound /\ HistorySound

USE OperationsAssumption, RoundsAssumption, BoundsAssumption, DelegationAssumption
    DEF OperationsAssumption, RoundsAssumption, BoundsAssumption, DelegationAssumption

-----------------------------------------------------------------------------
(* What the transformers of the research state leave as it was.            *)
LEMMA ReportedState ==
  ASSUME NEW s \in State
  PROVE  /\ Reported(s) \in State
         /\ Reported(s).main = NoOperation /\ Reported(s).active = NoDelegation
         /\ Reported(s).queue = s.queue
BY DEF Reported, State

LEMMA UnansweredState ==
  ASSUME NEW s \in State
  PROVE  /\ Unanswered(s) \in State
         /\ Unanswered(s).main = NoOperation /\ Unanswered(s).active = s.active
         /\ Unanswered(s).queue = s.queue
BY DEF Unanswered, State

LEMMA SubObservedState ==
  ASSUME NEW s \in State
  PROVE  /\ SubObserved(s) \in State
         /\ SubObserved(s).main = s.main /\ SubObserved(s).active = s.active
         /\ SubObserved(s).queue = s.queue /\ SubObserved(s).goal = s.goal
BY DEF SubObserved, State

LEMMA CountRoundState ==
  ASSUME NEW s \in State, s.active # NoDelegation
  PROVE  /\ CountRound(s) \in State
         /\ CountRound(s).active \in Active
         /\ CountRound(s).active.rounds = s.active.rounds + 1
         /\ CountRound(s).active.id = s.active.id
         /\ CountRound(s).active.op = s.active.op
         /\ CountRound(s).active.done = s.active.done
         /\ CountRound(s).active.goal = s.active.goal
         /\ CountRound(s).main = s.main
         /\ CountRound(s).queue = s.queue /\ CountRound(s).goal = s.goal
<1> DEFINE a == [s.active EXCEPT !.rounds = @ + 1]
<1>1. s.active \in Active
  BY DEF State
<1>2. a \in Active /\ a.rounds = s.active.rounds + 1 /\ a.id = s.active.id
      /\ a.op = s.active.op /\ a.done = s.active.done /\ a.goal = s.active.goal
  BY <1>1 DEF Active
<1>3. CountRound(s) = [s EXCEPT !.active = a]
  BY DEF CountRound, State
<1>. HIDE DEF a
<1>4. QED
  BY <1>2, <1>3 DEF State

(* A state that keeps its queue and its delegation, or ends it.            *)
LEMMA SoundKept ==
  ASSUME NEW s, NEW t \in State, NEW made, NEW bill, NEW ended, NEW last,
         StateSound(s, made, bill, ended, last),
         t.queue = s.queue,
         \/ t.active = s.active /\ t.main \in {s.main, NoOperation}
         \/ t.active = NoDelegation /\ t.main = NoOperation
  PROVE  StateSound(t, made, bill, ended, last)
BY DEF StateSound, Answerable, Counted, QueueFresh

LEMMA InitLoopInv == LoopInit => LoopInv
<1> SUFFICES ASSUME LoopInit PROVE LoopInv
  OBVIOUS
<1>1. PICK content \in Contents, goal \in Goals : saved = EmptyState(content, goal)
  BY DEF LoopInit
<1>2. saved \in State /\ saved.main = NoOperation /\ saved.active = NoDelegation
      /\ saved.queue = << >>
  BY <1>1 DEF EmptyState, State
<1>3. StateSound(saved, created, paid, log, runs)
  BY <1>2 DEF StateSound, Answerable, Counted, QueueFresh
<1>4. LoopTypeOK
  BY <1>2 DEF LoopInit, LoopTypeOK, PC, Delegations
<1>5. PlaceSound /\ HistorySound
  BY DEF LoopInit, PlaceSound, AtLoop, AtAsked, SameGoal, AtChosen, AtRunning, HistorySound,
         DecisionsBounded, EntryServedOnce, GoalServed, Delegations
<1>6. QED
  BY <1>3, <1>4, <1>5 DEF LoopInv, MemorySound, SavedSound, LoopInit
-----------------------------------------------------------------------------
(* A step that leaves the history alone and the states sound.              *)
LEMMA QuietStep ==
  ASSUME LoopInv, LoopTypeOK', UNCHANGED <<history, runs>>,
         StateSound(memory', created, paid, log, runs),
         StateSound(saved', created, paid, log, runs),
         PlaceSound'
  PROVE  LoopInv'
BY DEF LoopInv, MemorySound, SavedSound, HistorySound, history, DecisionsBounded,
       EntryServedOnce, GoalServed

(* The run is over, its state saved or lost.                               *)
LEMMA RunOverKeeps ==
  ASSUME LoopInv, NEW s \in State, RunOver(s), UNCHANGED <<mainRounds, runs, history>>,
         StateSound(s, created, paid, log, runs)
  PROVE  LoopInv'
<1>1. pc' = "idle" /\ (saved' = s \/ saved' = saved) /\ memory' = saved'
  BY DEF RunOver, Checkpointed, Remembered
<1>2. StateSound(memory', created, paid, log, runs)
      /\ StateSound(saved', created, paid, log, runs)
  BY <1>1 DEF LoopInv, SavedSound
<1>3. LoopTypeOK'
  BY <1>1 DEF LoopInv, LoopTypeOK, PC, history
<1>4. PlaceSound'
  BY <1>1 DEF PlaceSound, AtLoop, AtAsked, SameGoal, AtChosen, AtRunning
<1>5. QED
  BY <1>2, <1>3, <1>4, QuietStep

(* The delegation is over, its report and the end saved.                   *)
LEMMA FinishKeeps ==
  ASSUME LoopInv, Finish
  PROVE  LoopInv'
<1>1. memory \in State /\ StateSound(memory, created, paid, log, runs)
  BY DEF LoopInv, LoopTypeOK, MemorySound
<1>2. memory' = Reported(memory) /\ saved' = Reported(memory) /\ pc' = "main"
  BY DEF Finish, Checkpointed
<1>3. StateSound(Reported(memory), created, paid, log, runs)
  BY <1>1, ReportedState, SoundKept
<1>4. LoopTypeOK'
  BY <1>1, <1>2, ReportedState DEF Finish, LoopInv, LoopTypeOK, PC, history
<1>5. PlaceSound'
  BY <1>2 DEF PlaceSound, AtLoop, AtAsked, SameGoal, AtChosen, AtRunning
<1>6. QED
  BY <1>2, <1>3, <1>4, <1>5, QuietStep DEF Finish

(* The specialist's call is observed in memory, or in a checkpoint.        *)
LEMMA ObservedKeeps ==
  ASSUME LoopInv, pc \in PC \ {"idle", "main"}, pc' = "loop",
         \/ Remembered(SubObserved(memory)) \/ Checkpointed(SubObserved(memory)),
         UNCHANGED <<mainRounds, runs, history>>
  PROVE  LoopInv'
<1>1. memory \in State /\ StateSound(memory, created, paid, log, runs)
  BY DEF LoopInv, LoopTypeOK, MemorySound
<1>2. memory' = SubObserved(memory) /\ (saved' = SubObserved(memory) \/ saved' = saved)
  BY DEF Remembered, Checkpointed
<1>3. StateSound(SubObserved(memory), created, paid, log, runs)
  BY <1>1, SubObservedState, SoundKept
<1>4. StateSound(saved', created, paid, log, runs)
  BY <1>2, <1>3 DEF LoopInv, SavedSound
<1>5. LoopTypeOK'
  BY <1>1, <1>2, SubObservedState DEF LoopInv, LoopTypeOK, PC, history
<1>6. PlaceSound'
  BY <1>1, <1>2, SubObservedState
     DEF PlaceSound, AtLoop, AtAsked, SameGoal, AtChosen, AtRunning, LoopInv, PC
<1>7. QED
  BY <1>2, <1>3, <1>4, <1>5, <1>6, QuietStep
-----------------------------------------------------------------------------
LEMMA StartRunInv ==
  ASSUME LoopInv, NEW queue \in {saved.queue} \cup DistinctQueues, NEW goal \in Goals,
         StartRun(queue, goal)
  PROVE  LoopInv'
<1> DEFINE s == [saved EXCEPT !.queue = queue, !.goal = goal, !.results = {}]
<1>1. /\ saved \in State /\ StateSound(saved, created, paid, log, runs)
      /\ runs \in Nat /\ runs < MaxRuns /\ runs' = runs + 1 /\ runs' \in 1 .. MaxRuns
      /\ memory' = s /\ saved' = s /\ UNCHANGED history
  BY DEF LoopInv, LoopTypeOK, SavedSound, StartRun, Checkpointed
<1>2. queue \in Seq(Entry) /\ QueueFresh(s, log, runs')
  <2>1. CASE queue = saved.queue
    <3>1. queue \in Seq(Entry) /\ s.queue = queue
      BY <1>1, <2>1 DEF State
    <3>2. \A i \in DOMAIN s.queue : s.queue[i].run \in Nat /\ s.queue[i].run <= runs
      <4>1. \A i \in DOMAIN queue : queue[i] \in Entry
        BY <3>1
      <4>2. QED
        BY <1>1, <2>1, <3>1, <4>1 DEF StateSound, QueueFresh, Entry
    <3>3. QED
      BY <1>1, <2>1, <3>1, <3>2 DEF StateSound, QueueFresh
  <2>2. CASE queue \in DistinctQueues
    <3>1. PICK a \in Operations, b \in Operations :
            \/ queue = <<[op |-> a, run |-> runs + 1]>>
            \/ queue = <<[op |-> a, run |-> runs + 1], [op |-> b, run |-> runs + 1]>> /\ a # b
      BY <2>2 DEF DistinctQueues, ChosenQueues
    <3>2. [op |-> a, run |-> runs + 1] \in Entry /\ [op |-> b, run |-> runs + 1] \in Entry
      BY <1>1 DEF Entry
    <3>3. queue \in Seq(Entry)
      <4> DEFINE x == [op |-> a, run |-> runs + 1]
                 y == [op |-> b, run |-> runs + 1]
      <4>. HIDE DEF x, y
      <4>1. x \in Entry /\ y \in Entry /\ (queue = <<x>> \/ queue = <<x, y>>)
        BY <3>1, <3>2 DEF x, y
      <4>2. CASE queue = <<x>>
        BY <4>1, <4>2
      <4>3. CASE queue = <<x, y>>
        BY <4>1, <4>3
      <4>4. QED
        BY <4>1, <4>2, <4>3
    <3>4. \A i \in DOMAIN queue : queue[i].run = runs + 1
      BY <3>1
    <3>5. \A i, j \in DOMAIN queue : queue[i] = queue[j] => i = j
      BY <3>1
    <3>6. s.queue = queue
      BY <1>1 DEF State
    <3>7. \A i \in DOMAIN log :
            log[i].consume => log[i].entry.run \in Nat /\ log[i].entry.run <= runs
      BY DEF LoopInv, HistorySound, Entry
    <3>8. QED
      BY <1>1, <3>3, <3>4, <3>5, <3>6, <3>7 DEF QueueFresh
  <2>3. QED
    BY <2>1, <2>2
<1>3. s \in State /\ s.active = saved.active /\ s.main = saved.main
  BY <1>1, <1>2 DEF State
<1>4. StateSound(s, created, paid, log, runs')
  BY <1>1, <1>2, <1>3 DEF StateSound, Answerable, Counted
<1>5. LoopTypeOK'
  BY <1>1, <1>3 DEF StartRun, LoopInv, LoopTypeOK, PC, history
<1>6. PlaceSound'
  BY <1>1, <1>3 DEF StartRun, PlaceSound, AtLoop, AtAsked, SameGoal, AtChosen, AtRunning
<1>7. HistorySound'
  <2>1. \A i \in DOMAIN log :
          log[i].consume => log[i].entry \in Entry /\ log[i].entry.run <= runs'
    BY <1>1 DEF LoopInv, HistorySound, Entry
  <2>2. QED
    BY <1>1, <2>1 DEF LoopInv, HistorySound, history, DecisionsBounded, EntryServedOnce, GoalServed
<1>8. QED
  BY <1>1, <1>4, <1>5, <1>6, <1>7 DEF LoopInv, MemorySound, SavedSound, history

LEMMA DelegateInv ==
  ASSUME LoopInv, NEW op \in Operations, Delegate(op)
  PROVE  LoopInv'
<1> DEFINE a == [id |-> created + 1, op |-> op, goal |-> memory.goal,
                 rounds |-> 0, done |-> FALSE, lastOk |-> FALSE,
                 stuck |-> FALSE, consume |-> memory.queue # << >>]
           s == [memory EXCEPT !.main = op, !.active = a]
<1>1. /\ memory \in State /\ StateSound(memory, created, paid, log, runs)
      /\ created \in Nat /\ created < MaxDelegations /\ created' = created + 1
      /\ created' \in Delegations
      /\ memory' = s /\ saved' = saved /\ UNCHANGED <<runs, paid, log>> /\ pc' = "loop"
  BY DEF LoopInv, LoopTypeOK, MemorySound, Delegate, Remembered, Delegations
<1>2. a \in Active /\ a.id = created' /\ a.rounds = 0 /\ a.op = op
  BY <1>1 DEF Active, State
<1>. HIDE DEF a
<1>3. s \in State /\ s.active = a /\ s.main = op /\ s.queue = memory.queue
  BY <1>1, <1>2 DEF State
<1>4. paid[created'] = 0 /\ \A i \in DOMAIN log : log[i].id <= created
  BY <1>1 DEF LoopInv, HistorySound
<1>5. \A i \in DOMAIN log : log[i].id \in Delegations
  <2>1. log \in Seq(LogEntry)
    BY DEF LoopInv, LoopTypeOK
  <2>2. \A i \in DOMAIN log : log[i] \in LogEntry
    BY <2>1
  <2>3. QED
    BY <2>2 DEF LogEntry
<1>6. StateSound(s, created', paid, log, runs)
  <2>1. Counted(s, created', paid, log)
    BY <1>1, <1>2, <1>3, <1>4, <1>5 DEF Counted, Delegations
  <2>2. QED
    BY <1>1, <1>2, <1>3, <2>1 DEF StateSound, Answerable, QueueFresh
<1>7. StateSound(saved, created', paid, log, runs)
  BY <1>1 DEF LoopInv, LoopTypeOK, SavedSound, StateSound, Counted, State, Active, Delegations
<1>8. LoopTypeOK'
  <2>1. mainRounds' \in 0 .. MaxMainRounds
    BY DEF LoopInv, LoopTypeOK, Delegate, RoundLeft
  <2>2. QED
    BY <1>1, <1>3, <2>1 DEF LoopInv, LoopTypeOK, PC, Delegations
<1>9. PlaceSound'
  BY <1>1, <1>2, <1>3 DEF PlaceSound, AtLoop, AtAsked, SameGoal, AtChosen, AtRunning
<1>10. HistorySound'
  <2>1. \A d \in Delegations : d > created' => paid[d] = 0
    BY <1>1 DEF LoopInv, HistorySound, Delegations
  <2>2. \A i \in DOMAIN log : log[i].id <= created'
    BY <1>1, <1>4, <1>5 DEF Delegations
  <2>3. QED
    BY <1>1, <2>1, <2>2 DEF LoopInv, HistorySound, DecisionsBounded, EntryServedOnce, GoalServed
<1>11. QED
  BY <1>1, <1>6, <1>7, <1>8, <1>9, <1>10 DEF LoopInv, MemorySound, SavedSound
-----------------------------------------------------------------------------
(* A round of the main agent, which has no delegation under way.           *)
LEMMA MainRoundInv == LoopInv /\ MainRound => LoopInv'
<1> SUFFICES ASSUME LoopInv, MainRound PROVE LoopInv'
  OBVIOUS
<1>1. pc = "main" /\ pc' = "main" /\ memory' = memory /\ saved' \in {saved, memory}
      /\ mainRounds' \in 0 .. MaxMainRounds /\ UNCHANGED <<runs, history>>
  BY DEF LoopInv, LoopTypeOK, MainRound, RoundLeft, Checkpointed
<1>2. LoopTypeOK'
  BY <1>1 DEF LoopInv, LoopTypeOK, history
<1>3. PlaceSound'
  BY <1>1 DEF PlaceSound, AtLoop, AtAsked, SameGoal, AtChosen, AtRunning
<1>4. QED
  BY <1>1, <1>2, <1>3, QuietStep DEF LoopInv, MemorySound, SavedSound

LEMMA StartRoundInv == LoopInv /\ StartRound => LoopInv'
<1> SUFFICES ASSUME LoopInv, StartRound PROVE LoopInv'
  OBVIOUS
<1> DEFINE s == CountRound(memory)
<1>1. /\ memory \in State /\ StateSound(memory, created, paid, log, runs)
      /\ memory.active # NoDelegation /\ memory.active \in Active
      /\ memory.active.rounds < MaxRounds /\ memory.active.goal = memory.goal
      /\ memory' = s /\ saved' = s /\ pc' = "asked"
      /\ UNCHANGED <<mainRounds, runs, history>>
  BY DEF LoopInv, LoopTypeOK, MemorySound, PlaceSound, AtLoop, StartRound, MustEnd,
         RoundSaved, Checkpointed, State, Active
<1>2. /\ s \in State /\ s.active \in Active /\ s.active.rounds = memory.active.rounds + 1
      /\ s.active.id = memory.active.id /\ s.active.op = memory.active.op
      /\ s.active.done = memory.active.done /\ s.active.goal = memory.active.goal
      /\ s.main = memory.main /\ s.queue = memory.queue /\ s.goal = memory.goal
  BY <1>1, CountRoundState
<1>3. paid[memory.active.id] \in Nat /\ paid[memory.active.id] <= memory.active.rounds
      /\ memory.active.rounds \in Nat
  BY <1>1 DEF LoopInv, LoopTypeOK, StateSound, Counted, Active
<1>. HIDE DEF s
<1>4. StateSound(s, created, paid, log, runs)
  BY <1>1, <1>2, <1>3 DEF StateSound, Answerable, Counted, QueueFresh
<1>5. LoopTypeOK'
  BY <1>1, <1>2 DEF LoopInv, LoopTypeOK, PC, history
<1>6. PlaceSound'
  BY <1>1, <1>2, <1>3 DEF PlaceSound, AtLoop, AtAsked, SameGoal, AtChosen, AtRunning, history
<1>7. QED
  BY <1>1, <1>4, <1>5, <1>6, QuietStep

(* A decision is paid for: it was counted before.                          *)
LEMMA PaidFor ==
  ASSUME LoopInv, pc = "asked", paid' = PaidAgain, UNCHANGED <<runs, created, log>>
  PROVE  /\ paid' \in [Delegations -> Nat]
         /\ StateSound(memory, created, paid', log, runs)
         /\ HistorySound'
<1>1. /\ memory \in State /\ memory.active \in Active /\ memory.active # NoDelegation
      /\ StateSound(memory, created, paid, log, runs)
      /\ paid \in [Delegations -> Nat] /\ created \in Nat
      /\ paid[memory.active.id] < memory.active.rounds
  BY DEF LoopInv, LoopTypeOK, MemorySound, PlaceSound, AtLoop, AtAsked, State
<1>2. /\ memory.active.id \in Delegations /\ memory.active.rounds \in Nat
      /\ memory.active.id <= created /\ memory.active.rounds <= MaxRounds
  BY <1>1 DEF StateSound, Counted, Active
<1>3. paid' = [paid EXCEPT ![memory.active.id] = @ + 1]
  <2>1. paid[memory.active.id] \in Nat /\ ~(paid[memory.active.id] > MaxRounds)
    BY <1>1, <1>2
  <2>2. QED
    BY <2>1 DEF PaidAgain
<1>4. paid' \in [Delegations -> Nat]
  BY <1>1, <1>2, <1>3
<1>5. paid'[memory.active.id] <= memory.active.rounds
  BY <1>1, <1>2, <1>3
<1>6. StateSound(memory, created, paid', log, runs)
  BY <1>1, <1>5 DEF StateSound, Counted
<1>7. \A d \in Delegations : (d > created => paid'[d] = 0) /\ paid'[d] <= MaxRounds
  BY <1>1, <1>2, <1>3, <1>5 DEF LoopInv, HistorySound, DecisionsBounded, Delegations
<1>8. QED
  BY <1>4, <1>6, <1>7 DEF LoopInv, HistorySound, DecisionsBounded, EntryServedOnce, GoalServed

LEMMA DecideInv ==
  ASSUME LoopInv, NEW call \in Operations \cup {"recall", "report"}, Decide(call)
  PROVE  LoopInv'
<1> DEFINE s == [memory EXCEPT !.sub = call]
<1>1. /\ memory \in State /\ memory' = s /\ saved' = saved /\ memory = saved /\ pc = "asked"
      /\ pc' = "chosen" /\ UNCHANGED <<mainRounds, runs, created, log>>
      /\ memory.active # NoDelegation /\ memory.active \in Active
      /\ memory.active.goal = memory.goal
  BY DEF LoopInv, LoopTypeOK, PlaceSound, AtLoop, AtAsked, SameGoal, Decide, Remembered, State
<1>2. s \in State /\ s.active = memory.active /\ s.main = memory.main
      /\ s.queue = memory.queue /\ s.goal = memory.goal /\ s.sub = call
  BY <1>1 DEF State
<1>3. /\ paid' \in [Delegations -> Nat] /\ HistorySound'
      /\ StateSound(memory, created, paid', log, runs)
  BY <1>1, PaidFor DEF Decide
<1>. HIDE DEF s
<1>4. StateSound(s, created, paid', log, runs)
  BY <1>2, <1>3 DEF StateSound, Answerable, Counted, QueueFresh
<1>5. LoopTypeOK'
  BY <1>1, <1>2, <1>3 DEF LoopInv, LoopTypeOK, PC
<1>6. call = memory.active.op => ~memory.active.done
  <2>1. memory.active.op \in Operations
    BY <1>1 DEF Active
  <2>2. QED
    BY <2>1 DEF Decide, Available
<1>7. PlaceSound'
  BY <1>1, <1>2, <1>6 DEF PlaceSound, AtLoop, AtAsked, SameGoal, AtChosen, AtRunning
<1>8. QED
  BY <1>1, <1>3, <1>4, <1>5, <1>7 DEF LoopInv, MemorySound, SavedSound

LEMMA DecideInvalidInv == LoopInv /\ DecideInvalid => LoopInv'
<1> SUFFICES ASSUME LoopInv, DecideInvalid PROVE LoopInv'
  OBVIOUS
<1>1. /\ memory \in State /\ memory = saved /\ pc = "asked" /\ pc' = "idle"
      /\ memory' = saved' /\ saved' \in {saved, Unanswered(memory)}
      /\ UNCHANGED <<mainRounds, runs, created, log>>
  BY DEF LoopInv, LoopTypeOK, PlaceSound, AtAsked, DecideInvalid, RunOver, Checkpointed,
         Remembered
<1>2. /\ paid' \in [Delegations -> Nat] /\ HistorySound'
      /\ StateSound(memory, created, paid', log, runs)
  BY <1>1, PaidFor DEF DecideInvalid
<1>3. StateSound(Unanswered(memory), created, paid', log, runs)
  BY <1>1, <1>2, UnansweredState, SoundKept
<1>4. LoopTypeOK'
  BY <1>1, <1>2, UnansweredState DEF LoopInv, LoopTypeOK, PC
<1>5. PlaceSound'
  BY <1>1 DEF PlaceSound, AtLoop, AtAsked, SameGoal, AtChosen, AtRunning
<1>6. QED
  BY <1>1, <1>2, <1>3, <1>4, <1>5 DEF LoopInv, MemorySound, SavedSound
-----------------------------------------------------------------------------
(* The controller accepts the action: nothing changes but the place.       *)
LEMMA ExecuteInv == LoopInv /\ Execute => LoopInv'
<1> SUFFICES ASSUME LoopInv, Execute PROVE LoopInv'
  OBVIOUS
<1>1. pc = "chosen" /\ pc' = "running" /\ UNCHANGED <<memory, saved, mainRounds, runs, history>>
      /\ memory.sub = memory.active.op /\ MayExecute
  BY DEF Execute
<1>2. MayExecute'
  BY <1>1 DEF MayExecute, Consuming
<1>3. LoopTypeOK'
  BY <1>1 DEF LoopInv, LoopTypeOK, PC, history
<1>4. PlaceSound'
  BY <1>1, <1>2 DEF LoopInv, PlaceSound, AtLoop, AtAsked, SameGoal, AtChosen, AtRunning
<1>5. QED
  BY <1>1, <1>3, <1>4, QuietStep DEF LoopInv, MemorySound, SavedSound

(* A successful operation ends the active delegation and leaves its round, *)
(* its identity, the main call and the queue alone.                        *)
ClosesActive(s, t) ==
  /\ t \in State /\ t.active \in Active
  /\ t.active.done
  /\ t.active.rounds = s.active.rounds /\ t.active.id = s.active.id
  /\ t.active.op = s.active.op
  /\ t.main = s.main /\ t.queue = s.queue
  /\ t.results = s.results

(* What a completed result of the delegated action leaves in the state s.  *)
LEMMA ObservedState ==
  ASSUME NEW s \in State, s.active # NoDelegation, NEW stuck \in BOOLEAN,
         NEW t, t = Observed(s, TRUE, stuck)
  PROVE  ClosesActive(s, t)
<1> DEFINE a == [s.active EXCEPT !.done = TRUE, !.lastOk = TRUE, !.stuck = stuck]
<1>1. s.active \in Active
  BY DEF State
<1>2. a \in Active /\ a.done /\ a.rounds = s.active.rounds
      /\ a.id = s.active.id /\ a.op = s.active.op
  BY <1>1 DEF Active
<1>3. t = [s EXCEPT !.sub = NoOperation, !.active = a]
  BY <1>1 DEF Observed, State, Active
<1>. HIDE DEF a
<1>4. QED
  BY <1>2, <1>3 DEF State, ClosesActive

(* The head of the queue leaves it when the action consumes it.            *)
LEMMA DequeuedState ==
  ASSUME memory \in State, MayExecute, MemorySound
  PROVE  /\ Dequeued(memory) \in State
         /\ Dequeued(memory).main = memory.main
         /\ Dequeued(memory).active = memory.active
         /\ QueueFresh(Dequeued(memory), log, runs)
         /\ Consuming =>
              /\ ServedEntry = memory.queue[1] /\ 1 \in DOMAIN memory.queue
              /\ \A i \in DOMAIN Dequeued(memory).queue :
                   Dequeued(memory).queue[i] # memory.queue[1]
<1>1. memory.queue \in Seq(Entry) /\ QueueFresh(memory, log, runs)
  BY DEF State, MemorySound, StateSound
<1>2. CASE Consuming
  <2>1. memory.queue # << >> /\ memory.queue[1].op = memory.active.op
    BY <1>2 DEF MayExecute
  <2>2. /\ Tail(memory.queue) \in Seq(Entry) /\ 1 \in DOMAIN memory.queue
        /\ \A i \in DOMAIN Tail(memory.queue) :
             i + 1 \in DOMAIN memory.queue /\ i \in Nat \ {0}
             /\ Tail(memory.queue)[i] = memory.queue[i + 1]
    BY <1>1, <2>1
  <2>3. Dequeued(memory) = [memory EXCEPT !.queue = Tail(memory.queue)]
    BY <1>2 DEF Dequeued, State
  <2>4. Dequeued(memory) \in State /\ Dequeued(memory).queue = Tail(memory.queue)
        /\ Dequeued(memory).main = memory.main /\ Dequeued(memory).active = memory.active
    BY <2>2, <2>3 DEF State
  <2>5. QueueFresh(Dequeued(memory), log, runs)
    BY <1>1, <2>2, <2>4 DEF QueueFresh
  <2>6. \A i \in DOMAIN Dequeued(memory).queue : Dequeued(memory).queue[i] # memory.queue[1]
    BY <1>1, <2>2, <2>4 DEF QueueFresh
  <2>7. ServedEntry = memory.queue[1]
    BY <2>1 DEF ServedEntry
  <2>8. QED
    BY <2>2, <2>4, <2>5, <2>6, <2>7
<1>3. CASE ~Consuming
  <2>1. Dequeued(memory) = memory
    BY <1>3 DEF Dequeued, State
  <2>2. QED
    BY <1>1, <1>3, <2>1
<1>4. QED
  BY <1>2, <1>3

LEMMA ReuseInv == LoopInv /\ Reuse => LoopInv'
<1> SUFFICES ASSUME LoopInv, Reuse PROVE LoopInv'
  OBVIOUS
<1> DEFINE s == Dequeued(memory)
<1>1. /\ memory \in State /\ MemorySound /\ SavedSound /\ saved \in State /\ MayExecute
      /\ pc = "chosen" /\ pc' = "reused" /\ UNCHANGED <<mainRounds, runs, history>>
      /\ memory.active # NoDelegation
      /\ \/ memory' = s /\ saved' = s
         \/ UNCHANGED <<memory, saved>>
  BY DEF LoopInv, LoopTypeOK, PlaceSound, AtLoop, Reuse, Checkpointed
<1>2. s \in State /\ s.main = memory.main /\ s.active = memory.active
      /\ QueueFresh(s, log, runs)
  BY <1>1, DequeuedState
<1>. HIDE DEF s
<1>3. StateSound(s, created, paid, log, runs)
  BY <1>1, <1>2 DEF MemorySound, StateSound, Answerable, Counted
<1>4. LoopTypeOK'
  BY <1>1, <1>2 DEF LoopInv, LoopTypeOK, PC, history
<1>5. PlaceSound'
  BY <1>1, <1>2 DEF PlaceSound, AtLoop, AtAsked, SameGoal, AtChosen, AtRunning
<1>6. QED
  BY <1>1, <1>3, <1>4, <1>5, QuietStep DEF MemorySound, SavedSound

LEMMA ObserveReusedInv == LoopInv /\ ObserveReused => LoopInv'
<1> SUFFICES ASSUME LoopInv, ObserveReused PROVE LoopInv'
  OBVIOUS
<1>1. PICK stuck \in BOOLEAN : Remembered(Observed(memory, TRUE, stuck))
  BY DEF ObserveReused
<1> DEFINE s == Observed(memory, TRUE, stuck)
<1>2. /\ memory \in State /\ MemorySound /\ SavedSound /\ memory.active # NoDelegation
      /\ pc' = "loop" /\ UNCHANGED <<mainRounds, runs, history>>
      /\ memory' = s /\ saved' = saved
  BY <1>1 DEF LoopInv, LoopTypeOK, PlaceSound, AtLoop, ObserveReused, Remembered
<1>3. /\ s \in State /\ s.active \in Active /\ s.active.done
      /\ s.active.rounds = memory.active.rounds /\ s.active.id = memory.active.id
      /\ s.active.op = memory.active.op /\ s.main = memory.main /\ s.queue = memory.queue
  <2>. HIDE DEF s
  <2>1. s = Observed(memory, TRUE, stuck)
    BY DEF s
  <2>2. ClosesActive(memory, s)
    BY <1>2, <2>1, ObservedState
  <2>3. QED
    BY <2>2 DEF ClosesActive
<1>. HIDE DEF s
<1>4. StateSound(s, created, paid, log, runs)
  BY <1>2, <1>3 DEF MemorySound, StateSound, Answerable, Counted, QueueFresh
<1>5. LoopTypeOK'
  BY <1>2, <1>3 DEF LoopInv, LoopTypeOK, PC, history
<1>6. PlaceSound'
  BY <1>2, <1>3 DEF PlaceSound, AtLoop, AtAsked, SameGoal, AtChosen, AtRunning
<1>7. QED
  BY <1>2, <1>4, <1>5, <1>6, QuietStep DEF SavedSound
-----------------------------------------------------------------------------
(* The action is committed: once, from the head of the queue if it was     *)
(* mandatory, in one checkpoint.                                           *)
LEMMA CommitInv ==
  ASSUME LoopInv, NEW content \in Contents, NEW goal \in Goals, Commit(content, goal)
  PROVE  LoopInv'
<1>1. PICK stuck \in BOOLEAN : CommitSaved(Candidate(content, goal, stuck))
  BY DEF Commit
<1>d. PICK d : d = Dequeued(memory)
  OBVIOUS
<1> DEFINE s == Candidate(content, goal, stuck)
           e == [id |-> memory.active.id, entry |-> ServedEntry, consume |-> Consuming,
                 goal |-> memory.active.goal, current |-> memory.goal]
<1>2. /\ memory \in State /\ MemorySound /\ MayExecute
      /\ memory.active # NoDelegation /\ memory.active \in Active
      /\ ~memory.active.done /\ memory.active.goal = memory.goal
      /\ log \in Seq(LogEntry) /\ pc = "running"
  BY DEF LoopInv, LoopTypeOK, PlaceSound, AtLoop, SameGoal, AtRunning, Commit, State
<1>3. /\ memory' = s /\ saved' = s /\ log' = Append(log, e) /\ pc' = "loop"
      /\ UNCHANGED <<mainRounds, runs, created, paid>>
  BY <1>1 DEF Commit, CommitSaved, Checkpointed
<1>4. /\ d \in State /\ d.main = memory.main /\ d.active = memory.active
      /\ QueueFresh(d, log, runs)
      /\ Consuming =>
           /\ ServedEntry = memory.queue[1] /\ 1 \in DOMAIN memory.queue
           /\ \A i \in DOMAIN d.queue : d.queue[i] # memory.queue[1]
  BY <1>d, <1>2, DequeuedState
<1>o. PICK o : o = Observed(d, TRUE, stuck)
  OBVIOUS
<1>5. /\ o \in State /\ o.active \in Active /\ o.active.done
      /\ o.active.rounds = memory.active.rounds /\ o.active.id = memory.active.id
      /\ o.active.op = memory.active.op /\ o.main = memory.main /\ o.queue = d.queue
  <2>0. d \in State
    BY <1>4
  <2>1. o = Observed(d, TRUE, stuck) /\ d.active # NoDelegation
    BY <1>2, <1>4, <1>d, <1>o
  <2>2. ClosesActive(d, o)
    BY <2>0, <2>1, ObservedState
  <2>3. QED
    BY <1>4, <2>2 DEF ClosesActive
<1>6. s = [o EXCEPT !.content = content, !.goal = goal, !.results = @ \cup {Key}]
  BY <1>d, <1>o DEF Candidate
<1>. HIDE DEF s
<1>7. /\ s \in State /\ s.active = o.active /\ s.main = o.main /\ s.queue = o.queue
  <2>1. Key \in Operations \X Contents
    BY <1>2 DEF Key, State, Active
  <2>2. QED
    BY <1>5, <1>6, <2>1 DEF State
(* The entry of the log. *)
<1>8. /\ e.id = memory.active.id /\ e.id \in Delegations /\ e.id <= created
      /\ e.goal = e.current /\ e.consume = Consuming /\ e.entry = ServedEntry
      /\ e \in LogEntry
  <2>1. ServedEntry \in Entry \cup {NoEntry}
    BY <1>2 DEF ServedEntry, State
  <2>2. Consuming \in BOOLEAN
    BY <1>2 DEF Consuming, Active
  <2>3. memory.goal \in Goals /\ memory.active.id \in Delegations
    BY <1>2 DEF State, Active
  <2>4. memory.active.id <= created
    BY <1>2 DEF MemorySound, StateSound, Counted
  <2>5. QED
    BY <1>2, <2>1, <2>2, <2>3, <2>4 DEF LogEntry
<1>9. Consuming => ServedEntry \in Entry /\ ServedEntry.run <= runs
  <2>1. memory.queue \in Seq(Entry) /\ QueueFresh(memory, log, runs)
    BY <1>2 DEF State, MemorySound, StateSound
  <2>2. QED
    BY <1>4, <2>1 DEF QueueFresh
<1>10. \A i \in DOMAIN log : log[i].id # e.id
  BY <1>2, <1>8 DEF MemorySound, StateSound, Counted
<1>11. \A i \in DOMAIN log : Consuming /\ log[i].consume => log[i].entry # ServedEntry
  BY <1>2, <1>4 DEF MemorySound, StateSound, QueueFresh
<1>. HIDE DEF e
<1>12. /\ log' \in Seq(LogEntry)
       /\ \A i \in DOMAIN log' : (i \in DOMAIN log /\ log'[i] = log[i]) \/ (i = Len(log) + 1 /\ log'[i] = e)
  BY <1>2, <1>3, <1>8
<1>13. StateSound(s, created, paid, log', runs)
  <2>1. Counted(s, created, paid, log')
    BY <1>2, <1>5, <1>7 DEF Counted, MemorySound, StateSound
  <2>2. QueueFresh(s, log', runs)
    <3>1. \A i \in DOMAIN log', j \in DOMAIN s.queue :
            log'[i].consume => log'[i].entry # s.queue[j]
      BY <1>4, <1>5, <1>7, <1>8, <1>12 DEF QueueFresh
    <3>2. QED
      BY <1>4, <1>5, <1>7, <3>1 DEF QueueFresh
  <2>3. Answerable(s)
    BY <1>2, <1>5, <1>7 DEF MemorySound, StateSound, Answerable
  <2>4. QED
    BY <1>7, <2>1, <2>2, <2>3 DEF StateSound
<1>14. LoopTypeOK'
  BY <1>3, <1>7, <1>12 DEF LoopInv, LoopTypeOK, PC
<1>15. PlaceSound'
  BY <1>2, <1>3, <1>5, <1>7 DEF PlaceSound, AtLoop, AtAsked, SameGoal, AtChosen, AtRunning
<1>16. EntryServedOnce'
  BY <1>8, <1>10, <1>11, <1>12 DEF LoopInv, HistorySound, EntryServedOnce
<1>17. GoalServed'
  BY <1>8, <1>12 DEF LoopInv, HistorySound, GoalServed
<1>18. HistorySound'
  <2>1. \A i \in DOMAIN log' : log'[i].id <= created
    BY <1>8, <1>12 DEF LoopInv, HistorySound
  <2>2. \A i \in DOMAIN log' :
          log'[i].consume => log'[i].entry \in Entry /\ log'[i].entry.run <= runs
    BY <1>8, <1>9, <1>12 DEF LoopInv, HistorySound
  <2>3. QED
    BY <1>3, <1>16, <1>17, <2>1, <2>2 DEF LoopInv, HistorySound, DecisionsBounded
<1>19. QED
  BY <1>3, <1>13, <1>14, <1>15, <1>18 DEF LoopInv, MemorySound, SavedSound
-----------------------------------------------------------------------------
LEMMA NextLoopInv == LoopInv /\ [LoopNext]_loopVars => LoopInv'
<1> SUFFICES ASSUME LoopInv, [LoopNext]_loopVars PROVE LoopInv'
  OBVIOUS
<1>0. /\ memory \in State /\ saved \in State
      /\ StateSound(memory, created, paid, log, runs)
      /\ StateSound(saved, created, paid, log, runs)
  BY DEF LoopInv, LoopTypeOK, MemorySound, SavedSound
<1>1. ASSUME NEW queue \in {saved.queue} \cup DistinctQueues, NEW goal \in Goals,
             StartRun(queue, goal)
      PROVE  LoopInv'
  BY <1>1, StartRunInv
<1>2. ASSUME NEW op \in Operations, Delegate(op) PROVE LoopInv'
  BY <1>2, DelegateInv
<1>3. CASE MainRound
  BY <1>3, MainRoundInv
<1>4. CASE FinishRun
  BY <1>0, <1>4, RunOverKeeps DEF FinishRun
<1>5. CASE EndDelegation
  BY <1>5, FinishKeeps DEF EndDelegation
<1>6. CASE StartRound
  BY <1>6, StartRoundInv
<1>7. ASSUME NEW call \in Operations \cup {"recall", "report"}, Decide(call) PROVE LoopInv'
  BY <1>7, DecideInv
<1>8. CASE DecideInvalid
  BY <1>8, DecideInvalidInv
<1>9. CASE Recall
  BY <1>9, ObservedKeeps DEF Recall, PC
<1>10. ASSUME NEW status \in {"completed", "needs_help", "blocked"}, Report(status) PROVE LoopInv'
  BY <1>10, FinishKeeps, ObservedKeeps DEF Report, PC
<1>11. CASE Reject
  BY <1>11, FinishKeeps, ObservedKeeps DEF Reject, Rejected, PC
<1>12. CASE Execute
  BY <1>12, ExecuteInv
<1>13. CASE Reuse
  BY <1>13, ReuseInv
<1>14. CASE ObserveReused
  BY <1>14, ObserveReusedInv
<1>15. ASSUME NEW content \in Contents, NEW goal \in Goals, Commit(content, goal) PROVE LoopInv'
  BY <1>15, CommitInv
<1>16. CASE Stale
  BY <1>16, FinishKeeps DEF Stale
<1>17. CASE FailOperation
  <2>1. Unanswered(memory) \in State
        /\ StateSound(Unanswered(memory), created, paid, log, runs)
    BY <1>0, UnansweredState, SoundKept
  <2>2. QED
    BY <1>17, <2>1, RunOverKeeps DEF FailOperation
<1>18. CASE Crash
  BY <1>0, <1>18, RunOverKeeps DEF Crash, RunOver
<1>19. CASE UNCHANGED loopVars
  BY <1>19 DEF loopVars, LoopInv, LoopTypeOK, MemorySound, SavedSound, PlaceSound, AtLoop,
     AtAsked, SameGoal, AtChosen, AtRunning, MayExecute, Consuming, HistorySound,
     DecisionsBounded, EntryServedOnce, GoalServed
<1>20. QED
  BY <1>1, <1>2, <1>3, <1>4, <1>5, <1>6, <1>7, <1>8, <1>9, <1>10, <1>11, <1>12, <1>13, <1>14,
     <1>15, <1>16, <1>17, <1>18, <1>19 DEF LoopNext, LoopStep

THEOREM LoopInvariant == LoopSpec => []LoopInv
<1>1. LoopInit => LoopInv
  BY InitLoopInv
<1>2. LoopInv /\ [LoopNext]_loopVars => LoopInv'
  BY NextLoopInv
<1>3. QED
  BY <1>1, <1>2, PTL DEF LoopSpec

(* A call of the main agent that a checkpoint holds open belongs to the    *)
(* delegation the checkpoint resumes: no run starts with a call at which   *)
(* its next decision is refused.                                           *)
THEOREM CallsAreAnswerable == LoopSpec => []MainCallAnswerable
<1>1. LoopInv => MainCallAnswerable
  BY DEF LoopInv, SavedSound, StateSound, Answerable, MainCallAnswerable
<1>2. QED
  BY <1>1, LoopInvariant, PTL

(* What a crash makes a delegation repeat is neither paid for beyond its   *)
(* rounds nor committed twice, and a mandatory action is served once.      *)
THEOREM ReplayIsBounded == LoopSpec => []ReplayBounded
<1>1. LoopInv => ReplayBounded
  BY DEF LoopInv, HistorySound, ReplayBounded
<1>2. QED
  BY <1>1, LoopInvariant, PTL

(* No action is committed for a goal that had changed when it was started. *)
THEOREM GoalIsServed == LoopSpec => []GoalServed
<1>1. LoopInv => GoalServed
  BY DEF LoopInv, HistorySound
<1>2. QED
  BY <1>1, LoopInvariant, PTL
=============================================================================
