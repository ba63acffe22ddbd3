---------------------------- MODULE TokenBucket ----------------------------
(***************************************************************************)
(* TokenBucketRateLimiter of app/core/rate_limiter.py.  A request takes    *)
(* Cost units, a tick brings rate units; the refill is computed lazily,    *)
(* with the rate and the capacity in force when it is computed.            *)
(***************************************************************************)
EXTENDS Naturals

CONSTANTS
  Cost,          \* one token, in units
  Rate,          \* units a tick brings
  Capacity,      \* units the bucket holds
  CommonRate,    \* the same when no contact address is configured
  CommonCapacity,
  MaxElapsed     \* BOUND: ticks after which any bucket is full

ASSUME BucketAssumption ==
  /\ {Cost, Rate, CommonRate} \subseteq Nat \ {0}
  /\ Cost <= CommonCapacity /\ CommonCapacity <= Capacity
  /\ CommonRate < Rate
  /\ {Capacity, CommonCapacity} \subseteq Nat
  /\ MaxElapsed \in Nat /\ CommonRate * MaxElapsed >= Capacity

Bucket == [tokens : 0 .. Capacity, rate : {Rate, CommonRate},
           capacity : {Capacity, CommonCapacity}, elapsed : 0 .. MaxElapsed]

(* A limiter as get_rate_limiter() creates it: full. *)
Full == [tokens |-> Capacity, rate |-> Rate, capacity |-> Capacity, elapsed |-> 0]

Lower(a, b) == IF a < b THEN a ELSE b

(* _refill().  Some time always passes between two looks at the clock, if  *)
(* only a part of a tick, so a capacity lowered meanwhile takes effect.    *)
Refilled(b) ==
  [b EXCEPT !.tokens = Lower(b.capacity, b.tokens + b.elapsed * b.rate), !.elapsed = 0]

(* acquire() under the lock, once it finds a token. *)
HasToken(b) == Refilled(b).tokens >= Cost
Taken(b)    == [Refilled(b) EXCEPT !.tokens = @ - Cost]

Later(b) == [b EXCEPT !.elapsed = Lower(MaxElapsed, @ + 1)]
=============================================================================
