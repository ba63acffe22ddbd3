--------------------------- MODULE RuntimeLedger ---------------------------
(***************************************************************************)
(* What the token ledger of ResearchRuntime owes to the provider calls:    *)
(* sums over the calls.                                                    *)
(***************************************************************************)
EXTENDS ResearchRuntime, FiniteSetsExt

Lesser(a, b) == IF a < b THEN a ELSE b

(* The sum of a number of tokens per call. *)
Total(tokens) == MapThenSumSet(LAMBDA c : tokens[c], Calls)

(* The least a call may be charged in the durable ledger, once it was      *)
(* recorded: what it reported, or its reservation while that is unknown.   *)
(* An answer that could not be recorded may be charged either way.         *)
Due ==
  [c \in Calls |->
     CASE attempts[c] = "none"      -> 0
       [] attempts[c] = "completed" -> cost[c]
       [] attempts[c] = "uncertain" -> Reservation
       [] attempts[c] = "running"   ->
            IF step[c] = "lost" THEN Lesser(cost[c], Reservation) ELSE Reservation]

(* Whatever was sent is paid for: the durable ledger never falls below     *)
(* what the recorded calls are due, through crashes, takeovers, late       *)
(* answers and lost writes.                                                *)
LedgerCoversSpend == budget.spent + budget.reserved >= Total(Due)

(* The part of an answer above its reservation. *)
Excess(c) == IF cost[c] > Reservation THEN cost[c] - Reservation ELSE 0

(* What may push an execution past its limit: that part, and an answer the *)
(* store lost, which the next owner charges a second time.                 *)
Overrun ==
  [c \in Calls |-> Excess(c) + IF step[c] = "lost" THEN Reservation ELSE 0]

(* The hard budget: concurrent threads, takeovers and recoveries together  *)
(* never use and reserve more than the limit, except for those overruns.   *)
HardBudget ==
  \A e \in Executions :
    owner = e /\ Running(e) =>
      ledger[e].spent + ledger[e].reserved <= ledger[e].limit + Total(Overrun)

(* The budget of a session, whichever execution spends it: all that was    *)
(* sent is charged, and no more is promised than is left.                  *)
BudgetHeld == LedgerCoversSpend /\ HardBudget
-----------------------------------------------------------------------------
(* The strengthening that is inductive.                                    *)

(* Where a call stands in its thread and what its record says agree.  A    *)
(* request in flight is recorded as running by the execution that holds    *)
(* the lease, or as uncertain once another took it.                        *)
CallSound(c) ==
  /\ step[c] # "new" => /\ caller[c] \in Executions
                        /\ phase[caller[c]] \notin {"new", "refused"}
  /\ step[c] \notin {"over", "lost"} => cost[c] = 0
  /\ step[c] \in {"new", "checked", "held"} => attempts[c] = "none"
  /\ step[c] = "sent" =>
       attempts[c] = IF caller[c] = owner THEN "running" ELSE "uncertain"
  /\ step[c] = "lost" => attempts[c] \in {"running", "uncertain"}
  /\ step[c] = "over" => attempts[c] # "running"
  /\ attempts[c] = "completed" => step[c] = "over"

(* What a call whose record is closed was charged. *)
Closed ==
  [c \in Calls |->
     CASE attempts[c] = "completed" -> cost[c]
       [] attempts[c] = "uncertain" -> Reservation
       [] OTHER                     -> 0]

(* The reservations recorded for requests in flight, and those the         *)
(* execution that holds the lease keeps in its memory.                     *)
InFlight ==
  [c \in Calls |->
     IF attempts[c] = "running" /\ step[c] = "sent" THEN Reservation ELSE 0]
Kept ==
  [c \in Calls |->
     IF caller[c] = owner /\ step[c] \in {"held", "sent"} THEN Reservation ELSE 0]

(* What the memory of that execution charges for a call: what is closed,   *)
(* what it keeps reserved and, when the store lost the answer, the answer. *)
Charge ==
  [c \in Calls |->
     CASE attempts[c] = "completed"                     -> cost[c]
       [] attempts[c] = "uncertain"                     -> Reservation
       [] attempts[c] = "running" /\ step[c] = "lost"   -> cost[c]
       [] OTHER                                         -> Kept[c]]

(* The overruns so far: a lost answer is charged twice by the next owner. *)
Past ==
  [c \in Calls |->
     Excess(c) + IF step[c] = "lost" /\ attempts[c] = "uncertain"
                 THEN Reservation ELSE 0]

(* What a copy of the ledger, in the row or in memory, covers: what was    *)
(* charged, what may still be due and what is reserved, within its limit.  *)
Covers(l, due, reserved) ==
  /\ l.spent >= Total(Closed)
  /\ l.spent + l.reserved >= Total(due)
  /\ l.reserved >= Total(reserved)
  /\ l.spent + l.reserved <= l.limit + Total(Past)

RowCovers == Covers(budget, Due, InFlight)
MemoryCovers ==
  \A e \in Executions : owner = e => Covers(ledger[e], Charge, Kept)

CallsSound == \A c \in Calls : CallSound(c)
LedgerInv == CallsSound /\ RowCovers /\ MemoryCovers
=============================================================================
