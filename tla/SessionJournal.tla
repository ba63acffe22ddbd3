--------------------------- MODULE SessionJournal ---------------------------
(***************************************************************************)
(* What the durable ledger of one research session promises, without       *)
(* leases, clocks, retries or budgets: the session is written by one       *)
(* execution at a time, an execution opens the session at most once, a     *)
(* stopped execution writes nothing more, and what was written stays.      *)
(* ResearchRuntime is shown to implement this specification.               *)
(***************************************************************************)
EXTENDS Naturals, Sequences

CONSTANTS
  Executions,  \* one element per ResearchRuntimeRepository (a uuid owner)
  Tasks,       \* idempotency keys of the actions an execution may commit
  NoTask,      \* a commit that completes no task
  NoOwner      \* the session is free

VARIABLES
  holder,      \* the execution that may write, or NoOwner
  stopped,     \* the holder was asked to stop
  opened,      \* the executions that held the session at some time
  journal      \* the commits, oldest first: who wrote, which task

vars == <<holder, stopped, opened, journal>>

Entry == [by : Executions, task : Tasks \cup {NoTask}]

TypeOK ==
  /\ holder \in Executions \cup {NoOwner}
  /\ stopped \in BOOLEAN
  /\ opened \subseteq Executions
  /\ journal \in Seq(Entry)

Init ==
  /\ holder = NoOwner
  /\ stopped = FALSE
  /\ opened = {}
  /\ journal = << >>

(* A new execution takes the session over, whoever held it before. *)
Open(e) ==
  /\ e \notin opened
  /\ holder' = e
  /\ stopped' = FALSE
  /\ opened' = opened \cup {e}
  /\ UNCHANGED journal

(* The holder commits; a task is committed once in the life of a session. *)
Commit(t) ==
  /\ holder # NoOwner
  /\ ~stopped
  /\ t # NoTask => \A i \in DOMAIN journal : journal[i].task # t
  /\ journal' = Append(journal, [by |-> holder, task |-> t])
  /\ UNCHANGED <<holder, stopped, opened>>

(* The user stops the holder. *)
Stop ==
  /\ holder # NoOwner
  /\ stopped' = TRUE
  /\ UNCHANGED <<holder, opened, journal>>

(* The holder gives the session up; it never gets it back. *)
Close ==
  /\ holder # NoOwner
  /\ holder' = NoOwner
  /\ UNCHANGED <<stopped, opened, journal>>

Next ==
  \/ \E e \in Executions : Open(e)
  \/ \E t \in Tasks \cup {NoTask} : Commit(t)
  \/ Stop
  \/ Close

Spec == Init /\ [][Next]_vars
=============================================================================
