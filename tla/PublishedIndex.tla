--------------------------- MODULE PublishedIndex ---------------------------
(***************************************************************************)
(* What the vector store promises about the chunk index of one paper,      *)
(* without builders, leases or batches: the source only moves forward, and *)
(* an index appears whole, describes the source that is current when it    *)
(* appears, and stays until another one replaces it or the paper goes.     *)
(***************************************************************************)
EXTENDS Naturals

CONSTANTS
  Hashes,     \* fingerprints of the texts a paper has had
  Profiles,   \* ways of cutting and selecting its chunks
  Count,      \* how many chunks a profile indexes
  NoSource    \* the paper is not registered

VARIABLES
  source,     \* [rev, hash] of the registered text, or NoSource
  index       \* the published indexes, as [rev, rows]: none or one

vars == <<source, index>>

Row == [hash : Hashes, profile : Profiles, order : Nat]

(* Every chunk of the text h that profile p selects, in its order. *)
PlanRows(h, p) ==
  {[hash |-> h, profile |-> p, order |-> i] : i \in 0 .. (Count[p] - 1)}

Init ==
  /\ source = NoSource
  /\ index = {}

Register(h) ==
  /\ source = NoSource
  /\ source' = [rev |-> 1, hash |-> h]
  /\ UNCHANGED index

(* The published index stays, but describes a text that is not current. *)
Update(h) ==
  /\ source # NoSource
  /\ h # source.hash
  /\ source' = [rev |-> source.rev + 1, hash |-> h]
  /\ UNCHANGED index

Publish(p) ==
  /\ source # NoSource
  /\ index' = {[rev |-> source.rev, rows |-> PlanRows(source.hash, p)]}
  /\ UNCHANGED source

Delete ==
  /\ source' = NoSource
  /\ index' = {}

Next ==
  \/ \E h \in Hashes : Register(h) \/ Update(h)
  \/ \E p \in Profiles : Publish(p)
  \/ Delete

Spec == Init /\ [][Next]_vars
=============================================================================
