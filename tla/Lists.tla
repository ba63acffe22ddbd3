------------------------------- MODULE Lists -------------------------------
(***************************************************************************)
(* The sorted lists and the filtered lists of the code, by the places of   *)
(* their elements: which is where, before how it gets there.  The sorts    *)
(* and selections of the libraries cannot be unfolded in a proof; these    *)
(* can.                                                                    *)
(***************************************************************************)
EXTENDS Integers, Sequences, FiniteSets

(* The elements of S in the order of the relation: the one with k - 1      *)
(* others before it is at place k.                                         *)
Arranged(S, before) ==
  [k \in 1 .. Cardinality(S) |->
     CHOOSE x \in S : Cardinality({y \in S : <<y, x>> \in before}) = k - 1]

(* Numbers from the smallest, and the entries of a list at some places.    *)
Ascending(S) == Arranged(S, {x \in S \X S : x[1] < x[2]})
Entries(s, places) == LET at == Ascending(places) IN [k \in DOMAIN at |-> s[at[k]]]
=============================================================================
