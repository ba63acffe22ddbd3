--------------------------- MODULE MCWritingPlan ---------------------------
(***************************************************************************)
(* Eight papers in three themes and a rest; c and d move alone, e with f   *)
(* and g with h, and h serves only the background.  The frames require     *)
(* nothing, a lone paper, three papers and a lone one, almost everything,  *)
(* and something no paper meets.                                           *)
(***************************************************************************)
EXTENDS WritingPlan

mcPapers == <<"a", "b", "c", "d", "e", "f", "g", "h">>
mcCards == Range(mcPapers)
mcWords == [p \in mcCards |->
  CASE p \in {"a", "b"} -> {"u"} [] p \in {"c", "d"} -> {"u", "v"}
    [] p \in {"e", "f"} -> {"w"} [] OTHER -> {"x"}]

mcFocuses == <<{"x"}, {"y"}>>
Theme(id, name, rest) == [id |-> id, name |-> name, rest |-> rest]
mcTaxonomy == <<Theme("t1", {"u"}, FALSE), Theme("t2", {"v"}, FALSE),
                Theme("t3", {"y"}, FALSE), Theme("t0", {"o"}, TRUE)>>
mcPlacements ==
  {f \in [mcCards -> {"t1", "t2", "t3", "t0"}] :
     f["a"] = "t1" /\ f["b"] # "t0" /\ f["e"] = f["f"] /\ f["g"] = f["h"]}

Group(name, papers) == [name |-> name, papers |-> papers]
mcFrames ==
  {<<>>, <<Group({"w"}, {"f"})>>, <<Group({"v"}, {"a", "b", "c"}), Group({"z"}, {"f"})>>,
   <<Group({"v", "w"}, mcCards \ {"g"}), Group({"z"}, {"g"})>>, <<Group({"w"}, {})>>}
mcClaimed == {{}, mcCards, mcCards \ {"b", "f", "h"}, {"a", "c", "f"}}

mcUsable == [type \in Types |-> IF type = "background" THEN mcCards ELSE mcCards \ {"h"}]
mcRequests == {<<"background", "status">>, <<"status">>, <<"review", "related">>, <<"related">>}
=============================================================================
