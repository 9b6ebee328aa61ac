------------------------------ MODULE MCBatch ------------------------------
(* Values for Batch: two sections with a plan each; user 3 is on the white    *)
(* list of the first version, 13 on that of the second, which lacks a         *)
(* database.                                                                  *)
EXTENDS Batch

Algorithm(so) == [so |-> so, list |-> "none"]
Listed(so) == [so |-> so, list |-> "listed"]
MCSections ==
  << [name |-> "INTER",
      plan |-> [f \in {-2, -1, 1} |-> CASE f = -2 -> Listed("new") [] f = -1 -> Algorithm("old")
                                        [] f = 1 -> Algorithm("digit")]],
     [name |-> "RANK",
      plan |-> [f \in {-2} |-> Listed("rank")]] >>
MCContents ==
  << [listed |-> {3}, members |-> {3, 13}, types |-> {3}],
     [listed |-> {13}, members |-> {3}],
     [members |-> {13}, types |-> {13}] >>
MCKeyFiles == {<<>>, <<3>>, <<3, 13>>, <<14, 3, 14>>, <<13, 14, 3>>}
MCFollows == {{}, {3, 13}}
=============================================================================
