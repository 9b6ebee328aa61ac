---------------------------- MODULE MCPluginLoad ----------------------------
(***************************************************************************)
(* An instance of PluginLoad: two sections of one API, the first of which  *)
(* has an algorithm.                                                       *)
(***************************************************************************)
EXTENDS PluginLoad

CONSTANTS W, A, first, second

MCApi     == [s \in Section |-> 1]
MCSo      == [s \in Section |-> IF s = first THEN W ELSE A]
MCPlan    == [s \in Section |-> IF s = first THEN <<A>> ELSE <<>>]
MCConfigs == {<<>>, <<first>>, <<first, second>>}
=============================================================================
