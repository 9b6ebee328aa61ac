--------------------------- MODULE MCPluginReplace ---------------------------
(***************************************************************************)
(* An instance of PluginReplace: two sections, the first with an algorithm *)
(* of its own.                                                             *)
(***************************************************************************)
EXTENDS PluginReplace

CONSTANTS W, A, V, first, second

MCApi     == [s \in Section |-> s]
MCSo      == [s \in Section |-> IF s = first THEN W ELSE V]
MCPlan    == [s \in Section |-> IF s = first THEN <<A, A>> ELSE <<>>]
MCAll     == <<first, second>>
MCWithout == <<second>>
MCFiles   == [Lib -> Version]
MCAlgGood == {f \in MCFiles : f[A] \notin Broken}
MCConfigs == {MCAll, MCWithout}
=============================================================================
