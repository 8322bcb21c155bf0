---------------------------- MODULE MCPushToggle ----------------------------
(***************************************************************************)
(* Symmetry of PushToggle for TLC: tabs, handlers and endpoints are alike, *)
(* and its property is an invariant.                                       *)
(***************************************************************************)
EXTENDS PushToggle, TLC

Symmetry == Permutations(Tabs) \cup Permutations(Handlers) \cup Permutations(Endpoints)
=============================================================================
