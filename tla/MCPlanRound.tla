---------------------------- MODULE MCPlanRound ----------------------------
(* Two paths, two contents: every pair of manifests of that size, in every mode. *)
EXTENDS PlanRound

MCPath == {1, 2}
=============================================================================
