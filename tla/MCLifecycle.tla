---------------------------- MODULE MCLifecycle ----------------------------
(***************************************************************************)
(* Lifecycle, instantiated for TLC: two agents, one of them with a spawned *)
(* session.                                                                *)
(***************************************************************************)
EXTENDS Lifecycle

CONSTANTS anna, bert, sid

TwoAgents  == {anna, bert}
OneSession == {<<anna, sid>>}
=============================================================================
