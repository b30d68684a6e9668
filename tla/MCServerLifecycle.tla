------------------------- MODULE MCServerLifecycle -------------------------
(***************************************************************************)
(* Instance of ServerLifecycle for TLC: the action lists are those of the  *)
(* modules brazil and trabea and a list that needs the async thread only,  *)
(* two endpoints may be equal, and a second setup and a second notify      *)
(* follow the first.                                                       *)
(***************************************************************************)
EXTENDS ServerLifecycle

MCActionLists == {{"PUSH", "WAIT"}, {"REQUEST", "PUSH"}, {"REPLY"}}

=============================================================================
