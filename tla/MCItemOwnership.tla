--------------------------- MODULE MCItemOwnership -------------------------
(***************************************************************************)
(* Instance of ItemOwnership for TLC: two items, empty or not, and memory  *)
(* for both on their whole way together with a response and a request, or  *)
(* for one item next to two requests and a response.                       *)
(***************************************************************************)
EXTENDS ItemOwnership

=============================================================================
