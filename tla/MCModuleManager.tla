-------------------------- MODULE MCModuleManager --------------------------
(***************************************************************************)
(* Instance of ModuleManager for TLC: two callers, the two modules of the  *)
(* repository, and enough loads for a unit to be replaced and a module to  *)
(* be replaced.                                                            *)
(***************************************************************************)
EXTENDS ModuleManager

=============================================================================
