---------------------------- MODULE MCMainProgram --------------------------
(***************************************************************************)
(* Instance of MainProgram for TLC: every unit, every pair of messages,    *)
(* and two signals, so that the first one may be lost before pause, or     *)
(* interrupt a call of the dispatcher.                                     *)
(***************************************************************************)
EXTENDS MainProgram

=============================================================================
