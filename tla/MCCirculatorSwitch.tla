------------------------- MODULE MCCirculatorSwitch ------------------------
(***************************************************************************)
(* Instance of CirculatorSwitch for TLC: no ports, fewer than a ring, the  *)
(* three ports of the class comment, four ports; port numbers run past     *)
(* portCount up to the last value of a three-bit std::size_t, where        *)
(* inPort + 1 is 0.                                                        *)
(***************************************************************************)
EXTENDS CirculatorSwitch

MCPortCounts == {0, 2, 3, 4}

=============================================================================
