------------------------------ MODULE Reception ----------------------------
(***************************************************************************)
(* What a receiving transceiver promises, whatever its peers and the       *)
(* network do: a reception is begun, then a measurement is put into the    *)
(* buffer, then the reception is ended. No measurement is taken outside of *)
(* a reception. It is exactly one for each reception as long as no peer    *)
(* has left in the middle of an exchange; measurements that are on their   *)
(* way when a peer leaves may fall into the reception of another one.      *)
(***************************************************************************)
EXTENDS Sequences

CONSTANT Items        \* measurements

VARIABLES
  phase,     \* "idle", "begun", "measured"
  measured,  \* the measurements handed to the client, in order
  disturbed  \* a peer has left in the middle of an exchange

vars == <<phase, measured, disturbed>>

Init == phase = "idle" /\ measured = <<>> /\ disturbed = FALSE

Begin == phase = "idle" /\ phase' = "begun" /\ UNCHANGED <<measured, disturbed>>

Measure ==
  /\ phase = "begun" \/ (disturbed /\ phase = "measured")
  /\ phase' = "measured"
  /\ \E i \in Items : measured' = Append(measured, i)
  /\ UNCHANGED disturbed

End == phase = "measured" /\ phase' = "idle" /\ UNCHANGED <<measured, disturbed>>

Disturb == ~disturbed /\ disturbed' = TRUE /\ UNCHANGED <<phase, measured>>

Next == Begin \/ Measure \/ End \/ Disturb

Spec == Init /\ [][Next]_vars

=============================================================================
