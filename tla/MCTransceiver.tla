---------------------------- MODULE MCTransceiver --------------------------
(***************************************************************************)
(* Instance of Transceiver for TLC: two senders with up to two symbols     *)
(* each, or three with one, for both kinds of unit and with every fault. A *)
(* sender can leave while another one waits in the backlog, and come back  *)
(* for a second exchange while its first session has not ended; two        *)
(* senders can leave one after the other before a third one begins.        *)
(***************************************************************************)
EXTENDS Transceiver, TLC

CONSTANTS s1, s2, s3

MCSenders == {s1, s2, s3}
MCBudgets == {s1 :> 2 @@ s2 :> 2 @@ s3 :> 0, s1 :> 1 @@ s2 :> 1 @@ s3 :> 1}
MCFaults == AllFaults

=============================================================================
