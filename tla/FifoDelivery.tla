--------------------------- MODULE FifoDelivery ----------------------------
(***************************************************************************)
(* What the async path promises to a processing unit and to the client:    *)
(* an item given to it is either delivered to the client or given up, once *)
(* and in the order of the pushes, and this happens eventually. It says    *)
(* nothing of queues, thresholds, condition variables or threads.          *)
(***************************************************************************)
EXTENDS Naturals, Sequences

CONSTANTS Items

VARIABLES
  inFlight,     \* items accepted and not settled yet, oldest first
  settled,      \* items the path is done with, in order
  delivered,    \* the settled items that reached the client
  down          \* the process has ended: nothing is promised any more

vars == <<inFlight, settled, delivered, down>>

Init ==
  /\ inFlight = <<>>
  /\ settled = <<>>
  /\ delivered = <<>>
  /\ down = FALSE

Accept(d) ==
  /\ ~down
  /\ inFlight' = Append(inFlight, d)
  /\ UNCHANGED <<settled, delivered, down>>

\* The oldest item leaves the path, with or without reaching the client; the
\* failure that gives it up may end the process.
Settle ==
  /\ ~down
  /\ inFlight # <<>>
  /\ settled' = Append(settled, Head(inFlight))
  /\ inFlight' = Tail(inFlight)
  /\ \/ delivered' = Append(delivered, Head(inFlight))
     \/ UNCHANGED delivered
  /\ down' \in BOOLEAN

GoDown ==
  /\ down' = TRUE
  /\ UNCHANGED <<inFlight, settled, delivered>>

Next ==
  \/ \E d \in Items : Accept(d)
  \/ Settle
  \/ GoDown

Spec == Init /\ [][Next]_vars

\* The same with progress: an item in flight does not stay there.
FairSpec == Spec /\ WF_vars(Settle)

=============================================================================
