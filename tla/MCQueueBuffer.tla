--------------------------- MODULE MCQueueBuffer ---------------------------
(***************************************************************************)
(* Instance of QueueBuffer for TLC: two threads wait and pop, two payloads *)
(* are told apart, and thresholds of none, one and two items are set.        *)
(***************************************************************************)
EXTENDS QueueBuffer, TLC

MCThresholds == {0, 1, 2}

\* Waiters and payloads are interchangeable.
Symmetry == Permutations(Data) \union Permutations(Waiters)

=============================================================================
