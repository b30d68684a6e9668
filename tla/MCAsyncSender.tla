--------------------------- MODULE MCAsyncSender ---------------------------
(***************************************************************************)
(* Instance of AsyncSender for TLC. Two items fill a batch and the third   *)
(* failed wait flushes a smaller one, so that both ways to a flush, the    *)
(* items pushed before the thread starts, and items pushed between a       *)
(* failed wait and its flush all occur.                                    *)
(***************************************************************************)
EXTENDS AsyncSender

MCThresholds == {async_wait_count}

MCWaiters == {Sender}

=============================================================================
