---------------------------- MODULE AsyncSender ----------------------------
(***************************************************************************)
(* The async path: a processing unit pushes items into the queue_buffer of *)
(* its module, and zmq_server::async_work, on a thread of the server,      *)
(* takes them out in batches and sends them to the client.                 *)
(*                                                                         *)
(* The processing unit runs before this thread does (imodule starts it in  *)
(* load_proc_unit, before the server is notified), so items may be pushed  *)
(* before the threshold is set.                                            *)
(*                                                                         *)
(* do_exit() is false in every reachable state of the server (theorem      *)
(* ServerNeverStops of ServerProofs), so the loop is not left; a           *)
(* zmq::error_t ends the process.                                          *)
(***************************************************************************)
EXTENDS QueueBuffer

CONSTANTS
  Sender,            \* the thread that runs async_work
  async_wait_count,  \* threshold given to the buffer
  async_wait_fail    \* failed waits after which the buffer is flushed anyway

ASSUME AsyncSenderAssumption ==
  /\ Waiters = {Sender}
  /\ async_wait_count \in Nat \ {0}
  /\ async_wait_fail \in Nat \ {0}
  /\ async_wait_count \in Thresholds

VARIABLES
  pc,           \* control of async_work
  failCount,    \* failed waits since the last flush
  localBuffer,  \* the batch being sent
  freed,        \* history: items whose message was released, in order
  delivered,    \* history: items the client received
  early,        \* history: queued items pushed before the threshold was set
  headAge       \* history: waits that failed while the oldest item was queued

senderVars == <<pc, failCount, localBuffer, freed, delivered, early, headAge>>
vars == <<bufferVars, senderVars>>

----------------------------------------------------------------------------

AsyncInit ==
  /\ Init
  /\ pc = "bind"
  /\ failCount = 0
  /\ localBuffer = <<>>
  /\ freed = <<>>
  /\ delivered = <<>>
  /\ early = 0
  /\ headAge = 0

Running == pc # "exit"

\* async_work of the processing unit, on the thread of the module.
unit_push(d) ==
  /\ Running
  /\ push(d)
  /\ early' = IF pushWaitEnabled THEN early ELSE early + 1
  /\ UNCHANGED <<pc, failCount, localBuffer, freed, delivered, headAge>>

\* Creation and bind of the PAIR socket, then the threshold.
bind_socket ==
  /\ pc = "bind"
  /\ \/ /\ pc' = "loop"
        /\ set_push_wait_threshold(async_wait_count)
     \/ /\ pc' = "exit"
        /\ UNCHANGED bufferVars
  /\ UNCHANGED <<failCount, localBuffer, freed, delivered, early, headAge>>

\* The condition of the loop calls push_wait ...
call_push_wait ==
  /\ pc = "loop"
  /\ push_wait(Sender)
  /\ pc' = "wait"
  /\ UNCHANGED <<failCount, localBuffer, freed, delivered, early, headAge>>

wakeup ==
  /\ Running
  /\ spurious_wakeup(Sender)
  /\ UNCHANGED senderVars

after_wakeup ==
  /\ Running
  /\ recheck(Sender)
  /\ UNCHANGED senderVars

wait_timeout ==
  /\ Running
  /\ timeout(Sender)
  /\ headAge' = IF queue # <<>> /\ ~EnoughNew THEN headAge + 1 ELSE headAge
  /\ UNCHANGED <<pc, failCount, localBuffer, freed, delivered, early>>

\* Mutant: one failed wait too many.
FlushDueLate == wait[Sender] = "true" \/ failCount + 1 > async_wait_fail

\* ... and counts the failures: || ++failCount == async_wait_fail.
FlushDue == wait[Sender] = "true" \/ failCount + 1 = async_wait_fail

evaluate_wait ==
  /\ pc = "wait"
  /\ wait[Sender] # "in"
  /\ pc' = IF FlushDue THEN "pop" ELSE "loop"
  /\ failCount' = IF FlushDue THEN 0 ELSE failCount + 1
  /\ UNCHANGED bufferVars
  /\ UNCHANGED <<localBuffer, freed, delivered, early, headAge>>

take_batch ==
  /\ pc = "pop"
  /\ pop_all
  /\ localBuffer' = queue
  /\ early' = 0
  /\ headAge' = 0
  /\ pc' = "send"
  /\ UNCHANGED <<failCount, freed, delivered>>

\* Mutant: the front item is not popped.
send_front_keeps ==
  /\ pc = "send"
  /\ localBuffer # <<>>
  /\ freed' = Append(freed, Head(localBuffer))
  /\ delivered' = Append(delivered, Head(localBuffer))
  /\ UNCHANGED bufferVars
  /\ UNCHANGED <<pc, localBuffer, failCount, early, headAge>>

\* Mutant: a message that was sent is sent again.
send_front_twice ==
  /\ pc = "send"
  /\ localBuffer # <<>>
  /\ localBuffer' = Tail(localBuffer)
  /\ freed' = Append(freed, Head(localBuffer))
  /\ delivered' = delivered \o <<Head(localBuffer), Head(localBuffer)>>
  /\ UNCHANGED bufferVars
  /\ UNCHANGED <<pc, failCount, early, headAge>>

\* The front item is moved into a message. send() delivers it, or gives up
\* after SNDTIMEO (its result is not read), or throws; in each case the
\* message releases the item.
send_front ==
  /\ pc = "send"
  /\ localBuffer # <<>>
  /\ localBuffer' = Tail(localBuffer)
  /\ freed' = Append(freed, Head(localBuffer))
  /\ \/ /\ delivered' = Append(delivered, Head(localBuffer))
        /\ UNCHANGED pc
     \/ UNCHANGED <<delivered, pc>>
     \/ /\ pc' = "exit"
        /\ UNCHANGED delivered
  /\ UNCHANGED bufferVars
  /\ UNCHANGED <<failCount, early, headAge>>

batch_done ==
  /\ pc = "send"
  /\ localBuffer = <<>>
  /\ pc' = "loop"
  /\ UNCHANGED bufferVars
  /\ UNCHANGED <<failCount, localBuffer, freed, delivered, early, headAge>>

SenderStep ==
  \/ bind_socket
  \/ call_push_wait
  \/ after_wakeup
  \/ wait_timeout
  \/ evaluate_wait
  \/ take_batch
  \/ send_front
  \/ batch_done

AsyncNext ==
  \/ \E d \in Data : unit_push(d)
  \/ wakeup
  \/ SenderStep

AsyncSpec == AsyncInit /\ [][AsyncNext]_vars

\* Every step of the sender needs only a free mutex or the end of a finite
\* timeout (async_wait_to, async_send_to): the scheduler runs it eventually.
\* The deadline of wait_for is absolute, so wakeups cannot postpone it.
FairAsyncSpec == AsyncSpec /\ WF_vars(SenderStep) /\ WF_vars(wait_timeout)

----------------------------------------------------------------------------

\* The types of the state of async_work.
AsyncTypeOK ==
  /\ TypeOK
  /\ pc \in {"bind", "loop", "wait", "pop", "send", "exit"}
  /\ failCount \in Nat
  /\ localBuffer \in Seq(Data)
  /\ freed \in Seq(Data)
  /\ delivered \in Seq(Data)
  /\ early \in Nat
  /\ headAge \in Nat

\* From the push in the processing unit to the release of the message, each
\* item is in exactly one place and the order is kept: released items, the
\* batch being sent and the queue make up the items pushed. No item is
\* released twice, none is skipped.
PathConservation == pushed = (freed \o localBuffer) \o queue

\* A buffer that is not being filled fast enough is flushed all the same: the
\* oldest item sees at most async_wait_fail failed waits before it is taken.
FlushLatency == headAge <= async_wait_fail

\* The counter that wakes the sender never falls behind the queue, although
\* pop_all does not reset it: while the sender sleeps on a false predicate,
\* fewer than async_wait_count counted items are queued. Only the items that
\* were pushed before the threshold was set escape the count.
NoHiddenBacklog ==
  pc = "wait" /\ wait[Sender] = "in" /\ ~EnoughNew
    => Len(queue) < async_wait_count + early

\* Every item pushed is eventually sent or given up, unless the process ends.
EventuallySettled ==
  \A n \in 1..MaxPushes :
    (Len(pushed) >= n) ~> (Len(freed) >= n \/ ~Running)

\* The async path implements the abstract one.
Delivery == INSTANCE FifoDelivery WITH
  Items <- Data, inFlight <- localBuffer \o queue, settled <- freed,
  down <- ~Running

ImplementsDelivery == Delivery!FairSpec

=============================================================================
