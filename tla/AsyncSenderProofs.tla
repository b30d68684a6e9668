------------------------- MODULE AsyncSenderProofs -------------------------
(***************************************************************************)
(* Proofs about QueueBuffer, for any set of threads, any payloads, any     *)
(* thresholds and any number of pushes, and about the sender on top of it, *)
(* for any batch size and any number of failed waits.                      *)
(***************************************************************************)
EXTENDS AsyncSender, SequenceTheorems, TLAPS

----------------------------------------------------------------------------
(* The queue: the types, and that it neither loses, duplicates nor         *)
(* reorders an item.                                                       *)

\* Appending to the second of two sequences appends to their concatenation:
\* what push does to the items popped and queued.
LEMMA AppendConcat ==
  ASSUME NEW S, NEW s \in Seq(S), NEW t \in Seq(S), NEW e \in S,
         NEW u \in Seq(S), u = s \o t
  PROVE  Append(u, e) = s \o Append(t, e)
<1>1. PICK a \in Seq(S) : a = Append(t, e)
  <2>1. Append(t, e) \in Seq(S)
    OBVIOUS
  <2>2. QED
    BY <2>1, Zenon
<1>2. /\ Len(a) = Len(t) + 1
      /\ \A i \in 1..Len(a) : a[i] = IF i <= Len(t) THEN t[i] ELSE e
  BY <1>1
<1>3. /\ Len(u) = Len(s) + Len(t)
      /\ \A i \in 1..(Len(s) + Len(t)) :
           u[i] = IF i <= Len(s) THEN s[i] ELSE t[i - Len(s)]
  BY ConcatProperties
<1>4. /\ s \o a \in Seq(S)
      /\ Len(s \o a) = Len(s) + Len(a)
      /\ \A i \in 1..(Len(s) + Len(a)) :
           (s \o a)[i] = IF i <= Len(s) THEN s[i] ELSE a[i - Len(s)]
  BY ConcatProperties
<1>5. Append(u, e) \in Seq(S) /\ Len(Append(u, e)) = Len(s \o a)
  BY <1>2, <1>3, <1>4
<1>6. ASSUME NEW i \in 1..Len(Append(u, e))
      PROVE  Append(u, e)[i] = (s \o a)[i]
  <2>1. Len(s) \in Nat /\ Len(t) \in Nat /\ i \in 1..(Len(s) + Len(t) + 1)
    BY <1>3
  <2>2. Append(u, e)[i] = IF i <= Len(s) + Len(t) THEN u[i] ELSE e
    BY <1>3, <2>1
  <2>3. (s \o a)[i] = IF i <= Len(s) THEN s[i] ELSE a[i - Len(s)]
    BY <1>2, <1>4, <2>1
  <2>4. QED
    BY <1>2, <1>3, <2>1, <2>2, <2>3
<1>7. Append(u, e) = s \o a
  BY <1>4, <1>5, <1>6, SeqEqual
<1>8. QED
  BY <1>1, <1>7

\* Moving the queue behind the popped items: what pop_all does.
LEMMA ConcatFacts ==
  ASSUME NEW S, NEW s \in Seq(S), NEW t \in Seq(S)
  PROVE  /\ s \o t \in Seq(S)
         /\ (s \o t) \o <<>> = s \o t
         /\ <<>> \in Seq(S)
  BY ConcatProperties, ConcatEmptySeq

----------------------------------------------------------------------------

\* The constructor establishes the types.
LEMMA TypeInit == Init => TypeOK
<1>1. <<>> \in Seq(Data)
  BY EmptySeq
<1>2. [t \in Waiters |-> "out"] \in [Waiters -> {"out", "in", "true", "false"}]
  BY Zenon
<1>3. 0 \in Nat
  OBVIOUS
<1>4. QED
  BY <1>1, <1>2, <1>3, Zenon DEF Init, TypeOK

\* Every method of queue_buffer keeps the types.
LEMMA TypeStep == TypeOK /\ [Next]_bufferVars => TypeOK'
<1> SUFFICES ASSUME TypeOK, [Next]_bufferVars PROVE TypeOK'
  OBVIOUS
<1> USE QueueBufferAssumption DEF TypeOK
<1>1. CASE \E n \in Thresholds : set_push_wait_threshold(n)
  BY <1>1 DEF set_push_wait_threshold
<1>2. CASE \E d \in Data : push(d)
  BY <1>2 DEF push
<1>3. CASE pop_all
  BY <1>3, ConcatFacts DEF pop_all
<1>4. ASSUME NEW t \in Waiters, push_wait(t)
      PROVE  TypeOK'
  BY <1>4 DEF push_wait, Return
<1>5. ASSUME NEW t \in Waiters, spurious_wakeup(t)
      PROVE  TypeOK'
  BY <1>5 DEF spurious_wakeup
<1>6. ASSUME NEW t \in Waiters, recheck(t)
      PROVE  TypeOK'
  BY <1>6 DEF recheck, Return
<1>7. ASSUME NEW t \in Waiters, timeout(t)
      PROVE  TypeOK'
  BY <1>7 DEF timeout, Return
<1>8. CASE UNCHANGED bufferVars
  BY <1>8 DEF bufferVars
<1>9. QED
  BY <1>1, <1>2, <1>3, <1>4, <1>5, <1>6, <1>7, <1>8 DEF Next

\* The members of queue_buffer keep their types.
THEOREM TypeCorrect == Spec => []TypeOK
<1>1. QED
  BY TypeInit, TypeStep, PTL DEF Spec

\* A push and a pop_all, by whatever thread and at whatever point of a wait,
\* keep the items in order.
LEMMA ConservationStep ==
  TypeOK /\ Conservation /\ [Next]_bufferVars => Conservation'
<1> SUFFICES ASSUME TypeOK, Conservation, [Next]_bufferVars
             PROVE  Conservation'
  OBVIOUS
<1> USE DEF TypeOK, Conservation
<1>1. ASSUME NEW d \in Data, push(d)
      PROVE  Conservation'
  <2>1. pushed' = Append(pushed, d) /\ queue' = Append(queue, d)
    BY <1>1 DEF push
  <2>2. popped' = popped
    BY <1>1 DEF push
  <2>3. Append(pushed, d) = popped \o Append(queue, d)
    <3> HIDE DEF TypeOK, Conservation
    <3>1. pushed \in Seq(Data) /\ popped \in Seq(Data) /\ queue \in Seq(Data)
      BY DEF TypeOK
    <3>2. pushed = popped \o queue
      BY DEF Conservation
    <3>3. QED
      BY <3>1, <3>2, AppendConcat, ZenonT(40)
  <2>4. QED
    BY <2>1, <2>2, <2>3, Zenon
<1>2. CASE pop_all
  BY <1>2, ConcatFacts DEF pop_all
<1>3. CASE UNCHANGED <<pushed, popped, queue>>
  BY <1>3
<1>4. QED
  BY <1>1, <1>2, <1>3
     DEF Next, set_push_wait_threshold, push_wait, spurious_wakeup, recheck,
         timeout, bufferVars

\* The queue neither loses, duplicates nor reorders an item (queue_buffer::push
\* and pop_all), for any number of threads and items.
THEOREM ConservationHolds == Spec => []Conservation
<1>1. Init => Conservation
  BY ConcatEmptySeq, EmptySeq DEF Init, Conservation
<1>2. QED
  BY <1>1, ConservationStep, TypeCorrect, PTL DEF Spec

----------------------------------------------------------------------------
(* The sender. SenderInv is the inductive invariant: it ties the control   *)
(* of async_work to the wait, the counters and the batch.                  *)

\* The sender is in push_wait only at the wait of its loop, has set the
\* threshold once it loops, and has a batch only while it sends.
ControlInv ==
  /\ wait[Sender] = "in" => pc = "wait"
  /\ pc = "wait" => wait[Sender] # "out"
  /\ pc \notin {"bind", "exit"} =>
       pushWaitEnabled /\ pushWaitThreshold = async_wait_count
  /\ pc = "bind" => ~pushWaitEnabled
  /\ pc \notin {"send", "exit"} => localBuffer = <<>>

\* Each failed wait that the oldest item saw was counted, or is about to be.
AgeInv ==
  /\ failCount < async_wait_fail
  /\ pc \in {"bind", "loop", "send"} => headAge <= failCount
  /\ pc = "wait" =>
       headAge <= failCount + (IF wait[Sender] = "false" THEN 1 ELSE 0)
  /\ headAge <= async_wait_fail

\* The count of new items covers the queue, except between the reset of the
\* count by a successful wait and the pop_all that follows it.
BacklogInv ==
  \/ Len(queue) <= pushWaitNew + early
  \/ pc \in {"pop", "exit"}
  \/ pc = "wait" /\ wait[Sender] = "true"

SenderInv ==
  /\ AsyncTypeOK
  /\ ControlInv
  /\ AgeInv
  /\ BacklogInv
  /\ PathConservation

----------------------------------------------------------------------------

\* The front of a batch moves behind the released items: what send_front does.
LEMMA MoveFront ==
  ASSUME NEW S, NEW s \in Seq(S), NEW t \in Seq(S), t # <<>>
  PROVE  /\ Append(s, Head(t)) \o Tail(t) = s \o t
         /\ Append(s, Head(t)) \in Seq(S)
         /\ Tail(t) \in Seq(S)
<1>1. Append(s, Head(t)) \o Tail(t) = s \o t
  OBVIOUS
<1>2. Head(t) \in S /\ Tail(t) \in Seq(S)
  BY HeadTailProperties
<1>3. QED
  BY <1>1, <1>2

\* The initial state satisfies the invariant.
LEMMA SenderInit == AsyncInit => SenderInv
<1> SUFFICES ASSUME AsyncInit PROVE SenderInv
  OBVIOUS
<1> USE DEF AsyncInit
<1>1. AsyncTypeOK
  <2>1. TypeOK
    BY TypeInit
  <2>2. <<>> \in Seq(Data)
    BY EmptySeq
  <2>3. QED
    BY <2>1, <2>2 DEF AsyncTypeOK
<1>2. ControlInv
  BY AsyncSenderAssumption DEF Init, ControlInv
<1>3. AgeInv
  BY AsyncSenderAssumption DEF Init, AgeInv
<1>4. BacklogInv
  BY EmptySeq DEF Init, BacklogInv
<1>5. PathConservation
  BY ConcatEmptySeq, EmptySeq DEF Init, PathConservation
<1>6. QED
  BY <1>1, <1>2, <1>3, <1>4, <1>5 DEF SenderInv

\* The processing unit and the sender use the buffer only through its methods,
\* and never pop in the middle of a wait.
LEMMA AsyncStepIsBufferStep ==
  ControlInv /\ [AsyncNext]_vars => [Next]_bufferVars
<1> SUFFICES ASSUME ControlInv, [AsyncNext]_vars PROVE [Next]_bufferVars
  OBVIOUS
<1> USE AsyncSenderAssumption DEF Next, bufferVars
<1>1. CASE \E d \in Data : unit_push(d)
  BY <1>1 DEF unit_push
<1>2. CASE wakeup
  BY <1>2 DEF wakeup
<1>3. CASE bind_socket
  BY <1>3 DEF bind_socket
<1>4. CASE call_push_wait
  BY <1>4 DEF call_push_wait
<1>5. CASE after_wakeup
  BY <1>5 DEF after_wakeup
<1>6. CASE wait_timeout
  BY <1>6 DEF wait_timeout
<1>7. CASE evaluate_wait
  BY <1>7 DEF evaluate_wait
<1>8. CASE take_batch
  BY <1>8 DEF take_batch, ControlInv
<1>9. CASE send_front
  BY <1>9 DEF send_front
<1>10. CASE batch_done
  BY <1>10 DEF batch_done
<1>11. CASE UNCHANGED vars
  BY <1>11 DEF vars
<1>12. QED
  BY <1>1, <1>2, <1>3, <1>4, <1>5, <1>6, <1>7, <1>8, <1>9, <1>10, <1>11
     DEF AsyncNext, SenderStep

\* Every step keeps the types.
LEMMA AsyncTypeStep ==
  AsyncTypeOK /\ ControlInv /\ [AsyncNext]_vars => AsyncTypeOK'
<1> SUFFICES ASSUME AsyncTypeOK, ControlInv, [AsyncNext]_vars
             PROVE  AsyncTypeOK'
  OBVIOUS
<1>1. TypeOK'
  BY AsyncStepIsBufferStep, TypeStep DEF AsyncTypeOK
<1> USE DEF AsyncTypeOK
<1>2. CASE \E d \in Data : unit_push(d)
  BY <1>1, <1>2 DEF unit_push
<1>3. CASE send_front
  <2>1. /\ localBuffer' \in Seq(Data)
        /\ freed' \in Seq(Data)
        /\ Head(localBuffer) \in Data
    BY <1>3, MoveFront, HeadTailProperties DEF send_front
  <2>2. delivered' \in Seq(Data)
    <3>1. ASSUME NEW d \in Data
          PROVE  Append(delivered, d) \in Seq(Data)
      OBVIOUS
    <3>2. QED
      BY <1>3, <2>1, <3>1 DEF send_front
  <2>3. pc' \in {"send", "exit"} /\ UNCHANGED <<failCount, early, headAge>>
    BY <1>3 DEF send_front
  <2>4. QED
    BY <1>1, <2>1, <2>2, <2>3
<1>4. CASE take_batch
  BY <1>1, <1>4 DEF take_batch, TypeOK
<1>5. CASE evaluate_wait
  BY <1>1, <1>5 DEF evaluate_wait
<1>6. CASE bind_socket \/ call_push_wait \/ batch_done
  BY <1>1, <1>6 DEF bind_socket, call_push_wait, batch_done
<1>7. CASE wait_timeout
  BY <1>1, <1>7 DEF wait_timeout
<1>8. CASE wakeup \/ after_wakeup \/ UNCHANGED vars
  BY <1>1, <1>8 DEF wakeup, after_wakeup, vars, senderVars
<1>9. QED
  BY <1>2, <1>3, <1>4, <1>5, <1>6, <1>7, <1>8 DEF AsyncNext, SenderStep

\* Every step keeps the link between control, wait, threshold and batch.
LEMMA ControlStep ==
  AsyncTypeOK /\ ControlInv /\ [AsyncNext]_vars => ControlInv'
<1> SUFFICES ASSUME AsyncTypeOK, ControlInv, [AsyncNext]_vars
             PROVE  ControlInv'
  OBVIOUS
<1> USE AsyncSenderAssumption DEF AsyncTypeOK, TypeOK, ControlInv
<1>1. CASE \E d \in Data : unit_push(d)
  BY <1>1 DEF unit_push, push
<1>2. CASE wakeup
  BY <1>2 DEF wakeup, spurious_wakeup, senderVars
<1>3. CASE bind_socket
  BY <1>3 DEF bind_socket, set_push_wait_threshold, bufferVars
<1>4. CASE call_push_wait
  BY <1>4 DEF call_push_wait, push_wait, Return
<1>5. CASE after_wakeup
  BY <1>5 DEF after_wakeup, recheck, Return, senderVars
<1>6. CASE wait_timeout
  BY <1>6 DEF wait_timeout, timeout, Return
<1>7. CASE evaluate_wait
  BY <1>7 DEF evaluate_wait, bufferVars
<1>8. CASE take_batch
  BY <1>8 DEF take_batch, pop_all
<1>9. CASE send_front
  BY <1>9 DEF send_front, bufferVars
<1>10. CASE batch_done
  BY <1>10 DEF batch_done, bufferVars
<1>11. CASE UNCHANGED vars
  BY <1>11 DEF vars, bufferVars, senderVars
<1>12. QED
  BY <1>1, <1>2, <1>3, <1>4, <1>5, <1>6, <1>7, <1>8, <1>9, <1>10, <1>11
     DEF AsyncNext, SenderStep

\* Every failed wait is counted before the oldest item can see the next one.
LEMMA AgeStep ==
  AsyncTypeOK /\ ControlInv /\ AgeInv /\ [AsyncNext]_vars => AgeInv'
<1> SUFFICES ASSUME AsyncTypeOK, ControlInv, AgeInv, [AsyncNext]_vars
             PROVE  AgeInv'
  OBVIOUS
<1> USE AsyncSenderAssumption DEF AsyncTypeOK, TypeOK, ControlInv, AgeInv
<1>1. CASE \E d \in Data : unit_push(d)
  BY <1>1 DEF unit_push, push
<1>2. CASE wakeup
  BY <1>2 DEF wakeup, spurious_wakeup, senderVars
<1>3. CASE bind_socket
  BY <1>3 DEF bind_socket, set_push_wait_threshold, bufferVars
<1>4. CASE call_push_wait
  BY <1>4 DEF call_push_wait, push_wait, Return
<1>5. CASE after_wakeup
  BY <1>5 DEF after_wakeup, recheck, Return, senderVars
<1>6. CASE wait_timeout
  BY <1>6 DEF wait_timeout, timeout, Return
<1>7. CASE evaluate_wait
  BY <1>7 DEF evaluate_wait, FlushDue, bufferVars
<1>8. CASE take_batch
  BY <1>8 DEF take_batch, pop_all
<1>9. CASE send_front
  BY <1>9 DEF send_front, bufferVars
<1>10. CASE batch_done
  BY <1>10 DEF batch_done, bufferVars
<1>11. CASE UNCHANGED vars
  BY <1>11 DEF vars, bufferVars, senderVars
<1>12. QED
  BY <1>1, <1>2, <1>3, <1>4, <1>5, <1>6, <1>7, <1>8, <1>9, <1>10, <1>11
     DEF AsyncNext, SenderStep

\* The count of new items keeps covering the queue.
LEMMA BacklogStep ==
  AsyncTypeOK /\ ControlInv /\ BacklogInv /\ [AsyncNext]_vars => BacklogInv'
<1> SUFFICES ASSUME AsyncTypeOK, ControlInv, BacklogInv, [AsyncNext]_vars
             PROVE  BacklogInv'
  OBVIOUS
<1> USE AsyncSenderAssumption DEF AsyncTypeOK, TypeOK, ControlInv, BacklogInv
<1>1. CASE \E d \in Data : unit_push(d)
  BY <1>1 DEF unit_push, push
<1>2. CASE wakeup
  BY <1>2 DEF wakeup, spurious_wakeup, senderVars
<1>3. CASE bind_socket
  BY <1>3 DEF bind_socket, set_push_wait_threshold, bufferVars
<1>4. CASE call_push_wait
  BY <1>4 DEF call_push_wait, push_wait, Return
<1>5. CASE after_wakeup
  BY <1>5 DEF after_wakeup, recheck, Return, senderVars
<1>6. CASE wait_timeout
  BY <1>6 DEF wait_timeout, timeout, Return
<1>7. CASE evaluate_wait
  BY <1>7 DEF evaluate_wait, FlushDue, bufferVars
<1>8. CASE take_batch
  BY <1>8 DEF take_batch, pop_all
<1>9. CASE send_front
  BY <1>9 DEF send_front, bufferVars
<1>10. CASE batch_done
  BY <1>10 DEF batch_done, bufferVars
<1>11. CASE UNCHANGED vars
  BY <1>11 DEF vars, bufferVars, senderVars
<1>12. QED
  BY <1>1, <1>2, <1>3, <1>4, <1>5, <1>6, <1>7, <1>8, <1>9, <1>10, <1>11
     DEF AsyncNext, SenderStep

\* No step loses, duplicates or reorders an item on its way.
LEMMA PathStep ==
  AsyncTypeOK /\ ControlInv /\ PathConservation /\ [AsyncNext]_vars
    => PathConservation'
<1> SUFFICES ASSUME AsyncTypeOK, ControlInv, PathConservation, [AsyncNext]_vars
             PROVE  PathConservation'
  OBVIOUS
<1>0. /\ pushed \in Seq(Data) /\ queue \in Seq(Data)
      /\ freed \in Seq(Data) /\ localBuffer \in Seq(Data)
  BY DEF AsyncTypeOK, TypeOK
<1>1. CASE \E d \in Data : unit_push(d)
  <2>1. PICK d \in Data : unit_push(d)
    BY <1>1
  <2>2. PICK sent \in Seq(Data) : sent = freed \o localBuffer
    BY <1>0, ConcatProperties
  <2>3. pushed = sent \o queue
    BY <2>2 DEF PathConservation
  <2>4. /\ pushed' = Append(pushed, d)
        /\ queue' = Append(queue, d)
        /\ UNCHANGED <<freed, localBuffer>>
    BY <2>1 DEF unit_push, push
  <2>5. Append(pushed, d) = sent \o Append(queue, d)
    <3>1. pushed \in Seq(Data) /\ queue \in Seq(Data)
      BY <1>0
    <3>2. QED
      BY <3>1, <2>3, AppendConcat, ZenonT(40)
  <2>6. QED
    BY <2>2, <2>4, <2>5, Zenon DEF PathConservation
<1> USE <1>0 DEF PathConservation
<1>2. CASE take_batch
  <2>1. localBuffer = <<>> /\ localBuffer' = queue /\ queue' = <<>>
    BY <1>2 DEF take_batch, pop_all, ControlInv
  <2>2. freed \o localBuffer = freed /\ freed \o queue \in Seq(Data)
    BY <2>1, ConcatEmptySeq, ConcatProperties
  <2>3. (freed \o queue) \o <<>> = freed \o queue
    BY <2>2, ConcatEmptySeq
  <2>4. QED
    BY <1>2, <2>1, <2>2, <2>3 DEF take_batch, pop_all
<1>3. CASE send_front
  <2>1. /\ localBuffer # <<>>
        /\ freed' = Append(freed, Head(localBuffer))
        /\ localBuffer' = Tail(localBuffer)
        /\ UNCHANGED <<pushed, queue>>
    BY <1>3 DEF send_front, bufferVars
  <2>2. freed \in Seq(Data) /\ localBuffer \in Seq(Data)
    BY <1>0
  <2>3. Append(freed, Head(localBuffer)) \o Tail(localBuffer)
          = freed \o localBuffer
    BY <2>1, <2>2, MoveFront
  <2>4. QED
    BY <2>1, <2>3, Zenon
<1>4. CASE UNCHANGED <<pushed, freed, localBuffer, queue>>
  BY <1>4
<1>5. QED
  BY <1>1, <1>2, <1>3, <1>4
     DEF AsyncNext, SenderStep, wakeup, bind_socket, call_push_wait,
         after_wakeup, wait_timeout, evaluate_wait, batch_done, push_wait,
         recheck, timeout, spurious_wakeup, set_push_wait_threshold, vars,
         bufferVars, senderVars

\* SenderInv is inductive.
THEOREM SenderInvariant == AsyncSpec => []SenderInv
<1>1. SenderInv /\ [AsyncNext]_vars => SenderInv'
  BY AsyncTypeStep, ControlStep, AgeStep, BacklogStep, PathStep DEF SenderInv
<1>2. QED
  BY <1>1, SenderInit, PTL DEF AsyncSpec

\* What async_work moves between the queue, its localBuffer and the message stays
\* made of items, and pushCount and failCount stay natural numbers.
THEOREM AsyncTypeCorrect == AsyncSpec => []AsyncTypeOK
<1>1. SenderInv => AsyncTypeOK
  BY DEF SenderInv
<1>2. QED
  BY <1>1, SenderInvariant, PTL

\* From the push to the release of the message no item is lost, duplicated or
\* reordered (zmq_server::async_work over queue_buffer).
THEOREM PathConservationHolds == AsyncSpec => []PathConservation
<1>1. SenderInv => PathConservation
  BY DEF SenderInv
<1>2. QED
  BY <1>1, SenderInvariant, PTL

\* The oldest item is flushed after at most async_wait_fail failed waits,
\* whatever the batch size and the timing of the pushes.
THEOREM FlushLatencyHolds == AsyncSpec => []FlushLatency
<1>1. SenderInv => FlushLatency
  BY DEF SenderInv, AgeInv, FlushLatency
<1>2. QED
  BY <1>1, SenderInvariant, PTL

\* The counter that pop_all does not reset never hides a full batch from a
\* sleeping sender.
THEOREM NoHiddenBacklogHolds == AsyncSpec => []NoHiddenBacklog
<1>1. SenderInv => NoHiddenBacklog
  BY AsyncSenderAssumption
     DEF SenderInv, BacklogInv, ControlInv, NoHiddenBacklog, EnoughNew,
         AsyncTypeOK, TypeOK
<1>2. QED
  BY <1>1, SenderInvariant, PTL

----------------------------------------------------------------------------
(* The async path implements FifoDelivery.                                 *)

\* Taking the front of the batch is taking the front of what is in flight.
LEMMA FrontOfConcat ==
  ASSUME NEW S, NEW s \in Seq(S), NEW t \in Seq(S), s # <<>>
  PROVE  /\ s \o t # <<>>
         /\ Head(s \o t) = Head(s)
         /\ Tail(s \o t) = Tail(s) \o t
<1>1. s \o t # <<>>
  BY ConcatEqualIffEmpty
<1>2. Head(s \o t) = Head(s)
  OBVIOUS
<1>3. Tail(s \o t) = Tail(s) \o t
  OBVIOUS
<1>4. QED
  BY <1>1, <1>2, <1>3

\* Each step of the path is a step of the abstract one or invisible to it.
LEMMA DeliveryStep ==
  SenderInv /\ [AsyncNext]_vars => [Delivery!Next]_(Delivery!vars)
<1> SUFFICES ASSUME SenderInv, [AsyncNext]_vars
             PROVE  [Delivery!Next]_(Delivery!vars)
  OBVIOUS
<1>0. /\ queue \in Seq(Data) /\ localBuffer \in Seq(Data)
      /\ localBuffer \o queue \in Seq(Data)
  BY ConcatProperties DEF SenderInv, AsyncTypeOK, TypeOK
<1>1. ASSUME NEW d \in Data, unit_push(d)
      PROVE  Delivery!Next
  <2>1. localBuffer' \o queue' = Append(localBuffer \o queue, d)
    <3>1. PICK u \in Seq(Data) : u = localBuffer \o queue
      BY <1>0, Zenon
    <3>2. Append(u, d) = localBuffer \o Append(queue, d)
      BY <1>0, <3>1, AppendConcat, ZenonT(40)
    <3>3. QED
      BY <1>1, <3>1, <3>2, Zenon DEF unit_push, push
  <2>2. Delivery!Accept(d)
    BY <1>1, <2>1 DEF unit_push, Running, Delivery!Accept
  <2>3. QED
    BY <2>2 DEF Delivery!Next
<1>2. CASE send_front
  <2>1. /\ localBuffer \o queue # <<>>
        /\ Head(localBuffer \o queue) = Head(localBuffer)
        /\ Tail(localBuffer \o queue) = Tail(localBuffer) \o queue
    BY <1>0, <1>2, FrontOfConcat DEF send_front
  <2>2. localBuffer' \o queue' = Tail(localBuffer \o queue)
    BY <1>2, <2>1, Zenon DEF send_front, bufferVars
  <2>3. Delivery!Settle
    BY <1>2, <2>1, <2>2 DEF send_front, Running, Delivery!Settle
  <2>4. QED
    BY <2>3 DEF Delivery!Next
<1>3. CASE bind_socket
  BY <1>3 DEF bind_socket, set_push_wait_threshold, bufferVars, Running,
              Delivery!GoDown, Delivery!Next, Delivery!vars
<1>4. CASE take_batch
  <2>1. localBuffer = <<>> /\ localBuffer' = queue /\ queue' = <<>>
    BY <1>4 DEF SenderInv, ControlInv, take_batch, pop_all
  <2>2. localBuffer' \o queue' = localBuffer \o queue
    BY <1>0, <2>1, ConcatEmptySeq
  <2>3. QED
    BY <1>4, <2>2 DEF take_batch, Running, Delivery!vars
<1>5. CASE UNCHANGED <<localBuffer, queue, freed, delivered, Running>>
  BY <1>5 DEF Delivery!vars
<1>6. QED
  BY <1>1, <1>2, <1>3, <1>4, <1>5
     DEF AsyncNext, SenderStep, wakeup, call_push_wait, after_wakeup,
         wait_timeout, evaluate_wait, batch_done, push_wait, recheck, timeout,
         spurious_wakeup, vars, bufferVars, senderVars, Running

\* The buffer and the sender together implement the abstract delivery, but for
\* its fairness: items are settled once, in the order of the pushes, and
\* nothing is delivered that was not pushed.
THEOREM DeliveryImplemented == AsyncSpec => Delivery!Spec
<1>1. AsyncInit => Delivery!Init
  BY ConcatEmptySeq, EmptySeq DEF AsyncInit, Init, Running, Delivery!Init
<1>2. QED
  BY <1>1, DeliveryStep, SenderInvariant, PTL DEF AsyncSpec, Delivery!Spec

=============================================================================
