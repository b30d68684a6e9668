-------------------------- MODULE MainProgramProofs ------------------------
(***************************************************************************)
(* Proofs about MainProgram for any number of messages and signals: who    *)
(* holds the mutex of the manager at each control point of main and of the *)
(* sync thread, and what the response that is about to be sent belongs to. *)
(***************************************************************************)
EXTENDS MainProgram, TLAPS

\* Control points of main before it has launched the threads, while it holds the
\* mutex of the manager, and after load_proc_unit.
NotLaunched == {"options", "load", "init", "configure", "notify", "exit"}
Loading == {"init", "configure", "notify", "started"}
Loaded == {"sigint", "sigterm", "before_pause", "pause", "destroy"}

\* The sync thread comes from main, and the mutex has one holder.
MutexInv ==
  /\ mainPc \in NotLaunched => syncPc = "none"
  /\ mainPc \in Loading => mutex = "main"
  /\ Alive => (syncPc = "unit" <=> mutex = "sync")
  /\ mutex = "sync" => syncPc = "unit"

\* The messages that are answered, and the one at hand.
CountInv ==
  /\ Len(answers) \in {Len(handled), Len(handled) - 1}
  /\ syncPc \in {"none", "bind"} => Len(handled) = 0
  /\ syncPc = "recv" /\ Alive => Len(answers) = Len(handled)
  /\ syncPc \in {"call", "unit", "send"} => Len(answers) = Len(handled) - 1

\* What the unit can have answered to a message.
Possible(m) == {response(o) : o \in Outcomes(unit, m) \ FatalOutcomes}

\* The response that is about to be sent is one to the message at hand.
ResponseInv == syncPc = "send" => rspns \in Possible(current)

\* Only a transceiver has threads of its own, and only they let an exception escape.
ThreadsInv ==
  /\ unitThreads => IsTransceiver
  /\ escaped => IsTransceiver

(* TypeOK in two parts.                                                    *)

FlagType ==
  /\ mute \in BOOLEAN
  /\ silent \in BOOLEAN
  /\ unitThreads \in BOOLEAN
  /\ escaped \in BOOLEAN

ControlType ==
  /\ syncPc \in {"none", "bind", "recv", "call", "unit", "send", "gone"}
  /\ rspns \in {"none", "value", "error"}
  /\ handled \in Seq(Messages)
  /\ answers \in Seq({"value", "error", "dropped"})
  /\ mainPc \in {"options", "load", "init", "configure", "notify", "started",
                 "sigint", "sigterm", "before_pause", "pause", "destroy", "exit"}
  /\ unit \in Units
  /\ mutex \in {"free", "main", "sync"}
  /\ asyncPc \in {"none", "bind", "serve", "gone"}
  /\ sockets \subseteq {"sync", "async", "sub", "req"}
  /\ caught \subseteq Signals
  /\ signals \in 0..MaxSignals
  /\ fate \in {"running", "exiting", "ended", "terminated", "aborted", "killed"}

MainInv ==
  /\ TypeOK
  /\ MutexInv
  /\ CallsSeeLoadedUnit
  /\ CountInv
  /\ ResponseInv
  /\ AnswersMatchMessages
  /\ ThreadsInv
  /\ EndsOnlyForCause

----------------------------------------------------------------------------

\* The steps of main keep the types.
LEMMA MainTypeStep ==
  ASSUME ControlType, MainStep
  PROVE  ControlType'
<1> USE DEF ControlType, exit, Running, syncVars, envVars, threadVars
<1>1. CASE options
  BY <1>1 DEF options
<1>2. CASE load_proc_unit
  BY <1>2 DEF load_proc_unit
<1>3. CASE initialize_unit
  BY <1>3 DEF initialize_unit
<1>4. CASE configure_dispatcher
  BY <1>4 DEF configure_dispatcher
<1>5. CASE notify
  BY <1>5 DEF notify
<1>6. CASE notify_returns
  BY <1>6 DEF notify_returns
<1>7. CASE sigaction
  <2>1. caught' \subseteq Signals
    BY <1>7 DEF sigaction, Signals
  <2>2. QED
    BY <1>7, <2>1 DEF sigaction
<1>8. CASE destroy
  BY <1>8 DEF destroy
<1>9. QED
  BY <1>1, <1>2, <1>3, <1>4, <1>5, <1>6, <1>7, <1>8 DEF MainStep

\* A response is a value or an error.
LEMMA ResponseType == ASSUME NEW o PROVE response(o) \in {"value", "error"}
  BY DEF response

\* The steps of the sync thread and of its client keep the types.
LEMMA SyncTypeStep ==
  ASSUME ControlType, CallsSeeLoadedUnit, ResponseInv,
         SyncStep \/ sync_error \/ \E m \in Messages : receive(m)
  PROVE  ControlType'
<1> USE DEF ControlType, exit, Running, envVars, threadVars
<1>1. CASE bind_sync
  <2>1. sockets' \subseteq {"sync", "async", "sub", "req"}
    BY <1>1 DEF bind_sync, SyncGivesUp
  <2>2. QED
    BY <1>1, <2>1 DEF bind_sync, SyncGivesUp
<1>2. CASE proc_act
  BY <1>2 DEF proc_act
<1>3. CASE unit_returns
  BY <1>3, ResponseType DEF unit_returns, UnitEnds
<1>4. CASE send
  <2>1. rspns \in {"value", "error"}
    BY <1>4, ResponseType DEF send, ResponseInv, Possible
  <2>2. PICK r \in {"value", "error", "dropped"} : answers' = Append(answers, r)
    BY <1>4, <2>1 DEF send
  <2>3. QED
    BY <1>4, <2>2 DEF send, mainVars, envVars, threadVars
<1>5. CASE sync_error
  BY <1>5 DEF sync_error, SyncGivesUp
<1>6. ASSUME NEW m \in Messages, receive(m) PROVE ControlType'
  BY <1>6 DEF receive
<1>7. QED
  BY <1>1, <1>2, <1>3, <1>4, <1>5, <1>6 DEF SyncStep

\* The async thread, signals and the environment keep the types.
LEMMA OtherTypeStep ==
  ASSUME ControlType,
         \/ bind_async \/ async_error \/ unit_thread_throws \/ \E s \in Signals : signal(s)
         \/ dispatcher_dies \/ peer_stalls \/ context_closed
  PROVE  ControlType'
<1> USE DEF ControlType, exit, Running, syncVars, envVars, threadVars
<1>1. CASE bind_async \/ async_error \/ unit_thread_throws
  <2>1. sockets' \subseteq {"sync", "async", "sub", "req"}
    BY <1>1 DEF bind_async, async_error, unit_thread_throws, ThreadThrows
  <2>2. QED
    BY <1>1, <2>1 DEF bind_async, async_error, unit_thread_throws, ThreadThrows
<1>2. ASSUME NEW s \in Signals, signal(s) PROVE ControlType'
  <2>1. signals' \in 0..MaxSignals
    BY <1>2, MainAssumption DEF signal
  <2>2. /\ syncPc' \in {"none", "bind", "recv", "call", "unit", "send", "gone"}
        /\ rspns' \in {"none", "value", "error"} /\ mutex' \in {"free", "main", "sync"}
        /\ sockets' \subseteq {"sync", "async", "sub", "req"}
    BY <1>2, ResponseType DEF signal, SyncGivesUp, ThreadThrows
  <2>3. UNCHANGED <<handled, answers, unit, asyncPc, caught>>
    BY <1>2 DEF signal, SyncGivesUp, ThreadThrows
  <2>4. /\ mainPc' \in {"options", "load", "init", "configure", "notify", "started",
                        "sigint", "sigterm", "before_pause", "pause", "destroy", "exit"}
        /\ fate' \in {"running", "exiting", "ended", "terminated", "aborted", "killed"}
    BY <1>2 DEF signal, SyncGivesUp, ThreadThrows
  <2>5. QED
    BY <2>1, <2>2, <2>3, <2>4
<1>3. CASE dispatcher_dies \/ peer_stalls \/ context_closed
  <2>1. /\ UNCHANGED <<syncPc, rspns, handled, answers, mainPc, unit, mutex, asyncPc>>
        /\ UNCHANGED <<sockets, caught, signals>>
        /\ fate' \in {fate, "ended"}
    BY <1>3, Zenon DEF dispatcher_dies, peer_stalls, context_closed
  <2>2. QED
    BY <2>1
<1>4. QED
  BY <1>1, <1>2, <1>3

\* The flags stay Boolean.
LEMMA FlagStep ==
  ASSUME FlagType, [Next]_vars
  PROVE  FlagType'
<1> USE DEF FlagType
<1>0. (UNCHANGED <<mute, silent, unitThreads, escaped>>) => FlagType'
  BY Zenon
<1>1. CASE configure_dispatcher
  <2>1. unitThreads' \in BOOLEAN
    <3>1. IsTransceiver \in BOOLEAN
      BY DEF IsTransceiver
    <3>2. unitThreads' = IsTransceiver \/ unitThreads' = unitThreads
      BY <1>1, Zenon DEF configure_dispatcher
    <3>3. QED
      BY <3>1, <3>2, Zenon
  <2>2. QED
    BY <1>1, <2>1, Zenon DEF configure_dispatcher, envVars
<1>2. ASSUME NEW s \in Signals, signal(s) PROVE FlagType'
  BY <1>2, Zenon DEF signal, ThreadThrows
<1>3. CASE unit_thread_throws
  BY <1>3, Zenon DEF unit_thread_throws, ThreadThrows, envVars
<1>4. CASE dispatcher_dies \/ peer_stalls
  BY <1>4, Zenon DEF dispatcher_dies, peer_stalls, threadVars
<1>5. CASE MainStep /\ ~configure_dispatcher
  BY <1>0, <1>5 DEF MainStep, options, load_proc_unit, initialize_unit, notify,
     notify_returns, sigaction, destroy, envVars, threadVars
<1>6. CASE SyncStep \/ sync_error \/ \E m \in Messages : receive(m)
  BY <1>0, <1>6 DEF SyncStep, bind_sync, proc_act, unit_returns, UnitEnds, send,
     sync_error, receive, mainVars, envVars, threadVars
<1>7. CASE bind_async \/ async_error \/ context_closed \/ UNCHANGED vars
  BY <1>0, <1>7 DEF bind_async, async_error, context_closed, vars, mainVars, envVars,
     threadVars
<1>8. QED
  BY <1>1, <1>2, <1>3, <1>4, <1>5, <1>6, <1>7 DEF Next

\* Every step keeps the types.
LEMMA TypeStep ==
  TypeOK /\ CallsSeeLoadedUnit /\ ResponseInv /\ [Next]_vars => TypeOK'
<1>1. UNCHANGED vars /\ ControlType => ControlType'
  BY DEF ControlType, vars, syncVars, mainVars, envVars
<1>2. TypeOK <=> ControlType /\ FlagType
  BY Zenon DEF TypeOK, ControlType, FlagType
<1>3. TypeOK' <=> ControlType' /\ FlagType'
  BY Zenon DEF TypeOK, ControlType, FlagType
<1>4. QED
  BY <1>1, <1>2, <1>3, MainTypeStep, SyncTypeStep, OtherTypeStep, FlagStep DEF Next

\* Every step keeps the mutex with one holder, and the unit loaded during a call.
LEMMA MutexStep ==
  TypeOK /\ MutexInv /\ CallsSeeLoadedUnit /\ [Next]_vars
    => MutexInv' /\ CallsSeeLoadedUnit'
<1> SUFFICES ASSUME TypeOK, MutexInv, CallsSeeLoadedUnit, [Next]_vars
             PROVE  MutexInv' /\ CallsSeeLoadedUnit'
  OBVIOUS
<1>0. mainPc \in NotLaunched \union Loading \union Loaded
  BY DEF TypeOK, NotLaunched, Loading, Loaded
<1> USE DEF MutexInv, CallsSeeLoadedUnit, NotLaunched, Loading, Loaded, Alive, Running,
            exit
<1>1. CASE MainStep
  BY <1>0, <1>1 DEF MainStep, options, load_proc_unit, initialize_unit,
     configure_dispatcher, notify, notify_returns, sigaction, destroy, syncVars,
     envVars, threadVars, Serving
<1>2. CASE SyncStep
  BY <1>0, <1>2 DEF SyncStep, bind_sync, SyncGivesUp, proc_act, unit_returns, UnitEnds,
     send, mainVars, envVars, threadVars
<1>3. CASE sync_error \/ \E m \in Messages : receive(m)
  BY <1>0, <1>3 DEF sync_error, SyncGivesUp, receive
<1>4. CASE \/ bind_async \/ async_error \/ unit_thread_throws
           \/ dispatcher_dies \/ peer_stalls \/ context_closed
  BY <1>0, <1>4 DEF bind_async, async_error, unit_thread_throws, ThreadThrows,
     dispatcher_dies, peer_stalls, context_closed, syncVars, envVars, threadVars
<1>5. ASSUME NEW s \in Signals, signal(s) PROVE MutexInv' /\ CallsSeeLoadedUnit'
  BY <1>0, <1>5 DEF signal, SyncGivesUp, syncVars, envVars, threadVars
<1>6. CASE UNCHANGED vars
  BY <1>6 DEF vars, syncVars, mainVars, envVars, threadVars
<1>7. QED
  BY <1>1, <1>2, <1>3, <1>4, <1>5, <1>6 DEF Next

\* The unit stays the one that was loaded.
LEMMA UnitFixed == [Next]_vars => UNCHANGED unit
  BY DEF Next, MainStep, options, load_proc_unit, initialize_unit,
     configure_dispatcher, notify, notify_returns, sigaction, destroy, SyncStep,
     bind_sync, proc_act, unit_returns, UnitEnds, send, sync_error, receive,
     bind_async, async_error, unit_thread_throws, ThreadThrows, signal,
     dispatcher_dies, peer_stalls, context_closed, vars, mainVars, envVars, threadVars

\* A message is received and an answer sent in two actions only.
LEMMA HistorySteps ==
  ASSUME [Next]_vars
  PROVE  \/ UNCHANGED <<handled, answers>>
         \/ send
         \/ \E m \in Messages : receive(m)
  BY DEF Next, MainStep, options, load_proc_unit, initialize_unit,
     configure_dispatcher, notify, notify_returns, sigaction, destroy, SyncStep,
     bind_sync, proc_act, unit_returns, UnitEnds, sync_error, SyncGivesUp, bind_async,
     async_error, unit_thread_throws, ThreadThrows, signal, dispatcher_dies,
     peer_stalls, context_closed, vars, syncVars, envVars, threadVars

\* How the sync thread moves without a message or an answer.
LEMMA SyncMoves ==
  ASSUME TypeOK, MutexInv, [Next]_vars, UNCHANGED <<handled, answers>>
  PROVE  \/ syncPc' = syncPc /\ (Alive' => Alive)
         \/ syncPc = "none" /\ syncPc' = "bind"
         \/ syncPc = "bind" /\ syncPc' = "recv"
         \/ syncPc' = "gone"
         \/ syncPc = "call" /\ syncPc' = "unit"
         \/ syncPc = "unit" /\ syncPc' = "send"
<1>1. CASE send
  <2>1. PICK r : answers' = Append(answers, r)
    BY <1>1 DEF send
  <2>2. answers \in Seq({"value", "error", "dropped"})
    BY DEF TypeOK
  <2>3. Len(answers') = Len(answers) + 1 /\ Len(answers) \in Nat
    BY <2>1, <2>2
  <2>4. QED
    BY <2>3
<1>2. ASSUME NEW m \in Messages, receive(m) PROVE FALSE
  <2>1. handled' = Append(handled, m) /\ handled \in Seq(Messages)
    BY <1>2 DEF receive, TypeOK
  <2>2. Len(handled') = Len(handled) + 1 /\ Len(handled) \in Nat
    BY <2>1
  <2>3. QED
    BY <2>2
<1>3. CASE MainStep
  BY <1>3 DEF MainStep, options, load_proc_unit, initialize_unit, configure_dispatcher,
     notify, notify_returns, sigaction, destroy, Alive, Running, syncVars, envVars,
     threadVars, MutexInv, NotLaunched
<1>4. CASE bind_sync \/ proc_act \/ unit_returns \/ sync_error
  BY <1>4 DEF bind_sync, proc_act, unit_returns, UnitEnds, sync_error, SyncGivesUp, Alive
<1>5. CASE \/ bind_async \/ async_error \/ unit_thread_throws \/ \E s \in Signals : signal(s)
           \/ dispatcher_dies \/ peer_stalls \/ context_closed
  BY <1>5 DEF bind_async, async_error, unit_thread_throws, ThreadThrows, signal,
     SyncGivesUp, dispatcher_dies, peer_stalls, context_closed, syncVars, envVars,
     threadVars, Alive, Running
<1>6. CASE UNCHANGED vars
  BY <1>6 DEF vars, syncVars, mainVars, envVars, threadVars, Alive
<1>7. QED
  BY <1>1, <1>2, <1>3, <1>4, <1>5, <1>6 DEF Next, SyncStep

\* Every step keeps count of the messages and their answers.
LEMMA CountStep == TypeOK /\ MutexInv /\ CountInv /\ [Next]_vars => CountInv'
<1> SUFFICES ASSUME TypeOK, MutexInv, CountInv, [Next]_vars PROVE CountInv'
  OBVIOUS
<1>0. /\ handled \in Seq(Messages) /\ answers \in Seq({"value", "error", "dropped"})
      /\ Len(handled) \in Nat /\ Len(answers) \in Nat
  BY DEF TypeOK
<1>1. CASE UNCHANGED <<handled, answers>>
  BY <1>0, <1>1, SyncMoves DEF CountInv, TypeOK
<1>2. CASE send
  <2>1. /\ syncPc = "send" /\ syncPc' = "recv" /\ UNCHANGED handled
        /\ \E r : answers' = Append(answers, r)
    BY <1>2 DEF send
  <2>2. Len(answers') = Len(answers) + 1
    BY <1>0, <2>1
  <2>3. QED
    BY <1>0, <2>1, <2>2 DEF CountInv
<1>3. ASSUME NEW m \in Messages, receive(m) PROVE CountInv'
  <2>1. /\ syncPc = "recv" /\ Alive /\ handled' = Append(handled, m) /\ UNCHANGED answers
        /\ syncPc' = "call" \/ (syncPc' = "recv" /\ ~Alive')
    BY <1>3 DEF receive, Running, Alive
  <2>2. Len(handled') = Len(handled) + 1
    BY <1>0, <2>1
  <2>3. QED
    BY <1>0, <2>1, <2>2 DEF CountInv
<1>4. QED
  BY <1>1, <1>2, <1>3, HistorySteps

\* A call of the dispatcher that is interrupted ends as an error of the unit.
LEMMA InterruptedIsError ==
  ASSUME NEW u \in Units, NEW m, AsksDispatcher(u, m)
  PROVE  "error" \in Outcomes(u, m) \ FatalOutcomes
<1>1. ~Asserts(u, m) /\ m.method = "known"
  BY DEF AsksDispatcher, AsksPeer, Transceivers, Asserts
<1>2. CASE m.action = "push"
  BY <1>1, <1>2 DEF AsksDispatcher, AsksPeer, Transceivers, Outcomes,
     push_outcomes, FatalOutcomes
<1>3. CASE m.action # "push"
  <2>1. u = "trx"
    BY <1>3 DEF AsksDispatcher, AsksPeer
  <2>2. Outcomes(u, m) = {"error", "value", "null", "abort"}
    BY <1>1, <1>3, <2>1 DEF Outcomes, trx_request
  <2>3. QED
    BY <2>2 DEF FatalOutcomes
<1>4. QED
  BY <1>2, <1>3

\* A response that is kept for sending is one to the message at hand.
LEMMA ResponseStep == TypeOK /\ ResponseInv /\ [Next]_vars => ResponseInv'
<1> SUFFICES ASSUME TypeOK, ResponseInv, [Next]_vars, syncPc' = "send"
             PROVE  rspns' \in Possible(current)'
  BY DEF ResponseInv
<1>1. UNCHANGED <<handled, unit>>
  BY HistorySteps, UnitFixed DEF send, receive
<1>2. Possible(current)' = Possible(current)
  BY <1>1 DEF Possible, current
<1>3. CASE unit_returns
  <2>1. PICK o \in Outcomes(unit, current) : o \notin FatalOutcomes /\ rspns' = response(o)
    BY <1>3 DEF unit_returns, UnitEnds
  <2>2. QED
    BY <1>2, <2>1 DEF Possible
<1>4. ASSUME NEW s \in Signals, signal(s), syncPc # "send" PROVE rspns' \in Possible(current)
  <2>1. AsksDispatcher(unit, current) /\ rspns' = response("error")
    BY <1>4 DEF signal, SyncGivesUp, syncVars, envVars, threadVars
  <2>2. QED
    BY <2>1, InterruptedIsError DEF Possible, TypeOK
<1>5. CASE syncPc = "send" /\ UNCHANGED rspns
  BY <1>2, <1>5 DEF ResponseInv
<1>6. ASSUME NEW s \in Signals, signal(s), syncPc = "send" PROVE UNCHANGED rspns
  BY <1>6 DEF signal, syncVars, envVars, threadVars
<1>7. QED
  BY <1>2, <1>3, <1>4, <1>5, <1>6 DEF Next, MainStep, options, load_proc_unit,
     initialize_unit, configure_dispatcher, notify, notify_returns, sigaction, destroy,
     SyncStep, bind_sync, SyncGivesUp, proc_act, send, sync_error, receive, bind_async,
     async_error, unit_thread_throws, ThreadThrows, dispatcher_dies, peer_stalls,
     context_closed, vars, syncVars, envVars, threadVars

\* Every step keeps the answers matched with their messages.
LEMMA AnswersStep ==
  ASSUME TypeOK, CountInv, CountInv', ResponseInv, AnswersMatchMessages, [Next]_vars
  PROVE  AnswersMatchMessages'
<1>0. /\ handled \in Seq(Messages) /\ answers \in Seq({"value", "error", "dropped"})
      /\ Len(handled) \in Nat /\ Len(answers) \in Nat /\ Len(answers) <= Len(handled)
  BY DEF TypeOK, CountInv
<1>1. UNCHANGED unit
  BY UnitFixed
<1>2. SUFFICES ASSUME NEW i \in 1..Len(answers')
               PROVE  answers'[i] \in {"dropped"} \union
                        {response(o) : o \in Outcomes(unit, handled'[i]) \ FatalOutcomes}
  BY <1>1 DEF AnswersMatchMessages, CountInv
<1>3. CASE UNCHANGED <<handled, answers>>
  BY <1>2, <1>3 DEF AnswersMatchMessages
<1>4. CASE send
  <2>1. PICK r \in {rspns, "dropped"} : answers' = Append(answers, r)
    BY <1>4 DEF send
  <2>2. UNCHANGED handled /\ syncPc = "send"
    BY <1>4 DEF send
  <2>3. CASE i \in 1..Len(answers)
    <3>1. answers'[i] = answers[i]
      BY <1>0, <2>1, <2>3
    <3>2. QED
      BY <2>2, <2>3, <3>1 DEF AnswersMatchMessages
  <2>4. CASE i \notin 1..Len(answers)
    <3>1. i = Len(answers) + 1 /\ answers'[i] = r
      BY <1>0, <1>2, <2>1, <2>4
    <3>2. i = Len(handled)
      BY <1>0, <2>2, <3>1 DEF CountInv
    <3>3. QED
      BY <2>1, <2>2, <3>1, <3>2 DEF ResponseInv, Possible, current
  <2>5. QED
    BY <2>3, <2>4
<1>5. ASSUME NEW m \in Messages, receive(m)
      PROVE  answers'[i] \in {"dropped"} \union
               {response(o) : o \in Outcomes(unit, handled'[i]) \ FatalOutcomes}
  <2>1. handled' = Append(handled, m) /\ UNCHANGED answers
    BY <1>5 DEF receive
  <2>2. handled'[i] = handled[i] /\ i \in 1..Len(answers)
    BY <1>0, <1>2, <2>1
  <2>3. QED
    BY <2>1, <2>2 DEF AnswersMatchMessages
<1>6. QED
  BY <1>3, <1>4, <1>5, HistorySteps

\* Decoding ends the process only for a message that is one to end it.
LEMMA DecodingCause ==
  ASSUME NEW m \in Messages, NEW u,
         \E a \in request(m) : a \in {"throw", "wait", "reply", "abort"}
  PROVE  Fatal(u, m)
<1>1. CASE m.form # "json"
  BY <1>1 DEF Fatal
<1>2. CASE m.form = "json"
  <2>1. m.action \in {"wait", "reply", "request", "push"}
    BY <1>2 DEF Messages, Message
  <2>2. request(m) = {m.action}
    BY <1>2, <2>1 DEF request, str_map
  <2>3. QED
    BY <2>1, <2>2 DEF Fatal
<1>3. QED
  BY <1>1, <1>2

\* Every step keeps the threads to a transceiver.
LEMMA ThreadsStep ==
  ASSUME ThreadsInv, [Next]_vars
  PROVE  ThreadsInv'
<1>0. IsTransceiver' <=> IsTransceiver
  BY UnitFixed DEF IsTransceiver
<1>1. ((unitThreads' => IsTransceiver) /\ (escaped' => IsTransceiver)) => ThreadsInv'
  BY <1>0 DEF ThreadsInv
<1>2. CASE UNCHANGED threadVars
  BY <1>1, <1>2 DEF threadVars, ThreadsInv
<1>3. CASE configure_dispatcher
  <2>1. unitThreads' => IsTransceiver
    <3>1. unitThreads' = IsTransceiver \/ unitThreads' = unitThreads
      BY <1>3, Zenon DEF configure_dispatcher
    <3>2. QED
      BY <3>1 DEF ThreadsInv
  <2>2. escaped' = escaped
    BY <1>3, Zenon DEF configure_dispatcher
  <2>3. QED
    BY <1>1, <2>1, <2>2 DEF ThreadsInv
<1>4. CASE unit_thread_throws \/ \E s \in Signals : signal(s)
  <2>1. UNCHANGED unitThreads /\ (escaped' = escaped \/ unitThreads)
    BY <1>4, Zenon DEF unit_thread_throws, signal, ThreadThrows
  <2>2. QED
    BY <1>1, <2>1 DEF ThreadsInv
<1>5. CASE MainStep /\ ~configure_dispatcher
  BY <1>2, <1>5 DEF MainStep, options, load_proc_unit, initialize_unit, notify,
     notify_returns, sigaction, destroy
<1>6. CASE SyncStep \/ sync_error \/ \E m \in Messages : receive(m)
  BY <1>2, <1>6 DEF SyncStep, bind_sync, proc_act, unit_returns, UnitEnds, send,
     sync_error, receive, mainVars
<1>7. CASE \/ bind_async \/ async_error \/ context_closed
           \/ dispatcher_dies \/ peer_stalls \/ UNCHANGED vars
  BY <1>2, <1>7 DEF bind_async, async_error, context_closed, dispatcher_dies,
     peer_stalls, vars, mainVars
<1>8. QED
  BY <1>3, <1>4, <1>5, <1>6, <1>7 DEF Next

\* An exception that left a thread of the unit stays noted.
LEMMA EscapedStays ==
  ASSUME [Next]_vars, escaped
  PROVE  escaped'
<1>1. ASSUME NEW s \in Signals, signal(s) PROVE escaped'
  BY <1>1, Zenon DEF signal, ThreadThrows
<1>2. CASE unit_thread_throws
  BY <1>2, Zenon DEF unit_thread_throws, ThreadThrows
<1>3. CASE MainStep
  BY <1>3 DEF MainStep, options, load_proc_unit, initialize_unit, configure_dispatcher,
     notify, notify_returns, sigaction, destroy, threadVars
<1>4. CASE SyncStep \/ sync_error \/ \E m \in Messages : receive(m)
  BY <1>4 DEF SyncStep, bind_sync, proc_act, unit_returns, UnitEnds, send, sync_error,
     receive, mainVars, threadVars
<1>5. CASE \/ bind_async \/ async_error \/ context_closed
           \/ dispatcher_dies \/ peer_stalls \/ UNCHANGED vars
  BY <1>5 DEF bind_async, async_error, context_closed, dispatcher_dies, peer_stalls,
     vars, mainVars, threadVars
<1>6. QED
  BY <1>1, <1>2, <1>3, <1>4, <1>5 DEF Next

\* Every step keeps the ends of the process to those with a cause.
LEMMA CauseStep ==
  ASSUME TypeOK, MutexInv, CountInv, ThreadsInv, ThreadsInv', EndsOnlyForCause,
         [Next]_vars
  PROVE  EndsOnlyForCause'
<1>0. /\ handled \in Seq(Messages) /\ Len(handled) \in Nat /\ Len(answers) \in Nat
  BY DEF TypeOK
<1>a. escaped' => EndsOnlyForCause'
  BY DEF EndsOnlyForCause, ThreadsInv
<1> SUFFICES ASSUME fate' \in {"terminated", "aborted"}, mainPc' # "destroy", ~escaped'
             PROVE  handled' # <<>> /\ Fatal(unit', current')
  BY <1>a DEF EndsOnlyForCause
<1>b. ~escaped
  BY EscapedStays
<1>1. CASE UNCHANGED <<fate, handled, unit, mainPc>>
  BY <1>b, <1>1 DEF EndsOnlyForCause, current
<1>2. ASSUME NEW m \in Messages, receive(m)
      PROVE  handled' # <<>> /\ Fatal(unit', current')
  <2>1. handled' = Append(handled, m) /\ UNCHANGED unit /\ fate = "running"
    BY <1>2 DEF receive, Running
  <2>2. handled' # <<>> /\ current' = m
    BY <1>0, <2>1 DEF current
  <2>3. \E a \in request(m) : a \in {"throw", "wait", "reply", "abort"}
    BY <1>2, <2>1 DEF receive
  <2>4. QED
    BY <1>2, <2>1, <2>2, <2>3, DecodingCause
<1>3. CASE unit_returns
  <2>1. UNCHANGED <<handled, unit>> /\ syncPc = "unit" /\ fate \in {"running", "exiting"}
    BY <1>3 DEF unit_returns, UnitEnds, Alive
  <2>2. Outcomes(unit, current) \intersect FatalOutcomes # {}
    BY <1>3, <2>1 DEF unit_returns, UnitEnds, FatalOutcomes
  <2>3. handled # <<>>
    BY <1>0, <2>1 DEF CountInv
  <2>4. QED
    BY <2>1, <2>2, <2>3 DEF Fatal, current
<1>4. CASE MainStep
  BY <1>1, <1>4 DEF MainStep, options, load_proc_unit, initialize_unit,
     configure_dispatcher, notify, notify_returns, sigaction, destroy, exit, Running,
     Alive, EndsOnlyForCause, syncVars
<1>5. CASE \/ bind_sync \/ proc_act \/ send \/ sync_error
           \/ bind_async \/ async_error
           \/ dispatcher_dies \/ peer_stalls \/ context_closed \/ UNCHANGED vars
  BY <1>1, <1>5 DEF bind_sync, proc_act, send, sync_error, SyncGivesUp, exit, Running,
     Alive, bind_async, async_error, dispatcher_dies, peer_stalls, context_closed, vars,
     syncVars, mainVars
<1>6. CASE unit_thread_throws
  BY <1>6, Zenon DEF unit_thread_throws, ThreadThrows
<1>7. ASSUME NEW s \in Signals, signal(s)
      PROVE  handled' # <<>> /\ Fatal(unit', current')
  <2>1. ~ThreadThrows
    BY Zenon DEF ThreadThrows
  <2>2. fate' \notin {"terminated", "aborted"} \/ UNCHANGED <<fate, handled, unit, mainPc>>
    BY <1>7, <2>1 DEF signal, SyncGivesUp, exit, Running, Alive, syncVars
  <2>3. QED
    BY <1>1, <2>2
<1>8. QED
  BY <1>2, <1>3, <1>4, <1>5, <1>6, <1>7 DEF Next, SyncStep

----------------------------------------------------------------------------

\* The invariant of the process, for any number of messages and signals.
THEOREM MainInvariant == Spec => []MainInv
<1>1. Init => MainInv
  <2> SUFFICES ASSUME Init PROVE MainInv
    OBVIOUS
  <2>1. TypeOK
    <3>1. FlagType
      BY Zenon DEF Init, FlagType
    <3>2. signals \in 0..MaxSignals /\ handled \in Seq(Messages)
          /\ answers \in Seq({"value", "error", "dropped"})
      BY MainAssumption DEF Init, SyncInit
    <3>3. ControlType
      BY <3>2 DEF Init, SyncInit, ControlType
    <3>4. QED
      BY <3>1, <3>3, Zenon DEF TypeOK, ControlType, FlagType
  <2>2. MutexInv /\ CallsSeeLoadedUnit /\ ResponseInv
    BY DEF Init, SyncInit, MutexInv, CallsSeeLoadedUnit, ResponseInv, NotLaunched, Loading
  <2>3. CountInv /\ AnswersMatchMessages /\ EndsOnlyForCause
    BY DEF Init, SyncInit, CountInv, AnswersMatchMessages, EndsOnlyForCause
  <2>4. ThreadsInv
    BY Zenon DEF Init, ThreadsInv
  <2>5. QED
    BY <2>1, <2>2, <2>3, <2>4 DEF MainInv
<1>2. MainInv /\ [Next]_vars => MainInv'
  BY TypeStep, MutexStep, CountStep, ResponseStep, AnswersStep, ThreadsStep,
     CauseStep DEF MainInv
<1>3. QED
  BY <1>1, <1>2, PTL DEF Spec

\* The control points, sockets and ends of the process keep their types.
THEOREM MainTypeCorrect == Spec => []TypeOK
<1>1. MainInv => TypeOK
  BY DEF MainInv
<1>2. QED
  BY <1>1, MainInvariant, PTL

\* No call reaches the unit before load_proc_unit has returned, although the sync
\* thread receives messages from its bind on.
THEOREM CallsSeeLoadedUnitHolds == Spec => []CallsSeeLoadedUnit
<1>1. MainInv => CallsSeeLoadedUnit
  BY DEF MainInv
<1>2. QED
  BY <1>1, MainInvariant, PTL

\* The n-th answer is one to the n-th message, for any number of messages,
\* exceptions, dropped responses and interrupted calls.
THEOREM AnswersMatchMessagesHolds == Spec => []AnswersMatchMessages
<1>1. MainInv => AnswersMatchMessages
  BY DEF MainInv
<1>2. QED
  BY <1>1, MainInvariant, PTL

\* The process is terminated or aborted while it serves only by the message at hand
\* or, with a transceiver, by an exception that left a thread of the unit.
THEOREM EndsOnlyForCauseHolds == Spec => []EndsOnlyForCause
<1>1. MainInv => EndsOnlyForCause
  BY DEF MainInv
<1>2. QED
  BY <1>1, MainInvariant, PTL

=============================================================================
