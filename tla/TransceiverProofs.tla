------------------------- MODULE TransceiverProofs -------------------------
(***************************************************************************)
(* Proofs about Transceiver for any senders, any number of symbols and any *)
(* set of faults. Two things are inductive whatever happens: the flags and *)
(* the notification (FlagInv). The rest is the handshake: as long as no    *)
(* sender has left, the request thread, the sender in session, the         *)
(* dispatcher and the async thread go through one exchange step by step.   *)
(***************************************************************************)
EXTENDS Transceiver, SequenceTheorems, TLAPS

\* A measurement belongs to a reception, and configure_node to none.
FlagInv ==
  /\ hasReceived => isReceiving
  /\ reqPc = "configure" => ~isReceiving

\* The unit is unloaded after the async thread has stopped, and the request
\* thread stops listening after that.
UnloadInv ==
  /\ unloadPc = "loaded" <=> asyncPc # "stopped"
  /\ reqPc = "ended" => unloadPc # "loaded"

\* A session is served at these control points only.
SessionInv == session = NoConn <=> reqPc \in {"start", "accept", "ended"}

\* The loop of transmit: a connection is opened only for a symbol that is left.
LoopInv ==
  \A s \in Senders :
    /\ txPc[s] = "open" => left[s] > 0
    /\ Exchanging(s) => cur[s] > 0

Calm == "leave" \notin faulted

\* What is there of a reception, and of its measurement.
Quiet == ~isReceiving /\ ~hasReceived /\ rx = <<>>
Begun == isReceiving /\ ~hasReceived /\ rx = <<>>
Buffered(c) == \E i \in 1..Len(out) : out[i] = c
Measuring(c) ==
  /\ isReceiving
  /\ \/ ~hasReceived /\ rx \in {<<>>, <<c>>}
     \/ hasReceived /\ rx = <<>> /\ Buffered(c)

\* The exchange of the sender in session, from the first request to the end of
\* the session.
Exchange(s) ==
  \/ /\ txPc[s] = "opening" /\ ~answer[s] /\ Quiet
     /\ \/ reqPc = "read" /\ wire[s]
        \/ reqPc = "configure" /\ ~wire[s]
  \/ /\ txPc[s] = "opening" /\ ~wire[s] /\ Begun
     /\ \/ reqPc = "reply" /\ ~answer[s]
        \/ reqPc = "read" /\ answer[s]
  \/ /\ txPc[s] = "call" /\ ~wire[s] /\ ~answer[s] /\ Begun
     /\ reqPc = "read"
  \/ /\ txPc[s] = "await_reply" /\ ~wire[s] /\ ~answer[s]
     /\ reqPc = "read" /\ Measuring(<<s, cur[s]>>)
  \/ /\ txPc[s] = "closing" /\ ~answer[s] /\ Measuring(<<s, cur[s]>>)
     /\ \/ reqPc = "read" /\ wire[s]
        \/ reqPc \in {"wait", "woken"} /\ ~wire[s]
  \/ /\ txPc[s] = "closing" /\ ~wire[s] /\ Quiet /\ Buffered(<<s, cur[s]>>)
     /\ \/ reqPc = "reply" /\ ~answer[s]
        \/ reqPc = "read" /\ answer[s]
  \/ ~Exchanging(s) /\ ~wire[s] /\ ~answer[s] /\ Quiet /\ reqPc = "read"

\* The sender's connection is not accepted yet.
Pending(s) == txPc[s] = "opening" /\ wire[s] /\ ~answer[s]

\* While the receiver listens and nobody has left: who is in session is at one
\* of the points of an exchange; without a session, or in one whose sender has
\* gone on to its next connection, nothing is going on.
HandshakeInv ==
  Alive /\ Calm /\ reqPc # "ended" =>
    /\ session = NoConn => Quiet
    /\ \A s \in Senders :
         IF session = <<s, cur[s]>> THEN Exchange(s)
         ELSE Exchanging(s) => Pending(s)
    /\ \A s \in Senders, k \in Nat :
         session = <<s, k>> /\ k # cur[s] =>
           k < cur[s] /\ Quiet /\ reqPc = "read"

\* Connections wait once each, for a sender that waits for its first response.
BacklogInv ==
  Alive /\ Calm /\ reqPc # "ended" =>
    /\ reqPc = "start" => backlog = <<>>
    /\ \A i \in 1..Len(backlog), s \in Senders : backlog[i][1] = s =>
         /\ backlog[i] = <<s, cur[s]>> /\ backlog[i] # session
         /\ Pending(s)
         /\ \A j \in 1..Len(backlog) : backlog[j] = backlog[i] => j = i

\* A response that is there to be read, also one of a receiver that is gone.
AnswerInv ==
  \A s \in Senders : answer[s] =>
    /\ txPc[s] \in {"opening", "closing"} \/ ~Calm
    /\ txPc[s] = "closing" /\ Calm => Buffered(<<s, cur[s]>>)

TransceiverInv ==
  /\ TypeOK
  /\ FlagInv
  /\ UnloadInv
  /\ SessionInv
  /\ LoopInv
  /\ HandshakeInv
  /\ BacklogInv
  /\ AnswerInv
  /\ NoLostWakeup
  /\ UnreachableOnlyAfterLeave
  /\ AckedIsBuffered

----------------------------------------------------------------------------

\* The parts of a connection.
LEMMA ConnParts ==
  ASSUME NEW c \in Conns
  PROVE  /\ c[1] \in Senders /\ c[2] \in 1..MaxSymbols /\ c[2] \in Nat
         /\ c = <<c[1], c[2]>>
  BY TransceiverAssumption DEF Conns

\* No session is not one of the connections there are.
LEMMA NoConnIsNone == NoConn \notin Conns
  BY TransceiverAssumption DEF Conns

\* The connection a sender has open is one of those there are.
LEMMA CurrentConn ==
  ASSUME TypeOK, LoopInv, NEW s \in Senders, Exchanging(s)
  PROVE  <<s, cur[s]>> \in Conns
<1>1. cur[s] \in Nat /\ left[s] \in Nat /\ cur[s] + left[s] <= MaxSymbols
  BY DEF TypeOK
<1>2. cur[s] > 0
  BY DEF LoopInv
<1>3. cur[s] \in 1..MaxSymbols
  BY <1>1, <1>2, TransceiverAssumption
<1>4. QED
  BY <1>3 DEF Conns

\* Steps of the request thread keep the types.
LEMMA RequestTypeStep ==
  ASSUME TypeOK, RequestStep
  PROVE  TypeOK'
<1>1. CASE work \/ stop_listening \/ end_session
  BY <1>1 DEF TypeOK, work, stop_listening, end_session, senderVars
<1>2. CASE accept
  <2>1. Head(backlog) \in Conns /\ Tail(backlog) \in Seq(Conns)
    BY <1>2, HeadTailProperties DEF accept, TypeOK
  <2>2. QED
    BY <1>2, <2>1 DEF TypeOK, accept, senderVars
<1>3. CASE process
  BY <1>3 DEF TypeOK, process, EndReception, BeginReception
<1>4. CASE configure_node
  BY <1>4 DEF TypeOK, configure_node, BeginReception, senderVars
<1>5. CASE recheck
  BY <1>5 DEF TypeOK, recheck, EndReception, senderVars
<1>6. CASE write_response
  BY <1>6 DEF TypeOK, write_response
<1>7. QED
  BY <1>1, <1>2, <1>3, <1>4, <1>5, <1>6 DEF RequestStep

\* Steps of the async thread, wakeups and the end of the unit keep the types.
LEMMA UnitTypeStep ==
  ASSUME TypeOK, spurious_wakeup \/ AsyncStep \/ unload \/ join_request_thread
  PROVE  TypeOK'
<1>1. CASE spurious_wakeup \/ notify_all \/ join_request_thread
  BY <1>1 DEF TypeOK, spurious_wakeup, notify_all, join_request_thread, senderVars
<1>2. CASE async_work
  <2>1. Head(rx) \in Conns /\ Tail(rx) \in Seq(Conns)
    BY <1>2, HeadTailProperties DEF async_work, TypeOK
  <2>2. Append(out, Head(rx)) \in Seq(Conns)
    BY <2>1 DEF TypeOK
  <2>3. QED
    BY <1>2, <2>1, <2>2 DEF TypeOK, async_work, senderVars
<1>3. CASE unload
  BY <1>3 DEF TypeOK, unload, senderVars, AllFaults
<1>4. QED
  BY <1>1, <1>2, <1>3 DEF AsyncStep

\* The types of what belongs to the receiver, to the loop of transmit, and to the
\* rest of the senders.
ReceiverTypes ==
  /\ kind \in {"trx", "bobwire"}
  /\ isReceiving \in BOOLEAN
  /\ hasReceived \in BOOLEAN
  /\ reqPc \in {"start", "accept", "read", "configure", "wait", "woken", "reply",
                "ended"}
  /\ session \in Conns \union {NoConn}
  /\ asyncPc \in {"recv", "notify", "stopped"}
  /\ out \in Seq(Conns)
  /\ unloadPc \in {"loaded", "joining", "unloaded"}
  /\ fate \in {"alive", "unreachable", "throw", "undefined"}

LoopTypes ==
  /\ cur \in [Senders -> Nat] /\ left \in [Senders -> Nat]
  /\ \A s \in Senders : cur[s] + left[s] <= MaxSymbols

TxTypes ==
  /\ txPc \in [Senders -> {"idle", "open", "opening", "call", "await_reply",
                           "closing", "crashed"}]
  /\ wire \in [Senders -> BOOLEAN]
  /\ answer \in [Senders -> BOOLEAN]
  /\ reply \in [Senders -> {"none", "ok", "error"}]
  /\ efsm \in [Senders -> BOOLEAN]

NetTypes ==
  /\ backlog \in Seq(Conns)
  /\ rx \in Seq(Conns)
  /\ acked \subseteq Conns
  /\ faulted \subseteq AllFaults

\* TypeOK in four parts.
LEMMA TypeParts == TypeOK <=> ReceiverTypes /\ LoopTypes /\ TxTypes /\ NetTypes
  BY DEF TypeOK, ReceiverTypes, LoopTypes, TxTypes, NetTypes

\* The types of a receiver that does not move.
LEMMA ReceiverFrame ==
  ASSUME ReceiverTypes, UNCHANGED receiverVars
  PROVE  ReceiverTypes'
  BY DEF ReceiverTypes, receiverVars

\* Steps of a sender keep the counters of its loop.
LEMMA LoopTypeStep ==
  ASSUME LoopTypes, LoopInv, NEW s \in Senders,
         SenderStep(s) \/ leave(s) \/ \E n \in 1..MaxSymbols : transmit(s, n)
  PROVE  LoopTypes'
<1> USE TransceiverAssumption DEF LoopTypes
<1>1. CASE open_connection(s)
  <2>1. left[s] > 0
    BY <1>1 DEF LoopInv, open_connection
  <2>2. CASE Listening
    <3>1. cur' = [cur EXCEPT ![s] = @ + 1] /\ left' = [left EXCEPT ![s] = @ - 1]
      BY <1>1, <2>2 DEF open_connection
    <3>2. QED
      BY <2>1, <3>1
  <2>3. CASE ~Listening
    <3>1. cur' = cur /\ left' = [left EXCEPT ![s] = 0]
      BY <1>1, <2>3 DEF open_connection
    <3>2. QED
      BY <3>1
  <2>4. QED
    BY <2>2, <2>3
<1>2. CASE cur' = cur /\ left' \in {left, [left EXCEPT ![s] = 0]}
  BY <1>2
<1>3. CASE \E n \in 1..MaxSymbols : transmit(s, n)
  <2>1. PICK n \in 1..MaxSymbols : transmit(s, n)
    BY <1>3
  <2>2. PICK b \in Budgets : cur[s] + n <= b[s]
    BY <2>1 DEF transmit, WithinBudget
  <2>3. b[s] \in 0..MaxSymbols
    BY <2>2
  <2>4. cur[s] + n <= MaxSymbols
    BY <2>2, <2>3
  <2>5. cur' = cur /\ left' = [left EXCEPT ![s] = n]
    BY <2>1 DEF transmit
  <2>6. QED
    BY <2>4, <2>5
<1>4. CASE read_close(s)
  <2>1. cur' = cur /\ left' = [left EXCEPT ![s] = IF reply[s] = "ok" THEN left[s] ELSE 0]
    BY <1>4 DEF read_close
  <2>2. QED
    BY <2>1
<1>5. QED
  BY <1>1, <1>2, <1>3, <1>4
     DEF SenderStep, read_open, call_dispatcher, close_connection, connection_lost,
         leave, Unwind

\* Steps of a sender keep the types of the rest of its state.
LEMMA TxTypeStep ==
  ASSUME TxTypes, NEW s \in Senders,
         SenderStep(s) \/ leave(s) \/ \E n \in 1..MaxSymbols : transmit(s, n)
  PROVE  TxTypes'
<1> USE DEF TxTypes
<1>1. CASE open_connection(s)
  BY <1>1 DEF open_connection
<1>2. CASE read_open(s)
  BY <1>2 DEF read_open
<1>3. CASE call_dispatcher(s)
  BY <1>3 DEF call_dispatcher
<1>4. CASE close_connection(s)
  BY <1>4 DEF close_connection
<1>5. CASE read_close(s)
  BY <1>5 DEF read_close
<1>6. CASE connection_lost(s)
  BY <1>6 DEF connection_lost, Unwind
<1>7. CASE leave(s)
  <2>1. wire' \in [Senders -> BOOLEAN] /\ efsm' \in [Senders -> BOOLEAN]
    BY <1>7 DEF leave
  <2>2. QED
    BY <1>7, <2>1 DEF leave, Unwind
<1>8. CASE \E n \in 1..MaxSymbols : transmit(s, n)
  BY <1>8 DEF transmit
<1>9. QED
  BY <1>1, <1>2, <1>3, <1>4, <1>5, <1>6, <1>7, <1>8 DEF SenderStep

\* Connections that wait, measurements and histories are about connections.
LEMMA NetTypeStep ==
  ASSUME TypeOK, LoopInv, NEW s \in Senders,
         SenderStep(s) \/ leave(s) \/ \E n \in 1..MaxSymbols : transmit(s, n)
  PROVE  NetTypes'
<1>0. NetTypes
  BY TypeParts
<1>1. CASE open_connection(s)
  <2>1. CASE Listening
    <3>1. cur[s] \in Nat /\ left[s] \in Nat /\ cur[s] + left[s] <= MaxSymbols /\ left[s] > 0
      BY <1>1 DEF TypeOK, LoopInv, open_connection
    <3>2. <<s, cur[s] + 1>> \in Conns
      BY <3>1, TransceiverAssumption DEF Conns
    <3>3. Append(backlog, <<s, cur[s] + 1>>) \in Seq(Conns)
      BY <1>0, <3>2 DEF NetTypes
    <3>4. QED
      BY <1>0, <1>1, <2>1, <3>3 DEF NetTypes, open_connection
  <2>2. CASE ~Listening
    BY <1>0, <1>1, <2>2 DEF NetTypes, open_connection
  <2>3. QED
    BY <2>1, <2>2
<1>2. CASE call_dispatcher(s)
  <2>1. <<s, cur[s]>> \in Conns
    BY <1>2, CurrentConn DEF call_dispatcher, Exchanging
  <2>2. Append(rx, <<s, cur[s]>>) \in Seq(Conns)
    BY <1>0, <2>1 DEF NetTypes
  <2>3. QED
    BY <1>0, <1>2, <2>2 DEF NetTypes, call_dispatcher, AllFaults
<1>3. CASE read_close(s)
  <2>1. <<s, cur[s]>> \in Conns
    BY <1>3, CurrentConn DEF read_close, Exchanging
  <2>2. QED
    BY <1>0, <1>3, <2>1 DEF NetTypes, read_close
<1>4. CASE leave(s)
  BY <1>0, <1>4 DEF NetTypes, leave, AllFaults
<1>5. CASE UNCHANGED <<backlog, rx, acked, faulted>>
  BY <1>0, <1>5 DEF NetTypes
<1>6. QED
  BY <1>1, <1>2, <1>3, <1>4, <1>5
     DEF SenderStep, read_open, close_connection, connection_lost, transmit

\* Every step keeps the types.
LEMMA TypeStep == TypeOK /\ LoopInv /\ [Next]_vars => TypeOK'
<1> SUFFICES ASSUME TypeOK, LoopInv, [Next]_vars PROVE TypeOK'
  OBVIOUS
<1>1. CASE RequestStep
  BY <1>1, RequestTypeStep
<1>2. CASE spurious_wakeup \/ AsyncStep \/ unload \/ join_request_thread
  BY <1>2, UnitTypeStep
<1>3. ASSUME NEW s \in Senders,
             SenderStep(s) \/ leave(s) \/ \E n \in 1..MaxSymbols : transmit(s, n)
      PROVE  TypeOK'
  <2>1. LoopTypes' /\ TxTypes' /\ NetTypes'
    BY <1>3, TypeParts, LoopTypeStep, TxTypeStep, NetTypeStep
  <2>2. UNCHANGED receiverVars
    BY <1>3 DEF SenderStep, open_connection, read_open, call_dispatcher,
       close_connection, read_close, connection_lost, leave, transmit
  <2>3. ReceiverTypes'
    BY <2>2, TypeParts, ReceiverFrame
  <2>4. TypeOK'
    BY <2>1, <2>3 DEF TypeOK, ReceiverTypes, LoopTypes, TxTypes, NetTypes
  <2>5. QED
    BY <2>4
<1>4. CASE UNCHANGED vars
  BY <1>4 DEF TypeOK, vars, receiverVars, senderVars
<1>5. QED
  BY <1>1, <1>2, <1>3, <1>4 DEF Next

\* A step of a sender leaves the receiver alone.
LEMMA SenderFrame ==
  ASSUME NEW s \in Senders,
         SenderStep(s) \/ leave(s) \/ \E n \in 1..MaxSymbols : transmit(s, n)
  PROVE  UNCHANGED receiverVars
  BY DEF SenderStep, open_connection, read_open, call_dispatcher, close_connection,
     read_close, connection_lost, leave, transmit

\* The four facts about the receiver's own state, whatever the senders do.
ReceiverInv == FlagInv /\ UnloadInv /\ SessionInv /\ NoLostWakeup

\* Every step keeps the facts about the flags, the sessions and the wakeup.
LEMMA ReceiverStep == TypeOK /\ ReceiverInv /\ [Next]_vars => ReceiverInv'
<1> SUFFICES ASSUME TypeOK, ReceiverInv, [Next]_vars PROVE ReceiverInv'
  OBVIOUS
<1> USE DEF ReceiverInv, FlagInv, UnloadInv, SessionInv, NoLostWakeup, Alive
<1>0. /\ isReceiving \in BOOLEAN /\ hasReceived \in BOOLEAN
      /\ asyncPc \in {"recv", "notify", "stopped"}
  BY DEF TypeOK
<1>1. CASE work \/ stop_listening \/ end_session \/ write_response
  BY <1>1 DEF work, stop_listening, end_session, write_response
<1>2. CASE accept
  <2>1. Head(backlog) \in Conns
    BY <1>2, HeadTailProperties DEF accept, TypeOK
  <2>2. QED
    BY <1>2, <2>1, NoConnIsNone DEF accept
<1>3. CASE process
  BY <1>0, <1>3 DEF process, EndReception, BeginReception
<1>4. CASE configure_node
  BY <1>0, <1>4 DEF configure_node, BeginReception
<1>5. CASE recheck
  BY <1>0, <1>5 DEF recheck, EndReception
<1>6. CASE spurious_wakeup \/ unload \/ join_request_thread
  BY <1>0, <1>6 DEF spurious_wakeup, unload, join_request_thread
<1>7. CASE async_work
  BY <1>0, <1>7 DEF async_work
<1>8. CASE notify_all
  BY <1>0, <1>8 DEF notify_all
<1>9. CASE UNCHANGED receiverVars
  BY <1>9 DEF receiverVars
<1>10. CASE UNCHANGED vars
  BY <1>9, <1>10 DEF vars
<1>11. QED
  BY <1>1, <1>2, <1>3, <1>4, <1>5, <1>6, <1>7, <1>8, <1>9, <1>10, SenderFrame
     DEF Next, RequestStep, AsyncStep

\* A connection is opened only for a symbol that is left.
LEMMA LoopStep == TypeOK /\ LoopInv /\ [Next]_vars => LoopInv'
<1> SUFFICES ASSUME TypeOK, LoopInv, [Next]_vars PROVE LoopInv'
  OBVIOUS
<1>0. TxTypes /\ LoopTypes
  BY TypeParts
<1>1. ASSUME NEW s \in Senders, SenderStep(s) \/ leave(s) PROVE LoopInv'
  <2> USE <1>0 DEF TxTypes, LoopTypes, LoopInv, Exchanging
  <2>1. CASE open_connection(s)
    <3>1. CASE Listening
      <4>1. /\ txPc' = [txPc EXCEPT ![s] = "opening"]
            /\ cur' = [cur EXCEPT ![s] = @ + 1]
            /\ left' = [left EXCEPT ![s] = @ - 1]
        BY <2>1, <3>1 DEF open_connection
      <4>2. QED
        BY <4>1
    <3>2. CASE ~Listening
      <4>1. /\ txPc' = [txPc EXCEPT ![s] = "idle"]
            /\ left' = [left EXCEPT ![s] = 0]
            /\ UNCHANGED cur
        BY <2>1, <3>2 DEF open_connection
      <4>2. QED
        BY <4>1
    <3>3. QED
      BY <3>1, <3>2
  <2>2. CASE read_open(s)
    BY <2>2 DEF read_open
  <2>3. CASE call_dispatcher(s)
    BY <2>3 DEF call_dispatcher
  <2>4. CASE close_connection(s)
    BY <2>4 DEF close_connection
  <2>5. CASE read_close(s)
    BY <2>5 DEF read_close
  <2>6. CASE connection_lost(s) \/ leave(s)
    <3>1. /\ txPc' \in {[txPc EXCEPT ![s] = "idle"], [txPc EXCEPT ![s] = "crashed"]}
          /\ left' = [left EXCEPT ![s] = 0]
          /\ UNCHANGED cur
      BY <2>6 DEF connection_lost, leave, Unwind
    <3>2. QED
      BY <3>1
  <2>7. QED
    BY <1>1, <2>1, <2>2, <2>3, <2>4, <2>5, <2>6 DEF SenderStep
<1>2. ASSUME NEW s \in Senders, NEW n \in 1..MaxSymbols, transmit(s, n) PROVE LoopInv'
  BY <1>0, <1>2, TransceiverAssumption
     DEF TxTypes, LoopTypes, LoopInv, Exchanging, transmit
<1>3. CASE UNCHANGED <<txPc, left, cur>>
  BY <1>3 DEF LoopInv, Exchanging
<1>4. QED
  BY <1>1, <1>2, <1>3
     DEF Next, vars, senderVars, RequestStep, AsyncStep, work, accept, stop_listening,
         process, configure_node, recheck, write_response, end_session,
         spurious_wakeup, async_work, notify_all, unload, join_request_thread

----------------------------------------------------------------------------
(* The handshake.                                                          *)

\* A connection that is served is one of a sender.
LEMMA Served ==
  ASSUME TypeOK, SessionInv, reqPc \notin {"start", "accept", "ended"}
  PROVE  /\ session \in Conns
         /\ session[1] \in Senders /\ session[2] \in Nat
         /\ session = <<session[1], session[2]>>
<1>1. session \in Conns
  BY DEF TypeOK, SessionInv
<1>2. QED
  BY <1>1, ConnParts

\* What was put into the buffer stays there.
LEMMA BufferedStays ==
  ASSUME NEW c, NEW m \in Conns, out \in Seq(Conns),
         out' \in {out, Append(out, m)}, Buffered(c)
  PROVE  Buffered(c)'
<1>1. CASE out' = out
  BY <1>1 DEF Buffered
<1>2. CASE out' = Append(out, m)
  <2>1. PICK i \in 1..Len(out) : out[i] = c
    BY DEF Buffered
  <2>2. i \in 1..Len(out') /\ out'[i] = c
    BY <1>2, <2>1
  <2>3. QED
    BY <2>2 DEF Buffered
<1>3. QED
  BY <1>1, <1>2

\* A measurement that is taken from the dispatcher is in the buffer.
LEMMA BufferedNow ==
  ASSUME NEW c \in Conns, out \in Seq(Conns), out' = Append(out, c)
  PROVE  Buffered(c)'
<1>1. Len(out') \in 1..Len(out') /\ out'[Len(out')] = c
  OBVIOUS
<1>2. QED
  BY <1>1 DEF Buffered

\* The state of the handshake between two exchanges.
LEMMA NoSessionQuiet ==
  ASSUME HandshakeInv, Alive, Calm, reqPc # "ended", session = NoConn
  PROVE  Quiet
  BY DEF HandshakeInv

\* The request thread is at one of the points of an exchange, or the sender has
\* gone on.
LEMMA SessionExchange ==
  ASSUME TypeOK, SessionInv, HandshakeInv, Alive, Calm,
         reqPc \notin {"start", "accept", "ended"}
  PROVE  /\ session[2] = cur[session[1]] => Exchange(session[1])
         /\ session[2] # cur[session[1]] =>
              session[2] < cur[session[1]] /\ Quiet /\ reqPc = "read"
<1>1. /\ session[1] \in Senders /\ session[2] \in Nat
      /\ session = <<session[1], session[2]>>
  BY Served
<1>2. QED
  BY <1>1 DEF HandshakeInv

\* Who is not in session has not got beyond its first request.
LEMMA OthersPending ==
  ASSUME HandshakeInv, Alive, Calm, reqPc # "ended",
         NEW s \in Senders, session # <<s, cur[s]>>, Exchanging(s)
  PROVE  Pending(s)
  BY DEF HandshakeInv

\* The sender at a point of its exchange is the one in session.
LEMMA InSession ==
  ASSUME HandshakeInv, Alive, Calm, reqPc # "ended",
         NEW s \in Senders, Exchanging(s), ~Pending(s)
  PROVE  session = <<s, cur[s]>> /\ Exchange(s)
  BY DEF HandshakeInv

\* A step that touches the exchange of the sender in session only, and keeps it
\* at one of its points, keeps the handshake.
LEMMA SessionFrame ==
  ASSUME TypeOK, SessionInv, HandshakeInv, Alive, Calm,
         reqPc \notin {"start", "accept", "ended"},
         session[2] = cur[session[1]],
         UNCHANGED <<session, cur>>,
         NEW a, a = session[1], Exchange(a)',
         \A t \in Senders \ {a} : /\ (Exchanging(t) <=> Exchanging(t)')
                                   /\ (Pending(t) => Pending(t)')
  PROVE  HandshakeInv'
<1>1. /\ a \in Senders /\ session[2] \in Nat /\ session = <<a, session[2]>>
      /\ session # NoConn
  BY Served, NoConnIsNone
<1>2. session = <<a, cur[a]>>
  BY <1>1
<1>3. ASSUME NEW s \in Senders, s # a PROVE session # <<s, cur[s]>>
  BY <1>1, <1>3
<1>4. ASSUME NEW s \in Senders, s # a, Exchanging(s)' PROVE Pending(s)'
  <2>1. Exchanging(s)
    BY <1>4
  <2>2. Pending(s)
    BY <1>3, <1>4, <2>1, OthersPending
  <2>3. QED
    BY <1>4, <2>2
<1>5. ASSUME NEW s \in Senders
      PROVE  IF session' = <<s, cur'[s]>> THEN Exchange(s)'
             ELSE Exchanging(s)' => Pending(s)'
  BY <1>2, <1>3, <1>4
<1>6. ASSUME NEW s \in Senders, NEW k \in Nat, session' = <<s, k>> PROVE k = cur'[s]
  BY <1>2, <1>6
<1>7. QED
  BY <1>1, <1>5, <1>6 DEF HandshakeInv

\* What the steps of the handshake may rely on.
HandshakeContext ==
  TypeOK /\ ReceiverInv /\ LoopInv /\ HandshakeInv /\ BacklogInv /\ AnswerInv

\* The steps of the request thread inside a session.
LEMMA ServingStep ==
  ASSUME HandshakeContext, Calm,
         process \/ configure_node \/ recheck \/ write_response \/ spurious_wakeup,
         Alive'
  PROVE  HandshakeInv'
<1> DEFINE a == session[1]
<1>0. /\ TypeOK /\ SessionInv /\ HandshakeInv /\ FlagInv
  BY DEF HandshakeContext, ReceiverInv
<1>1. Alive /\ reqPc \notin {"start", "accept", "ended"} /\ UNCHANGED cur
  BY DEF process, configure_node, recheck, write_response, spurious_wakeup,
     senderVars
<1>2. a \in Senders /\ session[2] \in Nat
  BY <1>0, <1>1, Served
<1>3. session[2] = cur[a]
  <2>1. CASE process
    BY <2>1 DEF process, Readable
  <2>2. CASE reqPc # "read"
    BY <1>0, <1>1, <2>2, SessionExchange
  <2>3. QED
    BY <2>1, <2>2 DEF configure_node, recheck, write_response, spurious_wakeup
<1>4. Exchange(a)
  BY <1>0, <1>1, <1>3, SessionExchange
<1>5. /\ isReceiving \in BOOLEAN /\ hasReceived \in BOOLEAN
      /\ wire \in [Senders -> BOOLEAN] /\ answer \in [Senders -> BOOLEAN]
  BY <1>0 DEF TypeOK
<1> USE DEF Exchange, Exchanging, Quiet, Begun, Measuring, Buffered
<1>6. CASE process
  <2>1. /\ wire' = [wire EXCEPT ![a] = FALSE]
        /\ UNCHANGED <<session, txPc, cur, answer, rx, out>>
    BY <1>6 DEF process
  <2>2. \A t \in Senders \ {a} : Exchanging(t)' = Exchanging(t) /\ Pending(t)' = Pending(t)
    BY <1>2, <1>5, <2>1 DEF Pending
  <2>3. wire[a] /\ reqPc = "read"
    BY <1>3, <1>6 DEF process, Readable
  <2>4. Exchange(a)'
    BY <1>2, <1>4, <1>5, <1>6, <2>1, <2>3 DEF process, EndReception, BeginReception
  <2>5. QED
    BY <1>0, <1>1, <1>3, <2>1, <2>2, <2>4, SessionFrame
<1>7. CASE write_response
  <2>1. Connected(session)
    BY <1>3, <1>4, <1>7 DEF write_response, Connected
  <2>2. /\ answer' = [answer EXCEPT ![a] = TRUE] /\ reqPc' = "read"
        /\ UNCHANGED <<session, txPc, cur, wire, rx, out, isReceiving, hasReceived>>
    BY <1>7, <2>1 DEF write_response
  <2>3. \A t \in Senders \ {a} : Exchanging(t)' = Exchanging(t) /\ Pending(t)' = Pending(t)
    BY <1>2, <1>5, <2>2 DEF Pending
  <2>4. Exchange(a)'
    BY <1>2, <1>4, <1>5, <1>7, <2>2 DEF write_response
  <2>5. QED
    BY <1>0, <1>1, <1>3, <2>2, <2>3, <2>4, SessionFrame
<1>8. CASE configure_node \/ recheck \/ spurious_wakeup
  <2>1. UNCHANGED <<session, txPc, cur, wire, answer, rx, out>>
    BY <1>8 DEF configure_node, recheck, spurious_wakeup, senderVars
  <2>2. \A t \in Senders \ {a} : Exchanging(t)' = Exchanging(t) /\ Pending(t)' = Pending(t)
    BY <2>1 DEF Pending
  <2>3. CASE configure_node
    <3>1. reqPc = "configure" /\ reqPc' = "reply" /\ isReceiving' /\ UNCHANGED hasReceived
      BY <2>3 DEF configure_node, BeginReception, Alive
    <3>2. Exchange(a)'
      BY <1>2, <1>4, <1>5, <2>1, <3>1
    <3>3. QED
      BY <1>0, <1>1, <1>3, <2>1, <2>2, <3>2, SessionFrame
  <2>4. CASE recheck
    <3>1. Exchange(a)'
      BY <1>2, <1>4, <1>5, <2>1, <2>4 DEF recheck, EndReception
    <3>2. QED
      BY <1>0, <1>1, <1>3, <2>1, <2>2, <3>1, SessionFrame
  <2>5. CASE spurious_wakeup
    <3>1. Exchange(a)'
      BY <1>2, <1>4, <1>5, <2>1, <2>5 DEF spurious_wakeup
    <3>2. QED
      BY <1>0, <1>1, <1>3, <2>1, <2>2, <3>1, SessionFrame
  <2>6. QED
    BY <1>8, <2>3, <2>4, <2>5
<1>9. QED
  BY <1>6, <1>7, <1>8

\* The beginning and the end of a session.
LEMMA AcceptStep ==
  ASSUME HandshakeContext, Calm, work \/ accept \/ end_session
  PROVE  HandshakeInv'
<1>0. /\ TypeOK /\ SessionInv /\ HandshakeInv /\ BacklogInv
  BY DEF HandshakeContext, ReceiverInv
<1>1. Alive /\ reqPc # "ended"
  BY DEF work, accept, end_session
<1>2. UNCHANGED <<isReceiving, hasReceived, rx, out, senderVars, faulted>>
  BY DEF work, accept, end_session
<1>3. \A t \in Senders : Exchanging(t)' = Exchanging(t) /\ Pending(t)' = Pending(t)
  BY <1>2 DEF Exchanging, Pending, senderVars
<1>4. UNCHANGED cur
  BY <1>2 DEF senderVars
<1>5. CASE work
  <2>1. session = NoConn /\ UNCHANGED session
    BY <1>0, <1>5 DEF work, SessionInv
  <2>2. Quiet
    BY <1>0, <1>1, <2>1, NoSessionQuiet
  <2>3. \A t \in Senders : session # <<t, cur[t]>>
    BY <1>0, <2>1, TransceiverAssumption DEF TypeOK
  <2>4. \A t \in Senders : Exchanging(t) => Pending(t)
    BY <1>0, <1>1, <2>3, OthersPending
  <2>5. \A t \in Senders, k \in Nat : session # <<t, k>>
    BY <2>1, TransceiverAssumption
  <2>6. QED
    BY <1>2, <1>3, <1>4, <2>1, <2>2, <2>3, <2>4, <2>5 DEF HandshakeInv, Quiet
<1>6. CASE accept
  <2>1. session = NoConn /\ session' = Head(backlog) /\ backlog # <<>> /\ reqPc' = "read"
    BY <1>0, <1>6 DEF accept, SessionInv
  <2>2. Quiet
    BY <1>0, <1>1, <2>1, NoSessionQuiet
  <2>3. PICK c \in Conns : c = Head(backlog) /\ c = backlog[1] /\ 1 \in 1..Len(backlog)
    <3>1. backlog \in Seq(Conns)
      BY <1>0 DEF TypeOK
    <3>2. QED
      BY <2>1, <3>1
  <2>4. c[1] \in Senders /\ c = <<c[1], cur[c[1]]>> /\ Pending(c[1])
    BY <1>0, <1>1, <2>3, ConnParts DEF BacklogInv
  <2>5. Exchange(c[1])'
    BY <1>2, <2>1, <2>2, <2>4 DEF Exchange, Pending, Quiet, senderVars
  <2>6. ASSUME NEW t \in Senders, t # c[1] PROVE session' # <<t, cur'[t]>> /\ session # <<t, cur[t]>>
    BY <1>0, <2>1, <2>3, <2>4, <2>6, TransceiverAssumption DEF TypeOK
  <2>7. ASSUME NEW t \in Senders, t # c[1], Exchanging(t)' PROVE Pending(t)'
    BY <1>0, <1>1, <1>3, <2>6, <2>7, OthersPending
  <2>8. \A t \in Senders, k \in Nat : session' = <<t, k>> => k = cur'[t]
    BY <1>4, <2>1, <2>3, <2>4
  <2>9. session' # NoConn
    BY <2>1, <2>3, NoConnIsNone
  <2>10. \A t \in Senders : IF session' = <<t, cur'[t]>> THEN Exchange(t)'
                            ELSE Exchanging(t)' => Pending(t)'
    BY <1>4, <2>1, <2>3, <2>4, <2>5, <2>6, <2>7
  <2>11. QED
    BY <2>8, <2>9, <2>10 DEF HandshakeInv
<1>7. CASE end_session
  <2>1. session' = NoConn /\ reqPc = "read" /\ ~Connected(session)
    BY <1>7 DEF end_session
  <2>2. session[1] \in Senders /\ session = <<session[1], session[2]>>
    BY <1>0, <2>1, Served
  <2>3. session[2] = cur[session[1]] => Exchange(session[1]) /\ ~Exchanging(session[1])
    BY <1>0, <1>1, <2>1, SessionExchange DEF Connected
  <2>4. Quiet
    BY <1>0, <1>1, <2>1, <2>3, SessionExchange DEF Exchange, Exchanging
  <2>5. \A t \in Senders : Exchanging(t) => session # <<t, cur[t]>>
    BY <2>2, <2>3
  <2>6. \A t \in Senders : Exchanging(t) => Pending(t)
    BY <1>0, <1>1, <2>5, OthersPending
  <2>7. \A t \in Senders, k \in Nat : NoConn # <<t, k>>
    BY TransceiverAssumption
  <2>8. \A t \in Senders : cur[t] \in Nat
    BY <1>0 DEF TypeOK
  <2>9. QED
    BY <1>2, <1>3, <1>4, <2>1, <2>4, <2>6, <2>7, <2>8 DEF HandshakeInv, Quiet
<1>8. QED
  BY <1>5, <1>6, <1>7

\* While nobody has left, a measurement comes inside a reception, and is the first.
LEMMA MeasurementExpected ==
  ASSUME TypeOK, ReceiverInv, HandshakeInv, Calm, async_work
  PROVE  /\ reqPc \notin {"start", "accept", "ended"}
         /\ session[2] = cur[session[1]]
         /\ rx = <<session>> /\ isReceiving /\ ~hasReceived
<1>0. SessionInv
  BY DEF ReceiverInv
<1>1. Alive /\ rx # <<>> /\ reqPc # "ended"
  BY DEF async_work, ReceiverInv, UnloadInv
<1>2. session # NoConn
  BY <1>1, NoSessionQuiet DEF Quiet
<1>3. reqPc \notin {"start", "accept", "ended"}
  BY <1>0, <1>2 DEF SessionInv
<1>4. session[2] = cur[session[1]]
  BY <1>0, <1>1, <1>3, SessionExchange DEF Quiet
<1>5. Exchange(session[1])
  BY <1>0, <1>1, <1>3, <1>4, SessionExchange
<1>6. session = <<session[1], cur[session[1]]>>
  BY <1>0, <1>3, <1>4, Served
<1>7. Measuring(session)
  BY <1>1, <1>5, <1>6 DEF Exchange, Quiet, Begun
<1>8. QED
  BY <1>1, <1>3, <1>4, <1>7 DEF Measuring

\* Steps of the async thread keep the handshake.
LEMMA MeasureStep ==
  ASSUME HandshakeContext, Calm, AsyncStep
  PROVE  HandshakeInv'
<1> DEFINE a == session[1]
<1>0. /\ TypeOK /\ ReceiverInv /\ SessionInv /\ HandshakeInv
  BY DEF HandshakeContext, ReceiverInv
<1>1. Alive /\ UNCHANGED <<session, senderVars, faulted>>
  BY DEF AsyncStep, async_work, notify_all
<1>2. \A t \in Senders : Exchanging(t)' = Exchanging(t) /\ Pending(t)' = Pending(t)
  BY <1>1 DEF Exchanging, Pending, senderVars
<1>3. UNCHANGED <<cur, txPc, wire, answer>>
  BY <1>1 DEF senderVars
<1>4. CASE async_work
  <2>1. /\ reqPc \notin {"start", "accept", "ended"}
        /\ session[2] = cur[a]
        /\ rx = <<session>> /\ isReceiving /\ ~hasReceived
    BY <1>0, <1>4, MeasurementExpected
  <2>2. session \in Conns /\ a \in Senders /\ session = <<a, cur[a]>>
    BY <1>0, <2>1, Served
  <2>3. PICK b \in Senders, c \in Conns : b = a /\ c = session /\ c = <<b, cur[b]>>
    BY <2>2
  <2>4. /\ out' = Append(out, c) /\ rx' = <<>> /\ hasReceived'
        /\ UNCHANGED <<isReceiving, reqPc>>
    BY <1>4, <2>1, <2>3 DEF async_work
  <2>5. Buffered(c)'
    BY <1>0, <2>4, BufferedNow DEF TypeOK
  <2>6. Measuring(c)'
    BY <2>1, <2>4, <2>5 DEF Measuring
  <2>7. Exchange(a)'
    <3>1. Exchange(b)
      BY <1>0, <1>1, <2>1, <2>3, SessionExchange
    <3>2. \/ txPc[b] = "await_reply" /\ ~wire[b] /\ ~answer[b] /\ reqPc = "read"
          \/ /\ txPc[b] = "closing" /\ ~answer[b]
             /\ \/ reqPc = "read" /\ wire[b]
                \/ reqPc \in {"wait", "woken"} /\ ~wire[b]
      BY <2>1, <3>1 DEF Exchange, Quiet, Begun
    <3>3. c = <<b, cur'[b]>>
      BY <1>3, <2>3
    <3>4. Exchange(b)'
      BY <1>3, <2>4, <2>6, <3>2, <3>3 DEF Exchange, Measuring, Buffered
    <3>5. QED
      BY <1>1, <2>3, <3>4
  <2>8. QED
    BY <1>0, <1>1, <1>2, <1>3, <2>1, <2>7, SessionFrame
<1>5. CASE notify_all
  <2>1. UNCHANGED <<isReceiving, hasReceived, rx, out>>
    BY <1>5 DEF notify_all
  <2>2. CASE reqPc = "wait"
    <3>1. session[2] = cur[a]
      BY <1>0, <1>1, <2>2, SessionExchange
    <3>2. Exchange(a)
      BY <1>0, <1>1, <2>2, <3>1, SessionExchange
    <3>3. Exchange(a)'
      BY <1>3, <1>5, <2>1, <2>2, <3>2
         DEF notify_all, Exchange, Quiet, Begun, Measuring, Buffered, Exchanging
    <3>4. QED
      BY <1>0, <1>1, <1>2, <1>3, <2>2, <3>1, <3>3, SessionFrame
  <2>3. CASE reqPc # "wait"
    <3>1. UNCHANGED <<reqPc, fate>>
      BY <1>5, <2>3 DEF notify_all
    <3>2. \A s \in Senders : Exchange(s)' = Exchange(s)
      BY <1>3, <2>1, <3>1 DEF Exchange, Quiet, Begun, Measuring, Buffered, Exchanging
    <3>3. QED
      BY <1>0, <1>1, <1>2, <1>3, <2>1, <3>1, <3>2 DEF HandshakeInv, Quiet, Alive, Calm
  <2>4. QED
    BY <2>2, <2>3
<1>6. QED
  BY <1>4, <1>5 DEF AsyncStep

\* Steps that touch nothing of the handshake.
LEMMA HandshakeFrame ==
  ASSUME HandshakeInv, Calm,
         UNCHANGED <<session, reqPc, isReceiving, hasReceived, rx, out, fate, txPc, cur,
                     wire, answer>>
  PROVE  HandshakeInv'
<1>1. \A s \in Senders : /\ Exchange(s)' = Exchange(s)
                        /\ Exchanging(s)' = Exchanging(s) /\ Pending(s)' = Pending(s)
  BY DEF Exchange, Quiet, Begun, Measuring, Buffered, Exchanging, Pending
<1>2. QED
  BY <1>1 DEF HandshakeInv, Quiet, Alive

\* The steps of the sender in session.
LEMMA ExchangeStep ==
  ASSUME HandshakeContext, Calm, Alive, reqPc # "ended", NEW s \in Senders,
         read_open(s) \/ call_dispatcher(s) \/ close_connection(s) \/ read_close(s)
  PROVE  HandshakeInv'
<1>0. /\ TypeOK /\ SessionInv /\ HandshakeInv
  BY DEF HandshakeContext, ReceiverInv
<1>1. session = <<s, cur[s]>> /\ Exchange(s)
  BY <1>0, InSession
     DEF read_open, call_dispatcher, close_connection, read_close, Exchanging, Pending
<1>2. session[1] = s /\ session[2] = cur[session[1]]
  BY <1>1
<1>3. reqPc \notin {"start", "accept", "ended"}
  BY <1>0, <1>1, TransceiverAssumption DEF SessionInv, TypeOK
<1>4. /\ UNCHANGED <<session, reqPc, isReceiving, hasReceived, out, cur>>
      /\ \A t \in Senders \ {s} : /\ txPc'[t] = txPc[t] /\ wire'[t] = wire[t]
                                  /\ answer'[t] = answer[t]
  BY <1>0 DEF read_open, call_dispatcher, close_connection, read_close, receiverVars,
     TypeOK
<1>5. \A t \in Senders \ {s} : Exchanging(t)' = Exchanging(t) /\ Pending(t)' = Pending(t)
  BY <1>4 DEF Exchanging, Pending
<1>6. /\ txPc \in [Senders -> {"idle", "open", "opening", "call", "await_reply",
                               "closing", "crashed"}]
      /\ wire \in [Senders -> BOOLEAN] /\ answer \in [Senders -> BOOLEAN]
  BY <1>0 DEF TypeOK
<1>7. Exchange(s)'
  <2> USE DEF Exchange, Quiet, Begun
  <2>1. CASE read_open(s)
    <3>1. txPc'[s] = "call" /\ ~answer'[s] /\ UNCHANGED <<rx, wire>>
      BY <1>6, <2>1 DEF read_open
    <3>2. ~wire[s] /\ Begun /\ reqPc = "read"
      BY <1>1, <2>1 DEF read_open, Exchanging
    <3>3. QED
      BY <1>4, <3>1, <3>2
  <2>2. CASE call_dispatcher(s)
    <3>1. txPc'[s] = "await_reply" /\ UNCHANGED <<answer, wire>>
      BY <1>6, <2>2 DEF call_dispatcher
    <3>2. ~wire[s] /\ ~answer[s] /\ Begun /\ reqPc = "read"
      BY <1>1, <2>2 DEF call_dispatcher, Exchanging
    <3>3. rx' \in {<<>>, <<<<s, cur[s]>>>>}
      BY <2>2, <3>2 DEF call_dispatcher
    <3>4. QED
      BY <1>4, <3>1, <3>2, <3>3 DEF Measuring
  <2>3. CASE close_connection(s)
    <3>1. txPc'[s] = "closing" /\ wire'[s] /\ UNCHANGED <<rx, answer>>
      BY <1>6, <2>3 DEF close_connection
    <3>2. ~answer[s] /\ Measuring(<<s, cur[s]>>) /\ reqPc = "read"
      BY <1>1, <2>3 DEF close_connection, Exchanging
    <3>3. QED
      BY <1>4, <3>1, <3>2 DEF Measuring, Buffered
  <2>4. CASE read_close(s)
    <3>1. txPc'[s] \in {"open", "idle"} /\ ~answer'[s] /\ UNCHANGED <<rx, wire>>
      BY <1>6, <2>4 DEF read_close
    <3>2. ~wire[s] /\ Quiet /\ reqPc = "read"
      BY <1>1, <2>4 DEF read_close, Exchanging
    <3>3. QED
      BY <1>4, <3>1, <3>2 DEF Exchanging
  <2>5. QED
    BY <2>1, <2>2, <2>3, <2>4
<1>8. QED
  BY <1>0, <1>2, <1>3, <1>4, <1>5, <1>7, SessionFrame

\* The steps of a sender outside of its exchange: transmit begins, connect succeeds
\* or fails, and the connection is lost.
LEMMA OutsideStep ==
  ASSUME HandshakeContext, Calm, Alive, reqPc # "ended", NEW s \in Senders,
         \/ open_connection(s) \/ connection_lost(s)
         \/ \E n \in 1..MaxSymbols : transmit(s, n)
  PROVE  HandshakeInv'
<1>0. /\ TypeOK /\ SessionInv /\ HandshakeInv /\ AnswerInv
  BY DEF HandshakeContext, ReceiverInv
<1>1. /\ UNCHANGED <<session, reqPc, isReceiving, hasReceived, out, rx, faulted>>
      /\ \A t \in Senders \ {s} : /\ txPc'[t] = txPc[t] /\ wire'[t] = wire[t]
                                  /\ answer'[t] = answer[t] /\ cur'[t] = cur[t]
  BY <1>0 DEF open_connection, connection_lost, transmit, receiverVars, Unwind, TypeOK
<1>2. \A t \in Senders \ {s} :
        /\ Exchange(t)' = Exchange(t)
        /\ Exchanging(t)' = Exchanging(t) /\ Pending(t)' = Pending(t)
  BY <1>1 DEF Exchange, Quiet, Begun, Measuring, Buffered, Exchanging, Pending
<1>3. Quiet' = Quiet
  BY <1>1 DEF Quiet
<1>4. /\ txPc \in [Senders -> {"idle", "open", "opening", "call", "await_reply",
                               "closing", "crashed"}]
      /\ wire \in [Senders -> BOOLEAN] /\ answer \in [Senders -> BOOLEAN]
      /\ cur \in [Senders -> Nat] /\ left \in [Senders -> Nat]
  BY <1>0 DEF TypeOK
<1>5. CASE open_connection(s) /\ Listening
  <2>1. /\ txPc'[s] = "opening" /\ wire'[s] /\ UNCHANGED answer /\ cur'[s] = cur[s] + 1
    BY <1>4, <1>5 DEF open_connection
  <2>2. ~answer[s]
    BY <1>0, <1>5 DEF AnswerInv, open_connection
  <2>3. Pending(s)'
    BY <2>1, <2>2 DEF Pending
  <2>4. ASSUME NEW k \in Nat, session = <<s, k>>
        PROVE  k < cur'[s] /\ Quiet /\ reqPc = "read"
    <3>1. CASE k = cur[s]
      <4>1. Exchange(s) /\ ~Exchanging(s)
        BY <1>0, <1>5, <2>4, <3>1 DEF HandshakeInv, open_connection, Exchanging
      <4>2. QED
        BY <1>4, <2>1, <3>1, <4>1 DEF Exchange, Exchanging
    <3>2. CASE k # cur[s]
      <4>1. k < cur[s] /\ Quiet /\ reqPc = "read"
        BY <1>0, <2>4, <3>2 DEF HandshakeInv
      <4>2. QED
        BY <1>4, <2>1, <4>1
    <3>3. QED
      BY <3>1, <3>2
  <2>5. session # <<s, cur'[s]>>
    <3>1. cur'[s] \in Nat
      BY <1>4, <2>1
    <3>2. QED
      BY <2>4, <3>1
  <2>6. QED
    BY <1>0, <1>1, <1>2, <1>3, <2>3, <2>4, <2>5 DEF HandshakeInv
<1>6. CASE /\ cur' = cur /\ wire' = wire /\ answer'[s] = FALSE
           /\ ~Exchanging(s)' /\ (answer[s] => Exchanging(s))
           /\ session = <<s, cur[s]>> => ~Exchanging(s)
  <2>1. session = <<s, cur[s]>> => Exchange(s)'
    <3>1. SUFFICES ASSUME session = <<s, cur[s]>> PROVE Exchange(s)'
      OBVIOUS
    <3>2. Exchange(s) /\ ~Exchanging(s)
      BY <1>0, <1>6, <3>1 DEF HandshakeInv
    <3>3. QED
      BY <1>1, <1>6, <3>2 DEF Exchange, Exchanging, Quiet
  <2>2. QED
    BY <1>0, <1>1, <1>2, <1>3, <1>6, <2>1 DEF HandshakeInv
<1>7. CASE (open_connection(s) /\ ~Listening) \/ \E n \in 1..MaxSymbols : transmit(s, n)
  <2>1. txPc[s] \in {"open", "idle"} /\ txPc'[s] \in {"open", "idle"}
        /\ UNCHANGED <<cur, wire, answer>>
    BY <1>4, <1>7 DEF open_connection, transmit
  <2>2. ~answer[s]
    BY <1>0, <2>1 DEF AnswerInv
  <2>3. QED
    BY <1>4, <1>6, <2>1, <2>2 DEF Exchanging
<1>8. CASE connection_lost(s)
  <2>1. session = NoConn
    BY <1>0, <1>8 DEF connection_lost, Listening, SessionInv
  <2>2. session # <<s, cur[s]>>
    BY <1>4, <2>1, TransceiverAssumption
  <2>3. /\ txPc'[s] \in {"idle", "crashed"} /\ Exchanging(s) /\ answer'[s] = FALSE
        /\ UNCHANGED <<cur, wire>>
    BY <1>4, <1>8 DEF connection_lost, Unwind
  <2>4. QED
    BY <1>6, <2>2, <2>3 DEF Exchanging
<1>9. QED
  BY <1>5, <1>7, <1>8

\* Every step keeps the handshake.
LEMMA HandshakeStep == HandshakeContext /\ [Next]_vars => HandshakeInv'
<1> SUFFICES ASSUME HandshakeContext, [Next]_vars PROVE HandshakeInv'
  OBVIOUS
<1>0. SUFFICES ASSUME Alive', Calm', reqPc' # "ended" PROVE HandshakeInv'
  BY DEF HandshakeInv
<1>1. Calm
  BY <1>0 DEF Calm, Next, RequestStep, AsyncStep, SenderStep, work, accept,
     stop_listening, process, configure_node, recheck, write_response, end_session,
     spurious_wakeup, async_work, notify_all, unload, join_request_thread,
     open_connection, read_open, call_dispatcher, close_connection, read_close,
     connection_lost, leave, transmit, vars
<1>2. CASE RequestStep \/ spurious_wakeup
  BY <1>0, <1>1, <1>2, ServingStep, AcceptStep DEF RequestStep, stop_listening
<1>3. CASE AsyncStep
  BY <1>1, <1>3, MeasureStep
<1>4. CASE unload \/ join_request_thread \/ UNCHANGED vars
  BY <1>1, <1>4, HandshakeFrame
     DEF unload, join_request_thread, vars, receiverVars, senderVars, HandshakeContext
<1>5. ASSUME NEW s \in Senders,
             SenderStep(s) \/ leave(s) \/ \E n \in 1..MaxSymbols : transmit(s, n)
      PROVE  HandshakeInv'
  <2>1. Alive /\ reqPc # "ended"
    BY <1>0, <1>5, SenderFrame DEF receiverVars, Alive
  <2>2. ~leave(s)
    BY <1>0 DEF leave, Calm
  <2>3. QED
    BY <1>1, <1>5, <2>1, <2>2, ExchangeStep, OutsideStep DEF SenderStep
<1>6. QED
  BY <1>2, <1>3, <1>4, <1>5 DEF Next

----------------------------------------------------------------------------
(* The connections that wait, the responses, and the buffer.               *)

\* Nothing is taken out of the buffer of the receiver.
LEMMA BufferedKept ==
  ASSUME TypeOK, [Next]_vars, NEW c, Buffered(c)
  PROVE  Buffered(c)'
<1>1. CASE async_work
  <2>1. Head(rx) \in Conns /\ out \in Seq(Conns)
    BY <1>1, HeadTailProperties DEF async_work, TypeOK
  <2>2. out' \in {out, Append(out, Head(rx))}
    BY <1>1 DEF async_work
  <2>3. PICK m \in Conns : m = Head(rx)
    BY <2>1
  <2>4. QED
    BY <2>1, <2>2, <2>3, BufferedStays
<1>2. CASE UNCHANGED out
  BY <1>2 DEF Buffered
<1>3. CASE UNCHANGED receiverVars \/ UNCHANGED vars
  BY <1>2, <1>3 DEF receiverVars, vars
<1>4. CASE RequestStep \/ spurious_wakeup \/ notify_all \/ unload \/ join_request_thread
  BY <1>2, <1>4 DEF RequestStep, work, accept, stop_listening, process, configure_node,
     recheck, write_response, end_session, spurious_wakeup, notify_all, unload,
     join_request_thread
<1>5. QED
  BY <1>1, <1>3, <1>4, SenderFrame DEF Next, AsyncStep

\* A peer that has left stays so, a process that has ended too, and work() does not
\* come back.
LEMMA Backwards ==
  ASSUME [Next]_vars
  PROVE  /\ Calm' => Calm
         /\ Alive' => Alive
         /\ reqPc' # "ended" => reqPc # "ended"
<1>1. CASE RequestStep \/ spurious_wakeup \/ AsyncStep \/ unload \/ join_request_thread
  BY <1>1 DEF Calm, Alive, RequestStep, AsyncStep, work, accept, stop_listening, process,
     configure_node, recheck, write_response, end_session, spurious_wakeup, async_work,
     notify_all, unload, join_request_thread
<1>2. ASSUME NEW s \in Senders,
             SenderStep(s) \/ leave(s) \/ \E n \in 1..MaxSymbols : transmit(s, n)
      PROVE  /\ Calm' => Calm
             /\ UNCHANGED <<fate, reqPc>>
  BY <1>2 DEF Calm, SenderStep, open_connection, read_open, call_dispatcher,
     close_connection, read_close, connection_lost, leave, transmit, receiverVars
<1>3. CASE UNCHANGED vars
  BY <1>3 DEF vars, receiverVars, Calm, Alive
<1>4. QED
  BY <1>1, <1>2, <1>3 DEF Next, Alive

\* A step that leaves the connections and those who wait for a session alone.
LEMMA BacklogFrame ==
  ASSUME TypeOK, BacklogInv, Alive, Calm, reqPc # "ended",
         UNCHANGED backlog, session' \in {session, NoConn},
         reqPc' = "start" => reqPc = "start",
         \A t \in Senders : session # <<t, cur[t]>> /\ Pending(t)
                              => Pending(t)' /\ cur'[t] = cur[t]
  PROVE  BacklogInv'
<1>1. ASSUME NEW i \in 1..Len(backlog), NEW s \in Senders, backlog[i][1] = s
      PROVE  /\ backlog[i] = <<s, cur[s]>> /\ backlog[i] # session
             /\ backlog[i] # NoConn
             /\ Pending(s)
             /\ \A j \in 1..Len(backlog) : backlog[j] = backlog[i] => j = i
  <2>1. backlog[i] \in Conns
    BY <1>1 DEF TypeOK
  <2>2. QED
    BY <1>1, <2>1, NoConnIsNone DEF BacklogInv
<1>2. ASSUME NEW i \in 1..Len(backlog'), NEW s \in Senders, backlog'[i][1] = s
      PROVE  /\ backlog'[i] = <<s, cur'[s]>> /\ backlog'[i] # session'
             /\ Pending(s)'
             /\ \A j \in 1..Len(backlog') : backlog'[j] = backlog'[i] => j = i
  BY <1>1, <1>2
<1>3. reqPc' = "start" => backlog' = <<>>
  BY DEF BacklogInv
<1>4. QED
  BY <1>2, <1>3 DEF BacklogInv

\* The first of the connections that wait is served.
LEMMA BacklogAccept ==
  ASSUME TypeOK, BacklogInv, Calm, accept
  PROVE  BacklogInv'
<1>1. /\ Alive /\ reqPc = "accept" /\ reqPc' = "read" /\ backlog # <<>>
      /\ session' = Head(backlog) /\ backlog' = Tail(backlog)
      /\ UNCHANGED <<cur, txPc, wire, answer>>
  BY DEF accept, senderVars
<1>2. backlog \in Seq(Conns)
  BY DEF TypeOK
<1>3. Len(backlog') = Len(backlog) - 1
  BY <1>1, <1>2
<1>4. ASSUME NEW i \in 1..Len(backlog')
      PROVE  /\ i + 1 \in 1..Len(backlog) /\ 1 \in 1..Len(backlog)
             /\ backlog'[i] = backlog[i + 1] /\ Head(backlog) = backlog[1]
             /\ i + 1 # 1
  BY <1>1, <1>2, <1>3
<1>5. ASSUME NEW i \in 1..Len(backlog'), NEW s \in Senders, backlog'[i][1] = s
      PROVE  /\ backlog'[i] = <<s, cur[s]>> /\ backlog'[i] # session'
             /\ Pending(s)
             /\ \A j \in 1..Len(backlog') : backlog'[j] = backlog'[i] => j = i
  <2>1. /\ i + 1 \in 1..Len(backlog) /\ 1 \in 1..Len(backlog)
        /\ backlog'[i] = backlog[i + 1] /\ Head(backlog) = backlog[1] /\ i + 1 # 1
    BY <1>4
  <2>2. /\ backlog[i + 1] = <<s, cur[s]>> /\ Pending(s)
        /\ \A j \in 1..Len(backlog) : backlog[j] = backlog[i + 1] => j = i + 1
    BY <1>1, <1>5, <2>1 DEF BacklogInv
  <2>3. backlog'[i] # session'
    BY <1>1, <2>1, <2>2
  <2>4. ASSUME NEW j \in 1..Len(backlog'), backlog'[j] = backlog'[i] PROVE j = i
    <3>1. j + 1 \in 1..Len(backlog) /\ backlog'[j] = backlog[j + 1]
      BY <1>4
    <3>2. j + 1 = i + 1
      BY <2>1, <2>2, <2>4, <3>1
    <3>3. QED
      BY <3>2
  <2>5. QED
    BY <2>1, <2>2, <2>3, <2>4
<1>6. QED
  BY <1>1, <1>5 DEF BacklogInv, Pending

\* A connection is added behind those that wait.
LEMMA BacklogConnect ==
  ASSUME HandshakeContext, Calm, NEW s \in Senders, open_connection(s), Listening
  PROVE  BacklogInv'
<1>0. TypeOK /\ HandshakeInv /\ BacklogInv /\ AnswerInv
  BY DEF HandshakeContext
<1>1. /\ Alive /\ reqPc \notin {"start", "ended"} /\ UNCHANGED <<reqPc, session, answer>>
      /\ txPc[s] = "open" /\ txPc' = [txPc EXCEPT ![s] = "opening"]
      /\ cur' = [cur EXCEPT ![s] = @ + 1] /\ wire' = [wire EXCEPT ![s] = TRUE]
      /\ backlog' = Append(backlog, <<s, cur[s] + 1>>)
  BY DEF open_connection, Listening, receiverVars
<1>2. /\ txPc \in [Senders -> {"idle", "open", "opening", "call", "await_reply",
                               "closing", "crashed"}]
      /\ wire \in [Senders -> BOOLEAN] /\ cur \in [Senders -> Nat]
      /\ backlog \in Seq(Conns)
  BY <1>0 DEF TypeOK
<1>3. /\ Len(backlog') = Len(backlog) + 1 /\ Len(backlog) \in Nat
      /\ backlog'[Len(backlog) + 1] = <<s, cur[s] + 1>>
      /\ \A i \in 1..Len(backlog) : backlog'[i] = backlog[i]
  BY <1>1, <1>2
<1>4. Pending(s)'
  BY <1>0, <1>1, <1>2 DEF Pending, AnswerInv
<1>5. \A t \in Senders \ {s} : Pending(t)' = Pending(t) /\ cur'[t] = cur[t]
  BY <1>1, <1>2 DEF Pending
<1>6. cur'[s] = cur[s] + 1 /\ cur[s] \in Nat
  BY <1>1, <1>2
<1>7. session # <<s, cur[s] + 1>>
  BY <1>0, <1>1, <1>6 DEF HandshakeInv
<1>8. ASSUME NEW i \in 1..Len(backlog)
      PROVE  /\ backlog[i][1] \in Senders \ {s} /\ backlog[i][1] # s
             /\ backlog[i] = <<backlog[i][1], cur[backlog[i][1]]>>
             /\ backlog[i] # session
             /\ Pending(backlog[i][1])
             /\ \A j \in 1..Len(backlog) : backlog[j] = backlog[i] => j = i
  <2>1. backlog[i] \in Conns
    BY <1>2
  <2>2. backlog[i][1] \in Senders
    BY <2>1, ConnParts
  <2>3. QED
    BY <1>0, <1>1, <2>2 DEF BacklogInv, Pending
<1>9. ASSUME NEW i \in 1..Len(backlog'), NEW t \in Senders, backlog'[i][1] = t
      PROVE  /\ backlog'[i] = <<t, cur'[t]>> /\ backlog'[i] # session'
             /\ Pending(t)'
             /\ \A j \in 1..Len(backlog') : backlog'[j] = backlog'[i] => j = i
  <2>1. CASE i \in 1..Len(backlog)
    <3>1. t = backlog[i][1] /\ t \in Senders \ {s} /\ Pending(t)
      BY <1>3, <1>8, <1>9, <2>1
    <3>2. ASSUME NEW j \in 1..Len(backlog'), backlog'[j] = backlog'[i] PROVE j = i
      <4>1. j # Len(backlog) + 1
        BY <1>3, <1>8, <2>1, <3>2
      <4>2. j \in 1..Len(backlog)
        BY <1>3, <4>1
      <4>3. QED
        BY <1>3, <1>8, <2>1, <3>2, <4>2
    <3>3. QED
      BY <1>1, <1>3, <1>5, <1>8, <2>1, <3>1, <3>2
  <2>2. CASE i = Len(backlog) + 1
    <3>1. t = s
      BY <1>3, <1>9, <2>2
    <3>2. ASSUME NEW j \in 1..Len(backlog'), backlog'[j] = backlog'[i] PROVE j = i
      <4>1. j \notin 1..Len(backlog)
        BY <1>3, <1>8, <2>2, <3>2
      <4>2. QED
        BY <1>3, <2>2, <4>1
    <3>3. QED
      BY <1>1, <1>3, <1>4, <1>6, <1>7, <2>2, <3>1, <3>2
  <2>3. QED
    BY <1>3, <2>1, <2>2
<1>10. QED
  BY <1>1, <1>9 DEF BacklogInv

\* Every step keeps the order and the state of the connections that wait.
LEMMA BacklogStep == HandshakeContext /\ [Next]_vars => BacklogInv'
<1> SUFFICES ASSUME HandshakeContext, [Next]_vars PROVE BacklogInv'
  OBVIOUS
<1>0. SUFFICES ASSUME Alive', Calm', reqPc' # "ended" PROVE BacklogInv'
  BY DEF BacklogInv
<1>1. /\ Calm /\ Alive /\ reqPc # "ended"
  BY <1>0, Backwards
<1>2. TypeOK /\ SessionInv /\ HandshakeInv /\ BacklogInv
  BY DEF HandshakeContext, ReceiverInv
<1>3. CASE accept
  BY <1>1, <1>2, <1>3, BacklogAccept
<1>4. CASE process \/ write_response
  <2>1. /\ UNCHANGED <<backlog, cur, txPc>> /\ session' \in {session, NoConn}
        /\ reqPc' # "start" /\ reqPc \in {"read", "reply"}
    BY <1>4 DEF process, write_response
  <2>2. session[1] \in Senders /\ session = <<session[1], session[2]>>
    BY <1>2, <2>1, Served
  <2>3. session[2] = cur[session[1]]
    BY <1>1, <1>2, <1>4, <2>1, SessionExchange DEF process, write_response, Readable
  <2>4. \A t \in Senders : session # <<t, cur[t]>> => t # session[1]
    BY <2>2, <2>3
  <2>5. \A t \in Senders : t # session[1] => wire'[t] = wire[t] /\ answer'[t] = answer[t]
    BY <1>2, <1>4 DEF process, write_response, TypeOK
  <2>6. \A t \in Senders : session # <<t, cur[t]>> /\ Pending(t) => Pending(t)' /\ cur'[t] = cur[t]
    BY <2>1, <2>4, <2>5 DEF Pending
  <2>7. QED
    BY <1>1, <1>2, <2>1, <2>6, BacklogFrame
<1>5. CASE /\ UNCHANGED <<backlog, cur, txPc, wire, answer>> /\ session' \in {session, NoConn}
           /\ reqPc' = "start" => reqPc = "start"
  BY <1>1, <1>2, <1>5, BacklogFrame DEF Pending
<1>6. CASE work \/ configure_node \/ recheck \/ end_session \/ spurious_wakeup
           \/ AsyncStep \/ unload \/ join_request_thread \/ UNCHANGED vars
  BY <1>5, <1>6 DEF work, configure_node, recheck, end_session, spurious_wakeup,
     AsyncStep, async_work, notify_all, unload, join_request_thread, vars,
     receiverVars, senderVars
<1>7. ASSUME NEW s \in Senders,
             SenderStep(s) \/ leave(s) \/ \E n \in 1..MaxSymbols : transmit(s, n)
      PROVE  BacklogInv'
  <2>1. UNCHANGED <<session, reqPc>>
    BY <1>7, SenderFrame DEF receiverVars
  <2>2. CASE open_connection(s) /\ Listening
    BY <1>1, <2>2, BacklogConnect
  <2>3. CASE connection_lost(s)
    <3>1. backlog = <<>> /\ UNCHANGED backlog
      BY <1>1, <1>2, <2>3 DEF connection_lost, Listening, BacklogInv
    <3>2. QED
      BY <3>1 DEF BacklogInv
  <2>4. CASE \/ open_connection(s) /\ ~Listening
             \/ read_open(s) \/ call_dispatcher(s) \/ close_connection(s) \/ read_close(s)
             \/ \E n \in 1..MaxSymbols : transmit(s, n)
    <3>1. ~Pending(s) /\ UNCHANGED <<backlog, cur>>
      BY <2>4 DEF Pending, open_connection, read_open, call_dispatcher, close_connection,
         read_close, transmit
    <3>2. \A t \in Senders \ {s} : /\ txPc'[t] = txPc[t] /\ wire'[t] = wire[t]
                                   /\ answer'[t] = answer[t]
      BY <1>2, <2>4 DEF open_connection, read_open, call_dispatcher, close_connection,
         read_close, transmit, TypeOK
    <3>3. \A t \in Senders : Pending(t) => Pending(t)'
      BY <3>1, <3>2 DEF Pending
    <3>4. QED
      BY <1>1, <1>2, <2>1, <3>1, <3>3, BacklogFrame
  <2>5. ~leave(s)
    BY <1>0 DEF leave, Calm
  <2>6. QED
    BY <1>7, <2>2, <2>3, <2>4, <2>5 DEF SenderStep
<1>8. QED
  BY <1>0, <1>3, <1>4, <1>6, <1>7 DEF Next, RequestStep, stop_listening
\* A response is read where it is expected, and the second one comes after the
\* measurement.
LEMMA AnswerStep == HandshakeContext /\ [Next]_vars => AnswerInv'
<1> SUFFICES ASSUME HandshakeContext, [Next]_vars PROVE AnswerInv'
  OBVIOUS
<1>0. SUFFICES ASSUME Calm' PROVE AnswerInv'
  BY DEF AnswerInv
<1>1. Calm
  BY <1>0, Backwards
<1>2. TypeOK /\ SessionInv /\ HandshakeInv /\ AnswerInv
  BY DEF HandshakeContext, ReceiverInv
<1>3. \A c : Buffered(c) => Buffered(c)'
  BY <1>2, BufferedKept
<1>4. CASE \A t \in Senders : answer'[t] =>
             answer[t] /\ txPc'[t] = txPc[t] /\ cur'[t] = cur[t]
  BY <1>1, <1>2, <1>3, <1>4 DEF AnswerInv, Buffered
<1>5. CASE write_response
  <2>1. Alive /\ reqPc = "reply" /\ UNCHANGED <<txPc, cur, out>>
    BY <1>5 DEF write_response
  <2>2. session[1] \in Senders
    BY <1>2, <2>1, Served
  <2>3. Exchange(session[1])
    BY <1>1, <1>2, <2>1, SessionExchange
  <2>4. /\ txPc[session[1]] \in {"opening", "closing"}
        /\ txPc[session[1]] = "closing" => Buffered(<<session[1], cur[session[1]]>>)
    BY <2>1, <2>3 DEF Exchange
  <2>5. \A t \in Senders : answer'[t] => answer[t] \/ t = session[1]
    BY <1>2, <1>5 DEF write_response, TypeOK
  <2>6. QED
    BY <1>1, <1>2, <2>1, <2>2, <2>4, <2>5 DEF AnswerInv, Buffered
<1>6. CASE UNCHANGED <<txPc, cur, answer>>
  BY <1>4, <1>6
<1>7. CASE work \/ accept \/ stop_listening \/ process \/ configure_node \/ recheck
           \/ end_session \/ spurious_wakeup \/ AsyncStep \/ unload
           \/ join_request_thread \/ UNCHANGED vars
  BY <1>6, <1>7 DEF work, accept, stop_listening, process, configure_node, recheck,
     end_session, spurious_wakeup, AsyncStep, async_work, notify_all, unload,
     join_request_thread, vars, senderVars
<1>8. ASSUME NEW s \in Senders, SenderStep(s) \/ \E n \in 1..MaxSymbols : transmit(s, n)
      PROVE  AnswerInv'
  <2>1. ~answer'[s]
    <3>1. CASE read_open(s) \/ read_close(s) \/ connection_lost(s)
      BY <1>2, <3>1 DEF read_open, read_close, connection_lost, Unwind, TypeOK
    <3>2. CASE txPc[s] \notin {"opening", "closing"} /\ UNCHANGED answer
      BY <1>1, <1>2, <3>2 DEF AnswerInv
    <3>3. QED
      BY <1>8, <3>1, <3>2 DEF SenderStep, open_connection, call_dispatcher,
         close_connection, transmit
  <2>2. \A t \in Senders \ {s} : /\ txPc'[t] = txPc[t] /\ cur'[t] = cur[t]
                                 /\ answer'[t] = answer[t]
    BY <1>2, <1>8 DEF SenderStep, open_connection, read_open, call_dispatcher,
       close_connection, read_close, connection_lost, Unwind, transmit, TypeOK
  <2>3. QED
    BY <1>4, <2>1, <2>2
<1>9. \A s \in Senders : ~leave(s)
  BY <1>0 DEF leave, Calm
<1>10. QED
  BY <1>5, <1>7, <1>8, <1>9 DEF Next, RequestStep

\* The process ends as "unreachable" only after a sender has left.
LEMMA UnreachableStep ==
  ASSUME TypeOK, ReceiverInv, HandshakeInv, UnreachableOnlyAfterLeave, [Next]_vars
  PROVE  UnreachableOnlyAfterLeave'
<1>1. SUFFICES ASSUME Calm', fate' = "unreachable" PROVE FALSE
  BY DEF UnreachableOnlyAfterLeave, Calm
<1>2. Calm
  BY <1>1, Backwards
<1>3. fate # "unreachable"
  BY <1>2 DEF UnreachableOnlyAfterLeave, Calm
<1>4. CASE async_work
  BY <1>1, <1>2, <1>3, <1>4, MeasurementExpected DEF async_work
<1>5. CASE configure_node
  BY <1>1, <1>3, <1>5 DEF configure_node
<1>6. CASE UNCHANGED fate
  BY <1>1, <1>3, <1>6
<1>7. QED
  BY <1>4, <1>5, <1>6, SenderFrame
     DEF Next, RequestStep, AsyncStep, work, accept, stop_listening, process, recheck,
         write_response, end_session, spurious_wakeup, notify_all, unload,
         join_request_thread, vars, receiverVars

\* What transmit has gone past is in the buffer.
LEMMA AckedStep ==
  ASSUME TypeOK, AnswerInv, AckedIsBuffered, [Next]_vars
  PROVE  AckedIsBuffered'
<1>1. SUFFICES ASSUME Calm', NEW c \in acked' PROVE Buffered(c)'
  BY DEF AckedIsBuffered, Calm, Buffered
<1>2. Calm
  BY <1>1, Backwards
<1>3. CASE c \in acked
  <2>1. Buffered(c)
    BY <1>2, <1>3 DEF AckedIsBuffered, Calm, Buffered
  <2>2. QED
    BY <2>1, BufferedKept
<1>4. ASSUME NEW s \in Senders, read_close(s), c \notin acked PROVE Buffered(c)'
  <2>1. c = <<s, cur[s]>> /\ Buffered(<<s, cur[s]>>)
    BY <1>1, <1>2, <1>4 DEF read_close, AnswerInv
  <2>2. UNCHANGED out
    BY <1>4 DEF read_close, receiverVars
  <2>3. QED
    BY <2>1, <2>2 DEF Buffered
<1>5. CASE UNCHANGED acked
  BY <1>1, <1>3, <1>5
<1>6. QED
  BY <1>3, <1>4, <1>5
     DEF Next, RequestStep, AsyncStep, SenderStep, work, accept, stop_listening, process,
         configure_node, recheck, write_response, end_session, spurious_wakeup,
         async_work, notify_all, unload, join_request_thread, open_connection, read_open,
         call_dispatcher, close_connection, connection_lost, leave, transmit, vars

----------------------------------------------------------------------------
(* The theorems.                                                           *)

\* The invariant holds at the beginning.
LEMMA InitInv == Init => TransceiverInv
<1> SUFFICES ASSUME Init PROVE TransceiverInv
  OBVIOUS
<1>1. TypeOK
  <2>1. ReceiverTypes
    <3>1. isReceiving \in BOOLEAN /\ hasReceived \in BOOLEAN
      BY Zenon DEF Init
    <3>2. out \in Seq(Conns)
      BY DEF Init
    <3>3. QED
      BY <3>1, <3>2 DEF Init, ReceiverTypes
  <2>2. TxTypes /\ NetTypes
    BY DEF Init, TxTypes, NetTypes
  <2>3. LoopTypes
    BY TransceiverAssumption DEF Init, LoopTypes
  <2>4. QED
    BY <2>1, <2>2, <2>3, TypeParts
<1>2. \A s \in Senders, k \in Nat : session # <<s, k>>
  BY TransceiverAssumption DEF Init
<1>3. HandshakeInv
  BY <1>2 DEF Init, HandshakeInv, Quiet, Exchanging
<1>4. BacklogInv /\ AnswerInv /\ LoopInv
  BY DEF Init, BacklogInv, AnswerInv, LoopInv, Exchanging
<1>5. FlagInv /\ UnloadInv /\ SessionInv /\ NoLostWakeup
  BY DEF Init, FlagInv, UnloadInv, SessionInv, NoLostWakeup
<1>6. UnreachableOnlyAfterLeave /\ AckedIsBuffered
  BY DEF Init, UnreachableOnlyAfterLeave, AckedIsBuffered
<1>7. QED
  BY <1>1, <1>3, <1>4, <1>5, <1>6 DEF TransceiverInv

\* Every step keeps the invariant.
LEMMA NextInv == TransceiverInv /\ [Next]_vars => TransceiverInv'
<1> SUFFICES ASSUME TransceiverInv, [Next]_vars PROVE TransceiverInv'
  OBVIOUS
<1>1. HandshakeContext /\ ReceiverInv
  BY DEF TransceiverInv, HandshakeContext, ReceiverInv
<1>2. TypeOK' /\ LoopInv'
  BY TypeStep, LoopStep DEF TransceiverInv
<1>3. FlagInv' /\ UnloadInv' /\ SessionInv' /\ NoLostWakeup'
  BY <1>1, ReceiverStep DEF TransceiverInv, ReceiverInv
<1>4. HandshakeInv' /\ BacklogInv' /\ AnswerInv'
  BY <1>1, HandshakeStep, BacklogStep, AnswerStep
<1>5. UnreachableOnlyAfterLeave' /\ AckedIsBuffered'
  BY <1>1, UnreachableStep, AckedStep DEF TransceiverInv
<1>6. QED
  BY <1>2, <1>3, <1>4, <1>5 DEF TransceiverInv

\* The invariant of the receiver, its senders and the network.
THEOREM TransceiverInvariant == Spec => []TransceiverInv
  BY InitInv, NextInv, PTL DEF Spec

\* The members keep their types, and a sender opens no more connections than it
\* has symbols.
THEOREM TransceiverTypeCorrect == Spec => []TypeOK
<1>1. TransceiverInv => TypeOK
  BY DEF TransceiverInv
<1>2. QED
  BY <1>1, TransceiverInvariant, PTL

\* The notification of hasReceivedCV is not lost, with any number of senders, and
\* whatever goes wrong.
THEOREM WakeupNotLost == Spec => []NoLostWakeup
<1>1. TransceiverInv => NoLostWakeup
  BY DEF TransceiverInv
<1>2. QED
  BY <1>1, TransceiverInvariant, PTL

\* The exception "Should never happen" of async_work does not happen unless a sender
\* has left in the middle of an exchange: not when publications are lost, circuits
\* are refused, or the dispatcher is mute, for any senders and symbols.
THEOREM UnreachableNeedsLeave == Spec => []UnreachableOnlyAfterLeave
<1>1. TransceiverInv => UnreachableOnlyAfterLeave
  BY DEF TransceiverInv
<1>2. QED
  BY <1>1, TransceiverInvariant, PTL

\* When transmit has gone past a symbol, its measurement is in the buffer of the
\* receiver.
THEOREM AcknowledgedIsBuffered == Spec => []AckedIsBuffered
<1>1. TransceiverInv => AckedIsBuffered
  BY DEF TransceiverInv
<1>2. QED
  BY <1>1, TransceiverInvariant, PTL

\* The state of the flags is the phase of a reception.
LEMMA Phases ==
  ASSUME isReceiving \in BOOLEAN, hasReceived \in BOOLEAN
  PROVE  /\ ~isReceiving => ReceptionPhase = "idle"
         /\ isReceiving /\ ~hasReceived => ReceptionPhase = "begun"
         /\ isReceiving /\ hasReceived => ReceptionPhase = "measured"
  BY DEF ReceptionPhase

\* Every step is one of a reception, or none that it knows of.
LEMMA ReceptionStep ==
  TransceiverInv /\ TransceiverInv' /\ [Next]_vars => [Abstract!Next]_(Abstract!vars)
<1> SUFFICES ASSUME TransceiverInv, TransceiverInv', [Next]_vars
             PROVE  [Abstract!Next]_(Abstract!vars)
  OBVIOUS
<1>0. /\ isReceiving \in BOOLEAN /\ hasReceived \in BOOLEAN
      /\ isReceiving' \in BOOLEAN /\ hasReceived' \in BOOLEAN
      /\ hasReceived => isReceiving
      /\ reqPc = "configure" => ~isReceiving /\ ~hasReceived
  BY DEF TransceiverInv, TypeOK, FlagInv
<1>1. /\ ~isReceiving' => ReceptionPhase' = "idle"
      /\ isReceiving' /\ ~hasReceived' => ReceptionPhase' = "begun"
      /\ isReceiving' /\ hasReceived' => ReceptionPhase' = "measured"
  BY <1>0 DEF ReceptionPhase
<1>2. CASE isReceiving' = isReceiving /\ hasReceived' = hasReceived
           /\ UNCHANGED <<out, faulted>>
  BY <1>2 DEF Abstract!vars, ReceptionPhase
<1>3. CASE EndReception /\ isReceiving /\ hasReceived /\ UNCHANGED <<out, faulted>>
  BY <1>0, <1>1, <1>3, Phases DEF Abstract!Next, Abstract!End, EndReception
<1>4. CASE BeginReception /\ ~isReceiving /\ UNCHANGED <<out, faulted>>
  BY <1>0, <1>1, <1>4, Phases DEF Abstract!Next, Abstract!Begin, BeginReception
<1>5. CASE process \/ configure_node \/ recheck
  BY <1>0, <1>2, <1>3, <1>4, <1>5 DEF process, configure_node, recheck
<1>6. CASE async_work
  <2>1. CASE isReceiving
    <3>1. /\ out' = Append(out, Head(rx)) /\ hasReceived' /\ UNCHANGED <<isReceiving, faulted>>
      BY <1>6, <2>1 DEF async_work
    <3>2. Head(rx) \in Conns
      BY <1>6, HeadTailProperties DEF async_work, TransceiverInv, TypeOK
    <3>3. ~hasReceived \/ "leave" \in faulted
      BY <1>6, MeasurementExpected DEF TransceiverInv, ReceiverInv, Calm
    <3>4. ReceptionPhase = "begun" \/ ("leave" \in faulted /\ ReceptionPhase = "measured")
      BY <1>0, <2>1, <3>3, Phases
    <3>5. ReceptionPhase' = "measured"
      BY <1>1, <2>1, <3>1
    <3>6. Abstract!Measure
      BY <3>1, <3>2, <3>4, <3>5 DEF Abstract!Measure
    <3>7. QED
      BY <3>6 DEF Abstract!Next
  <2>2. CASE ~isReceiving
    BY <1>2, <1>6, <2>2 DEF async_work
  <2>3. QED
    BY <2>1, <2>2
<1>7. CASE work \/ accept \/ stop_listening \/ write_response \/ end_session
           \/ spurious_wakeup \/ notify_all \/ join_request_thread \/ UNCHANGED vars
  BY <1>2, <1>7 DEF work, accept, stop_listening, write_response, end_session,
     spurious_wakeup, notify_all, join_request_thread, vars, receiverVars
<1>8. CASE /\ UNCHANGED <<isReceiving, hasReceived, out>>
           /\ ("leave" \in faulted') = ("leave" \in faulted)
  BY <1>8 DEF Abstract!vars, ReceptionPhase
<1>9. CASE unload
  BY <1>8, <1>9 DEF unload
<1>10. ASSUME NEW s \in Senders, SenderStep(s) \/ \E n \in 1..MaxSymbols : transmit(s, n)
       PROVE  [Abstract!Next]_(Abstract!vars)
  <2>1. UNCHANGED <<isReceiving, hasReceived, out>>
    BY <1>10, SenderFrame DEF receiverVars
  <2>2. ("leave" \in faulted') = ("leave" \in faulted)
    BY <1>10 DEF SenderStep, open_connection, read_open, call_dispatcher,
       close_connection, read_close, connection_lost, transmit
  <2>3. QED
    BY <1>8, <2>1, <2>2
<1>11. ASSUME NEW s \in Senders, leave(s)
       PROVE  [Abstract!Next]_(Abstract!vars)
  <2>1. UNCHANGED <<isReceiving, hasReceived, out>> /\ "leave" \in faulted'
    BY <1>11 DEF leave, receiverVars
  <2>2. ReceptionPhase' = ReceptionPhase
    BY <2>1 DEF ReceptionPhase
  <2>3. CASE "leave" \in faulted
    BY <1>8, <2>1, <2>3
  <2>4. CASE "leave" \notin faulted
    BY <2>1, <2>2, <2>4 DEF Abstract!Next, Abstract!Disturb
  <2>5. QED
    BY <2>3, <2>4
<1>12. QED
  BY <1>5, <1>6, <1>7, <1>9, <1>10, <1>11 DEF Next, RequestStep, AsyncStep

\* A transceiver implements Reception: receptions begin, get their measurement and
\* end in this order, for any senders and faults, and each gets exactly one
\* measurement until a sender leaves in the middle of an exchange.
THEOREM TransceiverImplementsReception == Spec => ImplementsReception
<1>1. Init => Abstract!Init
  <2>1. SUFFICES ASSUME Init PROVE Abstract!Init
    OBVIOUS
  <2>2. ReceptionPhase = "idle"
    BY <2>1, InitInv, Phases DEF Init, TransceiverInv, TypeOK
  <2>3. ("leave" \in faulted) = FALSE /\ out = <<>>
    BY <2>1 DEF Init
  <2>4. QED
    BY <2>2, <2>3 DEF Abstract!Init
<1>2. QED
  BY <1>1, ReceptionStep, TransceiverInvariant, PTL DEF Spec, ImplementsReception, Abstract!Spec

=============================================================================
