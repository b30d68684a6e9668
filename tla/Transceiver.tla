----------------------------- MODULE Transceiver ---------------------------
(***************************************************************************)
(* brazil's simulated transceivers: itrx_proc_unit with its children       *)
(* trx_circuit and bobwire_circuit, the session server of net/server.hpp   *)
(* they listen with, and the tcp_client they transmit with.                *)
(*                                                                         *)
(* One unit receives; the Senders are the sync threads of other processes, *)
(* each in transmit() of a unit of its own. For every symbol a sender      *)
(* opens a connection, announces itself, hands a circuit to the dispatcher *)
(* of the simulation, and announces the end; the dispatcher publishes the  *)
(* measurement to the receiver. In the receiver the request thread serves  *)
(* one session after the other, and the async thread takes measurements    *)
(* from the dispatcher; they meet in isReceiving and hasReceived, under    *)
(* requestMutex, and in hasReceivedCV.                                     *)
(*                                                                         *)
(* process() does not look at the request: it only toggles isReceiving.    *)
(* A measurement is named after the connection it belongs to.              *)
(***************************************************************************)
EXTENDS Naturals, Sequences

CONSTANTS
  Senders,
  MaxSymbols,   \* bound: symbols of a sender
  Budgets,      \* bound: how many symbols the senders transmit together
  Faults,       \* what may go wrong, a subset of AllFaults
  NoConn        \* no session

\* What the environment may do to the exchange: a sender leaves between its
\* announcements, the dispatcher refuses a circuit, a publication is lost, the
\* dispatcher does not answer, the unit is unloaded.
AllFaults == {"leave", "refuse", "lose", "mute", "unload"}

Conns == Senders \X (1..MaxSymbols)

ASSUME TransceiverAssumption ==
  /\ MaxSymbols \in Nat
  /\ Budgets \subseteq [Senders -> 0..MaxSymbols]
  /\ Faults \subseteq AllFaults
  /\ NoConn \notin Senders \X Nat

VARIABLES
  \* the receiver
  kind,         \* "trx" (trx_circuit) or "bobwire" (bobwire_circuit)
  isReceiving,
  hasReceived,
  reqPc,        \* control of the request thread
  session,      \* the connection run() serves
  asyncPc,      \* control of the async thread
  out,          \* the async buffer
  unloadPc,     \* "loaded", "joining" in ~itrx_proc_unit, "unloaded"
  fate,         \* "alive", or the exception that ended the process
  \* the network
  backlog,      \* connections that are not accepted yet
  rx,           \* measurements published to the receiver
  \* the senders
  txPc,         \* control of transmit
  cur,          \* connections opened so far: the last one is <<s, cur[s]>>
  left,         \* symbols of the buffer that are not begun
  wire,         \* the request written to the last connection and not read
  answer,       \* a response is there to be read
  reply,        \* the answer of the dispatcher
  efsm,         \* the REQ socket still expects a reply that was given up
  \* history
  acked,        \* connections whose exchange ended without an error
  faulted       \* faults that have happened

receiverVars == <<kind, isReceiving, hasReceived, reqPc, session, asyncPc, out,
                  unloadPc, fate>>
senderVars == <<txPc, cur, left, wire, answer, reply, efsm>>
vars == <<receiverVars, backlog, rx, senderVars, acked, faulted>>

Init ==
  /\ kind \in {"trx", "bobwire"}
  /\ isReceiving = FALSE
  /\ hasReceived = FALSE
  /\ reqPc = "start"
  /\ session = NoConn
  /\ asyncPc = "recv"
  /\ out = <<>>
  /\ unloadPc = "loaded"
  /\ fate = "alive"
  /\ backlog = <<>>
  /\ rx = <<>>
  /\ txPc = [s \in Senders |-> "idle"]
  /\ cur = [s \in Senders |-> 0]
  /\ left = [s \in Senders |-> 0]
  /\ wire = [s \in Senders |-> FALSE]
  /\ answer = [s \in Senders |-> FALSE]
  /\ reply = [s \in Senders |-> "none"]
  /\ efsm = [s \in Senders |-> FALSE]
  /\ acked = {}
  /\ faulted = {}

----------------------------------------------------------------------------
(* The request thread: work() and the session server.                      *)

Alive == fate = "alive"

\* The acceptor exists from the construction of the server to the end of work().
Listening == Alive /\ reqPc \notin {"start", "ended"}

\* The sender's end of a connection is open.
Exchanging(s) == txPc[s] \in {"opening", "call", "await_reply", "closing"}
Connected(c) == c[2] = cur[c[1]] /\ Exchanging(c[1])

\* A request is waiting on the connection, also one of a sender that has left.
Readable(c) == c[2] = cur[c[1]] /\ wire[c[1]]

\* work(): the server is constructed under requestMutex and accepts.
work ==
  /\ Alive /\ reqPc = "start"
  /\ reqPc' = "accept"
  /\ UNCHANGED <<kind, isReceiving, hasReceived, session, asyncPc, out,
                 unloadPc, fate, backlog, rx, senderVars, acked, faulted>>

\* The handler of async_accept: a session runs inside the handler, so that no
\* other connection is accepted before it ends.
accept ==
  /\ Alive /\ reqPc = "accept" /\ unloadPc = "loaded"
  /\ backlog # <<>>
  /\ session' = Head(backlog)
  /\ backlog' = Tail(backlog)
  /\ reqPc' = "read"
  /\ UNCHANGED <<kind, isReceiving, hasReceived, asyncPc, out, unloadPc, fate,
                 rx, senderVars, acked, faulted>>

\* run() returns after ioService.stop(), and work() with it.
stop_listening ==
  /\ Alive /\ reqPc = "accept" /\ unloadPc # "loaded"
  /\ reqPc' = "ended"
  /\ UNCHANGED <<kind, isReceiving, hasReceived, session, asyncPc, out,
                 unloadPc, fate, backlog, rx, senderVars, acked, faulted>>

\* Mutant: the flag of the measurement is left set.
EndReceptionKeepsFlag == isReceiving' = FALSE /\ UNCHANGED hasReceived

\* process() from its lock to its end or to the wait: where control goes next.
EndReception == isReceiving' = FALSE /\ hasReceived' = FALSE
\* Mutant: the announcement does not set isReceiving.
BeginReceptionIgnored == UNCHANGED <<isReceiving, hasReceived>>

BeginReception == isReceiving' = TRUE /\ UNCHANGED hasReceived

\* read() returned a request, and process() is called with it.
process ==
  /\ Alive /\ reqPc = "read" /\ Readable(session)
  /\ wire' = [wire EXCEPT ![session[1]] = FALSE]
  /\ \/ isReceiving /\ hasReceived /\ EndReception /\ reqPc' = "reply"
     \/ /\ isReceiving /\ ~hasReceived /\ reqPc' = "wait"
        /\ UNCHANGED <<isReceiving, hasReceived>>
     \/ ~isReceiving /\ kind = "trx" /\ BeginReception /\ reqPc' = "reply"
     \/ /\ ~isReceiving /\ kind = "bobwire" /\ reqPc' = "configure"
        /\ UNCHANGED <<isReceiving, hasReceived>>
  /\ UNCHANGED <<kind, session, asyncPc, out, unloadPc, fate, backlog, rx,
                 txPc, cur, left, answer, reply, efsm, acked, faulted>>

\* bobwire's process() sends the next basis to the dispatcher with requestMutex
\* held. ~bobwire_circuit deletes the dispatcher before the thread is joined.
configure_node ==
  /\ Alive /\ reqPc = "configure"
  /\ \/ unloadPc = "loaded" /\ BeginReception /\ reqPc' = "reply" /\ UNCHANGED fate
     \/ /\ unloadPc = "loaded" /\ "refuse" \in Faults
        /\ fate' = "throw" /\ UNCHANGED <<reqPc, isReceiving, hasReceived>>
     \/ /\ unloadPc # "loaded"
        /\ fate' = "undefined" /\ UNCHANGED <<reqPc, isReceiving, hasReceived>>
  /\ UNCHANGED <<kind, session, asyncPc, out, unloadPc, backlog, rx, senderVars,
                 acked, faulted>>

\* hasReceivedCV.wait: a wakeup without notification.
spurious_wakeup ==
  /\ Alive /\ reqPc = "wait"
  /\ reqPc' = "woken"
  /\ UNCHANGED <<kind, isReceiving, hasReceived, session, asyncPc, out,
                 unloadPc, fate, backlog, rx, senderVars, acked, faulted>>

\* Mutant: wait without a predicate.
recheck_unconditional ==
  /\ Alive /\ reqPc = "woken"
  /\ EndReception /\ reqPc' = "reply"
  /\ UNCHANGED <<kind, session, asyncPc, out, unloadPc, fate, backlog, rx,
                 senderVars, acked, faulted>>

\* The predicate is evaluated with requestMutex held.
recheck ==
  /\ Alive /\ reqPc = "woken"
  /\ IF hasReceived
     THEN EndReception /\ reqPc' = "reply"
     ELSE UNCHANGED <<isReceiving, hasReceived>> /\ reqPc' = "wait"
  /\ UNCHANGED <<kind, session, asyncPc, out, unloadPc, fate, backlog, rx,
                 senderVars, acked, faulted>>

\* The response is written. A write to a closed connection ends the session.
write_response ==
  /\ Alive /\ reqPc = "reply"
  /\ IF Connected(session)
     THEN /\ answer' = [answer EXCEPT ![session[1]] = TRUE]
          /\ reqPc' = "read"
          /\ UNCHANGED session
     ELSE /\ reqPc' = "accept"
          /\ session' = NoConn
          /\ UNCHANGED answer
  /\ UNCHANGED <<kind, isReceiving, hasReceived, asyncPc, out, unloadPc, fate,
                 backlog, rx, txPc, cur, left, wire, reply, efsm, acked, faulted>>

\* Mutant: the session is deleted and accept() is not called again.
end_session_without_accept ==
  /\ Alive /\ reqPc = "read"
  /\ ~Connected(session) /\ ~Readable(session)
  /\ session' = NoConn
  /\ reqPc' = "ended"
  /\ UNCHANGED <<kind, isReceiving, hasReceived, asyncPc, out, unloadPc, fate,
                 backlog, rx, senderVars, acked, faulted>>

\* read() reports that the peer has closed: delete this, and accept() again.
end_session ==
  /\ Alive /\ reqPc = "read"
  /\ ~Connected(session) /\ ~Readable(session)
  /\ session' = NoConn
  /\ reqPc' = "accept"
  /\ UNCHANGED <<kind, isReceiving, hasReceived, asyncPc, out, unloadPc, fate,
                 backlog, rx, senderVars, acked, faulted>>

RequestStep ==
  \/ work \/ accept \/ stop_listening \/ process \/ configure_node \/ recheck
  \/ write_response \/ end_session

----------------------------------------------------------------------------
(* The async thread, and the end of the unit.                              *)

\* async_work: recv, then the section under requestMutex, which the request
\* thread holds while it configures the dispatcher. The exception "Should never
\* happen" leaves the thread and ends the process.
async_work ==
  /\ Alive /\ asyncPc = "recv" /\ rx # <<>> /\ reqPc # "configure"
  /\ rx' = Tail(rx)
  /\ IF isReceiving
     THEN /\ out' = Append(out, Head(rx))
          /\ hasReceived' = TRUE
          /\ asyncPc' = "notify"
          /\ UNCHANGED fate
     ELSE /\ fate' = "unreachable"
          /\ UNCHANGED <<out, hasReceived, asyncPc>>
  /\ UNCHANGED <<kind, isReceiving, reqPc, session, unloadPc, backlog,
                 senderVars, acked, faulted>>

\* Mutant: nobody is notified.
notify_nobody ==
  /\ Alive /\ asyncPc = "notify"
  /\ asyncPc' = "recv"
  /\ UNCHANGED <<kind, isReceiving, hasReceived, reqPc, session, out, unloadPc,
                 fate, backlog, rx, senderVars, acked, faulted>>

\* hasReceivedCV.notify_all, after the unlock.
notify_all ==
  /\ Alive /\ asyncPc = "notify"
  /\ asyncPc' = "recv"
  /\ reqPc' = IF reqPc = "wait" THEN "woken" ELSE reqPc
  /\ UNCHANGED <<kind, isReceiving, hasReceived, session, out, unloadPc, fate,
                 backlog, rx, senderVars, acked, faulted>>

AsyncStep == async_work \/ notify_all

\* The module has joined the async thread and deletes the unit: the dispatcher
\* goes first, then ~itrx_proc_unit stops ioService and joins.
unload ==
  /\ Alive /\ "unload" \in Faults
  /\ unloadPc = "loaded" /\ asyncPc = "recv"
  /\ unloadPc' = "joining"
  /\ asyncPc' = "stopped"
  /\ faulted' = faulted \union {"unload"}
  /\ UNCHANGED <<kind, isReceiving, hasReceived, reqPc, session, out, fate,
                 backlog, rx, senderVars, acked>>

join_request_thread ==
  /\ Alive /\ unloadPc = "joining" /\ reqPc = "ended"
  /\ unloadPc' = "unloaded"
  /\ UNCHANGED <<kind, isReceiving, hasReceived, reqPc, session, asyncPc, out,
                 fate, backlog, rx, senderVars, acked, faulted>>

----------------------------------------------------------------------------
(* The senders: transmit(), with open_connection and close_connection.     *)

WithinBudget(s, n) ==
  \E b \in Budgets :
    /\ cur[s] + n <= b[s]
    /\ \A t \in Senders \ {s} : cur[t] + left[t] <= b[t]

\* proc_act_push "tx" with a buffer of n symbols.
transmit(s, n) ==
  /\ txPc[s] = "idle" /\ WithinBudget(s, n)
  /\ txPc' = [txPc EXCEPT ![s] = "open"]
  /\ left' = [left EXCEPT ![s] = n]
  /\ UNCHANGED <<receiverVars, backlog, rx, cur, wire, answer, reply, efsm,
                 acked, faulted>>

\* connect and write; connect throws when nobody listens.
open_connection(s) ==
  /\ txPc[s] = "open"
  /\ IF Listening
     THEN /\ txPc' = [txPc EXCEPT ![s] = "opening"]
          /\ cur' = [cur EXCEPT ![s] = @ + 1]
          /\ left' = [left EXCEPT ![s] = @ - 1]
          /\ wire' = [wire EXCEPT ![s] = TRUE]
          /\ backlog' = Append(backlog, <<s, cur[s] + 1>>)
     ELSE /\ txPc' = [txPc EXCEPT ![s] = "idle"]
          /\ left' = [left EXCEPT ![s] = 0]
          /\ UNCHANGED <<cur, wire, backlog>>
  /\ UNCHANGED <<receiverVars, rx, answer, reply, efsm, acked, faulted>>

\* The response to the first announcement is read and not looked at.
read_open(s) ==
  /\ txPc[s] = "opening" /\ answer[s]
  /\ txPc' = [txPc EXCEPT ![s] = "call"]
  /\ answer' = [answer EXCEPT ![s] = FALSE]
  /\ UNCHANGED <<receiverVars, backlog, rx, cur, left, wire, reply, efsm, acked,
                 faulted>>

\* client::call sends, and the dispatcher acts: it publishes the measurement and
\* agrees, or one of the faults happens. A REQ socket that expects a reply throws.
call_dispatcher(s) ==
  /\ txPc[s] = "call" /\ ~efsm[s]
  /\ txPc' = [txPc EXCEPT ![s] = "await_reply"]
  /\ \/ /\ reply' = [reply EXCEPT ![s] = "ok"]
        /\ rx' = Append(rx, <<s, cur[s]>>)
        /\ UNCHANGED faulted
     \/ /\ "lose" \in Faults
        /\ reply' = [reply EXCEPT ![s] = "ok"]
        /\ faulted' = faulted \union {"lose"}
        /\ UNCHANGED rx
     \/ /\ "refuse" \in Faults
        /\ reply' = [reply EXCEPT ![s] = "error"]
        /\ faulted' = faulted \union {"refuse"}
        /\ UNCHANGED rx
     \/ /\ "mute" \in Faults
        /\ rx' \in {rx, Append(rx, <<s, cur[s]>>)}
        /\ faulted' = faulted \union {"mute"}
        /\ UNCHANGED reply
  /\ UNCHANGED <<receiverVars, backlog, cur, left, wire, answer, efsm, acked>>

\* client::call has its reply; the second announcement is written.
close_connection(s) ==
  /\ txPc[s] = "await_reply" /\ reply[s] # "none"
  /\ txPc' = [txPc EXCEPT ![s] = "closing"]
  /\ wire' = [wire EXCEPT ![s] = TRUE]
  /\ UNCHANGED <<receiverVars, backlog, rx, cur, left, answer, reply, efsm,
                 acked, faulted>>

\* Mutant: the loop does not end with the buffer.
read_close_runs_on(s) ==
  /\ txPc[s] = "closing" /\ answer[s]
  /\ answer' = [answer EXCEPT ![s] = FALSE]
  /\ reply' = [reply EXCEPT ![s] = "none"]
  /\ txPc' = [txPc EXCEPT ![s] = IF reply[s] = "ok" THEN "open" ELSE "idle"]
  /\ acked' = IF reply[s] = "ok" THEN acked \union {<<s, cur[s]>>} ELSE acked
  /\ UNCHANGED <<receiverVars, backlog, rx, cur, left, wire, efsm, faulted>>

\* The response to the second announcement: the connection is closed, and the
\* loop goes on, or transmit returns.
read_close(s) ==
  /\ txPc[s] = "closing" /\ answer[s]
  /\ answer' = [answer EXCEPT ![s] = FALSE]
  /\ reply' = [reply EXCEPT ![s] = "none"]
  /\ left' = [left EXCEPT ![s] = IF reply[s] = "ok" THEN @ ELSE 0]
  /\ txPc' = [txPc EXCEPT ![s] = IF reply[s] = "ok" /\ left[s] > 0
                                 THEN "open" ELSE "idle"]
  /\ acked' = IF reply[s] = "ok" THEN acked \union {<<s, cur[s]>>} ELSE acked
  /\ UNCHANGED <<receiverVars, backlog, rx, cur, wire, efsm, faulted>>

\* What transmit has on its stack goes with it.
Unwind(s) ==
  /\ left' = [left EXCEPT ![s] = 0]
  /\ answer' = [answer EXCEPT ![s] = FALSE]
  /\ reply' = [reply EXCEPT ![s] = "none"]

\* The receiver is gone. read() or write() throws; the destructor of the client
\* may throw in turn, on a connection that was reset, and ends the sender.
connection_lost(s) ==
  /\ Exchanging(s) /\ ~Listening
  /\ \E t \in {"idle", "crashed"} : txPc' = [txPc EXCEPT ![s] = t]
  /\ Unwind(s)
  /\ UNCHANGED <<receiverVars, backlog, rx, cur, wire, efsm, acked, faulted>>

\* The sender leaves between its announcements: its process is killed, with a
\* request on the wire or not, or client::call throws, at once when the socket
\* expects a reply, and the connection is closed on the way out.
leave(s) ==
  /\ faulted' = faulted \union {"leave"}
  /\ Unwind(s)
  /\ \/ /\ "leave" \in Faults /\ Exchanging(s)
        /\ txPc' = [txPc EXCEPT ![s] = "crashed"]
        /\ \E w \in {FALSE, wire[s]} : wire' = [wire EXCEPT ![s] = w]
        /\ UNCHANGED efsm
     \/ /\ "leave" \in Faults /\ txPc[s] \in {"call", "await_reply"}
        /\ txPc' = [txPc EXCEPT ![s] = "idle"]
        /\ efsm' = [efsm EXCEPT ![s] = @ \/ txPc[s] = "await_reply"]
        /\ UNCHANGED wire
     \/ /\ txPc[s] = "call" /\ efsm[s]
        /\ txPc' = [txPc EXCEPT ![s] = "idle"]
        /\ UNCHANGED <<wire, efsm>>
  /\ UNCHANGED <<receiverVars, backlog, rx, cur, acked>>

SenderStep(s) ==
  \/ open_connection(s) \/ read_open(s) \/ call_dispatcher(s)
  \/ close_connection(s) \/ read_close(s) \/ connection_lost(s)

----------------------------------------------------------------------------

Next ==
  \/ RequestStep \/ spurious_wakeup
  \/ AsyncStep
  \/ unload \/ join_request_thread
  \/ \E s \in Senders :
       \/ SenderStep(s) \/ leave(s)
       \/ \E n \in 1..MaxSymbols : transmit(s, n)

Spec == Init /\ [][Next]_vars

\* Threads are scheduled; a call that has returned goes on. The dispatcher acts
\* on what it is sent. Nothing forces a transmission, a wakeup or a fault.
FairSpec ==
  /\ Spec
  /\ WF_vars(RequestStep)
  /\ WF_vars(AsyncStep)
  /\ WF_vars(join_request_thread)
  /\ \A s \in Senders : WF_vars(SenderStep(s))

----------------------------------------------------------------------------

\* The types of the members, and the control points of the threads.
TypeOK ==
  /\ kind \in {"trx", "bobwire"}
  /\ isReceiving \in BOOLEAN
  /\ hasReceived \in BOOLEAN
  /\ reqPc \in {"start", "accept", "read", "configure", "wait", "woken", "reply",
                "ended"}
  /\ session \in Conns \union {NoConn}
  /\ asyncPc \in {"recv", "notify", "stopped"}
  /\ out \in Seq(Conns)
  /\ unloadPc \in {"loaded", "joining", "unloaded"}
  /\ fate \in {"alive", "unreachable", "throw", "undefined"}
  /\ backlog \in Seq(Conns)
  /\ rx \in Seq(Conns)
  /\ txPc \in [Senders -> {"idle", "open", "opening", "call", "await_reply",
                           "closing", "crashed"}]
  /\ cur \in [Senders -> Nat] /\ left \in [Senders -> Nat]
  /\ \A s \in Senders : cur[s] + left[s] <= MaxSymbols
  /\ wire \in [Senders -> BOOLEAN]
  /\ answer \in [Senders -> BOOLEAN]
  /\ reply \in [Senders -> {"none", "ok", "error"}]
  /\ efsm \in [Senders -> BOOLEAN]
  /\ acked \subseteq Conns
  /\ faulted \subseteq AllFaults

\* async_work calls a measurement outside of a reception something that "should
\* never happen", and it ends the process. It does not happen as long as every
\* sender that announced a transmission also announced its end.
UnreachableOnlyAfterLeave == fate = "unreachable" => "leave" \in faulted

\* When transmit has gone past a symbol, the measurement of that symbol is in the
\* buffer of the receiver: the response to the second announcement waits for it.
AckedIsBuffered ==
  "leave" \notin faulted => \A c \in acked : \E i \in 1..Len(out) : out[i] = c

\* A request thread that sleeps although a measurement is there is about to be
\* notified: the notification after the unlock is not lost.
NoLostWakeup == Alive /\ reqPc = "wait" /\ hasReceived => asyncPc = "notify"

\* A transmission that is begun returns, as long as nothing has gone wrong:
\* sessions are served one after the other, and nobody waits for ever.
TransmitReturns ==
  \A s \in Senders :
    txPc[s] = "open" ~> (txPc[s] = "idle" \/ faulted # {} \/ fate # "alive")

\* process() and async_work() keep to the cycle of a reception, whatever the
\* dispatcher and the network do, with one measurement for each until a sender
\* leaves between its announcements.
ReceptionPhase ==
  CASE ~isReceiving -> "idle"
    [] isReceiving /\ ~hasReceived -> "begun"
    [] isReceiving /\ hasReceived -> "measured"

Abstract == INSTANCE Reception WITH Items <- Conns, phase <- ReceptionPhase,
                                    measured <- out,
                                    disturbed <- "leave" \in faulted

ImplementsReception == Abstract!Spec

=============================================================================
