----------------------------- MODULE SyncServer ----------------------------
(***************************************************************************)
(* zmq_server::sync_work: the sync thread receives a message of the        *)
(* client, decodes it (middleware::request), has the manager and the unit  *)
(* process it, and sends a middleware::response back.                      *)
(*                                                                         *)
(* A message is what decoding makes of it, and a unit is the set of ways   *)
(* in which its proc_act_request and proc_act_push can end. An assertion   *)
(* of rapidjson or of the C library ends the process ("abort", the default *)
(* build keeps assertions), and so does an exception that leaves the       *)
(* thread: the only catch around the loop is for zmq::error_t.             *)
(***************************************************************************)
EXTENDS Naturals, Sequences

CONSTANT MaxMessages    \* bound: messages received

ASSUME SyncAssumption == MaxMessages \in Nat

Units == {"switch", "trx", "bobwire", "lcc"}
Transceivers == {"trx", "bobwire"}

\* "none" stands for a member that is not looked at.
Message(forms, actions, methods, params) ==
  [form : forms, action : actions, method : methods, params : params]

\* Undecodable text, the actions a server cannot be asked for, and the two it
\* can: with a method the unit knows or not, and parameters of the types it reads
\* or not.
Messages ==
  Message({"empty", "unterminated", "unparsable", "no_action", "unknown_action"},
          {"none"}, {"none"}, {"none"})
  \union Message({"json"}, {"wait", "reply"}, {"none"}, {"none"})
  \union Message({"json"}, {"request", "push"}, {"absent", "known", "other"},
                 {"ok", "bad"})

VARIABLES
  syncPc,     \* control of the sync thread
  rspns,      \* the response to be sent
  handled,    \* history: messages received
  answers     \* history: what was sent for each, or "dropped"

syncVars == <<syncPc, rspns, handled, answers>>

SyncInit ==
  /\ syncPc = "none"
  /\ rspns = "none"
  /\ handled = <<>>
  /\ answers = <<>>

current == handled[Len(handled)]

----------------------------------------------------------------------------

\* str_map: the action a name stands for, or an exception.
str_map(name) == IF name \in {"request", "reply", "wait", "push"} THEN name ELSE "throw"

\* Decoding: the check of the last byte, the constructor of request. For an
\* empty message the byte in front of the data is read: it is zero or not.
request(m) ==
  CASE m.form = "empty" -> {"throw", "abort"}
    [] m.form = "unterminated" -> {"throw"}
    [] m.form = "unparsable" -> {"abort"}
    [] m.form = "no_action" -> {"throw"}
    [] m.form \in {"unknown_action", "json"} -> {str_map(m.action)}

\* The call talks to the transceiver it sends to: transmit.
AsksPeer(u, m) ==
  /\ u \in Transceivers
  /\ m.method = "known" /\ m.action = "push" /\ m.params = "ok"

\* The call needs an answer of the dispatcher.
AsksDispatcher(u, m) ==
  \/ AsksPeer(u, m)
  \/ /\ u = "switch"
     /\ m.method = "known" /\ m.action = "push" /\ m.params = "ok"
  \/ u = "trx" /\ m.method = "known" /\ m.action = "request"

\* request.method() asserts that the member is there, parameter<T>(i) that the
\* array is long enough and the type right.
Asserts(u, m) ==
  /\ u # "lcc"
  /\ \/ m.method = "absent"
     \/ /\ m.method = "known" /\ m.params = "bad"
        /\ m.action = "push" \/ u = "switch"

\* proc_act_request of iswitch_proc_unit: a value; another method is thrown on.
switch_request(m) == IF m.method = "known" THEN {"value"} ELSE {"error"}

\* trx_circuit::proc_act_request does not return a value after the dispatcher
\* call: the pointer may be null, may be followed into nothing, or may happen to
\* hold a response.
trx_request(m) ==
  IF m.method = "known" THEN {"error", "value", "null", "abort"} ELSE {"error"}

bobwire_request(m) == {"error"}

lcc_request(m) == {"null"}

\* proc_act_push of the units with a dispatcher. transmit opens a connection to
\* its peer for every symbol, and the destructor of a connection throws when the
\* peer has gone: that ends the process.
push_outcomes(u, m) ==
  IF m.method # "known" THEN {"error"}
  ELSE {"value", "error"} \union (IF u \in Transceivers THEN {"crash"} ELSE {})

lcc_push(m) == {"value"}

\* How the unit ends the call.
Outcomes(u, m) ==
  IF Asserts(u, m) THEN {"abort"}
  ELSE IF m.action = "push"
  THEN IF u = "lcc" THEN lcc_push(m) ELSE push_outcomes(u, m)
  ELSE CASE u = "switch" -> switch_request(m)
         [] u = "trx" -> trx_request(m)
         [] u = "bobwire" -> bobwire_request(m)
         [] u = "lcc" -> lcc_request(m)

\* What is sent for an outcome: the unit's response, or response(e.what(), true)
\* for an exception.
response(outcome) == IF outcome = "value" THEN "value" ELSE "error"

\* The outcomes after which no response can be sent.
FatalOutcomes == {"null", "abort", "crash"}

\* Messages that may end the process when unit u is loaded.
Fatal(u, m) ==
  \/ m.form # "json"
  \/ m.action \in {"wait", "reply"}
  \/ Outcomes(u, m) \intersect FatalOutcomes # {}

=============================================================================
