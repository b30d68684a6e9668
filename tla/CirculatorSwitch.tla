-------------------------- MODULE CirculatorSwitch -------------------------
(***************************************************************************)
(* trabea's processing unit: iswitch_proc_unit (get_state and configure)   *)
(* over circulator_switch, which keeps the rotation of the switch in state *)
(* and sends every change of it to the dispatcher of the simulation        *)
(* through net::simulation::client.                                        *)
(*                                                                         *)
(* Calls are serialised by stateMutex. What can go wrong is the dispatcher *)
(* call: it may answer with an error, or send or recv may throw, before or *)
(* after the dispatcher acted on the request.                              *)
(***************************************************************************)
EXTENDS Naturals

CONSTANTS
  PortCounts,   \* values of the parameter p
  SizeBound     \* std::size_t counts modulo this

ASSUME SwitchAssumption ==
  /\ SizeBound \in Nat \ {0}
  /\ PortCounts \subseteq 0..(SizeBound - 1)

Ports == 0..(SizeBound - 1)
Chiralities == {"cw", "ccw"}

VARIABLES
  phase,       \* "new", "ready", or "failed" by an exception of the start
  portCount,
  state,       \* the rotation the unit believes in
  netState,    \* the rotation the dispatcher has configured
  reply,       \* the last call and its answer
  failed       \* history: the last call of the dispatcher did not succeed

vars == <<phase, portCount, state, netState, reply, failed>>

----------------------------------------------------------------------------

Init ==
  /\ phase = "new"
  /\ portCount \in PortCounts
  /\ state \in Chiralities      \* uninitialised member
  /\ netState \in Chiralities   \* whatever the dispatcher was left in
  /\ reply = [call |-> "none"]
  /\ failed = FALSE

\* dispatcher->call("configure_qswitch", s): the answer, and what becomes of
\* the dispatcher. The request and a reply may each be lost with an exception.
DispatcherCall(s, answer) ==
  /\ netState' \in CASE answer = "ok" -> {s}
                     [] answer = "error" -> {netState}
                     [] answer = "throw" -> {s, netState}
  /\ failed' = (answer # "ok")

Answers == {"ok", "error", "throw"}

\* string_initialize_parameters: ccw is configured; an error is thrown on.
string_initialize_parameters(answer) ==
  /\ phase = "new"
  /\ state' = "ccw"
  /\ DispatcherCall("ccw", answer)
  /\ phase' = IF answer = "ok" THEN "ready" ELSE "failed"
  /\ UNCHANGED <<portCount, reply>>

\* Mutant: the ports are swapped.
RotationSwapped(inPort, outPort) ==
  IF (outPort + 1) % SizeBound = inPort THEN "cw" ELSE "ccw"

\* Mutant: newState is left uninitialised when the condition is false.
RotationUnset(inPort, outPort) ==
  LET next == (inPort + 1) % SizeBound
  IN  IF next = outPort \/ next = portCount THEN "cw" ELSE "unset"

\* The rotation that connects two ports, in the arithmetic of std::size_t; the
\* condition is the same in get_switch_state and set_switch_state.
Rotation(inPort, outPort) ==
  LET next == (inPort + 1) % SizeBound
  IN  IF next = outPort \/ next = portCount THEN "cw" ELSE "ccw"

get_switch_state(inPort, outPort) == state = Rotation(inPort, outPort)

\* proc_act_request "get_state".
get_state(inPort, outPort) ==
  /\ phase = "ready"
  /\ reply' = [call |-> "get_state", in |-> inPort, out |-> outPort,
               result |-> get_switch_state(inPort, outPort)]
  /\ UNCHANGED <<phase, portCount, state, netState, failed>>

\* set_switch_state returns false at once for ports the switch does not have,
\* and calls the dispatcher only for a change.
InRange(inPort, outPort) == inPort < portCount /\ outPort < portCount

\* Mutant: the comparison with the present rotation is inverted.
ToldInverted(inPort, outPort) ==
  InRange(inPort, outPort) /\ Rotation(inPort, outPort) = state

Told(inPort, outPort) ==
  InRange(inPort, outPort) /\ Rotation(inPort, outPort) # state

\* proc_act_push "configure": set_switch_state stores the new rotation first
\* and tells the dispatcher afterwards; nothing takes the store back.
configure(inPort, outPort, answer) ==
  /\ phase = "ready"
  /\ state' = IF InRange(inPort, outPort)
              THEN Rotation(inPort, outPort) ELSE state
  /\ IF Told(inPort, outPort)
     THEN DispatcherCall(Rotation(inPort, outPort), answer)
     ELSE UNCHANGED <<netState, failed>>
  /\ reply' = [call |-> "configure", in |-> inPort, out |-> outPort,
               result |-> IF Told(inPort, outPort) THEN answer = "ok"
                          ELSE InRange(inPort, outPort)]
  /\ UNCHANGED <<phase, portCount>>

Next ==
  \/ \E a \in Answers : string_initialize_parameters(a)
  \/ \E i, o \in Ports : get_state(i, o)
  \/ \E i, o \in Ports, a \in Answers : configure(i, o, a)

Spec == Init /\ [][Next]_vars

----------------------------------------------------------------------------

\* The types of the members and of the replies.
TypeOK ==
  /\ phase \in {"new", "ready", "failed"}
  /\ portCount \in PortCounts
  /\ state \in Chiralities
  /\ netState \in Chiralities
  /\ reply \in [call : {"none"}]
               \union [call : {"get_state", "configure"}, in : Ports,
                       out : Ports, result : BOOLEAN]
  /\ failed \in BOOLEAN

\* The unit and the dispatcher disagree only after a dispatcher call that
\* failed, and the next call that succeeds ends the disagreement: a failure
\* is not remembered in state for ever.
DivergesOnlyAfterFailure ==
  phase = "ready" /\ ~failed => state = netState

\* The ports that a rotation connects: the circulant matrix of the class
\* comment (1->2, 2->3, 3->1), and its transpose for the other rotation.
Connects(s, n, i, o) ==
  IF s = "cw" THEN o = (i + 1) % n ELSE i = (o + 1) % n

\* What get_state answers about two ports is what the circulant matrix says of
\* the rotation, for neighbouring ports of a switch with at least three ports,
\* from every port but the last: there inPort + 1 = portCount answers cw whatever
\* outPort is.
AnswersAgreeWithRing ==
  reply.call = "get_state" /\ portCount > 2 =>
    LET i == reply.in
        o == reply.out
    IN  i < portCount - 1 /\ (o = i + 1 \/ o = (i + portCount - 1) % portCount)
          => reply.result = Connects(state, portCount, i, o)

----------------------------------------------------------------------------
(* What the comments say, and the code does not do.                        *)

\* circulator_switch.hpp says of set_switch_state "Set the switch such that two
\* ports are connected": a configure that returned true left the switch so.
ConfiguredMeansConnected ==
  reply.call = "configure" /\ reply.result
    => netState = Rotation(reply.in, reply.out)

=============================================================================
