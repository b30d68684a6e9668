---------------------------- MODULE MainProgram ----------------------------
(***************************************************************************)
(* The process: main loads the unit, which opens its sockets and talks to  *)
(* the dispatcher, lets the server launch its threads, installs the signal *)
(* handlers, pauses, and runs the destructors; the sync thread serves the  *)
(* client meanwhile, and a transceiver unit has two threads of its own,    *)
(* the async thread of the module and the request thread.                  *)
(*                                                                         *)
(* Three things couple the threads: the mutex of the manager, held by main *)
(* all through load_proc_unit and by the sync thread all through a call of *)
(* the unit; signals, which any thread may be given and which interrupt    *)
(* what it waits for; and global_zcontext, whose destructor, run by exit,  *)
(* makes the operations of all sockets fail and waits until every socket   *)
(* is closed.                                                              *)
(***************************************************************************)
EXTENDS SyncServer

CONSTANT MaxSignals     \* bound: signals sent to the process

ASSUME MainAssumption == MaxSignals \in Nat

VARIABLES
  mainPc,     \* control of main
  unit,       \* the unit that is loaded
  mutex,      \* stateMutex of the manager: "free", "main", "sync"
  asyncPc,    \* control of the async thread of the server
  sockets,    \* zmq sockets that are open
  caught,     \* signals with a handler
  signals,    \* signals so far
  mute,       \* the dispatcher does not answer any more
  silent,     \* the peer of the transmit in progress does not answer any more
  unitThreads,  \* the threads of a transceiver run
  escaped,    \* history: an exception has left one of them
  fate        \* "running"; "exiting" in exit; "ended", "terminated", "aborted", "killed"

envVars == <<signals, mute, silent>>
threadVars == <<unitThreads, escaped>>
mainVars == <<mainPc, unit, mutex, asyncPc, sockets, caught, envVars, threadVars, fate>>
vars == <<syncVars, mainVars>>

Signals == {"SIGINT", "SIGTERM"}

Init ==
  /\ SyncInit
  /\ mainPc = "options"
  /\ unit \in Units
  /\ mutex = "free"
  /\ asyncPc = "none"
  /\ sockets = {}
  /\ caught = {}
  /\ signals = 0
  /\ mute = FALSE
  /\ silent = FALSE
  /\ unitThreads = FALSE
  /\ escaped = FALSE
  /\ fate = "running"

Running == fate = "running"
Alive == fate \in {"running", "exiting"}

\* exit(): the static destructors run, that of global_zcontext among them. A
\* second exit while one is in progress is undefined: it waits or ends the process.
exit == fate' \in IF Running THEN {"exiting"} ELSE {"exiting", "ended"}

IsTransceiver == unit \in Transceivers
IsBrazil == unit # "switch"
HasDispatcher == unit # "lcc"

----------------------------------------------------------------------------
(* main up to pause.                                                       *)

\* Options, endpoints and the module name are right, or main exits.
options ==
  /\ Running /\ mainPc = "options"
  /\ \/ mainPc' = "load" /\ UNCHANGED fate
     \/ exit /\ mainPc' = "exit"
  /\ UNCHANGED <<syncVars, unit, mutex, asyncPc, sockets, caught, envVars,
                 threadVars>>

\* load_proc_unit: the mutex is taken and the unit constructed; the SUB socket is
\* a member of the transceivers. An unknown name is thrown on to main.
load_proc_unit ==
  /\ Running /\ mainPc = "load"
  /\ \/ /\ mainPc' = "init"
        /\ mutex' = "main"
        /\ sockets' = IF IsTransceiver THEN {"sub"} ELSE {}
        /\ UNCHANGED fate
     \/ exit /\ mainPc' = "exit" /\ UNCHANGED <<mutex, sockets>>
  /\ UNCHANGED <<syncVars, unit, asyncPc, caught, envVars,
                 threadVars>>

\* string_initialize_parameters: options that are missing make the unit itself
\* call exit, values that are wrong are thrown on to main, which does.
initialize_unit ==
  /\ Running /\ mainPc = "init"
  /\ \/ /\ mainPc' = IF HasDispatcher THEN "configure" ELSE "notify"
        /\ sockets' = IF HasDispatcher THEN sockets \union {"req"} ELSE sockets
        /\ UNCHANGED <<mutex, fate>>
     \/ exit /\ mainPc' = "exit" /\ UNCHANGED <<mutex, sockets>>
     \/ exit /\ mainPc' = "exit" /\ mutex' = "free" /\ UNCHANGED sockets
  /\ UNCHANGED <<syncVars, unit, asyncPc, caught, envVars,
                 threadVars>>

\* The first call of the dispatcher, which bobwire does not make, and the sockets
\* of a transceiver are connected; only the switch looks at the answer. A
\* transceiver then starts its request thread, its module the async thread (that
\* of lcc has nothing to do).
configure_dispatcher ==
  /\ Running /\ mainPc = "configure"
  /\ mute => unit = "bobwire"
  /\ \/ mainPc' = "notify" /\ unitThreads' = IsTransceiver /\ UNCHANGED <<mutex, fate>>
     \/ exit /\ mainPc' = "exit" /\ mutex' = "free" /\ UNCHANGED unitThreads
  /\ UNCHANGED <<syncVars, unit, asyncPc, sockets, caught, envVars, escaped>>

\* server::notify launches the threads ...
notify ==
  /\ Running /\ mainPc = "notify"
  /\ mainPc' = "started"
  /\ syncPc' = "bind"
  /\ asyncPc' = IF IsBrazil THEN "bind" ELSE "none"
  /\ UNCHANGED <<rspns, handled, answers, unit, mutex, sockets, caught, envVars,
                 threadVars, fate>>

Serving == syncPc \notin {"none", "bind"} /\ asyncPc # "bind"

\* Mutant: the mutex of the manager is not released.
notify_returns_locked ==
  /\ Alive /\ mainPc = "started" /\ Serving
  /\ mainPc' = "sigint"
  /\ UNCHANGED <<syncVars, unit, mutex, asyncPc, sockets, caught, envVars,
                 threadVars, fate>>

\* ... and returns when they have signalled; the mutex is released.
notify_returns ==
  /\ Alive /\ mainPc = "started" /\ Serving
  /\ mainPc' = "sigint"
  /\ mutex' = "free"
  /\ UNCHANGED <<syncVars, unit, asyncPc, sockets, caught, envVars,
                 threadVars, fate>>

\* sigaction for SIGINT, for SIGTERM, and the call of pause.
sigaction ==
  /\ Alive
  /\ \/ mainPc = "sigint" /\ caught' = {"SIGINT"} /\ mainPc' = "sigterm"
     \/ mainPc = "sigterm" /\ caught' = Signals /\ mainPc' = "before_pause"
     \/ mainPc = "before_pause" /\ mainPc' = "pause" /\ UNCHANGED caught
  /\ UNCHANGED <<syncVars, unit, mutex, asyncPc, sockets, envVars,
                 threadVars, fate>>

\* The destructors: ~server waits for the mutex to unregister its callback; stop()
\* returns at once, and a joinable std::thread terminates the process.
destroy ==
  /\ Alive /\ mainPc = "destroy" /\ mutex = "free"
  /\ fate' = "terminated"
  /\ UNCHANGED <<syncVars, mainPc, unit, mutex, asyncPc, sockets, caught, envVars,
                 threadVars>>

MainStep ==
  \/ options \/ load_proc_unit \/ initialize_unit \/ configure_dispatcher
  \/ notify \/ notify_returns \/ sigaction \/ destroy

----------------------------------------------------------------------------
(* The threads of the server.                                              *)


\* A zmq::error_t in the sync thread: the socket goes with the stack, then exit.
SyncGivesUp ==
  /\ syncPc' = "gone"
  /\ sockets' = sockets \ {"sync"}
  /\ mutex' = IF mutex = "sync" THEN "free" ELSE mutex
  /\ exit

bind_sync ==
  /\ Alive /\ syncPc = "bind"
  /\ \/ /\ Running
        /\ syncPc' = "recv" /\ sockets' = sockets \union {"sync"}
        /\ UNCHANGED <<mutex, fate>>
     \/ SyncGivesUp
  /\ UNCHANGED <<rspns, handled, answers, mainPc, unit, asyncPc, caught, envVars,
                 threadVars>>

\* A message arrives and is decoded; its action is one the server processes, or
\* the thread, and with it the process, ends.
receive(m) ==
  /\ Running /\ syncPc = "recv" /\ Len(handled) < MaxMessages
  /\ handled' = Append(handled, m)
  /\ \E a \in request(m) :
       \/ a \in {"request", "push"} /\ syncPc' = "call" /\ UNCHANGED fate
       \/ a \in {"throw", "wait", "reply"} /\ fate' = "terminated" /\ UNCHANGED syncPc
       \/ a = "abort" /\ fate' = "aborted" /\ UNCHANGED syncPc
  /\ UNCHANGED <<rspns, answers, mainPc, unit, mutex, asyncPc, sockets, caught,
                 envVars, threadVars>>

\* Mutant: the manager is not locked.
proc_act_unlocked ==
  /\ Alive /\ syncPc = "call"
  /\ mutex' = "sync"
  /\ syncPc' = "unit"
  /\ UNCHANGED <<rspns, handled, answers, mainPc, unit, asyncPc, sockets, caught,
                 envVars, threadVars, fate>>

\* module_manager::proc_act_request and proc_act_push lock the manager.
proc_act ==
  /\ Alive /\ syncPc = "call" /\ mutex = "free"
  /\ mutex' = "sync"
  /\ syncPc' = "unit"
  /\ UNCHANGED <<rspns, handled, answers, mainPc, unit, asyncPc, sockets, caught,
                 envVars, threadVars, fate>>

\* How a call can end now. Without an answer of the dispatcher it ends only when
\* the context is shut down, or when the connection to the peer fails.
CanEnd(o) ==
  /\ ~silent
  /\ AsksDispatcher(unit, current) /\ (mute \/ ~Running) =>
       o \in {"error", "crash"} /\ (AsksPeer(unit, current) \/ ~Running)

\* The unit ends the call: after the outcomes in lethal the process ends, after
\* those in kept the mutex stays locked.
UnitEnds(lethal, kept) ==
  /\ Alive /\ syncPc = "unit"
  /\ \E o \in Outcomes(unit, current) :
       /\ CanEnd(o)
       /\ mutex' = IF o \in kept THEN "sync" ELSE "free"
       /\ \/ /\ o \notin lethal
             /\ rspns' = response(o) /\ syncPc' = "send" /\ UNCHANGED fate
          \/ /\ o \in lethal
             /\ fate' = IF o = "abort" THEN "aborted" ELSE "terminated"
             /\ UNCHANGED <<rspns, syncPc>>
  /\ UNCHANGED <<handled, answers, mainPc, unit, asyncPc, sockets, caught, envVars,
                 threadVars>>

\* Mutant: exceptions of the unit are not caught.
unit_returns_uncaught == UnitEnds(FatalOutcomes \union {"error"}, {})

\* Mutant: the mutex is kept when the unit has thrown.
unit_returns_locked == UnitEnds(FatalOutcomes, {"error"})

\* proc_act_request or proc_act_push returns or throws, and the mutex is released.
unit_returns == UnitEnds(FatalOutcomes, {})

\* Mutant: a response that is kept is sent once more.
send_again ==
  /\ Running /\ syncPc = "send"
  /\ answers' = answers \o <<rspns, rspns>>
  /\ rspns' = "none"
  /\ syncPc' = "recv"
  /\ UNCHANGED <<handled, mainVars>>

\* Mutant: the response is reset before it is sent.
send_after_reset ==
  /\ Running /\ syncPc = "send"
  /\ answers' = Append(answers, "none")
  /\ rspns' = "none"
  /\ syncPc' = "recv"
  /\ UNCHANGED <<handled, mainVars>>

\* socket.send: the response is sent, or dropped after the timeout.
send ==
  /\ Running /\ syncPc = "send"
  /\ \E r \in {rspns, "dropped"} : answers' = Append(answers, r)
  /\ rspns' = "none"
  /\ syncPc' = "recv"
  /\ UNCHANGED <<handled, mainVars>>

\* recv or send fails with a zmq::error_t: at any time, and for certain once the
\* context is being closed.
sync_error ==
  /\ Alive /\ syncPc \in {"recv", "send"}
  /\ SyncGivesUp
  /\ UNCHANGED <<rspns, handled, answers, mainPc, unit, asyncPc, caught, envVars,
                 threadVars>>

\* The async thread, as far as its socket goes.
bind_async ==
  /\ Running /\ asyncPc = "bind"
  /\ asyncPc' = "serve"
  /\ sockets' = sockets \union {"async"}
  /\ UNCHANGED <<syncVars, mainPc, unit, mutex, caught, envVars,
                 threadVars, fate>>

\* Its socket fails. Once bound it is used only to send an item of a transceiver:
\* lcc pushes nothing.
async_error ==
  /\ Alive
  /\ asyncPc = "bind" \/ (asyncPc = "serve" /\ IsTransceiver)
  /\ asyncPc' = "gone"
  /\ sockets' = sockets \ {"async"}
  /\ exit
  /\ UNCHANGED <<syncVars, mainPc, unit, mutex, caught, envVars, threadVars>>

\* An exception leaves a thread of a transceiver: of async_work, when recv on the
\* SUB socket fails or a measurement comes unasked; of the request thread, when
\* the acceptor cannot be opened or a handler throws.
ThreadThrows ==
  /\ unitThreads
  /\ escaped' = TRUE
  /\ fate' = "terminated"

unit_thread_throws ==
  /\ Alive
  /\ ThreadThrows
  /\ UNCHANGED <<syncVars, mainPc, unit, mutex, asyncPc, sockets, caught, envVars,
                 unitThreads>>

SyncStep == bind_sync \/ proc_act \/ unit_returns \/ send

----------------------------------------------------------------------------
(* The environment.                                                        *)

\* A signal without a handler kills. A handler runs in any thread: in main it ends
\* pause and nothing else; the sync thread finds recv, or what the unit waits for,
\* interrupted; the async thread of a transceiver finds its recv interrupted;
\* elsewhere the signal leaves no trace.
signal(s) ==
  /\ Alive /\ signals < MaxSignals
  /\ signals' = signals + 1
  /\ \/ /\ s \notin caught /\ fate' = "killed"
        /\ UNCHANGED <<syncVars, mainPc, mutex, sockets, silent, escaped>>
     \/ /\ s \in caught
        /\ mainPc' = IF mainPc = "pause" THEN "destroy" ELSE mainPc
        /\ UNCHANGED <<syncVars, mutex, sockets, silent, escaped, fate>>
     \/ /\ s \in caught /\ syncPc = "recv" /\ SyncGivesUp
        /\ UNCHANGED <<rspns, handled, answers, mainPc, silent, escaped>>
     \/ /\ s \in caught /\ syncPc = "unit" /\ AsksDispatcher(unit, current)
        /\ rspns' = response("error") /\ syncPc' = "send" /\ mutex' = "free"
        /\ silent' = FALSE
        /\ UNCHANGED <<handled, answers, mainPc, sockets, escaped, fate>>
     \/ /\ s \in caught /\ ThreadThrows
        /\ UNCHANGED <<syncVars, mainPc, mutex, sockets, silent>>
  /\ UNCHANGED <<unit, asyncPc, caught, mute, unitThreads>>

dispatcher_dies ==
  /\ ~mute /\ HasDispatcher /\ mute' = TRUE
  /\ UNCHANGED <<syncVars, mainPc, unit, mutex, asyncPc, sockets, caught, signals,
                 silent, threadVars, fate>>

\* transmit waits for its peer without a timeout: the circuit was refused or the
\* measurement lost, another sender keeps the peer, or the peer is gone.
peer_stalls ==
  /\ Alive /\ syncPc = "unit" /\ AsksPeer(unit, current)
  /\ silent' = TRUE
  /\ UNCHANGED <<syncVars, mainPc, unit, mutex, asyncPc, sockets, caught, signals,
                 mute, threadVars, fate>>

\* The destructor of global_zcontext returns when no socket is left.
context_closed ==
  /\ fate = "exiting" /\ sockets = {}
  /\ fate' = "ended"
  /\ UNCHANGED <<syncVars, mainPc, unit, mutex, asyncPc, sockets, caught, envVars,
                 threadVars>>

Next ==
  \/ MainStep \/ SyncStep \/ sync_error
  \/ \E m \in Messages : receive(m)
  \/ bind_async \/ async_error \/ unit_thread_throws
  \/ \E s \in Signals : signal(s)
  \/ dispatcher_dies \/ peer_stalls \/ context_closed

Spec == Init /\ [][Next]_vars

\* The call at hand waits for an answer that need never come.
Blocked ==
  /\ syncPc = "unit"
  /\ silent \/ (AsksDispatcher(unit, current) /\ mute /\ Running)

\* Threads are scheduled and get a mutex that is free again and again, and a
\* response or its timeout comes. Once the context is being closed the operations
\* on its sockets fail: the sync thread is in one, the async thread of a
\* transceiver tries one every 20 ms, the async thread of the server is in one
\* only while it binds. Nothing forces a message, an answer of the dispatcher or
\* the peer, an error of a socket while the process runs, or a signal.
FairSpec ==
  /\ Spec
  /\ WF_vars(MainStep)
  /\ SF_vars(destroy)
  /\ WF_vars(~Blocked /\ SyncStep)
  /\ WF_vars(bind_async)
  /\ WF_vars(fate = "exiting" /\ sync_error)
  /\ WF_vars(fate = "exiting" /\ asyncPc = "bind" /\ async_error)
  /\ WF_vars(fate = "exiting" /\ unit_thread_throws)
  /\ WF_vars(context_closed)

----------------------------------------------------------------------------

\* The control points, the open sockets and the ways the process ends.
TypeOK ==
  /\ syncPc \in {"none", "bind", "recv", "call", "unit", "send", "gone"}
  /\ rspns \in {"none", "value", "error"}
  /\ handled \in Seq(Messages)
  /\ answers \in Seq({"value", "error", "dropped"})
  /\ mainPc \in {"options", "load", "init", "configure", "notify", "started",
                 "sigint", "sigterm", "before_pause", "pause", "destroy", "exit"}
  /\ unit \in Units
  /\ mutex \in {"free", "main", "sync"}
  /\ asyncPc \in {"none", "bind", "serve", "gone"}
  /\ sockets \subseteq {"sync", "async", "sub", "req"}
  /\ caught \subseteq Signals
  /\ signals \in 0..MaxSignals
  /\ mute \in BOOLEAN
  /\ silent \in BOOLEAN
  /\ unitThreads \in BOOLEAN
  /\ escaped \in BOOLEAN
  /\ fate \in {"running", "exiting", "ended", "terminated", "aborted", "killed"}

\* The sync thread can have a message before load_proc_unit has returned. The unit
\* still does not see it before it is loaded, and no call overlaps the loading.
CallsSeeLoadedUnit ==
  syncPc \in {"unit", "send"} =>
    mainPc \in {"sigint", "sigterm", "before_pause", "pause", "destroy"}

\* One response per message, in order, and each is one the unit can have given to
\* that message: after an exception, a dropped response or an interrupted call the
\* next message is not answered with what is left of the one before.
AnswersMatchMessages ==
  /\ Len(answers) \in {Len(handled), Len(handled) - 1}
  /\ syncPc \in {"call", "unit", "send"} => Len(answers) = Len(handled) - 1
  /\ \A i \in 1..Len(answers) :
       answers[i] \in {"dropped"} \union
                      {response(o) : o \in Outcomes(unit, handled[i]) \ FatalOutcomes}

\* A process that loses control while it serves does so for the message at hand
\* (one that cannot be decoded, asks for what a server cannot do, lacks what the
\* unit reads, or whose processing lets an exception leave a destructor or gives
\* no response) or, with a transceiver only, because an exception left a thread
\* of the unit. An exception of a unit that serves a message never ends it.
EndsOnlyForCause ==
  fate \in {"terminated", "aborted"} /\ mainPc # "destroy"
    => \/ IsTransceiver /\ escaped
       \/ handled # <<>> /\ Fatal(unit, current)

\* A message that was received gets through the unit, unless the process ends or
\* the unit waits for ever for the dispatcher or a peer: nothing else keeps the
\* mutex of the manager.
CallsGetThrough ==
  syncPc = "call" ~> (syncPc = "recv" \/ fate # "running" \/ []Blocked)

\* After the signal the process ends, unless ~server waits for the mutex of the
\* manager and the sync thread holds it in a call that waits for ever.
ShutdownEnds == mainPc = "destroy" ~> (~Alive \/ []Blocked)

\* Sockets that exit does not close: those of a unit, and that of the async thread
\* of the server, which does not look at it while it has nothing to send.
LeftOpen == sockets \intersect {"sub", "req", "async"} # {}


=============================================================================
