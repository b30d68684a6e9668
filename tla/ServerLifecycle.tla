-------------------------- MODULE ServerLifecycle --------------------------
(***************************************************************************)
(* net::middleware::server (server.hpp, server.cpp) and the start of the   *)
(* two threads of zmq_server: the thread that owns the server calls setup, *)
(* notify (through the module manager, when a processing unit was loaded)  *)
(* and the destructor; notify launches a sync thread, an async thread or   *)
(* both, and sleeps on startCV until the launched threads have signalled.  *)
(*                                                                         *)
(* The owner holds stateMutex all through notify, and startMutex protects  *)
(* startupState; startupStateTarget is written under stateMutex and read   *)
(* under startMutex, so a reader that is not ordered after the writer by   *)
(* startMutex may see any of the values written so far in this notify.     *)
(*                                                                         *)
(* What a thread does once it serves is in AsyncSender (async) and in the  *)
(* step serve (sync): here it matters only that it may end the process.    *)
(***************************************************************************)
EXTENDS Naturals

CONSTANTS
  ActionLists,   \* supported actions of the modules that may be loaded
  Endpoints,     \* endpoint strings that fit into the members
  Buffers,       \* async buffers of the modules that may be loaded
  NoBuffer,      \* the NULL buffer
  TooLong,       \* an endpoint string that does not fit
  MaxNotifies,   \* bound on the calls of notify
  MaxSetups      \* bound on the calls of setup

Actions == {"REQUEST", "PUSH", "REPLY", "WAIT"}
Kinds == {"sync", "async"}
Workers == Kinds \union {"second"}
Empty == ""

ASSUME ServerAssumption ==
  /\ ActionLists \subseteq (SUBSET Actions) \ {{}}
  /\ Empty \notin Endpoints
  /\ TooLong \notin Endpoints \union {Empty}
  /\ NoBuffer \notin Buffers
  /\ MaxNotifies \in Nat
  /\ MaxSetups \in Nat

VARIABLES
  procState,           \* "running", or how the process ended: "finished" by
                       \* leaving main, "exited" by exit(EXIT_FAILURE),
                       \* "aborted" by an exception that left a thread,
                       \* "terminated" by the loss of an unjoined std::thread
  pc,                  \* control of the owner
  supActs,             \* argument of the notify in progress or of the last one
  half,                \* the parts already evaluated of the assignment
                       \*   workThreads[startupStateTarget++] = std::thread(..)
  outcome,             \* how the last notify ended
  iEndpoint, oEndpoint,
  isRunning,
  doExit,
  startupState,
  startupStateTarget,
  workThreads,         \* the thread each slot holds
  moduleAsyncBuffer,
  asleep,              \* the owner is blocked on startCV and not woken
  worker,              \* control of the thread of each kind, and of a second
                       \* thread of the kind being launched
  bound,               \* the endpoint each thread has bound
  served,              \* the buffer reference the first async thread took
  setups, notifies     \* calls so far

vars == <<procState, pc, supActs, half, outcome, iEndpoint, oEndpoint, isRunning,
          doExit, startupState, startupStateTarget, workThreads,
          moduleAsyncBuffer, asleep, worker, bound, served, setups, notifies>>

ownerVars == <<pc, supActs, half, outcome, setups, notifies>>
endpointVars == <<iEndpoint, oEndpoint>>
startVars == <<startupState, startupStateTarget, workThreads>>
workerVars == <<worker, bound, served>>
flagVars == <<isRunning, doExit>>

----------------------------------------------------------------------------

\* exit and std::terminate stop every thread.
Running == procState = "running"

\* The constructor.
Init ==
  /\ procState = "running"
  /\ pc = "idle"
  /\ supActs = {}
  /\ half = {}
  /\ outcome = "none"
  /\ iEndpoint = Empty
  /\ oEndpoint = Empty
  /\ isRunning = FALSE
  /\ doExit = FALSE
  /\ startupState = 0
  /\ startupStateTarget = 0
  /\ workThreads = [s \in 0..1 |-> "none"]
  /\ moduleAsyncBuffer = NoBuffer
  /\ asleep = FALSE
  /\ worker = [w \in Workers |-> "none"]
  /\ bound = [w \in Workers |-> Empty]
  /\ served = NoBuffer
  /\ setups = 0
  /\ notifies = 0

\* setup copies both endpoints, unless the server runs or one does not fit;
\* the exception of the last case ends main.
setup(i, o) ==
  /\ Running
  /\ pc = "idle"
  /\ setups < MaxSetups
  /\ setups' = setups + 1
  /\ IF isRunning
     THEN UNCHANGED <<procState, endpointVars>>
     ELSE IF TooLong \in {i, o}
     THEN /\ procState' = "exited"
          /\ UNCHANGED endpointVars
     ELSE /\ iEndpoint' = i
          /\ oEndpoint' = o
          /\ UNCHANGED procState
  /\ UNCHANGED <<pc, supActs, half, outcome, notifies, flagVars, startVars,
                 moduleAsyncBuffer, asleep, workerVars>>

\* stop, called first by notify and by the destructor: it returns at once when
\* isRunning is false; otherwise it sets doExit and joins the threads, which
\* leaves the slots empty, and resets both flags.
StopReturns == isRunning => doExit /\ \A k \in Kinds : worker[k] \in {"none", "ended"}

SlotsAfterStop == IF isRunning THEN [s \in 0..1 |-> "none"] ELSE workThreads

stop ==
  IF StopReturns
  THEN /\ isRunning' = FALSE
       /\ doExit' = FALSE
       /\ workThreads' = SlotsAfterStop
  ELSE /\ doExit' = TRUE
       /\ UNCHANGED <<isRunning, workThreads>>

\* The actions that need each thread.
Needs(k) ==
  supActs \intersect (IF k = "sync" THEN {"REQUEST", "PUSH"}
                                    ELSE {"REPLY", "WAIT"}) # {}

Endpoint(k) == IF k = "sync" THEN iEndpoint ELSE oEndpoint

\* Mutant: the count of threads to wait for goes on from the last notify.
ResetTargetNot == UNCHANGED startupStateTarget

\* notify counts the threads to wait for from 0; startupState is not reset.
ResetTarget == startupStateTarget' = 0

\* notify up to the first launch.
notify(buffer, acts) ==
  /\ Running
  /\ pc = "idle"
  /\ notifies < MaxNotifies
  /\ stop
  /\ IF StopReturns
     THEN /\ notifies' = notifies + 1
          /\ supActs' = acts
          /\ ResetTarget
          /\ moduleAsyncBuffer' = buffer
          /\ pc' = "sync"
     ELSE UNCHANGED <<notifies, supActs, startupStateTarget,
                      moduleAsyncBuffer, pc>>
  /\ UNCHANGED <<procState, half, outcome, endpointVars, startupState, asleep,
                 workerVars, setups>>

AfterLaunch(k) == IF k = "sync" THEN "async" ELSE "startWait"

\* No thread of kind k is asked for.
skip_launch(k) ==
  /\ Running
  /\ pc = k
  /\ ~Needs(k)
  /\ pc' = AfterLaunch(k)
  /\ UNCHANGED <<procState, supActs, half, outcome, endpointVars, flagVars,
                 startVars, moduleAsyncBuffer, asleep, workerVars, setups,
                 notifies>>

\* An endpoint that was never set: notify throws and the owner has control
\* again, whatever was launched before.
throw_no_endpoint(k) ==
  /\ Running
  /\ pc = k
  /\ Needs(k)
  /\ half = {}
  /\ Endpoint(k) = Empty
  /\ pc' = "idle"
  /\ outcome' = "threw"
  /\ UNCHANGED <<procState, supActs, half, endpointVars, flagVars, startVars,
                 moduleAsyncBuffer, asleep, workerVars, setups, notifies>>

Launching(k, part) ==
  /\ pc = k
  /\ Needs(k)
  /\ Endpoint(k) # Empty \/ half # {}
  /\ part \notin half

\* startupStateTarget++ and the construction of the thread are unsequenced.
count_thread(k) ==
  /\ Running
  /\ Launching(k, "count")
  /\ half' = half \union {"count"}
  /\ startupStateTarget' = startupStateTarget + 1
  /\ UNCHANGED <<procState, pc, supActs, outcome, endpointVars, flagVars,
                 startupState, workThreads, moduleAsyncBuffer, asleep,
                 workerVars, setups, notifies>>

\* The new thread runs at once. An earlier notify may have left a thread of the
\* same kind: the new one is then the second of its kind.
spawn_thread(k) ==
  /\ Running
  /\ Launching(k, "spawn")
  /\ half' = half \union {"spawn"}
  /\ worker' = [worker EXCEPT
                  ![IF worker[k] \in {"none", "ended"} THEN k ELSE "second"] =
                    "starting"]
  /\ UNCHANGED <<procState, pc, supActs, outcome, endpointVars, flagVars,
                 startVars, moduleAsyncBuffer, asleep, bound, served, setups,
                 notifies>>

\* The move assignment: std::terminate when the slot holds a thread that was
\* not joined, whatever the new thread has done by then.
assign_thread(k) ==
  /\ Running
  /\ pc = k
  /\ half = {"count", "spawn"}
  /\ half' = {}
  /\ IF workThreads[startupStateTarget - 1] = "none"
     THEN /\ workThreads' = [workThreads EXCEPT ![startupStateTarget - 1] = k]
          /\ pc' = AfterLaunch(k)
          /\ UNCHANGED procState
     ELSE /\ procState' = "terminated"
          /\ UNCHANGED <<workThreads, pc>>
  /\ UNCHANGED <<supActs, outcome, endpointVars, flagVars, startupState,
                 startupStateTarget, moduleAsyncBuffer, asleep, workerVars,
                 setups, notifies>>

\* Mutant: one thread is enough.
AllStartedAny == startupState > 0

\* The predicate given to startCV.wait.
AllStarted == startupState = startupStateTarget

\* startCV.wait: the predicate is evaluated with startMutex held, first on
\* entry and then after each wakeup.
await_started ==
  /\ Running
  /\ pc = "startWait"
  /\ ~asleep
  /\ IF AllStarted
     THEN /\ pc' = "idle"
          /\ outcome' = "returned"
          /\ UNCHANGED asleep
     ELSE /\ asleep' = TRUE
          /\ UNCHANGED <<pc, outcome>>
  /\ UNCHANGED <<procState, supActs, half, endpointVars, flagVars, startVars,
                 moduleAsyncBuffer, workerVars, setups, notifies>>

spurious_wakeup ==
  /\ Running
  /\ asleep
  /\ asleep' = FALSE
  /\ UNCHANGED <<procState, ownerVars, endpointVars, flagVars, startVars,
                 moduleAsyncBuffer, workerVars>>

\* ~server: unregister, stop, then the destructors of the threads, which
\* terminate the process when a thread was not joined.
destroy ==
  /\ Running
  /\ pc = "idle"
  /\ stop
  /\ IF StopReturns
     THEN /\ pc' = "destroyed"
          /\ procState' = IF \A s \in 0..1 : SlotsAfterStop[s] = "none"
                          THEN "finished" ELSE "terminated"
     ELSE UNCHANGED <<pc, procState>>
  /\ UNCHANGED <<supActs, half, outcome, endpointVars, startupState,
                 startupStateTarget, moduleAsyncBuffer, asleep, workerVars,
                 setups, notifies>>

\* main does not survive an exception of load_proc_unit.
exit_on_error ==
  /\ Running
  /\ pc = "idle"
  /\ outcome = "threw"
  /\ procState' = "exited"
  /\ UNCHANGED <<ownerVars, endpointVars, flagVars, startVars,
                 moduleAsyncBuffer, asleep, workerVars>>

----------------------------------------------------------------------------

\* What a thread runs: sync_work or async_work. The second thread of a kind
\* exists only while the assignment that launched it is evaluated.
KindOf(w) == IF w = "second" THEN pc ELSE w

\* Mutant: the error of a bind is caught and the thread just ends.
bind_socket_swallows(w) ==
  /\ Running
  /\ worker[w] = "starting"
  /\ worker' = [worker EXCEPT ![w] = "ended"]
  /\ UNCHANGED <<procState, ownerVars, endpointVars, flagVars, startVars,
                 moduleAsyncBuffer, asleep, bound, served>>

\* A worker creates and binds its socket; an error ends the process. The
\* async thread then takes its reference to the buffer.
bind_socket(w) ==
  /\ Running
  /\ worker[w] = "starting"
  /\ \/ /\ Endpoint(KindOf(w)) # Empty
        /\ \A v \in Workers : bound[v] # Endpoint(KindOf(w))
        /\ worker' = [worker EXCEPT ![w] = "bound"]
        /\ bound' = [bound EXCEPT ![w] = Endpoint(KindOf(w))]
        /\ served' = IF w = "async" THEN moduleAsyncBuffer ELSE served
        /\ UNCHANGED procState
     \/ /\ procState' = "exited"
        /\ UNCHANGED workerVars
  /\ UNCHANGED <<ownerVars, endpointVars, flagVars, startVars,
                 moduleAsyncBuffer, asleep>>

\* Mutant: the target is read without startMutex.
VisibleTargetsUnlocked == 0..startupStateTarget

\* What a worker that holds startMutex may read in startupStateTarget: its
\* present value when the owner gave startMutex up in startCV.wait, otherwise
\* any value since the notify began.
VisibleTargets ==
  IF asleep THEN {startupStateTarget} ELSE 0..startupStateTarget

\* notify_thread_started up to the unlock.
signal_started(w) ==
  /\ Running
  /\ worker[w] = "bound"
  /\ startupState' = startupState + 1
  /\ \E target \in VisibleTargets :
       worker' = [worker EXCEPT
                    ![w] = IF startupState + 1 = target THEN "notifying" ELSE "serving"]
  /\ UNCHANGED <<procState, ownerVars, endpointVars, flagVars,
                 startupStateTarget, workThreads, moduleAsyncBuffer, asleep,
                 bound, served>>

\* ... and its startCV.notify_all.
notify_owner(w) ==
  /\ Running
  /\ worker[w] = "notifying"
  /\ worker' = [worker EXCEPT ![w] = "serving"]
  /\ asleep' = FALSE
  /\ UNCHANGED <<procState, ownerVars, endpointVars, flagVars, startVars,
                 moduleAsyncBuffer, bound, served>>

\* One iteration of the loop of sync_work or async_work: it goes round again,
\* or leaves when told to, or ends the process (zmq::error_t: exit; another
\* exception, in sync_work only: abort).
serve(w) ==
  /\ Running
  /\ worker[w] = "serving"
  /\ \/ /\ worker' = [worker EXCEPT ![w] = IF doExit THEN "ended" ELSE "serving"]
        /\ UNCHANGED procState
     \/ /\ procState' = "exited"
        /\ UNCHANGED worker
     \/ /\ KindOf(w) = "sync"
        /\ procState' = "aborted"
        /\ UNCHANGED worker
  /\ UNCHANGED <<ownerVars, endpointVars, flagVars, startVars,
                 moduleAsyncBuffer, asleep, bound, served>>

----------------------------------------------------------------------------

\* The rest of a notify once it has begun.
NotifyStep ==
  \/ \E k \in Kinds :
       \/ skip_launch(k)
       \/ throw_no_endpoint(k)
       \/ count_thread(k)
       \/ spawn_thread(k)
       \/ assign_thread(k)
  \/ await_started

StartStep(w) == bind_socket(w) \/ signal_started(w) \/ notify_owner(w)

Next ==
  \/ \E i, o \in Endpoints \union {Empty, TooLong} : setup(i, o)
  \/ \E b \in Buffers, a \in ActionLists : notify(b, a)
  \/ NotifyStep
  \/ spurious_wakeup
  \/ destroy
  \/ exit_on_error
  \/ \E w \in Workers : StartStep(w)
  \/ \E w \in Workers : serve(w)

Spec == Init /\ [][Next]_vars

\* The owner, once in notify, and a launched thread are scheduled eventually.
FairSpec ==
  /\ Spec
  /\ WF_vars(NotifyStep)
  /\ \A w \in Workers : WF_vars(StartStep(w))

----------------------------------------------------------------------------

\* The types of the members of server and of the control states. startupState
\* gets to 3 when a repeated notify launches a thread that binds an endpoint
\* set up in between, before the move assignment ends the process.
TypeOK ==
  /\ procState \in {"running", "finished", "exited", "aborted", "terminated"}
  /\ pc \in {"idle", "sync", "async", "startWait", "destroyed"}
  /\ supActs \in ActionLists \union {{}}
  /\ half \subseteq {"count", "spawn"}
  /\ outcome \in {"none", "returned", "threw"}
  /\ iEndpoint \in Endpoints \union {Empty}
  /\ oEndpoint \in Endpoints \union {Empty}
  /\ isRunning \in BOOLEAN
  /\ doExit \in BOOLEAN
  /\ startupState \in 0..3
  /\ startupStateTarget \in 0..2
  /\ workThreads \in [0..1 -> Kinds \union {"none"}]
  /\ moduleAsyncBuffer \in Buffers \union {NoBuffer}
  /\ asleep \in BOOLEAN
  /\ worker \in [Workers -> {"none", "starting", "bound", "notifying", "serving",
                             "ended"}]
  /\ bound \in [Workers -> Endpoints \union {Empty}]
  /\ served \in Buffers \union {NoBuffer}
  /\ setups \in 0..MaxSetups
  /\ notifies \in 0..MaxNotifies

Started(k) == worker[k] \in {"notifying", "serving", "ended"}

\* A notify that returned has brought the server up: each thread that the
\* supported actions need has bound its endpoint and signalled, and the async
\* thread empties the buffer of the module that was loaded last. This is the
\* counting of startupState against a target that grows while threads signal.
ReadyOnReturn ==
  pc = "idle" /\ outcome = "returned" /\ Running =>
    /\ \A k \in Kinds : Needs(k) => Started(k) /\ bound[k] # Empty
    /\ Needs("async") => served = moduleAsyncBuffer

\* The owner never sleeps through the last signal: when it is blocked on
\* startCV and every thread has signalled, a notification is still to come.
NoLostWakeup ==
  asleep /\ AllStarted
    => \E w \in Workers : worker[w] = "notifying"

\* notify does not block for ever: its caller, which holds the mutex of the
\* module manager, has control again unless the process ends.
NotifyReturns == (pc = "startWait") ~> (pc = "idle" \/ ~Running)

----------------------------------------------------------------------------
(* What the documentation says of the server, and the code does not do.    *)

\* armish_fireplace.cpp says that the destructors "shutdown everything
\* gracefully": destroying a server that runs does not terminate the process.
GracefulShutdown ==
  pc = "destroyed" /\ outcome = "returned" => procState = "finished"

=============================================================================
