---------------------------- MODULE ServerProofs ----------------------------
(***************************************************************************)
(* Proofs about ServerLifecycle for any endpoints, buffers, action lists   *)
(* and numbers of calls: what a notify that returned has established, that *)
(* its wait misses no signal, and that the server never counts as running. *)
(***************************************************************************)
EXTENDS ServerLifecycle, TLAPS

(* TypeOK in parts: a step touches few of them.                            *)

SlotType == workThreads \in [0..1 -> Kinds \union {"none"}]

HalfType == half \subseteq {"count", "spawn"}

EndpointType ==
  /\ iEndpoint \in Endpoints \union {Empty}
  /\ oEndpoint \in Endpoints \union {Empty}
  /\ bound \in [Workers -> Endpoints \union {Empty}]

OwnerType ==
  /\ procState \in {"running", "finished", "exited", "aborted", "terminated"}
  /\ pc \in {"idle", "sync", "async", "startWait", "destroyed"}
  /\ supActs \in ActionLists \union {{}}
  /\ outcome \in {"none", "returned", "threw"}
  /\ asleep \in BOOLEAN

BufferType ==
  /\ moduleAsyncBuffer \in Buffers \union {NoBuffer}
  /\ served \in Buffers \union {NoBuffer}

CountType ==
  /\ startupStateTarget \in 0..2
  /\ setups \in 0..MaxSetups
  /\ notifies \in 0..MaxNotifies

WorkerType ==
  worker \in [Workers -> {"none", "starting", "bound", "notifying", "serving",
                         "ended"}]

----------------------------------------------------------------------------
(* The inductive invariant.                                                *)

\* Nothing sets isRunning, so stop never gets to set doExit.
NeverStopping == isRunning = FALSE /\ doExit = FALSE

Bit(b) == IF b THEN 1 ELSE 0

Signalled(w) == worker[w] \in {"notifying", "serving"}

\* Every launch is done: the threads counted, stored and needed are the same.
Launched ==
  /\ startupStateTarget = Bit(Needs("sync")) + Bit(Needs("async"))
  /\ \A k \in Kinds : Needs(k) <=> workThreads[0] = k \/ workThreads[1] = k

\* How far the launches of the notify in progress have come. A notify that
\* finds a thread in the first slot cannot get past its first launch: that it
\* gets to its wait shows that it is the first that launched anything.
LaunchInv ==
  Running =>
    /\ workThreads[0] = "none" => workThreads[1] = "none"
    /\ pc \notin Kinds => half = {}
    /\ pc \in Kinds /\ ~Needs(pc) => half = {}
    /\ pc # "idle" => supActs \in ActionLists
    /\ pc = "sync" => startupStateTarget = Bit("count" \in half)
    /\ pc = "async" =>
         /\ startupStateTarget = Bit(Needs("sync")) + Bit("count" \in half)
         /\ Needs("sync") => workThreads[0] = "sync" /\ workThreads[1] = "none"
    /\ pc = "startWait" \/ (pc = "idle" /\ outcome = "returned") => Launched

\* A thread exists when a slot holds it or when it is about to be stored.
ThreadInv ==
  Running =>
    \A k \in Kinds : worker[k] # "none" =>
      workThreads[0] = k \/ workThreads[1] = k \/ (pc = k /\ "spawn" \in half)

\* startupState counts the threads that have signalled, and none has left.
SignalInv ==
  /\ \A w \in Workers : worker[w] # "ended"
  /\ startupState = Bit(Signalled("sync")) + Bit(Signalled("async"))
                      + Bit(Signalled("second"))

\* A thread signals after it has bound its endpoint.
BoundInv ==
  \A w \in Workers : worker[w] = "bound" \/ Signalled(w) => bound[w] # Empty

\* No earlier notify launched a thread.
Fresh ==
  \/ pc = "sync" /\ workThreads[0] = "none"
  \/ pc = "async" /\ (Needs("sync") \/ workThreads[0] = "none")
  \/ pc = "startWait"
  \/ pc = "idle" /\ outcome = "returned"

\* A second thread of a kind is there only while its launch is evaluated, by a
\* notify that finds a thread of an earlier one and will not get past it.
SecondInv ==
  Running /\ worker["second"] # "none" =>
    pc \in Kinds /\ "spawn" \in half /\ ~Fresh

\* If no earlier one did, the buffer the async thread took is that of the module just loaded.
ServedInv ==
  Running /\ Fresh /\ (worker["async"] = "bound" \/ Signalled("async"))
    => served = moduleAsyncBuffer

\* The owner sleeps only in its wait.
SleepInv ==
  /\ asleep => pc = "startWait"
  /\ NoLostWakeup

ServerInv ==
  /\ OwnerType /\ HalfType /\ SlotType /\ WorkerType
  /\ EndpointType /\ BufferType /\ CountType
  /\ NeverStopping
  /\ LaunchInv
  /\ ThreadInv
  /\ SecondInv
  /\ SignalInv
  /\ BoundInv
  /\ ServedInv
  /\ SleepInv
  /\ ReadyOnReturn

----------------------------------------------------------------------------

\* stop does nothing when isRunning is false.
LEMMA StopIsVoid ==
  ASSUME NeverStopping
  PROVE  /\ StopReturns
         /\ SlotsAfterStop = workThreads
         /\ stop => UNCHANGED <<isRunning, doExit, workThreads>>
  BY DEF NeverStopping, StopReturns, SlotsAfterStop, stop

\* The owner goes to sleep with the count incomplete, and a thread that then
\* completes it reads the present target, so it notifies.
LEMMA SleepStep ==
  ASSUME NeverStopping, WorkerType, SleepInv, [Next]_vars
  PROVE  SleepInv'
<1>0. ASSUME UNCHANGED <<asleep, pc, worker, startupState,
         startupStateTarget>> PROVE SleepInv'
  BY <1>0 DEF SleepInv, NoLostWakeup, AllStarted
<1>1. CASE \E b \in Buffers, a \in ActionLists : notify(b, a)
  BY <1>1, StopIsVoid DEF notify, SleepInv, NoLostWakeup, AllStarted, Kinds, Workers
<1>2. CASE \E k \in Kinds : skip_launch(k)
  BY <1>2 DEF skip_launch, AfterLaunch, SleepInv, NoLostWakeup, AllStarted,
     Kinds, Workers, endpointVars, startVars, workerVars, flagVars
<1>3. CASE \E k \in Kinds : throw_no_endpoint(k)
  BY <1>3 DEF throw_no_endpoint, SleepInv, NoLostWakeup, AllStarted, Kinds, Workers,
     endpointVars, startVars, workerVars, flagVars
<1>4. CASE \E k \in Kinds : count_thread(k)
  BY <1>4 DEF count_thread, Launching, SleepInv, NoLostWakeup, AllStarted,
     Kinds, Workers, endpointVars, workerVars, flagVars
<1>5. CASE \E k \in Kinds : spawn_thread(k)
  BY <1>5 DEF spawn_thread, Launching, SleepInv, NoLostWakeup, AllStarted,
     Kinds, Workers, endpointVars, startVars, flagVars
<1>6. CASE \E k \in Kinds : assign_thread(k)
  BY <1>6 DEF assign_thread, SleepInv, NoLostWakeup, AllStarted, Kinds, Workers,
     endpointVars, workerVars, flagVars
<1>7. CASE await_started
  BY <1>7 DEF await_started, SleepInv, NoLostWakeup, AllStarted, Kinds, Workers,
     endpointVars, startVars, workerVars, flagVars
<1>8. CASE spurious_wakeup
  BY <1>8 DEF spurious_wakeup, SleepInv, NoLostWakeup, AllStarted, Kinds, Workers,
     ownerVars, endpointVars, startVars, workerVars, flagVars
<1>9. CASE destroy
  BY <1>9 DEF destroy, SleepInv, NoLostWakeup, AllStarted, Kinds, Workers,
     endpointVars, workerVars
<1>10. CASE \E w \in Workers : bind_socket(w)
  BY <1>10 DEF bind_socket, SleepInv, NoLostWakeup, AllStarted, Kinds, Workers,
     WorkerType, ownerVars, endpointVars, startVars, workerVars, flagVars
<1>11. CASE \E w \in Workers : signal_started(w)
  BY <1>11 DEF signal_started, VisibleTargets, SleepInv, NoLostWakeup,
     AllStarted, Kinds, Workers, WorkerType, ownerVars, endpointVars, flagVars
<1>12. CASE \E w \in Workers : notify_owner(w)
  BY <1>12 DEF notify_owner, SleepInv, NoLostWakeup, AllStarted, Kinds, Workers,
     WorkerType, ownerVars, endpointVars, startVars, flagVars
<1>13. CASE \E w \in Workers : serve(w)
  BY <1>13 DEF serve, SleepInv, NoLostWakeup, AllStarted, Kinds, Workers, WorkerType,
     ownerVars, endpointVars, startVars, flagVars
<1>14. QED
  BY <1>0, <1>1, <1>2, <1>3, <1>4, <1>5, <1>6, <1>7, <1>8, <1>9, <1>10, <1>11,
     <1>12, <1>13 DEF Next, NotifyStep, StartStep, setup, exit_on_error, vars,
     ownerVars, endpointVars, startVars, workerVars, flagVars

\* supActs is the argument of the notify in progress.
LEMMA NeedsFrame ==
  ASSUME UNCHANGED supActs
  PROVE  \A k \in Kinds : Needs(k)' <=> Needs(k)
  BY DEF Needs

\* Every action list asks for a thread.
LEMMA NeedsSome ==
  ASSUME supActs \in ActionLists
  PROVE  Needs("sync") \/ Needs("async")
  BY ServerAssumption DEF Needs, Actions

\* A launch counts one thread and stores it in the next free slot, or ends
\* the process.
LEMMA LaunchStep ==
  ASSUME NeverStopping, SlotType, HalfType, LaunchInv, [Next]_vars
  PROVE  LaunchInv'
<1>0. ASSUME UNCHANGED <<procState, workThreads, pc, half, supActs,
         startupStateTarget, outcome>> PROVE LaunchInv'
  BY <1>0 DEF LaunchInv, Launched, Bit, Kinds, Workers, Running, Needs
<1>1. CASE \E i, o \in Endpoints \union {Empty, TooLong} : setup(i, o)
  BY <1>1, NeedsFrame DEF setup, LaunchInv, Launched, Bit, Kinds, Workers, Running,
     SlotType, HalfType, endpointVars, startVars, workerVars, flagVars
<1>2. CASE \E b \in Buffers, a \in ActionLists : notify(b, a)
  BY <1>2, StopIsVoid DEF notify, ResetTarget, LaunchInv, Launched, Bit,
         Kinds, Workers, Running, SlotType, HalfType
<1>3. CASE \E k \in Kinds : skip_launch(k)
  BY <1>3, NeedsFrame, NeedsSome DEF skip_launch, AfterLaunch, LaunchInv,
     Launched, Bit, Kinds, Workers, Running, SlotType, HalfType, endpointVars,
     startVars, workerVars, flagVars
<1>4. CASE \E k \in Kinds : throw_no_endpoint(k)
  BY <1>4, NeedsFrame DEF throw_no_endpoint, LaunchInv, Launched, Bit, Kinds, Workers,
     Running, SlotType, HalfType, endpointVars, startVars, workerVars,
     flagVars
<1>5. CASE \E k \in Kinds : count_thread(k)
  BY <1>5, NeedsFrame DEF count_thread, Launching, LaunchInv, Launched, Bit,
     Kinds, Workers, Running, SlotType, HalfType, endpointVars, workerVars, flagVars
<1>6. CASE \E k \in Kinds : spawn_thread(k)
  BY <1>6, NeedsFrame DEF spawn_thread, Launching, LaunchInv, Launched, Bit,
     Kinds, Workers, Running, SlotType, HalfType, endpointVars, startVars, flagVars
<1>7. CASE \E k \in Kinds : assign_thread(k)
  BY <1>7, NeedsFrame DEF assign_thread, AfterLaunch, LaunchInv, Launched,
     Bit, Kinds, Workers, Running, SlotType, HalfType, endpointVars, workerVars,
     flagVars
<1>8. CASE await_started
  BY <1>8, NeedsFrame DEF await_started, LaunchInv, Launched, Bit, Kinds, Workers,
     Running, SlotType, HalfType, endpointVars, startVars, workerVars,
     flagVars
<1>9. CASE destroy
  BY <1>9, NeedsFrame, StopIsVoid DEF destroy, LaunchInv, Launched, Bit,
     Kinds, Workers, Running, SlotType, HalfType, endpointVars, workerVars
<1>10. CASE exit_on_error
  BY <1>10, NeedsFrame DEF exit_on_error, LaunchInv, Launched, Bit, Kinds, Workers,
     Running, SlotType, HalfType, ownerVars, endpointVars, startVars,
     workerVars, flagVars
<1>11. CASE \E w \in Workers : bind_socket(w)
  BY <1>11, NeedsFrame DEF bind_socket, LaunchInv, Launched, Bit, Kinds, Workers,
     Running, SlotType, HalfType, ownerVars, endpointVars, startVars,
     workerVars, flagVars
<1>12. CASE \E w \in Workers : serve(w)
  BY <1>12, NeedsFrame DEF serve, LaunchInv, Launched, Bit, Kinds, Workers, Running,
     SlotType, HalfType, ownerVars, endpointVars, startVars, flagVars
<1>13. QED
  BY <1>0, <1>1, <1>2, <1>3, <1>4, <1>5, <1>6, <1>7, <1>8, <1>9, <1>10, <1>11,
     <1>12 DEF Next, NotifyStep, StartStep, spurious_wakeup, signal_started,
     notify_owner, vars, ownerVars, endpointVars, startVars, workerVars,
     flagVars

\* No action writes isRunning or doExit.
LEMMA StoppingStep ==
  ASSUME NeverStopping, [Next]_vars
  PROVE  NeverStopping'
<1>0. ASSUME UNCHANGED <<isRunning, doExit>> PROVE NeverStopping'
  BY <1>0 DEF NeverStopping
<1>1. QED
  BY <1>0, StopIsVoid DEF Next, NotifyStep, StartStep, setup, notify,
     skip_launch, throw_no_endpoint, count_thread, spawn_thread,
     assign_thread, await_started, spurious_wakeup, destroy, exit_on_error,
     bind_socket, signal_started, notify_owner, serve, vars, ownerVars,
     endpointVars, startVars, workerVars, flagVars

\* No thread escapes its slot.
LEMMA ThreadStep ==
  ASSUME NeverStopping, WorkerType, SlotType, LaunchInv, ThreadInv,
         [Next]_vars
  PROVE  ThreadInv'
<1>0. ASSUME UNCHANGED <<procState, workThreads, pc, half, worker>> PROVE
         ThreadInv'
  BY <1>0 DEF ThreadInv, Running
<1>1. CASE \E i, o \in Endpoints \union {Empty, TooLong} : setup(i, o)
  BY <1>1 DEF setup, ThreadInv, LaunchInv, Kinds, Workers, Running, WorkerType,
     SlotType, endpointVars, startVars, workerVars, flagVars
<1>2. CASE \E b \in Buffers, a \in ActionLists : notify(b, a)
  BY <1>2, StopIsVoid DEF notify, ThreadInv, LaunchInv, Kinds, Workers, Running,
     WorkerType, SlotType, endpointVars, workerVars
<1>3. CASE \E k \in Kinds : skip_launch(k)
  BY <1>3 DEF skip_launch, ThreadInv, LaunchInv, Kinds, Workers, Running, WorkerType,
     SlotType, endpointVars, startVars, workerVars, flagVars
<1>4. CASE \E k \in Kinds : throw_no_endpoint(k)
  BY <1>4 DEF throw_no_endpoint, ThreadInv, LaunchInv, Kinds, Workers, Running,
     WorkerType, SlotType, endpointVars, startVars, workerVars, flagVars
<1>5. CASE \E k \in Kinds : count_thread(k)
  BY <1>5 DEF count_thread, ThreadInv, LaunchInv, Kinds, Workers, Running, WorkerType,
     SlotType, endpointVars, workerVars, flagVars
<1>6. CASE \E k \in Kinds : spawn_thread(k)
  BY <1>6 DEF spawn_thread, Launching, ThreadInv, LaunchInv, Kinds, Workers, Running,
     WorkerType, SlotType, endpointVars, startVars, flagVars
<1>7. CASE \E k \in Kinds : assign_thread(k)
  BY <1>7 DEF assign_thread, Bit, ThreadInv, LaunchInv, Kinds, Workers, Running,
     WorkerType, SlotType, endpointVars, workerVars, flagVars
<1>8. CASE await_started
  BY <1>8 DEF await_started, ThreadInv, LaunchInv, Kinds, Workers, Running, WorkerType,
     SlotType, endpointVars, startVars, workerVars, flagVars
<1>9. CASE destroy
  BY <1>9, StopIsVoid DEF destroy, ThreadInv, LaunchInv, Kinds, Workers, Running,
     WorkerType, SlotType, endpointVars, workerVars
<1>10. CASE exit_on_error
  BY <1>10 DEF exit_on_error, ThreadInv, LaunchInv, Kinds, Workers, Running,
     WorkerType, SlotType, ownerVars, endpointVars, startVars, workerVars,
     flagVars
<1>11. CASE \E w \in Workers : bind_socket(w)
  BY <1>11 DEF bind_socket, ThreadInv, LaunchInv, Kinds, Workers, Running, WorkerType,
     SlotType, ownerVars, endpointVars, startVars, workerVars, flagVars
<1>12. CASE \E w \in Workers : signal_started(w)
  BY <1>12 DEF signal_started, ThreadInv, LaunchInv, Kinds, Workers, Running,
     WorkerType, SlotType, ownerVars, endpointVars, flagVars
<1>13. CASE \E w \in Workers : notify_owner(w)
  BY <1>13 DEF notify_owner, ThreadInv, LaunchInv, Kinds, Workers, Running, WorkerType,
     SlotType, ownerVars, endpointVars, startVars, flagVars
<1>14. CASE \E w \in Workers : serve(w)
  BY <1>14 DEF serve, ThreadInv, LaunchInv, Kinds, Workers, Running, WorkerType,
     SlotType, ownerVars, endpointVars, startVars, flagVars
<1>15. QED
  BY <1>0, <1>1, <1>2, <1>3, <1>4, <1>5, <1>6, <1>7, <1>8, <1>9, <1>10, <1>11,
     <1>12, <1>13, <1>14 DEF Next, NotifyStep, StartStep, spurious_wakeup,
     vars, ownerVars, endpointVars, startVars, workerVars, flagVars

\* A launch that meets a thread of its own kind is the first of its notify, and
\* slot 0 holds a thread: a launch that is not the first finds only the threads
\* of its own notify.
LEMMA SecondStep ==
  ASSUME NeverStopping, WorkerType, SlotType, HalfType, LaunchInv, ThreadInv,
         SecondInv, SignalInv, [Next]_vars
  PROVE  SecondInv'
<1>0. ASSUME UNCHANGED <<procState, workThreads, pc, half, supActs, outcome,
         worker>> PROVE SecondInv'
  BY <1>0 DEF SecondInv, Fresh, Running, Needs
<1>1. CASE \E i, o \in Endpoints \union {Empty, TooLong} : setup(i, o)
  BY <1>1 DEF setup, SecondInv, Fresh, LaunchInv, ThreadInv, SignalInv,
     Kinds, Workers, Running, WorkerType, SlotType, HalfType, ownerVars,
     endpointVars, startVars, workerVars, flagVars
<1>2. CASE \E b \in Buffers, a \in ActionLists : notify(b, a)
  BY <1>2, StopIsVoid DEF notify, SecondInv, Fresh, LaunchInv, ThreadInv,
     SignalInv, Kinds, Workers, Running, WorkerType, SlotType, HalfType,
     ownerVars, endpointVars, startVars, workerVars, flagVars
<1>3. CASE \E k \in Kinds : skip_launch(k)
  BY <1>3, NeedsFrame DEF skip_launch, AfterLaunch, SecondInv, Fresh,
     LaunchInv, ThreadInv, SignalInv, Kinds, Workers, Running, WorkerType,
     SlotType, HalfType, ownerVars, endpointVars, startVars, workerVars,
     flagVars
<1>4. CASE \E k \in Kinds : throw_no_endpoint(k)
  BY <1>4, NeedsFrame DEF throw_no_endpoint, SecondInv, Fresh, LaunchInv,
     ThreadInv, SignalInv, Kinds, Workers, Running, WorkerType, SlotType,
     HalfType, ownerVars, endpointVars, startVars, workerVars, flagVars
<1>5. CASE \E k \in Kinds : count_thread(k)
  BY <1>5, NeedsFrame DEF count_thread, Launching, SecondInv, Fresh,
     LaunchInv, ThreadInv, SignalInv, Kinds, Workers, Running, WorkerType,
     SlotType, HalfType, ownerVars, endpointVars, startVars, workerVars,
     flagVars
<1>6. CASE \E k \in Kinds : spawn_thread(k)
  BY <1>6, NeedsFrame DEF spawn_thread, Launching, SecondInv, Fresh,
     LaunchInv, ThreadInv, SignalInv, Kinds, Workers, Running, WorkerType,
     SlotType, HalfType, ownerVars, endpointVars, startVars, workerVars,
     flagVars
<1>7. CASE \E k \in Kinds : assign_thread(k)
  BY <1>7, NeedsFrame DEF assign_thread, AfterLaunch, Bit, SecondInv, Fresh,
     LaunchInv, ThreadInv, SignalInv, Kinds, Workers, Running, WorkerType,
     SlotType, HalfType, ownerVars, endpointVars, startVars, workerVars,
     flagVars
<1>8. CASE await_started
  BY <1>8 DEF await_started, SecondInv, Fresh, LaunchInv, ThreadInv,
     SignalInv, Kinds, Workers, Running, WorkerType, SlotType, HalfType,
     ownerVars, endpointVars, startVars, workerVars, flagVars
<1>9. CASE destroy
  BY <1>9, StopIsVoid DEF destroy, SecondInv, Fresh, LaunchInv, ThreadInv,
     SignalInv, Kinds, Workers, Running, WorkerType, SlotType, HalfType,
     ownerVars, endpointVars, startVars, workerVars, flagVars
<1>10. CASE exit_on_error
  BY <1>10 DEF exit_on_error, SecondInv, Fresh, LaunchInv, ThreadInv,
     SignalInv, Kinds, Workers, Running, WorkerType, SlotType, HalfType,
     ownerVars, endpointVars, startVars, workerVars, flagVars
<1>11. CASE \E w \in Workers : bind_socket(w)
  BY <1>11, NeedsFrame DEF bind_socket, SecondInv, Fresh, LaunchInv,
     ThreadInv, SignalInv, Kinds, Workers, Running, WorkerType, SlotType,
     HalfType, ownerVars, endpointVars, startVars, workerVars, flagVars
<1>12. CASE \E w \in Workers : signal_started(w)
  BY <1>12, NeedsFrame DEF signal_started, SecondInv, Fresh, LaunchInv,
     ThreadInv, SignalInv, Kinds, Workers, Running, WorkerType, SlotType,
     HalfType, ownerVars, endpointVars, startVars, workerVars, flagVars
<1>13. CASE \E w \in Workers : notify_owner(w)
  BY <1>13, NeedsFrame DEF notify_owner, SecondInv, Fresh, LaunchInv,
     ThreadInv, SignalInv, Kinds, Workers, Running, WorkerType, SlotType,
     HalfType, ownerVars, endpointVars, startVars, workerVars, flagVars
<1>14. CASE \E w \in Workers : serve(w)
  BY <1>14, NeedsFrame DEF serve, SecondInv, Fresh, LaunchInv, ThreadInv,
     SignalInv, Kinds, Workers, Running, WorkerType, SlotType, HalfType,
     ownerVars, endpointVars, startVars, workerVars, flagVars
<1>15. QED
  BY <1>0, <1>1, <1>2, <1>3, <1>4, <1>5, <1>6, <1>7, <1>8, <1>9, <1>10,
     <1>11, <1>12, <1>13, <1>14 DEF Next, NotifyStep, StartStep,
     spurious_wakeup, vars, ownerVars, endpointVars, startVars, workerVars,
     flagVars

\* Every thread counts itself once: it is never restarted.
LEMMA SignalStep ==
  ASSUME NeverStopping, WorkerType, SecondInv, SignalInv, [Next]_vars
  PROVE  SignalInv'
<1>0. ASSUME UNCHANGED <<worker, startupState>> PROVE SignalInv'
  BY <1>0 DEF SignalInv, Signalled, Bit
<1>1. CASE \E k \in Kinds : spawn_thread(k)
  BY <1>1 DEF spawn_thread, Launching, SecondInv, Running, SignalInv, Signalled, Bit,
     Kinds, Workers, WorkerType, endpointVars, startVars, flagVars
<1>2. CASE \E w \in Workers : bind_socket(w)
  BY <1>2 DEF bind_socket, SignalInv, Signalled, Bit, Kinds, Workers, WorkerType,
     ownerVars, endpointVars, startVars, workerVars, flagVars
<1>3. CASE \E w \in Workers : signal_started(w)
  BY <1>3 DEF signal_started, SignalInv, Signalled, Bit, Kinds, Workers, WorkerType,
     ownerVars, endpointVars, flagVars
<1>4. CASE \E w \in Workers : notify_owner(w)
  BY <1>4 DEF notify_owner, SignalInv, Signalled, Bit, Kinds, Workers, WorkerType,
     ownerVars, endpointVars, startVars, flagVars
<1>5. CASE \E w \in Workers : serve(w)
  BY <1>5 DEF serve, NeverStopping, SignalInv, Signalled, Bit, Kinds, Workers,
     WorkerType, ownerVars, endpointVars, startVars, flagVars
<1>6. QED
  BY <1>0, <1>1, <1>2, <1>3, <1>4, <1>5, StopIsVoid DEF Next, NotifyStep,
     StartStep, setup, notify, skip_launch, throw_no_endpoint, count_thread,
     assign_thread, await_started, spurious_wakeup, destroy, exit_on_error,
     vars, ownerVars, endpointVars, startVars, workerVars, flagVars

\* bind_socket precedes signal_started.
LEMMA BoundStep ==
  ASSUME NeverStopping, WorkerType, EndpointType, BoundInv, [Next]_vars
  PROVE  BoundInv'
<1>0. ASSUME UNCHANGED <<worker, bound>> PROVE BoundInv'
  BY <1>0 DEF BoundInv, Signalled
<1>1. CASE \E k \in Kinds : spawn_thread(k)
  BY <1>1 DEF spawn_thread, BoundInv, Signalled, WorkerType, Kinds, Workers,
     endpointVars, startVars, flagVars
<1>2. CASE \E w \in Workers : bind_socket(w)
  BY <1>2 DEF bind_socket, EndpointType, BoundInv, Signalled, WorkerType,
     Kinds, Workers, ownerVars, endpointVars, startVars, workerVars, flagVars
<1>3. CASE \E w \in Workers : signal_started(w)
  BY <1>3 DEF signal_started, BoundInv, Signalled, WorkerType, Kinds, Workers,
     ownerVars, endpointVars, flagVars
<1>4. CASE \E w \in Workers : notify_owner(w)
  BY <1>4 DEF notify_owner, BoundInv, Signalled, WorkerType, Kinds, Workers, ownerVars,
     endpointVars, startVars, flagVars
<1>5. CASE \E w \in Workers : serve(w)
  BY <1>5 DEF serve, NeverStopping, BoundInv, Signalled, WorkerType, Kinds, Workers,
     ownerVars, endpointVars, startVars, flagVars
<1>6. QED
  BY <1>0, <1>1, <1>2, <1>3, <1>4, <1>5, StopIsVoid DEF Next, NotifyStep,
     StartStep, setup, notify, skip_launch, throw_no_endpoint, count_thread,
     assign_thread, await_started, spurious_wakeup, destroy, exit_on_error,
     vars, ownerVars, endpointVars, startVars, workerVars, flagVars

\* A notify that gets to its wait found no thread of an earlier one, so the
\* async thread took its buffer from this one.
LEMMA ServedStep ==
  ASSUME NeverStopping, WorkerType, SlotType, LaunchInv, ThreadInv, ServedInv,
         [Next]_vars
  PROVE  ServedInv'
<1>0. ASSUME UNCHANGED <<procState, workThreads, pc, outcome, supActs, worker,
         served, moduleAsyncBuffer>> PROVE ServedInv'
  BY <1>0 DEF ServedInv, Fresh, Signalled, Needs, Running
<1>1. CASE \E i, o \in Endpoints \union {Empty, TooLong} : setup(i, o)
  BY <1>1, NeedsFrame DEF setup, ServedInv, Fresh, Signalled, Kinds, Workers,
     WorkerType, SlotType, LaunchInv, ThreadInv, Running, endpointVars,
     startVars, workerVars, flagVars
<1>2. CASE \E b \in Buffers, a \in ActionLists : notify(b, a)
  BY <1>2, StopIsVoid DEF notify, ServedInv, Fresh, Signalled, Kinds, Workers,
     WorkerType, SlotType, LaunchInv, ThreadInv, Running, endpointVars,
     workerVars
<1>3. CASE \E k \in Kinds : skip_launch(k)
  BY <1>3, NeedsFrame, NeedsSome DEF skip_launch, AfterLaunch, ServedInv,
     Fresh, Signalled, Kinds, Workers, WorkerType, SlotType, LaunchInv, ThreadInv,
     Running, endpointVars, startVars, workerVars, flagVars
<1>4. CASE \E k \in Kinds : throw_no_endpoint(k)
  BY <1>4, NeedsFrame DEF throw_no_endpoint, ServedInv, Fresh, Signalled,
     Kinds, Workers, WorkerType, SlotType, LaunchInv, ThreadInv, Running, endpointVars,
     startVars, workerVars, flagVars
<1>5. CASE \E k \in Kinds : spawn_thread(k)
  BY <1>5, NeedsFrame DEF spawn_thread, ServedInv, Fresh, Signalled, Kinds, Workers,
     WorkerType, SlotType, LaunchInv, ThreadInv, Running, endpointVars,
     startVars, flagVars
<1>6. CASE \E k \in Kinds : assign_thread(k)
  BY <1>6, NeedsFrame DEF assign_thread, AfterLaunch, Bit, ServedInv, Fresh,
     Signalled, Kinds, Workers, WorkerType, SlotType, LaunchInv, ThreadInv, Running,
     endpointVars, workerVars, flagVars
<1>7. CASE await_started
  BY <1>7, NeedsFrame DEF await_started, ServedInv, Fresh, Signalled, Kinds, Workers,
     WorkerType, SlotType, LaunchInv, ThreadInv, Running, endpointVars,
     startVars, workerVars, flagVars
<1>8. CASE destroy
  BY <1>8, StopIsVoid, NeedsFrame DEF destroy, ServedInv, Fresh, Signalled,
     Kinds, Workers, WorkerType, SlotType, LaunchInv, ThreadInv, Running, endpointVars,
     workerVars
<1>9. CASE exit_on_error
  BY <1>9, NeedsFrame DEF exit_on_error, ServedInv, Fresh, Signalled, Kinds, Workers,
     WorkerType, SlotType, LaunchInv, ThreadInv, Running, ownerVars,
     endpointVars, startVars, workerVars, flagVars
<1>10. CASE \E w \in Workers : bind_socket(w)
  BY <1>10, NeedsFrame DEF bind_socket, ServedInv, Fresh, Signalled, Kinds, Workers,
     WorkerType, SlotType, LaunchInv, ThreadInv, Running, ownerVars,
     endpointVars, startVars, workerVars, flagVars
<1>11. CASE \E w \in Workers : signal_started(w)
  BY <1>11, NeedsFrame DEF signal_started, ServedInv, Fresh, Signalled, Kinds, Workers,
     WorkerType, SlotType, LaunchInv, ThreadInv, Running, ownerVars,
     endpointVars, flagVars
<1>12. CASE \E w \in Workers : notify_owner(w)
  BY <1>12, NeedsFrame DEF notify_owner, ServedInv, Fresh, Signalled, Kinds, Workers,
     WorkerType, SlotType, LaunchInv, ThreadInv, Running, ownerVars,
     endpointVars, startVars, flagVars
<1>13. CASE \E w \in Workers : serve(w)
  BY <1>13, NeedsFrame DEF serve, ServedInv, Fresh, Signalled, Kinds, Workers,
     WorkerType, SlotType, LaunchInv, ThreadInv, Running, ownerVars,
     endpointVars, startVars, flagVars
<1>14. QED
  BY <1>0, <1>1, <1>2, <1>3, <1>4, <1>5, <1>6, <1>7, <1>8, <1>9, <1>10, <1>11,
     <1>12, <1>13 DEF Next, NotifyStep, StartStep, count_thread,
     spurious_wakeup, vars, ownerVars, endpointVars, startVars, workerVars,
     flagVars

\* When as many threads have signalled as were counted, they are the ones that
\* were counted: there are no others.
LEMMA ReadyStep ==
  ASSUME NeverStopping, WorkerType, SlotType, EndpointType, LaunchInv,
         ThreadInv, SecondInv, SignalInv, BoundInv, ServedInv, ReadyOnReturn,
         [Next]_vars
  PROVE  ReadyOnReturn'
<1>0. ASSUME UNCHANGED <<procState, pc, outcome, supActs, worker, bound,
         served, moduleAsyncBuffer>> PROVE ReadyOnReturn'
  BY <1>0 DEF ReadyOnReturn, Started, Needs, Running
<1>1. CASE \E i, o \in Endpoints \union {Empty, TooLong} : setup(i, o)
  BY <1>1, NeedsFrame DEF setup, ReadyOnReturn, Started, Kinds, Workers, WorkerType,
     Running, endpointVars, startVars, workerVars, flagVars
<1>2. CASE \E b \in Buffers, a \in ActionLists : notify(b, a)
  BY <1>2, StopIsVoid DEF notify, ReadyOnReturn, Started, Kinds, Workers, WorkerType,
         Running
<1>3. CASE \E k \in Kinds : skip_launch(k)
  BY <1>3, NeedsFrame DEF skip_launch, AfterLaunch, ReadyOnReturn, Started,
     Kinds, Workers, WorkerType, Running, endpointVars, startVars, workerVars, flagVars
<1>4. CASE \E k \in Kinds : throw_no_endpoint(k)
  BY <1>4, NeedsFrame DEF throw_no_endpoint, ReadyOnReturn, Started, Kinds, Workers,
     WorkerType, Running, endpointVars, startVars, workerVars, flagVars
<1>5. CASE \E k \in Kinds : spawn_thread(k)
  BY <1>5, NeedsFrame DEF spawn_thread, Launching, ReadyOnReturn, Started,
     Kinds, Workers, WorkerType, Running, endpointVars, startVars, flagVars
<1>6. CASE \E k \in Kinds : assign_thread(k)
  BY <1>6, NeedsFrame DEF assign_thread, AfterLaunch, ReadyOnReturn, Started,
     Kinds, Workers, WorkerType, Running, endpointVars, workerVars, flagVars
<1>7. CASE await_started
  BY <1>7, NeedsFrame DEF await_started, AllStarted, LaunchInv, Launched,
     ThreadInv, SecondInv, SignalInv, Signalled, Bit, BoundInv, ServedInv,
     Fresh, ReadyOnReturn, Started, Kinds, Workers, WorkerType, Running, endpointVars,
     startVars, workerVars, flagVars
<1>8. CASE destroy
  BY <1>8, StopIsVoid, NeedsFrame DEF destroy, ReadyOnReturn, Started, Kinds, Workers,
     WorkerType, Running, endpointVars, workerVars
<1>9. CASE exit_on_error
  BY <1>9, NeedsFrame DEF exit_on_error, ReadyOnReturn, Started, Kinds, Workers,
     WorkerType, Running, ownerVars, endpointVars, startVars, workerVars,
     flagVars
<1>10. CASE \E w \in Workers : bind_socket(w)
  BY <1>10, NeedsFrame DEF bind_socket, EndpointType, ReadyOnReturn, Started,
     Kinds, Workers, WorkerType, Running, ownerVars, endpointVars, startVars,
     workerVars, flagVars
<1>11. CASE \E w \in Workers : signal_started(w)
  BY <1>11, NeedsFrame DEF signal_started, ReadyOnReturn, Started, Kinds, Workers,
     WorkerType, Running, ownerVars, endpointVars, flagVars
<1>12. CASE \E w \in Workers : notify_owner(w)
  BY <1>12, NeedsFrame DEF notify_owner, ReadyOnReturn, Started, Kinds, Workers,
     WorkerType, Running, ownerVars, endpointVars, startVars, flagVars
<1>13. CASE \E w \in Workers : serve(w)
  BY <1>13, NeedsFrame DEF serve, ReadyOnReturn, Started, Kinds, Workers, WorkerType,
     Running, ownerVars, endpointVars, startVars, flagVars
<1>14. QED
  BY <1>0, <1>1, <1>2, <1>3, <1>4, <1>5, <1>6, <1>7, <1>8, <1>9, <1>10, <1>11,
     <1>12, <1>13 DEF Next, NotifyStep, StartStep, count_thread,
     spurious_wakeup, vars, ownerVars, endpointVars, startVars, workerVars,
     flagVars

----------------------------------------------------------------------------
(* Type correctness, one group of variables at a time.                     *)

\* The control of the owner and of the process.
LEMMA OwnerTypeStep ==
  ASSUME NeverStopping, OwnerType, [Next]_vars
  PROVE  OwnerType'
<1>0. ASSUME UNCHANGED <<procState, pc, supActs, outcome, asleep>> PROVE
         OwnerType'
  BY <1>0 DEF OwnerType, Kinds, Workers
<1>1. CASE \E i, o \in Endpoints \union {Empty, TooLong} : setup(i, o)
  BY <1>1 DEF setup, OwnerType, Kinds, Workers, endpointVars, startVars, workerVars,
     flagVars
<1>2. CASE \E b \in Buffers, a \in ActionLists : notify(b, a)
  BY <1>2, StopIsVoid DEF notify, ResetTarget, OwnerType, Kinds, Workers, endpointVars,
     workerVars
<1>3. CASE \E k \in Kinds : skip_launch(k)
  BY <1>3 DEF skip_launch, AfterLaunch, OwnerType, Kinds, Workers, endpointVars,
     startVars, workerVars, flagVars
<1>4. CASE \E k \in Kinds : throw_no_endpoint(k)
  BY <1>4 DEF throw_no_endpoint, OwnerType, Kinds, Workers, endpointVars, startVars,
     workerVars, flagVars
<1>5. CASE \E k \in Kinds : assign_thread(k)
  BY <1>5 DEF assign_thread, AfterLaunch, OwnerType, Kinds, Workers, endpointVars,
     workerVars, flagVars
<1>6. CASE await_started
  BY <1>6 DEF await_started, OwnerType, Kinds, Workers, endpointVars, startVars,
     workerVars, flagVars
<1>7. CASE spurious_wakeup
  BY <1>7 DEF spurious_wakeup, OwnerType, Kinds, Workers, ownerVars, endpointVars,
     startVars, workerVars, flagVars
<1>8. CASE destroy
  BY <1>8, StopIsVoid DEF destroy, OwnerType, Kinds, Workers, endpointVars, workerVars
<1>9. CASE exit_on_error
  BY <1>9 DEF exit_on_error, OwnerType, Kinds, Workers, ownerVars, endpointVars,
     startVars, workerVars, flagVars
<1>10. CASE \E w \in Workers : bind_socket(w)
  BY <1>10 DEF bind_socket, OwnerType, Kinds, Workers, ownerVars, endpointVars,
     startVars, workerVars, flagVars
<1>11. CASE \E w \in Workers : notify_owner(w)
  BY <1>11 DEF notify_owner, OwnerType, Kinds, Workers, ownerVars, endpointVars,
     startVars, flagVars
<1>12. CASE \E w \in Workers : serve(w)
  BY <1>12 DEF serve, OwnerType, Kinds, Workers, ownerVars, endpointVars, startVars,
     flagVars
<1>13. QED
  BY <1>0, <1>1, <1>2, <1>3, <1>4, <1>5, <1>6, <1>7, <1>8, <1>9, <1>10, <1>11,
     <1>12 DEF Next, NotifyStep, StartStep, count_thread, spawn_thread,
     signal_started, vars, ownerVars, endpointVars, startVars, workerVars,
     flagVars

\* The parts of a launch.
LEMMA HalfTypeStep ==
  ASSUME NeverStopping, HalfType, [Next]_vars
  PROVE  HalfType'
<1>0. ASSUME UNCHANGED <<half>> PROVE HalfType'
  BY <1>0 DEF HalfType
<1>1. CASE \E k \in Kinds : count_thread(k)
  BY <1>1 DEF count_thread, Launching, HalfType, endpointVars, workerVars,
     flagVars
<1>2. CASE \E k \in Kinds : spawn_thread(k)
  BY <1>2 DEF spawn_thread, Launching, HalfType, endpointVars, startVars,
     flagVars
<1>3. CASE \E k \in Kinds : assign_thread(k)
  BY <1>3 DEF assign_thread, AfterLaunch, HalfType, endpointVars, workerVars,
     flagVars
<1>4. QED
  BY <1>0, <1>1, <1>2, <1>3, StopIsVoid DEF Next, NotifyStep, StartStep,
     setup, notify, skip_launch, throw_no_endpoint, await_started,
     spurious_wakeup, destroy, exit_on_error, bind_socket, signal_started,
     notify_owner, serve, vars, ownerVars, endpointVars, startVars,
     workerVars, flagVars

\* The slots: assign_thread finds startupStateTarget at 1 or 2.
LEMMA SlotTypeStep ==
  ASSUME NeverStopping, HalfType, SlotType, LaunchInv, [Next]_vars
  PROVE  SlotType'
<1>0. ASSUME UNCHANGED <<workThreads>> PROVE SlotType'
  BY <1>0 DEF SlotType, Kinds, Workers
<1>1. CASE \E k \in Kinds : assign_thread(k)
  BY <1>1 DEF assign_thread, AfterLaunch, SlotType, Kinds, Workers, LaunchInv, Bit,
     Running, HalfType, endpointVars, workerVars, flagVars
<1>2. QED
  BY <1>0, <1>1, StopIsVoid DEF Next, NotifyStep, StartStep, setup, notify,
     skip_launch, throw_no_endpoint, count_thread, spawn_thread,
     await_started, spurious_wakeup, destroy, exit_on_error, bind_socket,
     signal_started, notify_owner, serve, vars, ownerVars, endpointVars,
     startVars, workerVars, flagVars

\* The control of the threads.
LEMMA WorkerTypeStep ==
  ASSUME NeverStopping, WorkerType, [Next]_vars
  PROVE  WorkerType'
<1>0. ASSUME UNCHANGED <<worker>> PROVE WorkerType'
  BY <1>0 DEF WorkerType, Kinds, Workers
<1>1. CASE \E k \in Kinds : spawn_thread(k)
  BY <1>1 DEF spawn_thread, Launching, WorkerType, Kinds, Workers, endpointVars,
     startVars, flagVars
<1>2. CASE \E w \in Workers : bind_socket(w)
  BY <1>2 DEF bind_socket, WorkerType, Kinds, Workers, ownerVars, endpointVars,
     startVars, workerVars, flagVars
<1>3. CASE \E w \in Workers : signal_started(w)
  BY <1>3 DEF signal_started, WorkerType, Kinds, Workers, ownerVars, endpointVars,
     flagVars
<1>4. CASE \E w \in Workers : notify_owner(w)
  BY <1>4 DEF notify_owner, WorkerType, Kinds, Workers, ownerVars, endpointVars,
     startVars, flagVars
<1>5. CASE \E w \in Workers : serve(w)
  BY <1>5 DEF serve, WorkerType, Kinds, Workers, ownerVars, endpointVars, startVars,
     flagVars
<1>6. QED
  BY <1>0, <1>1, <1>2, <1>3, <1>4, <1>5, StopIsVoid DEF Next, NotifyStep,
     StartStep, setup, notify, skip_launch, throw_no_endpoint, count_thread,
     assign_thread, await_started, spurious_wakeup, destroy, exit_on_error,
     vars, ownerVars, endpointVars, startVars, workerVars, flagVars

\* setup stores only what fits.
LEMMA EndpointTypeStep ==
  ASSUME NeverStopping, EndpointType, [Next]_vars
  PROVE  EndpointType'
<1>0. ASSUME UNCHANGED <<iEndpoint, oEndpoint, bound>> PROVE EndpointType'
  BY <1>0 DEF EndpointType, Kinds, Workers
<1>1. CASE \E i, o \in Endpoints \union {Empty, TooLong} : setup(i, o)
  BY <1>1 DEF setup, EndpointType, Kinds, Workers, endpointVars, startVars, workerVars,
     flagVars
<1>2. CASE \E w \in Workers : bind_socket(w)
  BY <1>2 DEF bind_socket, EndpointType, Kinds, Workers, Endpoint, ownerVars,
     endpointVars, startVars, workerVars, flagVars
<1>3. QED
  BY <1>0, <1>1, <1>2, StopIsVoid DEF Next, NotifyStep, StartStep, notify,
     skip_launch, throw_no_endpoint, count_thread, spawn_thread,
     assign_thread, await_started, spurious_wakeup, destroy, exit_on_error,
     signal_started, notify_owner, serve, vars, ownerVars, endpointVars,
     startVars, workerVars, flagVars

\* The buffers.
LEMMA BufferTypeStep ==
  ASSUME NeverStopping, BufferType, [Next]_vars
  PROVE  BufferType'
<1>0. ASSUME UNCHANGED <<moduleAsyncBuffer, served>> PROVE BufferType'
  BY <1>0 DEF BufferType
<1>1. CASE \E b \in Buffers, a \in ActionLists : notify(b, a)
  BY <1>1, StopIsVoid DEF notify, ResetTarget, BufferType, endpointVars,
     workerVars
<1>2. CASE \E w \in Workers : bind_socket(w)
  BY <1>2 DEF bind_socket, BufferType, ownerVars, endpointVars, startVars,
     workerVars, flagVars
<1>3. QED
  BY <1>0, <1>1, <1>2, StopIsVoid DEF Next, NotifyStep, StartStep, setup,
     skip_launch, throw_no_endpoint, count_thread, spawn_thread,
     assign_thread, await_started, spurious_wakeup, destroy, exit_on_error,
     signal_started, notify_owner, serve, vars, ownerVars, endpointVars,
     startVars, workerVars, flagVars

\* At most two threads are counted in a notify.
LEMMA CountTypeStep ==
  ASSUME NeverStopping, CountType, HalfType, LaunchInv, [Next]_vars
  PROVE  CountType'
<1>0. ASSUME UNCHANGED <<startupStateTarget, setups, notifies>> PROVE
         CountType'
  BY <1>0 DEF CountType
<1>1. CASE \E i, o \in Endpoints \union {Empty, TooLong} : setup(i, o)
  BY <1>1, ServerAssumption DEF setup, CountType, endpointVars, startVars,
     workerVars, flagVars
<1>2. CASE \E b \in Buffers, a \in ActionLists : notify(b, a)
  BY <1>2, StopIsVoid, ServerAssumption DEF notify, ResetTarget, CountType,
     endpointVars, workerVars
<1>3. CASE \E k \in Kinds : count_thread(k)
  BY <1>3 DEF count_thread, Launching, CountType, LaunchInv, Bit, Running,
     Kinds, Workers, endpointVars, workerVars, flagVars
<1>4. QED
  BY <1>0, <1>1, <1>2, <1>3, StopIsVoid DEF Next, NotifyStep, StartStep,
     skip_launch, throw_no_endpoint, spawn_thread, assign_thread,
     await_started, spurious_wakeup, destroy, exit_on_error, bind_socket,
     signal_started, notify_owner, serve, vars, ownerVars, endpointVars,
     startVars, workerVars, flagVars

----------------------------------------------------------------------------

\* The constructor establishes the invariant.
LEMMA ServerInit == Init => ServerInv
<1> SUFFICES ASSUME Init PROVE ServerInv
  OBVIOUS
<1>1. OwnerType /\ HalfType /\ NeverStopping
  BY Zenon DEF Init, OwnerType, HalfType, NeverStopping
<1>2. SlotType /\ WorkerType /\ EndpointType /\ BufferType
  BY DEF Init, SlotType, WorkerType, EndpointType, BufferType, Kinds, Workers
<1>3. CountType
  BY ServerAssumption DEF Init, CountType
<1>4. LaunchInv /\ ThreadInv /\ SecondInv
  BY DEF Init, LaunchInv, ThreadInv, SecondInv, Kinds, Workers, Launched
<1>5. SignalInv /\ BoundInv /\ ServedInv
  BY DEF Init, Workers, SignalInv, BoundInv, ServedInv, Signalled, Bit, Kinds, Workers
<1>6. SleepInv /\ ReadyOnReturn
  BY DEF Init, SleepInv, NoLostWakeup, ReadyOnReturn
<1>7. QED
  BY <1>1, <1>2, <1>3, <1>4, <1>5, <1>6 DEF ServerInv

\* ServerInv holds of every behaviour of the server.
THEOREM ServerInvariant == Spec => []ServerInv
<1>1. ServerInv /\ [Next]_vars => ServerInv'
  <2> SUFFICES ASSUME ServerInv, [Next]_vars PROVE ServerInv'
    OBVIOUS
  <2> USE DEF ServerInv
  <2>1. OwnerType' /\ HalfType' /\ NeverStopping'
    BY OwnerTypeStep, HalfTypeStep, StoppingStep
  <2>2. SlotType' /\ WorkerType' /\ EndpointType'
    BY SlotTypeStep, WorkerTypeStep, EndpointTypeStep
  <2>3. BufferType' /\ CountType'
    BY BufferTypeStep, CountTypeStep
  <2>4. LaunchInv' /\ ThreadInv' /\ SecondInv' /\ SignalInv'
    BY LaunchStep, ThreadStep, SecondStep, SignalStep
  <2>5. BoundInv' /\ ServedInv' /\ SleepInv'
    BY BoundStep, ServedStep, SleepStep
  <2>6. ReadyOnReturn'
    BY ReadyStep
  <2>7. QED
    BY <2>1, <2>2, <2>3, <2>4, <2>5, <2>6
<1>2. QED
  BY <1>1, ServerInit, PTL DEF Spec

\* Type correctness: however often notify is called, startupStateTarget, the
\* index of the two slots, never exceeds 2, and startupState never exceeds 3:
\* the thread that a repeated notify launches counts itself at most once
\* before the process ends.
THEOREM ServerTypeCorrect == Spec => []TypeOK
<1>1. ServerInv => TypeOK
  <2> SUFFICES ASSUME ServerInv PROVE TypeOK
    OBVIOUS
  <2>1. startupState \in 0..3
    BY DEF ServerInv, SignalInv, Bit
  <2>2. isRunning \in BOOLEAN /\ doExit \in BOOLEAN
    BY Zenon DEF ServerInv, NeverStopping
  <2>3. QED
    BY <2>1, <2>2, Zenon DEF ServerInv, TypeOK, OwnerType, HalfType, SlotType,
         WorkerType, EndpointType, BufferType, CountType
<1>2. QED
  BY <1>1, ServerInvariant, PTL

\* isRunning and doExit stay false: no thread of the server is ever told to
\* leave, so the loops of sync_work and async_work end only with the process.
THEOREM ServerNeverStops == Spec => []NeverStopping
<1>1. ServerInv => NeverStopping
  BY DEF ServerInv
<1>2. QED
  BY <1>1, ServerInvariant, PTL

\* The wait of notify misses no signal, although startupStateTarget is read by
\* the threads without the mutex it is written under.
THEOREM NoLostWakeupHolds == Spec => []NoLostWakeup
<1>1. ServerInv => NoLostWakeup
  BY DEF ServerInv, SleepInv
<1>2. QED
  BY <1>1, ServerInvariant, PTL

\* A notify that returned has brought up every thread the module needs, on the
\* buffer of that module.
THEOREM ReadyOnReturnHolds == Spec => []ReadyOnReturn
<1>1. ServerInv => ReadyOnReturn
  BY DEF ServerInv
<1>2. QED
  BY <1>1, ServerInvariant, PTL

=============================================================================
