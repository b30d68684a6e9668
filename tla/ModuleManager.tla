--------------------------- MODULE ModuleManager ---------------------------
(***************************************************************************)
(* module::module_manager (module_manager.hpp, .cpp) with the module it    *)
(* has loaded (imodule.hpp, .cpp), the processing unit in it, the thread   *)
(* of that module that calls async_work of the unit, and the request       *)
(* thread that a transceiver unit starts and its destructor joins.         *)
(*                                                                         *)
(* Any thread may call the manager. A call holds the manager's stateMutex  *)
(* from its first to its last line, so a call that neither blocks nor runs *)
(* code of a processing unit is one step; the others hold the mutex over   *)
(* several steps. The mutex of imodule is taken only below that of the     *)
(* manager and adds nothing. The async thread takes neither: it reads      *)
(* loadedProcUnit and doExit on its own. Nor does the request thread; it   *)
(* shares requestMutex of the unit with the async thread.                  *)
(*                                                                         *)
(* Objects are numbered in the order of their creation; 0 is NULL.         *)
(***************************************************************************)
EXTENDS Naturals

CONSTANTS
  Threads,       \* callers: main, the sync thread of the server, ...
  Modules,       \* registered module names
  AsyncModules,  \* the modules that support REPLY or WAIT
  Calls,         \* the member functions the threads call
  MaxObjects     \* bound on the modules, and on the units, ever created

AllCalls == {"load_module", "load_proc_unit", "unload_module",
             "unload_proc_unit", "proc_act", "supported_actions",
             "unregister_callback"}

ASSUME ManagerAssumption ==
  /\ AsyncModules \subseteq Modules
  /\ Calls \subseteq AllCalls
  /\ MaxObjects \in Nat

VARIABLES
  procState,        \* "running", or how the process ended
  pc,               \* what each thread does with the mutex held
  registered,       \* serverCallback is set
  loadedModule,     \* object number of the module
  moduleName,       \* its registered name, its identity for AsyncModules
  loadedProcUnit,   \* object number of the unit in it
  unitReady,        \* string_initialize_parameters of that unit completed
  isRunning, doExit,
  asyncProc,        \* control of the async thread of the module
  asyncUnit,        \* the unit whose async_work it is in
  requestThread,    \* the request thread of the loaded unit: "listening",
                    \* "busy" with a session that may last for ever, "calling"
                    \* the dispatcher with requestMutex held, or "none"
  serverBuffer,     \* the module whose async buffer the server points to
  modules, units    \* objects created so far

vars == <<procState, pc, registered, loadedModule, moduleName, loadedProcUnit,
          unitReady, isRunning, doExit, asyncProc, asyncUnit, requestThread,
          serverBuffer, modules, units>>

moduleVars == <<loadedModule, moduleName, modules>>
unitVars == <<loadedProcUnit, unitReady, units>>
asyncVars == <<isRunning, doExit, asyncProc, asyncUnit>>

----------------------------------------------------------------------------

Init ==
  /\ procState = "running"
  /\ pc = [t \in Threads |-> "idle"]
  /\ registered = TRUE      \* the server registers itself when constructed
  /\ loadedModule = 0
  /\ moduleName \in Modules
  /\ loadedProcUnit = 0
  /\ unitReady = FALSE
  /\ isRunning = FALSE
  /\ doExit = FALSE
  /\ asyncProc = "none"
  /\ asyncUnit = 0
  /\ requestThread = "none"
  /\ serverBuffer = 0
  /\ modules = 0
  /\ units = 0

\* Mutant: the mutex is not taken.
EnterUnlocked(call) == procState = "running" /\ call \in Calls

\* A thread gets the mutex for a call.
Enter(call) ==
  /\ procState = "running"
  /\ call \in Calls
  /\ \A u \in Threads : pc[u] = "idle"

Goto(t, l) == pc' = [pc EXCEPT ![t] = l]

IsAsync == moduleName \in AsyncModules

\* load_module: nothing when one is loaded; an unknown name throws and leaves
\* no trace. string_initialize_parameters of the modules does nothing.
load_module(t, name) ==
  /\ Enter("load_module")
  /\ loadedModule = 0
  /\ modules < MaxObjects
  /\ modules' = modules + 1
  /\ loadedModule' = modules + 1
  /\ moduleName' = name
  /\ UNCHANGED <<procState, pc, registered, unitVars, asyncVars, requestThread,
                 serverBuffer>>

\* load_proc_unit when a module and no unit is loaded (otherwise, and for an
\* unknown name, nothing changes). The unit is stored, then initialised ...
load_proc_unit(t) ==
  /\ Enter("load_proc_unit")
  /\ loadedModule # 0
  /\ loadedProcUnit = 0
  /\ units < MaxObjects
  /\ units' = units + 1
  /\ loadedProcUnit' = units + 1
  /\ unitReady' = FALSE
  /\ Goto(t, "initialising")
  /\ UNCHANGED <<procState, registered, moduleVars, asyncVars, requestThread,
                 serverBuffer>>

\* ... by its string_initialize_parameters, which may call the dispatcher and
\* completes (a transceiver has then started its request thread), throws, or
\* exits the process. On completion the async thread is started, and the server
\* is called with the mutex held.
initialized(t) ==
  /\ procState = "running"
  /\ pc[t] = "initialising"
  /\ \/ /\ unitReady' = TRUE
        /\ requestThread' \in (IF IsAsync THEN {"none", "listening"} ELSE {"none"})
        /\ IF IsAsync /\ ~isRunning
           THEN /\ isRunning' = TRUE
                /\ asyncProc' = "check"
                /\ UNCHANGED <<doExit, asyncUnit>>
           ELSE UNCHANGED asyncVars
        /\ Goto(t, "notify")
        /\ UNCHANGED procState
     \/ /\ procState' \in {"running", "exited"}
        /\ Goto(t, "idle")
        /\ UNCHANGED <<unitReady, requestThread, asyncVars>>
  /\ UNCHANGED <<registered, moduleVars, loadedProcUnit, units, serverBuffer>>

\* The end of load_proc_unit: an unregistered callback throws; otherwise
\* server::notify stores the buffer of the module, then returns or throws.
notify_server(t) ==
  /\ procState = "running"
  /\ pc[t] = "notify"
  /\ serverBuffer' = IF registered THEN loadedModule ELSE serverBuffer
  /\ Goto(t, "idle")
  /\ UNCHANGED <<procState, registered, moduleVars, unitVars, asyncVars,
                 requestThread>>

\* Mutant: the pointer is not set to NULL after the delete.
UnitAfterDeleteDangling == loadedProcUnit

UnitAfterDelete == 0

Unloads == {"unload_module", "unload_proc_unit"}

\* Where a thread waits in the destructor of a transceiver unit.
Destructor(call) ==
  IF call = "unload_module" THEN "delete_module" ELSE "delete_proc_unit"

\* The unit is gone, and its module with it when the call is unload_module.
Remove(t, call) ==
  /\ loadedProcUnit' = UnitAfterDelete
  /\ loadedModule' = IF call = "unload_module" THEN 0 ELSE loadedModule
  /\ requestThread' = "none"
  /\ Goto(t, "idle")

\* delete loadedProcUnit: the destructor of a transceiver unit tells its request
\* thread to leave and joins it. Only string_initialize_parameters starts that
\* thread, and joining no thread throws in a destructor (lcc_and_fpga, the
\* other unit of the async module, has no such thread).
Delete(t, call) ==
  /\ IF requestThread # "none"
     THEN /\ Goto(t, Destructor(call))
          /\ UNCHANGED <<procState, loadedModule, loadedProcUnit, requestThread>>
     ELSE /\ IF loadedProcUnit # 0 /\ IsAsync /\ ~unitReady
             THEN procState' \in {"running", "terminated"}
             ELSE UNCHANGED procState
          /\ Remove(t, call)
  /\ UNCHANGED <<registered, moduleName, modules, unitReady, units, asyncUnit,
                 serverBuffer>>

\* requestThread.join() returns once the handler of the request thread has.
join_request(t, call) ==
  /\ procState = "running"
  /\ pc[t] = Destructor(call)
  /\ requestThread = "listening"
  /\ Remove(t, call)
  /\ UNCHANGED <<procState, registered, moduleName, modules, unitReady, units,
                 asyncVars, serverBuffer>>

\* Mutant: the async thread is joined and not told to leave.
TellAsyncNot == UNCHANGED doExit

TellAsync == doExit' = TRUE

\* unload_module and unload_proc_unit when a module is loaded: a running async
\* thread is told to leave and is waited for with the mutex held.
unload(t, call) ==
  /\ Enter(call)
  /\ loadedModule # 0
  /\ IF loadedProcUnit # 0 /\ IsAsync /\ isRunning
     THEN /\ TellAsync
          /\ Goto(t, call)
          /\ UNCHANGED <<procState, registered, moduleVars, unitVars, isRunning,
                         asyncProc, asyncUnit, requestThread, serverBuffer>>
     ELSE /\ Delete(t, call)
          /\ UNCHANGED <<isRunning, doExit, asyncProc>>

\* Mutant: isRunning survives the join.
join_async_stays(t, call) ==
  /\ procState = "running"
  /\ pc[t] = call
  /\ asyncProc = "ended"
  /\ asyncProc' = "none"
  /\ doExit' = FALSE
  /\ UNCHANGED isRunning
  /\ Delete(t, call)

\* asyncProcThread.join() returns.
join_async(t, call) ==
  /\ procState = "running"
  /\ pc[t] = call
  /\ asyncProc = "ended"
  /\ asyncProc' = "none"
  /\ doExit' = FALSE
  /\ isRunning' = FALSE
  /\ Delete(t, call)

\* proc_act_request and proc_act_push throw when no unit is loaded; otherwise
\* the unit works for the caller ...
proc_act(t) ==
  /\ Enter("proc_act")
  /\ loadedModule # 0
  /\ loadedProcUnit # 0
  /\ Goto(t, "acting")
  /\ UNCHANGED <<procState, registered, moduleVars, unitVars, asyncVars,
                 requestThread, serverBuffer>>

\* ... and returns or throws.
proc_act_done(t) ==
  /\ procState = "running"
  /\ pc[t] = "acting"
  /\ Goto(t, "idle")
  /\ UNCHANGED <<procState, registered, moduleVars, unitVars, asyncVars,
                 requestThread, serverBuffer>>

\* supported_actions locks stateMutex and calls is_module_loaded, which locks
\* it again: the thread waits for itself.
supported_actions(t) ==
  /\ Enter("supported_actions")
  /\ Goto(t, "asking")
  /\ UNCHANGED <<procState, registered, moduleVars, unitVars, asyncVars,
                 requestThread, serverBuffer>>

unregister_callback(t) ==
  /\ Enter("unregister_callback")
  /\ registered' = FALSE
  /\ UNCHANGED <<procState, pc, moduleVars, unitVars, asyncVars, requestThread,
                 serverBuffer>>

\* _async_proc_wrapper: the condition of the loop, then async_work of the
\* unit, which returns or lets an exception leave the thread.
async_check ==
  /\ procState = "running"
  /\ asyncProc = "check"
  /\ IF doExit
     THEN /\ asyncProc' = "ended"
          /\ UNCHANGED asyncUnit
     ELSE /\ asyncProc' = "work"
          /\ asyncUnit' = loadedProcUnit
  /\ UNCHANGED <<procState, pc, registered, moduleVars, unitVars, isRunning,
                 doExit, requestThread, serverBuffer>>

async_work_done ==
  /\ procState = "running"
  /\ asyncProc = "work"
  /\ asyncProc' = "check"
  /\ procState' \in {"running", "aborted"}
  /\ UNCHANGED <<pc, registered, moduleVars, unitVars, isRunning, doExit,
                 asyncUnit, requestThread, serverBuffer>>

\* A client connects while the io_service runs: the session reads from the peer
\* and waits for the async thread, or (bobwire_circuit) calls the dispatcher.
request_begins ==
  /\ procState = "running"
  /\ requestThread = "listening"
  /\ \A t \in Threads, call \in Unloads : pc[t] # Destructor(call)
  /\ requestThread' \in {"busy", "calling"}
  /\ UNCHANGED <<procState, pc, registered, moduleVars, unitVars, asyncVars,
                 serverBuffer>>

\* The handler returns, or an exception leaves the thread.
request_ends ==
  /\ procState = "running"
  /\ requestThread \in {"busy", "calling"}
  /\ requestThread' = "listening"
  /\ procState' \in {"running", "aborted"}
  /\ UNCHANGED <<pc, registered, moduleVars, unitVars, asyncVars, serverBuffer>>

----------------------------------------------------------------------------

AsyncStep == async_check \/ async_work_done

RequestStep == request_begins \/ request_ends

\* The rest of a call that holds the mutex, but for the code of the unit.
Continue(t) ==
  \/ notify_server(t)
  \/ \E call \in Unloads : join_async(t, call) \/ join_request(t, call)

Next ==
  \/ \E t \in Threads, name \in Modules : load_module(t, name)
  \/ \E t \in Threads : load_proc_unit(t)
  \/ \E t \in Threads : initialized(t)
  \/ \E t \in Threads, call \in Unloads : unload(t, call)
  \/ \E t \in Threads : proc_act(t)
  \/ \E t \in Threads : proc_act_done(t)
  \/ \E t \in Threads : supported_actions(t)
  \/ \E t \in Threads : unregister_callback(t)
  \/ \E t \in Threads : Continue(t)
  \/ AsyncStep
  \/ RequestStep

Spec == Init /\ [][Next]_vars

\* A thread that has what it waits for runs. async_work returns (its receive has
\* a timeout of 20 ms) when it can get requestMutex again and again. Nothing is
\* assumed of the calls of a unit and of the request thread: they wait for the
\* dispatcher and for peers without a timeout.
FairSpec ==
  /\ Spec
  /\ WF_vars(async_check)
  /\ SF_vars(requestThread # "calling" /\ async_work_done)
  /\ \A t \in Threads : WF_vars(Continue(t))

----------------------------------------------------------------------------

\* The types of the members and of the control states; a unit exists only
\* inside a module.
TypeOK ==
  /\ procState \in {"running", "exited", "aborted", "terminated"}
  /\ pc \in [Threads -> {"idle", "initialising", "notify", "acting", "asking",
                         "unload_module", "unload_proc_unit",
                         "delete_module", "delete_proc_unit"}]
  /\ registered \in BOOLEAN
  /\ loadedModule \in 0..modules
  /\ moduleName \in Modules
  /\ loadedProcUnit \in 0..units
  /\ loadedModule = 0 => loadedProcUnit = 0
  /\ unitReady \in BOOLEAN
  /\ isRunning \in BOOLEAN
  /\ doExit \in BOOLEAN
  /\ asyncProc \in {"none", "check", "work", "ended"}
  /\ asyncUnit \in 0..units
  /\ requestThread \in {"none", "listening", "busy", "calling"}
  /\ serverBuffer \in 0..modules
  /\ modules \in 0..MaxObjects
  /\ units \in 0..MaxObjects

\* module_manager.hpp promises that the module and the unit "cannot be
\* unloaded while this function is executing", and the async thread and the
\* request thread work without that mutex: whoever is in code of a unit, the
\* unit and its module have not been deleted, and they are the ones that are
\* loaded now.
UnitInUseIsLive ==
  /\ \A t \in Threads :
       pc[t] \in {"initialising", "acting"} => loadedModule # 0 /\ loadedProcUnit # 0
  /\ asyncProc = "work" => loadedModule # 0 /\ loadedProcUnit # 0
                           /\ asyncUnit = loadedProcUnit
  /\ requestThread # "none" => loadedModule # 0 /\ loadedProcUnit # 0 /\ unitReady

\* No std::thread is overwritten or destroyed while it runs, and none is
\* joined twice: a module that is idle has an async thread exactly when
\* isRunning says so, and then the thread serves a loaded, initialised unit.
AsyncThreadAccounted ==
  /\ isRunning <=> asyncProc # "none"
  /\ isRunning => loadedModule # 0 /\ loadedProcUnit # 0 /\ unitReady
  /\ (\A t \in Threads : pc[t] \notin Unloads) => ~doExit /\ asyncProc # "ended"

\* The caller waits for the unit: in a function of it, in its destructor for a
\* request that does not end, or for the async thread, which waits for a
\* request that has requestMutex.
InUnit(t) ==
  \/ pc[t] \in {"initialising", "acting"}
  \/ /\ \E call \in Unloads : pc[t] = Destructor(call)
     /\ requestThread \in {"busy", "calling"}
  \/ pc[t] \in Unloads /\ asyncProc = "work" /\ requestThread = "calling"

\* A call that has the mutex gives it back, unless the process ends or the unit
\* keeps the caller for ever: the manager itself, unloading included, adds no
\* wait of its own. supported_actions, which nothing in the program calls,
\* locks the mutex twice and is left out.
CallsReturn ==
  \A t \in Threads :
    (pc[t] \notin {"idle", "asking"})
      ~> (pc[t] = "idle" \/ procState # "running" \/ []InUnit(t))

=============================================================================
