------------------------ MODULE ModuleManagerProofs ------------------------
(***************************************************************************)
(* Proofs about ModuleManager for any number of threads, modules and       *)
(* loads: nobody works in a unit that was unloaded, and the async thread   *)
(* of the module is never lost, doubled or joined twice.                   *)
(***************************************************************************)
EXTENDS ModuleManager, TLAPS

\* One thread at most is inside a call.
MutexInv ==
  \A t, u \in Threads : pc[t] # "idle" /\ pc[u] # "idle" => t = u

\* What the thread that holds the mutex relies on while it holds it: an
\* unloading thread waits for an async thread that is there and then for a
\* request thread that is there, the others find the module and the unit they
\* looked up, and a unit is initialised before any thread works for it.
HolderInv ==
  /\ \A t \in Threads : pc[t] \in Unloads => isRunning
  /\ \A t \in Threads : pc[t] = "notify" => loadedModule # 0
  /\ \A t \in Threads :
       pc[t] = "initialising" => ~isRunning /\ requestThread = "none"
  /\ \A t \in Threads, call \in Unloads :
       pc[t] = Destructor(call) => ~isRunning /\ requestThread # "none"

\* The async thread belongs to a module that supports async actions.
OwnerInv == isRunning => IsAsync

\* The object numbers, apart from the rest of TypeOK.
CountInv ==
  /\ modules \in 0..MaxObjects
  /\ units \in 0..MaxObjects
  /\ loadedModule \in 0..modules
  /\ loadedProcUnit \in 0..units
  /\ asyncUnit \in 0..units
  /\ serverBuffer \in 0..modules
  /\ loadedModule = 0 => loadedProcUnit = 0

\* The control states, the other part of TypeOK.
ControlInv ==
  /\ procState \in {"running", "exited", "aborted", "terminated"}
  /\ pc \in [Threads -> {"idle", "initialising", "notify", "acting", "asking",
                         "unload_module", "unload_proc_unit",
                         "delete_module", "delete_proc_unit"}]
  /\ registered \in BOOLEAN
  /\ moduleName \in Modules
  /\ unitReady \in BOOLEAN
  /\ isRunning \in BOOLEAN
  /\ doExit \in BOOLEAN
  /\ asyncProc \in {"none", "check", "work", "ended"}
  /\ requestThread \in {"none", "listening", "busy", "calling"}

ManagerInv ==
  /\ CountInv
  /\ ControlInv
  /\ MutexInv
  /\ HolderInv
  /\ OwnerInv
  /\ AsyncThreadAccounted
  /\ UnitInUseIsLive

----------------------------------------------------------------------------

\* Objects are numbered as they are created, and a unit goes with its module.
LEMMA CountStep ==
  ASSUME CountInv, [Next]_vars
  PROVE  CountInv'
<1> USE ManagerAssumption
<1>1. CASE \E t \in Threads, name \in Modules : load_module(t, name)
  BY <1>1 DEF CountInv, load_module, Enter, moduleVars, unitVars, asyncVars
<1>2. CASE \E t \in Threads : load_proc_unit(t)
  BY <1>2 DEF CountInv, load_proc_unit, Enter, Goto, moduleVars, unitVars,
     asyncVars
<1>3. CASE \E t \in Threads : initialized(t)
  BY <1>3 DEF CountInv, initialized, Goto, IsAsync, moduleVars, unitVars,
     asyncVars
<1>4. CASE \E t \in Threads, call \in Unloads : unload(t, call)
  BY <1>4 DEF CountInv, unload, Enter, Goto, IsAsync, Delete, Remove,
     Destructor, UnitAfterDelete, TellAsync, Unloads, moduleVars, unitVars,
     asyncVars
<1>5. CASE \E t \in Threads : proc_act(t)
  BY <1>5 DEF CountInv, proc_act, Enter, Goto, moduleVars, unitVars,
     asyncVars
<1>6. CASE \E t \in Threads : proc_act_done(t)
  BY <1>6 DEF CountInv, proc_act_done, Goto, moduleVars, unitVars, asyncVars
<1>7. CASE \E t \in Threads : supported_actions(t)
  BY <1>7 DEF CountInv, supported_actions, Enter, Goto, moduleVars,
     unitVars, asyncVars
<1>8. CASE \E t \in Threads : unregister_callback(t)
  BY <1>8 DEF CountInv, unregister_callback, Enter, moduleVars, unitVars,
     asyncVars
<1>9. CASE \E t \in Threads : notify_server(t)
  BY <1>9 DEF CountInv, notify_server, Goto, moduleVars, unitVars, asyncVars
<1>10. CASE \E t \in Threads, call \in Unloads : join_async(t, call)
  BY <1>10 DEF CountInv, join_async, Goto, IsAsync, Delete, Remove,
     Destructor, UnitAfterDelete, Unloads, moduleVars, unitVars, asyncVars
<1>11. CASE \E t \in Threads, call \in Unloads : join_request(t, call)
  BY <1>11 DEF CountInv, join_request, Goto, Remove, Destructor,
     UnitAfterDelete, Unloads, moduleVars, unitVars, asyncVars
<1>12. CASE async_check
  BY <1>12 DEF CountInv, async_check, moduleVars, unitVars, asyncVars
<1>13. CASE async_work_done
  BY <1>13 DEF CountInv, async_work_done, moduleVars, unitVars, asyncVars
<1>14. CASE request_begins
  BY <1>14 DEF CountInv, request_begins, moduleVars, unitVars, asyncVars
<1>15. CASE request_ends
  BY <1>15 DEF CountInv, request_ends, moduleVars, unitVars, asyncVars
<1>16. CASE UNCHANGED vars
  BY <1>16 DEF CountInv, vars
<1>17. QED
  BY <1>1, <1>2, <1>3, <1>4, <1>5, <1>6, <1>7, <1>8, <1>9, <1>10, <1>11,
     <1>12, <1>13, <1>14, <1>15, <1>16 DEF Next, Continue, AsyncStep,
     RequestStep

\* Every action leaves the control states in their types.
LEMMA ControlStep ==
  ASSUME ControlInv, [Next]_vars
  PROVE  ControlInv'
<1> USE ManagerAssumption
<1>1. CASE \E t \in Threads, name \in Modules : load_module(t, name)
  BY <1>1 DEF ControlInv, load_module, Enter, moduleVars, unitVars,
     asyncVars
<1>2. CASE \E t \in Threads : load_proc_unit(t)
  BY <1>2 DEF ControlInv, load_proc_unit, Enter, Goto, moduleVars, unitVars,
     asyncVars
<1>3. CASE \E t \in Threads : initialized(t)
  BY <1>3 DEF ControlInv, initialized, Goto, IsAsync, moduleVars, unitVars,
     asyncVars
<1>4. CASE \E t \in Threads, call \in Unloads : unload(t, call)
  <2>1. PICK t \in Threads, call \in Unloads : unload(t, call)
    BY <1>4
  <2>2. CASE loadedProcUnit # 0 /\ IsAsync /\ isRunning
    BY <2>1, <2>2 DEF ControlInv, unload, Enter, Goto, TellAsync, Unloads,
       moduleVars, unitVars
  <2>3. CASE /\ ~(loadedProcUnit # 0 /\ IsAsync /\ isRunning)
             /\ requestThread # "none"
    BY <2>1, <2>3 DEF ControlInv, unload, Enter, Goto, Delete, Destructor,
       Unloads, moduleVars, unitVars
  <2>4. CASE /\ ~(loadedProcUnit # 0 /\ IsAsync /\ isRunning)
             /\ requestThread = "none"
    BY <2>1, <2>4 DEF ControlInv, unload, Enter, Goto, Delete, Remove,
       Unloads, moduleVars, unitVars
  <2>5. QED
    BY <2>2, <2>3, <2>4
<1>5. CASE \E t \in Threads : proc_act(t)
  BY <1>5 DEF ControlInv, proc_act, Enter, Goto, moduleVars, unitVars,
     asyncVars
<1>6. CASE \E t \in Threads : proc_act_done(t)
  BY <1>6 DEF ControlInv, proc_act_done, Goto, moduleVars, unitVars,
     asyncVars
<1>7. CASE \E t \in Threads : supported_actions(t)
  BY <1>7 DEF ControlInv, supported_actions, Enter, Goto, moduleVars,
     unitVars, asyncVars
<1>8. CASE \E t \in Threads : unregister_callback(t)
  BY <1>8 DEF ControlInv, unregister_callback, Enter, moduleVars, unitVars,
     asyncVars
<1>9. CASE \E t \in Threads : notify_server(t)
  BY <1>9 DEF ControlInv, notify_server, Goto, moduleVars, unitVars,
     asyncVars
<1>10. CASE \E t \in Threads, call \in Unloads : join_async(t, call)
  BY <1>10 DEF ControlInv, join_async, Goto, IsAsync, Delete, Remove,
     Destructor, UnitAfterDelete, Unloads, moduleVars, unitVars, asyncVars
<1>11. CASE \E t \in Threads, call \in Unloads : join_request(t, call)
  BY <1>11 DEF ControlInv, join_request, Goto, Remove, Destructor,
     UnitAfterDelete, Unloads, moduleVars, unitVars, asyncVars
<1>12. CASE async_check
  BY <1>12 DEF ControlInv, async_check, moduleVars, unitVars, asyncVars
<1>13. CASE async_work_done
  BY <1>13 DEF ControlInv, async_work_done, moduleVars, unitVars, asyncVars
<1>14. CASE request_begins
  BY <1>14 DEF ControlInv, request_begins, moduleVars, unitVars, asyncVars
<1>15. CASE request_ends
  BY <1>15 DEF ControlInv, request_ends, moduleVars, unitVars, asyncVars
<1>16. CASE UNCHANGED vars
  BY <1>16 DEF ControlInv, vars
<1>17. QED
  BY <1>1, <1>2, <1>3, <1>4, <1>5, <1>6, <1>7, <1>8, <1>9, <1>10, <1>11,
     <1>12, <1>13, <1>14, <1>15, <1>16 DEF Next, Continue, AsyncStep,
     RequestStep

\* A call starts only when no other is under way.
LEMMA MutexStep ==
  ASSUME ControlInv, MutexInv, [Next]_vars
  PROVE  MutexInv'
<1> USE ManagerAssumption
<1>1. CASE \E t \in Threads, name \in Modules : load_module(t, name)
  BY <1>1 DEF ControlInv, MutexInv, load_module, Enter, moduleVars,
     unitVars, asyncVars
<1>2. CASE \E t \in Threads : load_proc_unit(t)
  BY <1>2 DEF ControlInv, MutexInv, load_proc_unit, Enter, Goto, moduleVars,
     unitVars, asyncVars
<1>3. CASE \E t \in Threads : initialized(t)
  BY <1>3 DEF ControlInv, MutexInv, initialized, Goto, IsAsync, moduleVars,
     unitVars, asyncVars
<1>4. CASE \E t \in Threads, call \in Unloads : unload(t, call)
  BY <1>4 DEF ControlInv, MutexInv, unload, Enter, Goto, IsAsync, Delete,
     Remove, Destructor, UnitAfterDelete, TellAsync, Unloads, moduleVars,
     unitVars, asyncVars
<1>5. CASE \E t \in Threads : proc_act(t)
  BY <1>5 DEF ControlInv, MutexInv, proc_act, Enter, Goto, moduleVars,
     unitVars, asyncVars
<1>6. CASE \E t \in Threads : proc_act_done(t)
  BY <1>6 DEF ControlInv, MutexInv, proc_act_done, Goto, moduleVars,
     unitVars, asyncVars
<1>7. CASE \E t \in Threads : supported_actions(t)
  BY <1>7 DEF ControlInv, MutexInv, supported_actions, Enter, Goto,
     moduleVars, unitVars, asyncVars
<1>8. CASE \E t \in Threads : unregister_callback(t)
  BY <1>8 DEF ControlInv, MutexInv, unregister_callback, Enter, moduleVars,
     unitVars, asyncVars
<1>9. CASE \E t \in Threads : notify_server(t)
  BY <1>9 DEF ControlInv, MutexInv, notify_server, Goto, moduleVars,
     unitVars, asyncVars
<1>10. CASE \E t \in Threads, call \in Unloads : join_async(t, call)
  BY <1>10 DEF ControlInv, MutexInv, join_async, Goto, IsAsync, Delete,
     Remove, Destructor, UnitAfterDelete, Unloads, moduleVars, unitVars,
     asyncVars
<1>11. CASE \E t \in Threads, call \in Unloads : join_request(t, call)
  BY <1>11 DEF ControlInv, MutexInv, join_request, Goto, Remove, Destructor,
     UnitAfterDelete, Unloads, moduleVars, unitVars, asyncVars
<1>12. CASE async_check
  BY <1>12 DEF ControlInv, MutexInv, async_check, moduleVars, unitVars,
     asyncVars
<1>13. CASE async_work_done
  BY <1>13 DEF ControlInv, MutexInv, async_work_done, moduleVars, unitVars,
     asyncVars
<1>14. CASE request_begins
  BY <1>14 DEF ControlInv, MutexInv, request_begins, moduleVars, unitVars,
     asyncVars
<1>15. CASE request_ends
  BY <1>15 DEF ControlInv, MutexInv, request_ends, moduleVars, unitVars,
     asyncVars
<1>16. CASE UNCHANGED vars
  BY <1>16 DEF ControlInv, MutexInv, vars
<1>17. QED
  BY <1>1, <1>2, <1>3, <1>4, <1>5, <1>6, <1>7, <1>8, <1>9, <1>10, <1>11,
     <1>12, <1>13, <1>14, <1>15, <1>16 DEF Next, Continue, AsyncStep,
     RequestStep

\* Nobody else changes what the holder of the mutex relies on.
LEMMA HolderStep ==
  ASSUME ManagerInv, [Next]_vars
  PROVE  HolderInv'
<1> USE ManagerAssumption
<1>1. CASE \E t \in Threads, name \in Modules : load_module(t, name)
  BY <1>1 DEF ManagerInv, OwnerInv, CountInv, ControlInv, MutexInv,
     HolderInv, AsyncThreadAccounted, UnitInUseIsLive, Unloads, Destructor,
     load_module, Enter, moduleVars, unitVars, asyncVars
<1>2. CASE \E t \in Threads : load_proc_unit(t)
  BY <1>2 DEF ManagerInv, OwnerInv, CountInv, ControlInv, MutexInv,
     HolderInv, AsyncThreadAccounted, UnitInUseIsLive, Unloads, Destructor,
     load_proc_unit, Enter, Goto, moduleVars, unitVars, asyncVars
<1>3. CASE \E t \in Threads : initialized(t)
  BY <1>3 DEF ManagerInv, OwnerInv, CountInv, ControlInv, MutexInv,
     HolderInv, AsyncThreadAccounted, UnitInUseIsLive, Unloads, Destructor,
     initialized, Goto, IsAsync, moduleVars, unitVars, asyncVars
<1>4. CASE \E t \in Threads, call \in Unloads : unload(t, call)
  <2>1. PICK t \in Threads, call \in Unloads : unload(t, call)
    BY <1>4
  <2>2. CASE loadedProcUnit # 0 /\ IsAsync /\ isRunning
    BY <2>1, <2>2 DEF ManagerInv, OwnerInv, CountInv, ControlInv, MutexInv,
       HolderInv, AsyncThreadAccounted, UnitInUseIsLive, Unloads,
       Destructor, unload, Enter, Goto, TellAsync, moduleVars, unitVars
  <2>3. CASE /\ ~(loadedProcUnit # 0 /\ IsAsync /\ isRunning)
             /\ requestThread # "none"
    BY <2>1, <2>3 DEF ManagerInv, OwnerInv, CountInv, ControlInv, MutexInv,
       HolderInv, AsyncThreadAccounted, UnitInUseIsLive, Unloads,
       Destructor, unload, Enter, Goto, Delete, moduleVars, unitVars
  <2>4. CASE /\ ~(loadedProcUnit # 0 /\ IsAsync /\ isRunning)
             /\ requestThread = "none"
    BY <2>1, <2>4 DEF ManagerInv, OwnerInv, CountInv, ControlInv, MutexInv,
       HolderInv, AsyncThreadAccounted, UnitInUseIsLive, Unloads,
       Destructor, unload, Enter, Goto, Delete, Remove, moduleVars, unitVars
  <2>5. QED
    BY <2>2, <2>3, <2>4
<1>5. CASE \E t \in Threads : proc_act(t)
  BY <1>5 DEF ManagerInv, OwnerInv, CountInv, ControlInv, MutexInv,
     HolderInv, AsyncThreadAccounted, UnitInUseIsLive, Unloads, Destructor,
     proc_act, Enter, Goto, moduleVars, unitVars, asyncVars
<1>6. CASE \E t \in Threads : proc_act_done(t)
  BY <1>6 DEF ManagerInv, OwnerInv, CountInv, ControlInv, MutexInv,
     HolderInv, AsyncThreadAccounted, UnitInUseIsLive, Unloads, Destructor,
     proc_act_done, Goto, moduleVars, unitVars, asyncVars
<1>7. CASE \E t \in Threads : supported_actions(t)
  BY <1>7 DEF ManagerInv, OwnerInv, CountInv, ControlInv, MutexInv,
     HolderInv, AsyncThreadAccounted, UnitInUseIsLive, Unloads, Destructor,
     supported_actions, Enter, Goto, moduleVars, unitVars, asyncVars
<1>8. CASE \E t \in Threads : unregister_callback(t)
  BY <1>8 DEF ManagerInv, OwnerInv, CountInv, ControlInv, MutexInv,
     HolderInv, AsyncThreadAccounted, UnitInUseIsLive, Unloads, Destructor,
     unregister_callback, Enter, moduleVars, unitVars, asyncVars
<1>9. CASE \E t \in Threads : notify_server(t)
  BY <1>9 DEF ManagerInv, OwnerInv, CountInv, ControlInv, MutexInv,
     HolderInv, AsyncThreadAccounted, UnitInUseIsLive, Unloads, Destructor,
     notify_server, Goto, moduleVars, unitVars, asyncVars
<1>10. CASE \E t \in Threads, call \in Unloads : join_async(t, call)
  BY <1>10 DEF ManagerInv, OwnerInv, CountInv, ControlInv, MutexInv,
     HolderInv, AsyncThreadAccounted, UnitInUseIsLive, Unloads, Destructor,
     join_async, Goto, IsAsync, Delete, Remove, UnitAfterDelete, moduleVars,
     unitVars, asyncVars
<1>11. CASE \E t \in Threads, call \in Unloads : join_request(t, call)
  BY <1>11 DEF ManagerInv, OwnerInv, CountInv, ControlInv, MutexInv,
     HolderInv, AsyncThreadAccounted, UnitInUseIsLive, Unloads, Destructor,
     join_request, Goto, Remove, UnitAfterDelete, moduleVars, unitVars,
     asyncVars
<1>12. CASE async_check
  BY <1>12 DEF ManagerInv, OwnerInv, CountInv, ControlInv, MutexInv,
     HolderInv, AsyncThreadAccounted, UnitInUseIsLive, Unloads, Destructor,
     async_check, moduleVars, unitVars, asyncVars
<1>13. CASE async_work_done
  BY <1>13 DEF ManagerInv, OwnerInv, CountInv, ControlInv, MutexInv,
     HolderInv, AsyncThreadAccounted, UnitInUseIsLive, Unloads, Destructor,
     async_work_done, moduleVars, unitVars, asyncVars
<1>14. CASE request_begins
  BY <1>14 DEF ManagerInv, OwnerInv, CountInv, ControlInv, MutexInv,
     HolderInv, AsyncThreadAccounted, UnitInUseIsLive, Unloads, Destructor,
     request_begins, moduleVars, unitVars, asyncVars
<1>15. CASE request_ends
  BY <1>15 DEF ManagerInv, OwnerInv, CountInv, ControlInv, MutexInv,
     HolderInv, AsyncThreadAccounted, UnitInUseIsLive, Unloads, Destructor,
     request_ends, moduleVars, unitVars, asyncVars
<1>16. CASE UNCHANGED vars
  BY <1>16 DEF ManagerInv, OwnerInv, CountInv, ControlInv, MutexInv,
     HolderInv, AsyncThreadAccounted, UnitInUseIsLive, Unloads, Destructor,
     vars
<1>17. QED
  BY <1>1, <1>2, <1>3, <1>4, <1>5, <1>6, <1>7, <1>8, <1>9, <1>10, <1>11,
     <1>12, <1>13, <1>14, <1>15, <1>16 DEF Next, Continue, AsyncStep,
     RequestStep

\* The module is not replaced under its async thread.
LEMMA OwnerStep ==
  ASSUME ManagerInv, [Next]_vars
  PROVE  OwnerInv'
<1> USE ManagerAssumption
<1>1. CASE \E t \in Threads, name \in Modules : load_module(t, name)
  BY <1>1 DEF ManagerInv, OwnerInv, ControlInv, HolderInv,
     AsyncThreadAccounted, IsAsync, Unloads, load_module, Enter, moduleVars,
     unitVars, asyncVars
<1>2. CASE \E t \in Threads : load_proc_unit(t)
  BY <1>2 DEF ManagerInv, OwnerInv, ControlInv, HolderInv,
     AsyncThreadAccounted, IsAsync, Unloads, load_proc_unit, Enter, Goto,
     moduleVars, unitVars, asyncVars
<1>3. CASE \E t \in Threads : initialized(t)
  BY <1>3 DEF ManagerInv, OwnerInv, ControlInv, HolderInv,
     AsyncThreadAccounted, IsAsync, Unloads, initialized, Goto, moduleVars,
     unitVars, asyncVars
<1>4. CASE \E t \in Threads, call \in Unloads : unload(t, call)
  BY <1>4 DEF ManagerInv, OwnerInv, ControlInv, HolderInv,
     AsyncThreadAccounted, IsAsync, Unloads, unload, Enter, Goto, Delete,
     Remove, Destructor, UnitAfterDelete, TellAsync, moduleVars, unitVars,
     asyncVars
<1>5. CASE \E t \in Threads : proc_act(t)
  BY <1>5 DEF ManagerInv, OwnerInv, ControlInv, HolderInv,
     AsyncThreadAccounted, IsAsync, Unloads, proc_act, Enter, Goto,
     moduleVars, unitVars, asyncVars
<1>6. CASE \E t \in Threads : proc_act_done(t)
  BY <1>6 DEF ManagerInv, OwnerInv, ControlInv, HolderInv,
     AsyncThreadAccounted, IsAsync, Unloads, proc_act_done, Goto,
     moduleVars, unitVars, asyncVars
<1>7. CASE \E t \in Threads : supported_actions(t)
  BY <1>7 DEF ManagerInv, OwnerInv, ControlInv, HolderInv,
     AsyncThreadAccounted, IsAsync, Unloads, supported_actions, Enter, Goto,
     moduleVars, unitVars, asyncVars
<1>8. CASE \E t \in Threads : unregister_callback(t)
  BY <1>8 DEF ManagerInv, OwnerInv, ControlInv, HolderInv,
     AsyncThreadAccounted, IsAsync, Unloads, unregister_callback, Enter,
     moduleVars, unitVars, asyncVars
<1>9. CASE \E t \in Threads : notify_server(t)
  BY <1>9 DEF ManagerInv, OwnerInv, ControlInv, HolderInv,
     AsyncThreadAccounted, IsAsync, Unloads, notify_server, Goto,
     moduleVars, unitVars, asyncVars
<1>10. CASE \E t \in Threads, call \in Unloads : join_async(t, call)
  BY <1>10 DEF ManagerInv, OwnerInv, ControlInv, HolderInv,
     AsyncThreadAccounted, IsAsync, Unloads, join_async, Goto, Delete,
     Remove, Destructor, UnitAfterDelete, moduleVars, unitVars, asyncVars
<1>11. CASE \E t \in Threads, call \in Unloads : join_request(t, call)
  BY <1>11 DEF ManagerInv, OwnerInv, ControlInv, HolderInv,
     AsyncThreadAccounted, IsAsync, Unloads, join_request, Goto, Remove,
     Destructor, UnitAfterDelete, moduleVars, unitVars, asyncVars
<1>12. CASE async_check
  BY <1>12 DEF ManagerInv, OwnerInv, ControlInv, HolderInv,
     AsyncThreadAccounted, IsAsync, Unloads, async_check, moduleVars,
     unitVars, asyncVars
<1>13. CASE async_work_done
  BY <1>13 DEF ManagerInv, OwnerInv, ControlInv, HolderInv,
     AsyncThreadAccounted, IsAsync, Unloads, async_work_done, moduleVars,
     unitVars, asyncVars
<1>14. CASE request_begins
  BY <1>14 DEF ManagerInv, OwnerInv, ControlInv, HolderInv,
     AsyncThreadAccounted, IsAsync, Unloads, request_begins, moduleVars,
     unitVars, asyncVars
<1>15. CASE request_ends
  BY <1>15 DEF ManagerInv, OwnerInv, ControlInv, HolderInv,
     AsyncThreadAccounted, IsAsync, Unloads, request_ends, moduleVars,
     unitVars, asyncVars
<1>16. CASE UNCHANGED vars
  BY <1>16 DEF ManagerInv, OwnerInv, ControlInv, HolderInv,
     AsyncThreadAccounted, IsAsync, Unloads, vars
<1>17. QED
  BY <1>1, <1>2, <1>3, <1>4, <1>5, <1>6, <1>7, <1>8, <1>9, <1>10, <1>11,
     <1>12, <1>13, <1>14, <1>15, <1>16 DEF Next, Continue, AsyncStep,
     RequestStep

\* Only load_proc_unit starts the async thread, when there is none, and only
\* the thread that told it to leave joins it.
LEMMA AccountedStep ==
  ASSUME ManagerInv, [Next]_vars
  PROVE  AsyncThreadAccounted'
<1> USE ManagerAssumption
<1>1. CASE \E t \in Threads, name \in Modules : load_module(t, name)
  BY <1>1 DEF ManagerInv, CountInv, ControlInv, MutexInv, HolderInv,
     OwnerInv, AsyncThreadAccounted, Unloads, Destructor, IsAsync,
     load_module, Enter, moduleVars, unitVars, asyncVars
<1>2. CASE \E t \in Threads : load_proc_unit(t)
  BY <1>2 DEF ManagerInv, CountInv, ControlInv, MutexInv, HolderInv,
     OwnerInv, AsyncThreadAccounted, Unloads, Destructor, IsAsync,
     load_proc_unit, Enter, Goto, moduleVars, unitVars, asyncVars
<1>3. CASE \E t \in Threads : initialized(t)
  BY <1>3 DEF ManagerInv, CountInv, ControlInv, MutexInv, HolderInv,
     OwnerInv, AsyncThreadAccounted, UnitInUseIsLive, Unloads, Destructor,
     IsAsync, initialized, Goto, moduleVars, unitVars, asyncVars
<1>4. CASE \E t \in Threads, call \in Unloads : unload(t, call)
  BY <1>4 DEF ManagerInv, CountInv, ControlInv, MutexInv, HolderInv,
     OwnerInv, AsyncThreadAccounted, Unloads, Destructor, IsAsync, unload,
     Enter, Goto, Delete, Remove, UnitAfterDelete, TellAsync, moduleVars,
     unitVars, asyncVars
<1>5. CASE \E t \in Threads : proc_act(t)
  BY <1>5 DEF ManagerInv, CountInv, ControlInv, MutexInv, HolderInv,
     OwnerInv, AsyncThreadAccounted, Unloads, Destructor, IsAsync, proc_act,
     Enter, Goto, moduleVars, unitVars, asyncVars
<1>6. CASE \E t \in Threads : proc_act_done(t)
  BY <1>6 DEF ManagerInv, CountInv, ControlInv, MutexInv, HolderInv,
     OwnerInv, AsyncThreadAccounted, Unloads, Destructor, IsAsync,
     proc_act_done, Goto, moduleVars, unitVars, asyncVars
<1>7. CASE \E t \in Threads : supported_actions(t)
  BY <1>7 DEF ManagerInv, CountInv, ControlInv, MutexInv, HolderInv,
     OwnerInv, AsyncThreadAccounted, Unloads, Destructor, IsAsync,
     supported_actions, Enter, Goto, moduleVars, unitVars, asyncVars
<1>8. CASE \E t \in Threads : unregister_callback(t)
  BY <1>8 DEF ManagerInv, CountInv, ControlInv, MutexInv, HolderInv,
     OwnerInv, AsyncThreadAccounted, Unloads, Destructor, IsAsync,
     unregister_callback, Enter, moduleVars, unitVars, asyncVars
<1>9. CASE \E t \in Threads : notify_server(t)
  BY <1>9 DEF ManagerInv, CountInv, ControlInv, MutexInv, HolderInv,
     OwnerInv, AsyncThreadAccounted, Unloads, Destructor, IsAsync,
     notify_server, Goto, moduleVars, unitVars, asyncVars
<1>10. CASE \E t \in Threads, call \in Unloads : join_async(t, call)
  BY <1>10 DEF ManagerInv, CountInv, ControlInv, MutexInv, HolderInv,
     OwnerInv, AsyncThreadAccounted, Unloads, Destructor, IsAsync,
     join_async, Goto, Delete, Remove, UnitAfterDelete, moduleVars,
     unitVars, asyncVars
<1>11. CASE \E t \in Threads, call \in Unloads : join_request(t, call)
  BY <1>11 DEF ManagerInv, CountInv, ControlInv, MutexInv, HolderInv,
     OwnerInv, AsyncThreadAccounted, Unloads, Destructor, IsAsync,
     join_request, Goto, Remove, UnitAfterDelete, moduleVars, unitVars,
     asyncVars
<1>12. CASE async_check
  BY <1>12 DEF ManagerInv, CountInv, ControlInv, MutexInv, HolderInv,
     OwnerInv, AsyncThreadAccounted, Unloads, Destructor, IsAsync,
     async_check, moduleVars, unitVars, asyncVars
<1>13. CASE async_work_done
  BY <1>13 DEF ManagerInv, CountInv, ControlInv, MutexInv, HolderInv,
     OwnerInv, AsyncThreadAccounted, Unloads, Destructor, IsAsync,
     async_work_done, moduleVars, unitVars, asyncVars
<1>14. CASE request_begins
  BY <1>14 DEF ManagerInv, CountInv, ControlInv, MutexInv, HolderInv,
     OwnerInv, AsyncThreadAccounted, Unloads, Destructor, IsAsync,
     request_begins, moduleVars, unitVars, asyncVars
<1>15. CASE request_ends
  BY <1>15 DEF ManagerInv, CountInv, ControlInv, MutexInv, HolderInv,
     OwnerInv, AsyncThreadAccounted, Unloads, Destructor, IsAsync,
     request_ends, moduleVars, unitVars, asyncVars
<1>16. CASE UNCHANGED vars
  BY <1>16 DEF ManagerInv, CountInv, ControlInv, MutexInv, HolderInv,
     OwnerInv, AsyncThreadAccounted, Unloads, Destructor, IsAsync, vars
<1>17. QED
  BY <1>1, <1>2, <1>3, <1>4, <1>5, <1>6, <1>7, <1>8, <1>9, <1>10, <1>11,
     <1>12, <1>13, <1>14, <1>15, <1>16 DEF Next, Continue, AsyncStep,
     RequestStep

\* A unit is deleted only when no other call is under way and the async thread
\* and the request thread have ended or were never started.
LEMMA InUseStep ==
  ASSUME ManagerInv, [Next]_vars
  PROVE  UnitInUseIsLive'
<1> USE ManagerAssumption
<1>1. CASE \E t \in Threads, name \in Modules : load_module(t, name)
  BY <1>1 DEF ManagerInv, CountInv, ControlInv, MutexInv, HolderInv,
     OwnerInv, AsyncThreadAccounted, UnitInUseIsLive, Unloads, Destructor,
     IsAsync, load_module, Enter, moduleVars, unitVars, asyncVars
<1>2. CASE \E t \in Threads : load_proc_unit(t)
  BY <1>2 DEF ManagerInv, CountInv, ControlInv, MutexInv, HolderInv,
     OwnerInv, AsyncThreadAccounted, UnitInUseIsLive, Unloads, Destructor,
     IsAsync, load_proc_unit, Enter, Goto, moduleVars, unitVars, asyncVars
<1>3. CASE \E t \in Threads : initialized(t)
  BY <1>3 DEF ManagerInv, CountInv, ControlInv, MutexInv, HolderInv,
     OwnerInv, AsyncThreadAccounted, UnitInUseIsLive, Unloads, Destructor,
     IsAsync, initialized, Goto, moduleVars, unitVars, asyncVars
<1>4. CASE \E t \in Threads, call \in Unloads : unload(t, call)
  BY <1>4 DEF ManagerInv, CountInv, ControlInv, MutexInv, HolderInv,
     OwnerInv, AsyncThreadAccounted, UnitInUseIsLive, Unloads, Destructor,
     IsAsync, unload, Enter, Goto, Delete, Remove, UnitAfterDelete,
     TellAsync, moduleVars, unitVars, asyncVars
<1>5. CASE \E t \in Threads : proc_act(t)
  BY <1>5 DEF ManagerInv, CountInv, ControlInv, MutexInv, HolderInv,
     OwnerInv, AsyncThreadAccounted, UnitInUseIsLive, Unloads, Destructor,
     IsAsync, proc_act, Enter, Goto, moduleVars, unitVars, asyncVars
<1>6. CASE \E t \in Threads : proc_act_done(t)
  BY <1>6 DEF ManagerInv, CountInv, ControlInv, MutexInv, HolderInv,
     OwnerInv, AsyncThreadAccounted, UnitInUseIsLive, Unloads, Destructor,
     IsAsync, proc_act_done, Goto, moduleVars, unitVars, asyncVars
<1>7. CASE \E t \in Threads : supported_actions(t)
  BY <1>7 DEF ManagerInv, CountInv, ControlInv, MutexInv, HolderInv,
     OwnerInv, AsyncThreadAccounted, UnitInUseIsLive, Unloads, Destructor,
     IsAsync, supported_actions, Enter, Goto, moduleVars, unitVars,
     asyncVars
<1>8. CASE \E t \in Threads : unregister_callback(t)
  BY <1>8 DEF ManagerInv, CountInv, ControlInv, MutexInv, HolderInv,
     OwnerInv, AsyncThreadAccounted, UnitInUseIsLive, Unloads, Destructor,
     IsAsync, unregister_callback, Enter, moduleVars, unitVars, asyncVars
<1>9. CASE \E t \in Threads : notify_server(t)
  BY <1>9 DEF ManagerInv, CountInv, ControlInv, MutexInv, HolderInv,
     OwnerInv, AsyncThreadAccounted, UnitInUseIsLive, Unloads, Destructor,
     IsAsync, notify_server, Goto, moduleVars, unitVars, asyncVars
<1>10. CASE \E t \in Threads, call \in Unloads : join_async(t, call)
  BY <1>10 DEF ManagerInv, CountInv, ControlInv, MutexInv, HolderInv,
     OwnerInv, AsyncThreadAccounted, UnitInUseIsLive, Unloads, Destructor,
     IsAsync, join_async, Goto, Delete, Remove, UnitAfterDelete, moduleVars,
     unitVars, asyncVars
<1>11. CASE \E t \in Threads, call \in Unloads : join_request(t, call)
  BY <1>11 DEF ManagerInv, CountInv, ControlInv, MutexInv, HolderInv,
     OwnerInv, AsyncThreadAccounted, UnitInUseIsLive, Unloads, Destructor,
     IsAsync, join_request, Goto, Remove, UnitAfterDelete, moduleVars,
     unitVars, asyncVars
<1>12. CASE async_check
  BY <1>12 DEF ManagerInv, CountInv, ControlInv, MutexInv, HolderInv,
     OwnerInv, AsyncThreadAccounted, UnitInUseIsLive, Unloads, Destructor,
     IsAsync, async_check, moduleVars, unitVars, asyncVars
<1>13. CASE async_work_done
  BY <1>13 DEF ManagerInv, CountInv, ControlInv, MutexInv, HolderInv,
     OwnerInv, AsyncThreadAccounted, UnitInUseIsLive, Unloads, Destructor,
     IsAsync, async_work_done, moduleVars, unitVars, asyncVars
<1>14. CASE request_begins
  BY <1>14 DEF ManagerInv, CountInv, ControlInv, MutexInv, HolderInv,
     OwnerInv, AsyncThreadAccounted, UnitInUseIsLive, Unloads, Destructor,
     IsAsync, request_begins, moduleVars, unitVars, asyncVars
<1>15. CASE request_ends
  BY <1>15 DEF ManagerInv, CountInv, ControlInv, MutexInv, HolderInv,
     OwnerInv, AsyncThreadAccounted, UnitInUseIsLive, Unloads, Destructor,
     IsAsync, request_ends, moduleVars, unitVars, asyncVars
<1>16. CASE UNCHANGED vars
  BY <1>16 DEF ManagerInv, CountInv, ControlInv, MutexInv, HolderInv,
     OwnerInv, AsyncThreadAccounted, UnitInUseIsLive, Unloads, Destructor,
     IsAsync, vars
<1>17. QED
  BY <1>1, <1>2, <1>3, <1>4, <1>5, <1>6, <1>7, <1>8, <1>9, <1>10, <1>11,
     <1>12, <1>13, <1>14, <1>15, <1>16 DEF Next, Continue, AsyncStep,
     RequestStep

----------------------------------------------------------------------------

\* The initial state satisfies the invariant.
LEMMA ManagerInit == Init => ManagerInv
<1> SUFFICES ASSUME Init PROVE ManagerInv
  OBVIOUS
<1> USE ManagerAssumption
<1>1. CountInv
  BY DEF Init, CountInv
<1>2. ControlInv
  BY Zenon DEF Init, ControlInv
<1>3. MutexInv /\ HolderInv /\ OwnerInv
  BY DEF Init, MutexInv, HolderInv, OwnerInv, Unloads, Destructor
<1>4. AsyncThreadAccounted /\ UnitInUseIsLive
  BY DEF Init, AsyncThreadAccounted, UnitInUseIsLive, Unloads
<1>5. QED
  BY <1>1, <1>2, <1>3, <1>4 DEF ManagerInv

\* ManagerInv holds of every behaviour of the manager, whichever functions are
\* called, by however many threads.
THEOREM ManagerInvariant == Spec => []ManagerInv
<1>1. ManagerInv /\ [Next]_vars => ManagerInv'
  <2> SUFFICES ASSUME ManagerInv, [Next]_vars PROVE ManagerInv'
    OBVIOUS
  <2>1. CountInv /\ ControlInv /\ MutexInv
    BY DEF ManagerInv
  <2>2. CountInv' /\ ControlInv' /\ MutexInv'
    BY <2>1, CountStep, ControlStep, MutexStep
  <2>3. HolderInv' /\ OwnerInv' /\ AsyncThreadAccounted' /\ UnitInUseIsLive'
    BY HolderStep, OwnerStep, AccountedStep, InUseStep
  <2>4. QED
    BY <2>2, <2>3 DEF ManagerInv
<1>2. QED
  BY <1>1, ManagerInit, PTL DEF Spec

\* TypeOK: in particular a unit exists only inside a module.
THEOREM ManagerTypeCorrect == Spec => []TypeOK
<1>1. ManagerInv => TypeOK
  BY Zenon DEF ManagerInv, CountInv, ControlInv, TypeOK
<1>2. QED
  BY <1>1, ManagerInvariant, PTL

\* Nobody executes code of a unit that unload_module or unload_proc_unit has
\* deleted: callers are kept out by the mutex, the async thread and the request
\* thread by the joins.
THEOREM UnitInUseIsLiveHolds == Spec => []UnitInUseIsLive
<1>1. ManagerInv => UnitInUseIsLive
  BY DEF ManagerInv
<1>2. QED
  BY <1>1, ManagerInvariant, PTL

\* _start_async_proc and _stop_async_proc never overwrite, lose or join twice
\* the async thread of a module.
THEOREM AsyncThreadAccountedHolds == Spec => []AsyncThreadAccounted
<1>1. ManagerInv => AsyncThreadAccounted
  BY DEF ManagerInv
<1>2. QED
  BY <1>1, ManagerInvariant, PTL

=============================================================================
