---------------------------- MODULE QueueBuffer ----------------------------
(***************************************************************************)
(* buffer::queue_buffer (buffer/queue_buffer.hpp, .cpp): the FIFO between  *)
(* the thread of a processing unit and the async thread of the server.     *)
(*                                                                         *)
(* Every method holds queueMutex from its first to its last line, so a     *)
(* method is one step; only push_wait gives the mutex up, inside           *)
(* pushCV.wait_for, and is split there: the call, a wakeup, the re-check   *)
(* of the predicate with the mutex held again, the timeout.                *)
(*                                                                         *)
(* A condition variable is the set of the threads blocked on it. The class *)
(* has two of them: push_wait blocks on pushCV and push notifies           *)
(* pushWaitCV.                                                             *)
(***************************************************************************)
EXTENDS Integers, Sequences

CONSTANTS
  Data,         \* the buffer_items pushed: payload and parameters are opaque
  Waiters,      \* the threads that call push_wait and pop_all
  Thresholds,   \* arguments of set_push_wait_threshold
  MaxPushes     \* bound on the number of pushes of a behaviour

ASSUME QueueBufferAssumption ==
  /\ Thresholds \subseteq Nat
  /\ MaxPushes \in Nat

VARIABLES
  queue,              \* std::queue<buffer_item>
  pushWaitEnabled,
  pushWaitNew,
  pushWaitThreshold,
  pushCV,             \* threads blocked on pushCV, not woken yet
  pushWaitCV,         \* threads blocked on pushWaitCV
  wait,               \* the push_wait call of each thread: "out" before the
                      \* first one, "in" during it, then what it returned
  pushed,             \* history: every item pushed, in push order
  popped              \* history: every item returned by pop_all

bufferVars == <<queue, pushWaitEnabled, pushWaitNew, pushWaitThreshold,
                pushCV, pushWaitCV, wait, pushed, popped>>

----------------------------------------------------------------------------

\* The constructor.
Init ==
  /\ queue = <<>>
  /\ pushWaitEnabled = FALSE
  /\ pushWaitNew = 0
  /\ pushWaitThreshold = 0
  /\ pushCV = {}
  /\ pushWaitCV = {}
  /\ wait = [t \in Waiters |-> "out"]
  /\ pushed = <<>>
  /\ popped = <<>>

set_push_wait_threshold(n) ==
  /\ pushWaitEnabled' = TRUE
  /\ pushWaitThreshold' = n
  /\ UNCHANGED <<queue, pushWaitNew, pushCV, pushWaitCV, wait, pushed, popped>>

\* The counter moves only once a threshold was set, and the notification
\* goes to pushWaitCV.
push(d) ==
  /\ Len(pushed) < MaxPushes
  /\ queue' = Append(queue, d)
  /\ pushed' = Append(pushed, d)
  /\ pushWaitNew' = IF pushWaitEnabled THEN pushWaitNew + 1 ELSE pushWaitNew
  /\ pushWaitCV' = IF pushWaitEnabled /\ pushWaitNew + 1 >= pushWaitThreshold
                   THEN {} ELSE pushWaitCV
  /\ UNCHANGED <<pushWaitEnabled, pushWaitThreshold, pushCV, wait, popped>>

\* Mutant: the queue is copied and not emptied.
pop_all_copies ==
  /\ popped' = popped \o queue
  /\ UNCHANGED <<queue, pushWaitEnabled, pushWaitNew, pushWaitThreshold, pushCV,
                 pushWaitCV, wait, pushed>>

\* std::swap with an empty queue: the counter of new items is left alone.
pop_all ==
  /\ queue' = <<>>
  /\ popped' = popped \o queue
  /\ UNCHANGED <<pushWaitEnabled, pushWaitNew, pushWaitThreshold, pushCV,
                 pushWaitCV, wait, pushed>>

\* The predicate given to wait_for.
EnoughNew == pushWaitNew >= pushWaitThreshold

\* Mutant: a successful call takes the threshold off the count.
ReturnSubtracts(t, r) ==
  /\ wait' = [wait EXCEPT ![t] = IF r THEN "true" ELSE "false"]
  /\ pushWaitNew' = IF r THEN pushWaitNew - pushWaitThreshold ELSE pushWaitNew
  /\ pushCV' = pushCV \ {t}

\* Mutant: a failed call starts the count again, too.
ReturnAlwaysResets(t, r) ==
  /\ wait' = [wait EXCEPT ![t] = IF r THEN "true" ELSE "false"]
  /\ pushWaitNew' = 0
  /\ pushCV' = pushCV \ {t}

\* push_wait returns r; a successful call starts the count again.
Return(t, r) ==
  /\ wait' = [wait EXCEPT ![t] = IF r THEN "true" ELSE "false"]
  /\ pushWaitNew' = IF r THEN 0 ELSE pushWaitNew
  /\ pushCV' = pushCV \ {t}

\* The call: no waiting when the queue is long enough or the predicate holds
\* already, otherwise the thread blocks and the mutex is free.
push_wait(t) ==
  /\ wait[t] # "in"
  /\ IF Len(queue) >= pushWaitThreshold \/ EnoughNew
     THEN Return(t, TRUE)
     ELSE /\ wait' = [wait EXCEPT ![t] = "in"]
          /\ pushCV' = pushCV \union {t}
          /\ UNCHANGED pushWaitNew
  /\ UNCHANGED <<queue, pushWaitEnabled, pushWaitThreshold, pushWaitCV,
                 pushed, popped>>

\* A condition variable may wake a thread that nobody notified.
spurious_wakeup(t) ==
  /\ t \in pushCV
  /\ pushCV' = pushCV \ {t}
  /\ UNCHANGED <<queue, pushWaitEnabled, pushWaitNew, pushWaitThreshold,
                 pushWaitCV, wait, pushed, popped>>

\* A woken thread has the mutex again and evaluates the predicate.
recheck(t) ==
  /\ wait[t] = "in"
  /\ t \notin pushCV
  /\ IF EnoughNew
     THEN Return(t, TRUE)
     ELSE /\ pushCV' = pushCV \union {t}
          /\ UNCHANGED <<wait, pushWaitNew>>
  /\ UNCHANGED <<queue, pushWaitEnabled, pushWaitThreshold, pushWaitCV,
                 pushed, popped>>

\* Mutant: push_wait waits without a time limit.
timeout_never(t) == wait[t] = "in" /\ FALSE

\* The time is over, asleep or between a wakeup and the re-check: wait_for
\* returns the value of the predicate.
timeout(t) ==
  /\ wait[t] = "in"
  /\ Return(t, EnoughNew)
  /\ UNCHANGED <<queue, pushWaitEnabled, pushWaitThreshold, pushWaitCV,
                 pushed, popped>>

Next ==
  \/ \E n \in Thresholds : set_push_wait_threshold(n)
  \/ \E d \in Data : push(d)
  \/ \E t \in Waiters : wait[t] # "in" /\ pop_all
  \/ \E t \in Waiters : push_wait(t)
  \/ \E t \in Waiters : spurious_wakeup(t)
  \/ \E t \in Waiters : recheck(t)
  \/ \E t \in Waiters : timeout(t)

Spec == Init /\ [][Next]_bufferVars

----------------------------------------------------------------------------

\* The types of the members of queue_buffer and of the calls in progress.
TypeOK ==
  /\ queue \in Seq(Data)
  /\ pushWaitEnabled \in BOOLEAN
  /\ pushWaitNew \in Nat
  /\ pushWaitThreshold \in Nat
  /\ pushCV \subseteq Waiters
  /\ pushWaitCV = {}
  /\ wait \in [Waiters -> {"out", "in", "true", "false"}]
  /\ pushed \in Seq(Data)
  /\ popped \in Seq(Data)

\* push and pop_all neither lose, duplicate nor reorder an item, whatever the
\* threads that call them: the items popped so far followed by the items
\* still queued are exactly the items pushed, in the order of the pushes.
Conservation == pushed = popped \o queue

\* queue_buffer.hpp says that push_wait returns if an item is pushed before
\* the time is over: a thread that still sleeps on pushCV, neither woken nor
\* timed out, has a false predicate.
ReadyWaiterIsWoken == \A t \in pushCV : ~EnoughNew

=============================================================================
