---------------------------- MODULE ItemOwnership --------------------------
(***************************************************************************)
(* Who owns the memory of a message. A payload of the unit is copied into  *)
(* a buffer_item, moved into the queue, swapped out of it, moved into a    *)
(* buffer_item of its own and lent to zmq together with a function that    *)
(* deletes it; a response goes to zmq the same way, and a request for the  *)
(* dispatcher is lent to zmq without such a function.                      *)
(*                                                                         *)
(* An address is used once, so that a second free and a read after the     *)
(* free can be told. A buffer_item is the address it owns, or Null; its    *)
(* parameters are 0 wherever one is constructed. zmq's own threads         *)
(* transmit what is in a pipe at any time.                                 *)
(***************************************************************************)
EXTENDS Naturals, Sequences, FiniteSets, Functions

CONSTANTS
  Size,       \* bound: addresses
  MaxItems    \* bound: items the unit pushes

ASSUME OwnershipAssumption == Size \in Nat /\ MaxItems \in Nat

Null == 0
Addr == 1..Size

Sockets == {"async", "sync", "req"}

VARIABLES
  used,       \* addresses given out so far: 1..used
  freed,      \* addresses that were freed
  member,     \* member[a]: the address the object at a owns
  unitPc, temp,       \* the unit's thread and its temporary
  items,              \* items pushed so far
  queue,              \* queue_buffer::queue
  asyncPc, local,     \* async_work and its localBuffer
  rspns,      \* rspns of async_work and of sync_work: an object, or Null
  jBuffer,    \* buffer of the request on the stack of client::call, or Null
  pipe,       \* messages zmq holds, for each socket: data and hint
  awaits,     \* the REQ socket expects a reply
  ended,      \* the process has left the loop of async_work through exit
  fault,      \* history: what went wrong with memory
  gaveUp      \* history: a call was given up while zmq held its request

unitVars == <<unitPc, temp, items>>
asyncVars == <<asyncPc, local>>
callVars == <<jBuffer, awaits, gaveUp>>
vars == <<used, freed, member, unitVars, queue, asyncVars, rspns, callVars, pipe,
          ended, fault>>

Init ==
  /\ used = 0
  /\ freed = {}
  /\ member = [a \in Addr |-> Null]
  /\ unitPc = "idle" /\ temp = Null /\ items = 0
  /\ queue = <<>>
  /\ asyncPc = "wait" /\ local = <<>>
  /\ rspns = [k \in {"async", "sync"} |-> Null]
  /\ jBuffer = Null /\ awaits = FALSE /\ gaveUp = FALSE
  /\ pipe = [k \in Sockets |-> <<>>]
  /\ ended = FALSE
  /\ fault = {}

----------------------------------------------------------------------------
(* Memory.                                                                 *)

\* new, for n objects: the first of their addresses is used + 1.
New(n) == used + n <= Size /\ used' = used + n

\* delete and delete[]: null is allowed, a second time is not.
Free(S) ==
  /\ freed' = freed \union (S \ {Null})
  /\ fault' = IF S \intersect freed = {} THEN fault ELSE fault \union {"double free"}

\* Mutant: the pointer is copied.
MovedFromCopies(item) == item

\* What is left in an item that was moved.
MovedFrom(item) == Null

\* What delete of an object, and its destructor, delete.
Deleted(obj) == {obj, member[obj]}

----------------------------------------------------------------------------
(* The thread of the unit: out.push(buffer_item(data, size, 0, 0, false)). *)

\* The payload is copied; for an empty one there is nothing to own.
buffer_item ==
  /\ ~ended /\ unitPc = "idle" /\ items < MaxItems
  /\ \/ New(1) /\ temp' = used + 1
     \/ UNCHANGED used /\ temp' = Null
  /\ unitPc' = "push"
  /\ items' = items + 1
  /\ UNCHANGED <<freed, member, queue, asyncVars, rspns, callVars, pipe, ended, fault>>

push ==
  /\ ~ended /\ unitPc = "push"
  /\ queue' = Append(queue, temp)
  /\ temp' = MovedFrom(temp)
  /\ unitPc' = "destroy"
  /\ UNCHANGED <<used, freed, member, items, asyncVars, rspns, callVars, pipe, ended,
                 fault>>

destroy_temp ==
  /\ ~ended /\ unitPc = "destroy"
  /\ Free({temp})
  /\ temp' = Null
  /\ unitPc' = "idle"
  /\ UNCHANGED <<used, member, items, queue, asyncVars, rspns, callVars, pipe, ended>>

----------------------------------------------------------------------------
(* async_work: from pop_all to the end of the batch.                       *)

\* The queue is swapped with an empty one.
pop_all ==
  /\ ~ended /\ asyncPc = "wait" /\ queue # <<>>
  /\ local' = queue
  /\ queue' = <<>>
  /\ asyncPc' = "front"
  /\ UNCHANGED <<used, freed, member, unitVars, rspns, callVars, pipe, ended, fault>>

\* new buffer_item(std::move(tempRef))
move_front ==
  /\ ~ended /\ asyncPc = "front" /\ local # <<>>
  /\ New(1)
  /\ member' = [member EXCEPT ![used + 1] = Head(local)]
  /\ rspns' = [rspns EXCEPT !["async"] = used + 1]
  /\ local' = [local EXCEPT ![1] = MovedFrom(@)]
  /\ asyncPc' = "pop"
  /\ UNCHANGED <<freed, unitVars, queue, callVars, pipe, ended, fault>>

\* localBuffer.pop() destroys the item at the front.
pop ==
  /\ ~ended /\ asyncPc = "pop"
  /\ Free({Head(local)})
  /\ local' = Tail(local)
  /\ asyncPc' = "send"
  /\ UNCHANGED <<used, member, unitVars, queue, rspns, callVars, pipe, ended>>

\* The message takes rspns with it: into the pipe when send succeeds; otherwise it
\* is destroyed, and the function it came with deletes rspns.
Message(obj) == [data |-> member[obj], hint |-> obj]

\* Mutant: the response is deleted once it was handed to zmq.
SendDeletes(k) ==
  /\ rspns' = [rspns EXCEPT ![k] = Null]
  /\ pipe' = [pipe EXCEPT ![k] = Append(@, Message(rspns[k]))]
  /\ Free(Deleted(rspns[k]))

Send(k) ==
  /\ rspns' = [rspns EXCEPT ![k] = Null]
  /\ \/ /\ pipe' = [pipe EXCEPT ![k] = Append(@, Message(rspns[k]))]
        /\ UNCHANGED <<freed, fault>>
     \/ Free(Deleted(rspns[k])) /\ UNCHANGED pipe

send_item ==
  /\ ~ended /\ asyncPc = "send"
  /\ Send("async")
  /\ asyncPc' = "front"
  /\ UNCHANGED <<used, member, unitVars, queue, local, callVars, ended>>

\* send throws: rspns goes with the message, and the rest of the batch with the stack.
send_throws ==
  /\ ~ended /\ asyncPc = "send"
  /\ Free(Deleted(rspns["async"]) \union Range(local))
  /\ rspns' = [rspns EXCEPT !["async"] = Null]
  /\ local' = <<>>
  /\ ended' = TRUE
  /\ UNCHANGED <<used, member, unitVars, queue, asyncPc, callVars, pipe>>

batch_done ==
  /\ ~ended /\ asyncPc = "front" /\ local = <<>>
  /\ asyncPc' = "wait"
  /\ UNCHANGED <<used, freed, member, unitVars, queue, local, rspns, callVars, pipe,
                 ended, fault>>

----------------------------------------------------------------------------
(* sync_work, and the dispatcher calls a unit makes on its thread.         *)

\* The unit or the catch makes the response, which owns its buffer.
new_response ==
  /\ ~ended /\ rspns["sync"] = Null /\ jBuffer = Null
  /\ New(2)
  /\ rspns' = [rspns EXCEPT !["sync"] = used + 1]
  /\ member' = [member EXCEPT ![used + 1] = used + 2]
  /\ UNCHANGED <<freed, unitVars, queue, asyncVars, callVars, pipe, ended, fault>>

send_response ==
  /\ ~ended /\ rspns["sync"] # Null
  /\ Send("sync")
  /\ UNCHANGED <<used, member, unitVars, queue, asyncVars, callVars, ended>>

\* client::call: the message has no function that frees it. A socket that expects
\* a reply throws, and the request goes with the stack.
call ==
  /\ ~ended /\ rspns["sync"] = Null /\ jBuffer = Null
  /\ New(1)
  /\ \/ /\ ~awaits /\ awaits' = TRUE
        /\ jBuffer' = used + 1
        /\ pipe' = [pipe EXCEPT !["req"] = Append(@, [data |-> used + 1, hint |-> Null])]
        /\ UNCHANGED <<freed, fault>>
     \/ /\ awaits /\ Free({used + 1})
        /\ UNCHANGED <<awaits, jBuffer, pipe>>
  /\ UNCHANGED <<member, unitVars, queue, asyncVars, rspns, gaveUp, ended>>

\* A reply answers a request that was transmitted. The caller's request goes.
call_returns ==
  /\ ~ended /\ jBuffer # Null /\ awaits /\ pipe["req"] = <<>>
  /\ Free({jBuffer})
  /\ jBuffer' = Null
  /\ awaits' = FALSE
  /\ UNCHANGED <<used, member, unitVars, queue, asyncVars, rspns, pipe, gaveUp, ended>>

\* recv throws because a signal interrupts it: the request goes all the same.
call_interrupted ==
  /\ ~ended /\ jBuffer # Null
  /\ Free({jBuffer})
  /\ jBuffer' = Null
  /\ gaveUp' = (gaveUp \/ pipe["req"] # <<>>)
  /\ UNCHANGED <<used, member, unitVars, queue, asyncVars, rspns, pipe, awaits, ended>>

----------------------------------------------------------------------------
(* zmq's threads.                                                          *)

Uses(msg) == IF msg.data \in freed THEN {"use after free"} ELSE {}

\* A message is transmitted, or given up when its peer goes; then it is released.
transmit(k) ==
  /\ ~ended /\ pipe[k] # <<>>
  /\ LET msg == Head(pipe[k])
         gone == IF msg.hint = Null THEN {} ELSE Deleted(msg.hint)
     IN  /\ freed' = freed \union (gone \ {Null})
         /\ fault' = fault \union Uses(msg)
                     \union IF gone \intersect freed = {} THEN {} ELSE {"double free"}
  /\ pipe' = [pipe EXCEPT ![k] = Tail(@)]
  /\ UNCHANGED <<used, member, unitVars, queue, asyncVars, rspns, callVars, ended>>

Next ==
  \/ buffer_item \/ push \/ destroy_temp
  \/ pop_all \/ move_front \/ pop \/ send_item \/ send_throws \/ batch_done
  \/ new_response \/ send_response
  \/ call \/ call_returns \/ call_interrupted
  \/ \E k \in Sockets : transmit(k)

Spec == Init /\ [][Next]_vars

----------------------------------------------------------------------------

\* The places that will free an address: items in the three sequences and the
\* temporary, objects a thread or a message of zmq holds, the request on the stack.
Roots ==
  {<<"temp", 1, temp>>, <<"jBuffer", 1, jBuffer>>}
  \union {<<"queue", i, queue[i]>> : i \in DOMAIN queue}
  \union {<<"local", i, local[i]>> : i \in DOMAIN local}
  \union {<<"rspns", k, rspns[k]>> : k \in DOMAIN rspns}
  \union UNION {{<<k, i, pipe[k][i].hint>> : i \in DOMAIN pipe[k]} : k \in Sockets}

Owners(a) ==
  {r \in Roots : r[3] = a}
  \union {<<"member", r, a>> : r \in {q \in Roots : q[3] # Null /\ member[q[3]] = a}}

\* Memory in use has exactly one owner, and what was freed has none: moves, swaps,
\* the hand-over to zmq, a send that times out and one that throws neither leak an
\* item or a response nor free it twice.
OneOwner == \A a \in 1..used : Cardinality(Owners(a)) = IF a \in freed THEN 0 ELSE 1

\* zmq reads a message that was freed only when a call of the dispatcher was
\* interrupted while its request was still in the pipe: nothing keeps the request
\* of client::call alive for zmq.
ReadsLiveMemory == fault \subseteq (IF gaveUp THEN {"use after free"} ELSE {})

=============================================================================
