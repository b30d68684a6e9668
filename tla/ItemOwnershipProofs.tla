------------------------ MODULE ItemOwnershipProofs ------------------------
(***************************************************************************)
(* Proofs about ItemOwnership, for any number of addresses and of items:   *)
(* OneOwner and ReadsLiveMemory.                                           *)
(*                                                                         *)
(* That memory has one owner is a statement about all pairs of the places  *)
(* that own memory. The inductive invariant says it with a labelling: a    *)
(* function at gives every address one label, and each place agrees with   *)
(* the label of what it holds (Labelled). An address has one label, hence  *)
(* no two places of different kinds; that it is not twice in one place is  *)
(* said of the sequences and of the members separately (Distinct). The     *)
(* labelling is not a variable: an action shows the next one from the last.*)
(***************************************************************************)
EXTENDS ItemOwnership, FiniteSetTheorems, SequenceTheorems, TLAPS

----------------------------------------------------------------------------
(* The inductive invariant.                                                *)

\* What an item, an object or a message refers to: an address, or Null.
Refs == 0..Size

Messages == [data : Refs, hint : Refs]

TypeOK ==
  /\ used \in 0..Size
  /\ freed \subseteq Addr
  /\ member \in [Addr -> Refs]
  /\ unitPc \in {"idle", "push", "destroy"} /\ temp \in Refs /\ items \in Nat
  /\ queue \in Seq(Refs)
  /\ asyncPc \in {"wait", "front", "pop", "send"} /\ local \in Seq(Refs)
  /\ rspns \in [{"async", "sync"} -> Refs]
  /\ jBuffer \in Refs /\ awaits \in BOOLEAN /\ gaveUp \in BOOLEAN
  /\ pipe \in [Sockets -> Seq(Messages)]
  /\ ended \in BOOLEAN

\* Objects are what a thread or a message of zmq deletes with its destructor; the
\* others that are in use are plain memory.
Objects == {"async", "sync", "pipe async", "pipe sync"}
Buffers == {"fresh", "temp", "jBuffer", "queue", "local"}
Kinds == Objects \union Buffers \union {"freed", "member"}

Hints(msgs) == {msgs[i].hint : i \in DOMAIN msgs}

\* The label of an address is where it is owned.
Label(at, a) ==
  /\ at[a] = "fresh" <=> a > used
  /\ at[a] = "freed" <=> a \in freed
  /\ at[a] = "temp" <=> a = temp
  /\ at[a] = "jBuffer" <=> a = jBuffer
  /\ at[a] = "queue" <=> a \in Range(queue)
  /\ at[a] = "local" <=> a \in Range(local)
  /\ at[a] = "async" <=> a = rspns["async"]
  /\ at[a] = "sync" <=> a = rspns["sync"]
  /\ at[a] = "pipe async" <=> a \in Hints(pipe["async"])
  /\ at[a] = "pipe sync" <=> a \in Hints(pipe["sync"])

Labelled(at) == at \in [Addr -> Kinds] /\ \A a \in Addr : Label(at, a)

\* What an object owns is labelled so, and only objects own something.
Members(at) ==
  /\ \A o \in Addr : at[o] \in Objects /\ member[o] # Null => at[member[o]] = "member"
  /\ \A a \in Addr : at[a] = "member" => \E o \in Addr : at[o] \in Objects /\ member[o] = a
  /\ \A o, p \in Addr : at[o] \in Objects /\ at[p] \in Objects /\ member[o] = member[p]
                          /\ member[o] # Null => o = p
  /\ \A a \in Addr : at[a] \in Buffers => member[a] = Null

\* No address is twice in a sequence of items or of messages.
DistinctItems(s) == \A i, j \in DOMAIN s : s[i] = s[j] /\ s[i] # Null => i = j
DistinctHints(s) == \A i, j \in DOMAIN s : s[i].hint = s[j].hint => i = j

Distinct ==
  /\ DistinctItems(queue) /\ DistinctItems(local)
  /\ DistinctHints(pipe["async"]) /\ DistinctHints(pipe["sync"])

\* A message with a hint carries what the object owns.
Carried(s) == \A i \in DOMAIN s : s[i].hint # Null /\ s[i].data = member[s[i].hint]

\* Where the threads are tells which of their variables own nothing.
Control ==
  ~ended =>
    /\ unitPc # "push" => temp = Null
    /\ asyncPc = "wait" => local = <<>>
    /\ asyncPc = "pop" => local # <<>> /\ local[1] = Null
    /\ asyncPc \in {"pop", "send"} <=> rspns["async"] # Null

\* The request of a call is in the pipe only while the call waits, unless it was
\* given up.
Requests ==
  /\ ~awaits => pipe["req"] = <<>> /\ jBuffer = Null
  /\ \A i \in DOMAIN pipe["req"] :
       /\ pipe["req"][i].hint = Null
       /\ ~gaveUp => pipe["req"][i].data = jBuffer /\ jBuffer # Null

Owned == \E at \in [Addr -> Kinds] : Labelled(at) /\ Members(at)

IInv ==
  /\ TypeOK /\ Owned /\ Distinct /\ Carried(pipe["async"]) /\ Carried(pipe["sync"])
  /\ Control /\ Requests /\ ReadsLiveMemory

----------------------------------------------------------------------------
(* Sequences of items and of messages.                                     *)

\* What push leaves in the queue: the item is added to what it holds.
LEMMA AppendItems ==
  ASSUME NEW s \in Seq(Refs), NEW x \in Refs
  PROVE  /\ Append(s, x) \in Seq(Refs)
         /\ \A a \in Addr : a \in Range(Append(s, x)) <=> a \in Range(s) \/ a = x
         /\ DistinctItems(s) /\ (x \in Addr => x \notin Range(s)) => DistinctItems(Append(s, x))
PROOF
  <1>1. Append(s, x) \in Seq(Refs)
    OBVIOUS
  <1>2. ASSUME NEW a \in Addr
        PROVE  a \in Range(Append(s, x)) <=> a \in Range(s) \/ a = x
    <2>1. a \in Range(Append(s, x)) => a \in Range(s) \/ a = x
      BY DEF Range
    <2>2. a \in Range(s) => a \in Range(Append(s, x))
      <3>1. ASSUME NEW i \in DOMAIN s, a = s[i]
            PROVE  i \in DOMAIN Append(s, x) /\ Append(s, x)[i] = a
        BY <3>1
      <3>2. QED
        BY <3>1 DEF Range
    <2>3. Len(s) + 1 \in DOMAIN Append(s, x) /\ Append(s, x)[Len(s) + 1] = x
      OBVIOUS
    <2>4. QED
      BY <2>1, <2>2, <2>3 DEF Range
  <1>3. ASSUME DistinctItems(s), x \in Addr => x \notin Range(s),
               NEW i \in DOMAIN Append(s, x), NEW j \in DOMAIN Append(s, x),
               Append(s, x)[i] = Append(s, x)[j], Append(s, x)[i] # Null
        PROVE  i = j
    <2>1. \A k \in DOMAIN s : s[k] # Null => s[k] # x
      BY <1>3, OwnershipAssumption DEF Range, Addr, Null, Refs
    <2>2. QED
      BY <1>3, <2>1 DEF DistinctItems
  <1>4. QED
    BY <1>1, <1>2, <1>3 DEF DistinctItems

\* What pop leaves in localBuffer: the item at the front is gone, and no other.
LEMMA TailItems ==
  ASSUME NEW s \in Seq(Refs), s # <<>>, DistinctItems(s)
  PROVE  /\ Tail(s) \in Seq(Refs) /\ Head(s) \in Refs
         /\ \A a \in Addr : a \in Range(Tail(s)) <=> a \in Range(s) /\ a # Head(s)
         /\ Head(s) \in Addr => Head(s) \in Range(s)
         /\ DistinctItems(Tail(s))
PROOF
  <1>1. /\ Tail(s) \in Seq(Refs) /\ Head(s) \in Refs
        /\ Len(s) > 0 /\ Len(Tail(s)) = Len(s) - 1 /\ Head(s) = s[1]
        /\ \A i \in 1..Len(Tail(s)) : Tail(s)[i] = s[i + 1]
    OBVIOUS
  <1>2. ASSUME NEW a \in Addr
        PROVE  a \in Range(Tail(s)) <=> a \in Range(s) /\ a # Head(s)
    <2>1. ASSUME NEW i \in DOMAIN Tail(s), a = Tail(s)[i]
          PROVE  i + 1 \in DOMAIN s /\ s[i + 1] = a /\ a # Head(s)
      BY <1>1, <2>1 DEF DistinctItems, Addr, Null
    <2>2. ASSUME NEW i \in DOMAIN s, a = s[i], a # Head(s)
          PROVE  i - 1 \in DOMAIN Tail(s) /\ Tail(s)[i - 1] = a
      BY <1>1, <2>2
    <2>3. QED
      BY <2>1, <2>2 DEF Range
  <1>3. DistinctItems(Tail(s))
    BY <1>1 DEF DistinctItems
  <1>4. Head(s) \in Range(s)
    BY <1>1 DEF Range
  <1>5. QED
    BY <1>1, <1>2, <1>3, <1>4

\* What the move of the front leaves in localBuffer: an item that owns nothing.
LEMMA MovedItems ==
  ASSUME NEW s \in Seq(Refs), s # <<>>, DistinctItems(s),
         NEW t, t = [s EXCEPT ![1] = Null]
  PROVE  /\ t \in Seq(Refs) /\ t # <<>> /\ t[1] = Null
         /\ \A a \in Addr : a \in Range(t) <=> a \in Range(s) /\ a # Head(s)
         /\ Head(s) \in Addr => Head(s) \in Range(s)
         /\ Head(s) \in Refs
         /\ DistinctItems(t)
PROOF
  <1>1. /\ Len(s) \in Nat /\ Len(s) > 0 /\ Head(s) = s[1] /\ s[1] \in Refs
        /\ DOMAIN s = 1..Len(s) /\ s \in [1..Len(s) -> Refs]
    OBVIOUS
  <1>2. Null \in Refs
    BY OwnershipAssumption DEF Null, Refs
  <1>3. /\ DOMAIN t = 1..Len(s) /\ t[1] = Null
        /\ \A i \in 1..Len(s) : i # 1 => t[i] = s[i]
        /\ t \in [1..Len(s) -> Refs]
    BY <1>1, <1>2
  <1>4. t \in Seq(Refs)
    BY <1>1, <1>3
  <1>5. ASSUME NEW a \in Addr
        PROVE  a \in Range(t) <=> a \in Range(s) /\ a # Head(s)
    <2>1. ASSUME NEW i \in DOMAIN t, a = t[i]
          PROVE  i \in DOMAIN s /\ s[i] = a /\ a # Head(s)
      BY <1>1, <1>3, <2>1 DEF DistinctItems, Addr, Null
    <2>2. ASSUME NEW i \in DOMAIN s, a = s[i], a # Head(s)
          PROVE  i \in DOMAIN t /\ t[i] = a
      BY <1>1, <1>3, <2>2
    <2>3. QED
      BY <2>1, <2>2 DEF Range
  <1>6. DistinctItems(t)
    BY <1>1, <1>3 DEF DistinctItems
  <1>7. Head(s) \in Range(s)
    BY <1>1 DEF Range
  <1>8. t # <<>>
    BY <1>1, <1>3
  <1>9. QED
    BY <1>1, <1>3, <1>4, <1>5, <1>6, <1>7, <1>8

\* A message that enters a pipe of zmq adds its hint to those of the pipe.
LEMMA AppendHints ==
  ASSUME NEW s \in Seq(Messages), NEW m \in Messages
  PROVE  /\ Append(s, m) \in Seq(Messages)
         /\ \A a \in Addr : a \in Hints(Append(s, m)) <=> a \in Hints(s) \/ a = m.hint
         /\ DistinctHints(s) /\ m.hint \notin Hints(s) => DistinctHints(Append(s, m))
PROOF
  <1>1. /\ Append(s, m) \in Seq(Messages) /\ Len(s) \in Nat
        /\ Len(Append(s, m)) = Len(s) + 1 /\ DOMAIN s = 1..Len(s)
        /\ DOMAIN Append(s, m) = 1..(Len(s) + 1)
        /\ \A i \in 1..Len(s) : Append(s, m)[i] = s[i]
        /\ Append(s, m)[Len(s) + 1] = m
    OBVIOUS
  <1>2. ASSUME NEW a \in Addr
        PROVE  a \in Hints(Append(s, m)) <=> a \in Hints(s) \/ a = m.hint
    <2>1. ASSUME NEW i \in DOMAIN s, a = s[i].hint
          PROVE  i \in DOMAIN Append(s, m) /\ Append(s, m)[i].hint = a
      BY <1>1, <2>1
    <2>2. ASSUME NEW i \in DOMAIN Append(s, m), a = Append(s, m)[i].hint
          PROVE  a = m.hint \/ (i \in DOMAIN s /\ s[i].hint = a)
      BY <1>1, <2>2
    <2>3. QED
      BY <1>1, <2>1, <2>2 DEF Hints
  <1>3. DistinctHints(s) /\ m.hint \notin Hints(s) => DistinctHints(Append(s, m))
    BY <1>1 DEF DistinctHints, Hints
  <1>4. QED
    BY <1>1, <1>2, <1>3

\* A message that leaves a pipe takes its hint with it, and no other.
LEMMA TailHints ==
  ASSUME NEW s \in Seq(Messages), s # <<>>
  PROVE  /\ Tail(s) \in Seq(Messages) /\ Head(s) \in Messages
         /\ 1 \in DOMAIN s /\ Head(s) = s[1]
         /\ DistinctHints(s) =>
              /\ \A a \in Addr : a \in Hints(Tail(s)) <=> a \in Hints(s) /\ a # Head(s).hint
              /\ Head(s).hint \in Hints(s)
              /\ DistinctHints(Tail(s))
         /\ \A i \in DOMAIN Tail(s) : i + 1 \in DOMAIN s /\ Tail(s)[i] = s[i + 1]
PROOF
  <1>1. /\ Tail(s) \in Seq(Messages) /\ Head(s) \in Messages
        /\ Len(s) \in Nat /\ Len(s) > 0 /\ Len(Tail(s)) = Len(s) - 1 /\ Head(s) = s[1]
        /\ DOMAIN s = 1..Len(s) /\ DOMAIN Tail(s) = 1..(Len(s) - 1)
        /\ \A i \in 1..(Len(s) - 1) : Tail(s)[i] = s[i + 1]
    OBVIOUS
  <1>2. ASSUME NEW a \in Addr, DistinctHints(s)
        PROVE  a \in Hints(Tail(s)) <=> a \in Hints(s) /\ a # Head(s).hint
    <2>1. ASSUME NEW i \in DOMAIN Tail(s), a = Tail(s)[i].hint
          PROVE  i + 1 \in DOMAIN s /\ s[i + 1].hint = a /\ a # Head(s).hint
      BY <1>1, <1>2, <2>1 DEF DistinctHints
    <2>2. ASSUME NEW i \in DOMAIN s, a = s[i].hint, a # Head(s).hint
          PROVE  i - 1 \in DOMAIN Tail(s) /\ Tail(s)[i - 1].hint = a
      BY <1>1, <2>2
    <2>3. QED
      BY <2>1, <2>2 DEF Hints
  <1>3. DistinctHints(s) => DistinctHints(Tail(s))
    BY <1>1 DEF DistinctHints
  <1>4. Head(s).hint \in Hints(s)
    BY <1>1 DEF Hints
  <1>5. QED
    BY <1>1, <1>2, <1>3, <1>4

----------------------------------------------------------------------------
(* Memory.                                                                 *)

\* Freeing what was not freed before is no fault, and freeing null does nothing.
LEMMA FreeLive ==
  ASSUME NEW S, TypeOK, Free(S), S \intersect freed = {}
  PROVE  /\ freed' = freed \union (S \ {Null})
         /\ fault' = fault
         /\ S = {Null} => freed' = freed
PROOF
  <1>1. freed' = freed \union (S \ {Null}) /\ fault' = fault
    BY DEF Free
  <1>2. S = {Null} => S \ {Null} = {}
    OBVIOUS
  <1>3. QED
    BY <1>1, <1>2

\* Null is not an address, and is never freed.
LEMMA NullFacts == TypeOK => Null \notin Addr /\ Null \notin freed /\ Null \in Refs
  BY OwnershipAssumption DEF TypeOK, Addr, Null, Refs

\* A reference that is not Null is an address.
LEMMA RefFacts == \A r \in Refs : r # Null => r \in Addr
  BY OwnershipAssumption DEF Addr, Null, Refs

----------------------------------------------------------------------------
(* What objects own, when addresses change their labels.                   *)

\* No object comes or goes: a move of plain memory, or of an object to zmq.
LEMMA ObjectsStay ==
  ASSUME NEW at, NEW b, Members(at), UNCHANGED member, TypeOK,
         \A a \in Addr : /\ b[a] \in Objects <=> at[a] \in Objects
                         /\ b[a] = "member" <=> at[a] = "member"
                         /\ b[a] \in Buffers => at[a] \in Buffers
  PROVE  Members(b)'
PROOF
  <1>1. \A o \in Addr : member[o] # Null => member[o] \in Addr
    BY OwnershipAssumption DEF TypeOK, Refs, Addr, Null
  <1>2. \A o \in Addr : b[o] \in Objects /\ member[o] # Null => b[member[o]] = "member"
    BY <1>1 DEF Members
  <1>3. \A a \in Addr : b[a] = "member" => \E o \in Addr : b[o] \in Objects /\ member[o] = a
    BY DEF Members
  <1>4. /\ \A o, p \in Addr : b[o] \in Objects /\ b[p] \in Objects /\ member[o] = member[p]
                                /\ member[o] # Null => o = p
        /\ \A a \in Addr : b[a] \in Buffers => member[a] = Null
    BY DEF Members
  <1>5. QED
    BY <1>2, <1>3, <1>4 DEF Members

\* An object is deleted, and what it owns with it.
LEMMA ObjectGoes ==
  ASSUME NEW at, NEW b, NEW obj \in Addr, NEW mem, Members(at), UNCHANGED member, TypeOK,
         mem = member[obj], at[obj] \in Objects,
         \A a \in Addr : /\ b[a] \in Objects <=> at[a] \in Objects /\ a # obj
                         /\ b[a] = "member" <=> at[a] = "member" /\ a # mem
                         /\ b[a] \in Buffers => at[a] \in Buffers
  PROVE  Members(b)'
PROOF
  <1>1. \A o \in Addr : member[o] # Null => member[o] \in Addr
    BY OwnershipAssumption DEF TypeOK, Refs, Addr, Null
  <1>2. \A a \in Addr : a # Null
    BY DEF Addr, Null
  <1>3. \A o \in Addr : b[o] \in Objects /\ member[o] # Null => b[member[o]] = "member"
    BY <1>1 DEF Members
  <1>4. \A a \in Addr : b[a] = "member" => \E o \in Addr : b[o] \in Objects /\ member[o] = a
    BY <1>2 DEF Members
  <1>5. /\ \A o, p \in Addr : b[o] \in Objects /\ b[p] \in Objects /\ member[o] = member[p]
                                /\ member[o] # Null => o = p
        /\ \A a \in Addr : b[a] \in Buffers => member[a] = Null
    BY DEF Members
  <1>6. QED
    BY <1>3, <1>4, <1>5 DEF Members

\* An object is made, which takes plain memory that nothing else owns, or none.
LEMMA ObjectComes ==
  ASSUME NEW at, NEW b, NEW obj \in Addr, NEW mem \in Refs, Members(at), TypeOK,
         member' = [member EXCEPT ![obj] = mem],
         at[obj] \in Buffers, mem # obj,
         mem # Null => at[mem] \in Buffers,
         \A a \in Addr : /\ b[a] \in Objects <=> at[a] \in Objects \/ a = obj
                         /\ b[a] = "member" <=> at[a] = "member" \/ a = mem
                         /\ b[a] \in Buffers => at[a] \in Buffers
  PROVE  Members(b)'
PROOF
  <1>1. \A o \in Addr : member[o] # Null => member[o] \in Addr
    BY OwnershipAssumption DEF TypeOK, Refs, Addr, Null
  <1>2. /\ \A a \in Addr : a # Null
        /\ mem # Null => mem \in Addr
        /\ \A k : k \in Buffers => k \notin Objects /\ k # "member"
    <2>1. (\A a \in Addr : a # Null) /\ (mem # Null => mem \in Addr)
      BY OwnershipAssumption DEF Addr, Null, Refs
    <2>2. \A k : k \in Buffers => k \notin Objects /\ k # "member"
      BY DEF Buffers, Objects
    <2>3. QED
      BY <2>1, <2>2
  <1>3. \A o \in Addr : member'[o] = IF o = obj THEN mem ELSE member[o]
    BY DEF TypeOK
  <1>4. \A o \in Addr : b[o] \in Objects /\ member'[o] # Null => b[member'[o]] = "member"
    BY <1>1, <1>2, <1>3 DEF Members
  <1>5. \A a \in Addr : b[a] = "member" => \E o \in Addr : b[o] \in Objects /\ member'[o] = a
    BY <1>2, <1>3 DEF Members
  <1>6. \A o, p \in Addr : b[o] \in Objects /\ b[p] \in Objects /\ member'[o] = member'[p]
                             /\ member'[o] # Null => o = p
    BY <1>1, <1>2, <1>3 DEF Members
  <1>7. \A a \in Addr : b[a] \in Buffers => member'[a] = Null
    <2>1. \A a \in Addr : b[a] \in Buffers => a # obj
      BY DEF Buffers, Objects
    <2>2. QED
      BY <1>3, <2>1 DEF Members
  <1>8. QED
    BY <1>4, <1>5, <1>6, <1>7 DEF Members

----------------------------------------------------------------------------
(* The thread of the unit.                                                 *)

\* Constructing the temporary takes a fresh address, or none.
LEMMA BufferItemStep == IInv /\ buffer_item => IInv'
PROOF
  <1> SUFFICES ASSUME IInv, buffer_item
               PROVE  IInv'
    OBVIOUS
  <1>1. PICK at \in [Addr -> Kinds] : Labelled(at) /\ Members(at)
    BY DEF IInv, Owned
  <1>2. /\ temp = Null /\ used \in 0..Size
        /\ \/ temp' = Null /\ used' = used
           \/ temp' = used + 1 /\ used' = used + 1 /\ used + 1 <= Size
    <2>1. temp = Null /\ used \in 0..Size
      BY DEF IInv, TypeOK, Control, buffer_item
    <2>2. QED
      BY <2>1 DEF buffer_item, New
  <1>3. TypeOK'
    <2>1. used' \in 0..Size /\ temp' \in Refs
      BY <1>2, OwnershipAssumption DEF Refs, Null
    <2>2. QED
      BY <2>1 DEF IInv, TypeOK, buffer_item, asyncVars, callVars
  <1>4. PICK b : b = [a \in Addr |-> IF a = temp' THEN "temp" ELSE at[a]]
    OBVIOUS
  <1>5. Labelled(b)'
    <2>1. ASSUME NEW a \in Addr
          PROVE  Label(b, a)'
      <3>1. Label(at, a) /\ a \in Nat \ {0} /\ b[a] = IF a = temp' THEN "temp" ELSE at[a]
        BY <1>1, <1>4 DEF Labelled, Addr
      <3>2. at[a] = "fresh" <=> a > used
        BY <3>1 DEF Label
      <3>3. a = temp' => a = used + 1 /\ at[a] = "fresh" /\ a > used
        BY <1>2, <3>1, <3>2 DEF Null
      <3>4. a # temp' => (a > used' <=> a > used)
        BY <1>2, <3>1 DEF Null
      <3>5. (a = temp' => ~(a > used')) /\ a # temp
        BY <1>2, <3>1 DEF Null
      <3>6. QED
        BY <1>2, <3>1, <3>3, <3>4, <3>5 DEF Label, buffer_item, asyncVars, callVars
    <2>2. b \in [Addr -> Kinds]
      BY <1>4 DEF Kinds, Buffers
    <2>3. QED
      BY <2>1, <2>2 DEF Labelled
  <1>6. Members(b)'
    <2>1. ASSUME NEW a \in Addr
          PROVE  /\ b[a] \in Objects <=> at[a] \in Objects
                 /\ b[a] = "member" <=> at[a] = "member"
                 /\ b[a] \in Buffers => at[a] \in Buffers
      <3>1. Label(at, a) /\ a \in Nat \ {0} /\ b[a] = IF a = temp' THEN "temp" ELSE at[a]
        BY <1>1, <1>4 DEF Labelled, Addr
      <3>2. at[a] = "fresh" <=> a > used
        BY <3>1 DEF Label
      <3>3. a = temp' => at[a] = "fresh"
        BY <1>2, <3>1, <3>2 DEF Null
      <3>4. QED
        BY <3>1, <3>3 DEF Objects, Buffers
    <2>2. UNCHANGED member /\ TypeOK
      BY DEF buffer_item, IInv
    <2>3. QED
      BY <1>1, <2>1, <2>2, ObjectsStay
  <1>7. Distinct' /\ Carried(pipe["async"])' /\ Carried(pipe["sync"])'
    BY DEF IInv, Distinct, Carried, DistinctItems, DistinctHints, buffer_item, asyncVars
  <1>8. Control' /\ Requests' /\ ReadsLiveMemory'
    BY DEF IInv, Control, Requests, ReadsLiveMemory, buffer_item, asyncVars, callVars
  <1>9. QED
    BY <1>3, <1>5, <1>6, <1>7, <1>8 DEF IInv, Owned, Labelled

\* push moves the temporary to the end of the queue.
LEMMA PushStep == IInv /\ push => IInv'
PROOF
  <1> SUFFICES ASSUME IInv, push
               PROVE  IInv'
    OBVIOUS
  <1>1. PICK at \in [Addr -> Kinds] : Labelled(at) /\ Members(at)
    BY DEF IInv, Owned
  <1>2. /\ queue \in Seq(Refs) /\ temp \in Refs /\ DistinctItems(queue)
        /\ queue' = Append(queue, temp) /\ temp' = Null
        /\ temp \in Addr => temp \notin Range(queue)
    BY <1>1 DEF IInv, TypeOK, Distinct, push, MovedFrom, Labelled, Label
  <1>3. /\ queue' \in Seq(Refs) /\ DistinctItems(queue')
        /\ \A a \in Addr : a \in Range(queue') <=> a \in Range(queue) \/ a = temp
    BY <1>2, AppendItems
  <1>4. TypeOK'
    BY <1>2, <1>3, OwnershipAssumption DEF IInv, TypeOK, push, Refs, asyncVars, callVars, Null
  <1>5. PICK b : b = [a \in Addr |-> IF a = temp THEN "queue" ELSE at[a]]
    OBVIOUS
  <1>6. Labelled(b)'
    <2>1. ASSUME NEW a \in Addr
          PROVE  Label(b, a)'
      <3>1. Label(at, a) /\ a # Null /\ b[a] = IF a = temp THEN "queue" ELSE at[a]
        BY <1>1, <1>5 DEF Labelled, Addr, Null
      <3>2. QED
        BY <1>2, <1>3, <3>1 DEF Label, push, asyncVars, callVars
    <2>2. b \in [Addr -> Kinds]
      BY <1>5 DEF Kinds, Buffers
    <2>3. QED
      BY <2>1, <2>2 DEF Labelled
  <1>7. Members(b)'
    <2>1. ASSUME NEW a \in Addr
          PROVE  /\ b[a] \in Objects <=> at[a] \in Objects
                 /\ b[a] = "member" <=> at[a] = "member"
                 /\ b[a] \in Buffers => at[a] \in Buffers
      BY <1>1, <1>5 DEF Labelled, Label, Objects, Buffers
    <2>2. UNCHANGED member /\ TypeOK
      BY DEF push, IInv
    <2>3. QED
      BY <1>1, <2>1, <2>2, ObjectsStay
  <1>8. Distinct' /\ Carried(pipe["async"])' /\ Carried(pipe["sync"])'
    BY <1>3 DEF IInv, Distinct, Carried, DistinctItems, DistinctHints, push, asyncVars
  <1>9. Control' /\ Requests' /\ ReadsLiveMemory'
    BY <1>2 DEF IInv, Control, Requests, ReadsLiveMemory, push, asyncVars, callVars
  <1>10. QED
    BY <1>4, <1>6, <1>7, <1>8, <1>9 DEF IInv, Owned, Labelled

\* Nothing that owns memory changes.
LEMMA OwnersStay ==
  ASSUME Owned, UNCHANGED <<used, freed, member, temp, queue, local, rspns, jBuffer, pipe>>
  PROVE  Owned'
PROOF
  <1>1. PICK at \in [Addr -> Kinds] : Labelled(at) /\ Members(at)
    BY DEF Owned
  <1>2. Labelled(at)'
    BY <1>1 DEF Labelled, Label
  <1>3. Members(at)'
    BY <1>1 DEF Members
  <1>4. QED
    BY <1>2, <1>3 DEF Owned

\* The temporary was moved from, and its destructor frees nothing.
LEMMA DestroyTempStep == IInv /\ destroy_temp => IInv'
PROOF
  <1> SUFFICES ASSUME IInv, destroy_temp
               PROVE  IInv'
    OBVIOUS
  <1>1. temp = Null /\ temp' = Null
    BY DEF IInv, Control, destroy_temp
  <1>2. freed' = freed /\ fault' = fault
    BY <1>1, FreeLive, NullFacts DEF IInv, destroy_temp
  <1>3. TypeOK'
    BY <1>1, <1>2 DEF IInv, TypeOK, destroy_temp, asyncVars, callVars
  <1>4. Owned'
    BY <1>1, <1>2, OwnersStay DEF IInv, destroy_temp, asyncVars, callVars
  <1>5. Distinct' /\ Carried(pipe["async"])' /\ Carried(pipe["sync"])'
    BY DEF IInv, Distinct, Carried, DistinctItems, DistinctHints, destroy_temp, asyncVars
  <1>6. Control' /\ Requests' /\ ReadsLiveMemory'
    BY <1>1, <1>2 DEF IInv, Control, Requests, ReadsLiveMemory, destroy_temp, asyncVars, callVars
  <1>7. QED
    BY <1>3, <1>4, <1>5, <1>6 DEF IInv

----------------------------------------------------------------------------
(* async_work.                                                             *)

\* pop_all hands the whole queue to the async thread, whose own was empty.
LEMMA PopAllStep == IInv /\ pop_all => IInv'
PROOF
  <1> SUFFICES ASSUME IInv, pop_all
               PROVE  IInv'
    OBVIOUS
  <1>1. PICK at \in [Addr -> Kinds] : Labelled(at) /\ Members(at)
    BY DEF IInv, Owned
  <1>2. local = <<>> /\ local' = queue /\ queue' = <<>>
    BY DEF IInv, Control, pop_all
  <1>3. TypeOK'
    <2>1. queue' \in Seq(Refs) /\ local' \in Seq(Refs)
      BY <1>2 DEF IInv, TypeOK
    <2>2. QED
      BY <2>1 DEF IInv, TypeOK, pop_all, unitVars, callVars
  <1>4. PICK b : b = [a \in Addr |-> IF at[a] = "queue" THEN "local" ELSE at[a]]
    OBVIOUS
  <1>5. Labelled(b)'
    <2>1. ASSUME NEW a \in Addr
          PROVE  Label(b, a)'
      <3>1. Label(at, a) /\ b[a] = IF at[a] = "queue" THEN "local" ELSE at[a]
        BY <1>1, <1>4 DEF Labelled
      <3>2. a \notin Range(<<>>)
        BY DEF Range
      <3>3. QED
        BY <1>2, <3>1, <3>2 DEF Label, pop_all, unitVars, callVars
    <2>2. b \in [Addr -> Kinds]
      BY <1>4 DEF Kinds, Buffers
    <2>3. QED
      BY <2>1, <2>2 DEF Labelled
  <1>6. Members(b)'
    <2>1. ASSUME NEW a \in Addr
          PROVE  /\ b[a] \in Objects <=> at[a] \in Objects
                 /\ b[a] = "member" <=> at[a] = "member"
                 /\ b[a] \in Buffers => at[a] \in Buffers
      BY <1>4 DEF Objects, Buffers
    <2>2. UNCHANGED member /\ TypeOK
      BY DEF pop_all, IInv
    <2>3. QED
      BY <1>1, <2>1, <2>2, ObjectsStay
  <1>7. Distinct' /\ Carried(pipe["async"])' /\ Carried(pipe["sync"])'
    BY <1>2 DEF IInv, Distinct, Carried, DistinctItems, DistinctHints, pop_all
  <1>8. Control' /\ Requests' /\ ReadsLiveMemory'
    BY DEF IInv, Control, Requests, ReadsLiveMemory, pop_all, unitVars, callVars
  <1>9. QED
    BY <1>3, <1>5, <1>6, <1>7, <1>8 DEF IInv, Owned, Labelled

\* The front is moved into a new object; in its place an item that owns nothing is left.
LEMMA MoveFrontStep == IInv /\ move_front => IInv'
PROOF
  <1> SUFFICES ASSUME IInv, move_front
               PROVE  IInv'
    OBVIOUS
  <1>1. PICK at \in [Addr -> Kinds] : Labelled(at) /\ Members(at)
    BY DEF IInv, Owned
  <1>2. PICK obj, mem : obj = used + 1 /\ mem = Head(local)
    OBVIOUS
  <1>3. /\ obj \in Addr /\ obj > used /\ obj # Null /\ obj \in Refs
        /\ used \in Nat /\ used' = obj /\ used' \in 0..Size
    BY <1>2, OwnershipAssumption DEF IInv, TypeOK, move_front, New, Addr, Null, Refs
  <1>4. /\ local' \in Seq(Refs) /\ local' # <<>> /\ local'[1] = Null /\ mem \in Refs
        /\ \A a \in Addr : a \in Range(local') <=> a \in Range(local) /\ a # mem
        /\ mem \in Addr => mem \in Range(local)
        /\ DistinctItems(local')
    <2>1. local' = [local EXCEPT ![1] = Null] /\ local # <<>>
      BY DEF move_front, MovedFrom
    <2>2. local \in Seq(Refs) /\ DistinctItems(local)
      BY DEF IInv, TypeOK, Distinct
    <2>3. QED
      BY <1>2, <2>1, <2>2, MovedItems
  <1>5. /\ at[obj] = "fresh" /\ (mem # Null => at[mem] = "local" /\ mem \in Addr) /\ mem # obj
    BY <1>1, <1>3, <1>4, RefFacts DEF Labelled, Label
  <1>6. /\ rspns["async"] = Null /\ rspns'["async"] = obj /\ rspns'["sync"] = rspns["sync"]
        /\ rspns' \in [{"async", "sync"} -> Refs]
        /\ member' = [member EXCEPT ![obj] = mem] /\ member' \in [Addr -> Refs]
    BY <1>2, <1>3, <1>4 DEF IInv, Control, TypeOK, move_front
  <1>7. TypeOK'
    BY <1>3, <1>4, <1>6 DEF IInv, TypeOK, move_front, unitVars, callVars
  <1>8. PICK b : b = [a \in Addr |-> IF a = obj THEN "async" ELSE IF a = mem THEN "member" ELSE at[a]]
    OBVIOUS
  <1>9. Labelled(b)'
    <2>1. ASSUME NEW a \in Addr
          PROVE  Label(b, a)'
      <3>1. /\ Label(at, a) /\ a # Null
            /\ b[a] = IF a = obj THEN "async" ELSE IF a = mem THEN "member" ELSE at[a]
        BY <1>1, <1>8 DEF Labelled, Addr, Null
      <3>2. a > used' <=> a > used /\ a # obj
        BY <1>2, <1>3 DEF Addr
      <3>3. QED
        BY <1>3, <1>4, <1>5, <1>6, <3>1, <3>2 DEF Label, move_front, unitVars, callVars
    <2>2. b \in [Addr -> Kinds]
      BY <1>8 DEF Kinds, Buffers, Objects
    <2>3. QED
      BY <2>1, <2>2 DEF Labelled
  <1>10. Members(b)'
    <2>1. ASSUME NEW a \in Addr
          PROVE  /\ b[a] \in Objects <=> at[a] \in Objects \/ a = obj
                 /\ b[a] = "member" <=> at[a] = "member" \/ a = mem
                 /\ b[a] \in Buffers => at[a] \in Buffers
      <3>1. a # Null
        BY DEF Addr, Null
      <3>2. QED
        BY <1>5, <1>8, <3>1 DEF Objects, Buffers
    <2>2. TypeOK /\ at[obj] \in Buffers /\ (mem # Null => at[mem] \in Buffers)
      BY <1>5 DEF IInv, Buffers
    <2>3. /\ obj \in Addr /\ mem \in Refs /\ Members(at) /\ mem # obj
          /\ member' = [member EXCEPT ![obj] = mem]
      BY <1>1, <1>3, <1>4, <1>5, <1>6
    <2>4. QED
      BY <2>1, <2>2, <2>3, ObjectComes
  <1>11. Distinct'
    BY <1>4 DEF IInv, Distinct, DistinctItems, DistinctHints, move_front
  <1>12. Carried(pipe["async"])' /\ Carried(pipe["sync"])'
    <2>1. \A k \in {"async", "sync"} : \A i \in DOMAIN pipe[k] :
            pipe[k][i].hint \in Addr /\ pipe[k][i].hint # obj
      <3>1. ASSUME NEW k \in {"async", "sync"}, NEW i \in DOMAIN pipe[k]
            PROVE  pipe[k][i].hint \in Addr /\ pipe[k][i].hint # obj
        <4>1. pipe[k][i] \in Messages /\ pipe[k][i].hint # Null
          BY DEF IInv, TypeOK, Carried, Sockets
        <4>2. pipe[k][i].hint \in Addr
          BY <4>1, RefFacts DEF Messages
        <4>3. pipe[k][i].hint \in Hints(pipe[k])
          BY DEF Hints
        <4>4. QED
          BY <1>1, <1>5, <4>2, <4>3 DEF Labelled, Label
      <3>2. QED
        BY <3>1
    <2>2. \A a \in Addr : a # obj => member'[a] = member[a]
      BY <1>6 DEF IInv, TypeOK
    <2>3. QED
      BY <2>1, <2>2 DEF IInv, Carried, move_front
  <1>13. Control' /\ Requests' /\ ReadsLiveMemory'
    BY <1>3, <1>4, <1>6 DEF IInv, Control, Requests, ReadsLiveMemory, move_front, unitVars, callVars
  <1>14. QED
    BY <1>7, <1>9, <1>10, <1>11, <1>12, <1>13 DEF IInv, Owned, Labelled

\* The item at the front was moved from, and its destructor frees nothing.
LEMMA PopStep == IInv /\ pop => IInv'
PROOF
  <1> SUFFICES ASSUME IInv, pop
               PROVE  IInv'
    OBVIOUS
  <1>1. PICK at \in [Addr -> Kinds] : Labelled(at) /\ Members(at)
    BY DEF IInv, Owned
  <1>2. /\ local # <<>> /\ Head(local) = Null /\ local' = Tail(local)
        /\ local \in Seq(Refs) /\ DistinctItems(local)
    BY DEF IInv, Control, TypeOK, Distinct, pop
  <1>3. freed' = freed /\ fault' = fault
    BY <1>2, FreeLive, NullFacts DEF IInv, pop
  <1>4. /\ local' \in Seq(Refs) /\ DistinctItems(local')
        /\ \A a \in Addr : a \in Range(local') <=> a \in Range(local)
    BY <1>2, TailItems, NullFacts DEF IInv
  <1>5. TypeOK'
    BY <1>3, <1>4 DEF IInv, TypeOK, pop, unitVars, callVars
  <1>6. Labelled(at)' /\ Members(at)'
    BY <1>1, <1>3, <1>4 DEF Labelled, Label, Members, pop, unitVars, callVars
  <1>7. Distinct' /\ Carried(pipe["async"])' /\ Carried(pipe["sync"])'
    BY <1>4 DEF IInv, Distinct, Carried, DistinctItems, DistinctHints, pop
  <1>8. Control' /\ Requests' /\ ReadsLiveMemory'
    BY <1>3 DEF IInv, Control, Requests, ReadsLiveMemory, pop, unitVars, callVars
  <1>9. QED
    BY <1>5, <1>6, <1>7, <1>8 DEF IInv, Owned

\* The end of a batch changes nothing that owns memory.
LEMMA BatchDoneStep == IInv /\ batch_done => IInv'
PROOF
  <1> SUFFICES ASSUME IInv, batch_done
               PROVE  IInv'
    OBVIOUS
  <1>1. TypeOK'
    BY DEF IInv, TypeOK, batch_done, unitVars, callVars
  <1>2. Owned'
    BY OwnersStay DEF IInv, batch_done, unitVars, callVars
  <1>3. Distinct' /\ Carried(pipe["async"])' /\ Carried(pipe["sync"])'
    BY DEF IInv, Distinct, Carried, DistinctItems, DistinctHints, batch_done
  <1>4. Control' /\ Requests' /\ ReadsLiveMemory'
    BY DEF IInv, Control, Requests, ReadsLiveMemory, batch_done, unitVars, callVars
  <1>5. QED
    BY <1>1, <1>2, <1>3, <1>4 DEF IInv

\* Deleting an object that a thread or a message holds frees what was not freed.
LEMMA DeletedIsLive ==
  ASSUME TypeOK, NEW at \in [Addr -> Kinds], Labelled(at), Members(at),
         NEW obj \in Addr, at[obj] \in Objects
  PROVE  /\ member[obj] \in Refs
         /\ member[obj] # Null => member[obj] \in Addr /\ at[member[obj]] = "member"
         /\ obj \notin freed /\ member[obj] \notin freed
         /\ Deleted(obj) \intersect freed = {}
         /\ \A a \in Addr : a \in Deleted(obj) \ {Null} <=> a = obj \/ a = member[obj]
PROOF
  <1>1. member[obj] \in Refs
    BY DEF TypeOK
  <1>2. member[obj] # Null => member[obj] \in Addr /\ at[member[obj]] = "member"
    BY <1>1, RefFacts DEF Members
  <1>3. \A a \in Addr : a \in freed => at[a] = "freed"
    BY DEF Labelled, Label
  <1>4. obj \notin freed
    BY <1>3 DEF Objects
  <1>5. member[obj] \notin freed
    BY <1>2, <1>3, NullFacts
  <1>6. QED
    BY <1>1, <1>2, <1>4, <1>5, NullFacts DEF Deleted

\* What Send does with the response of one of the threads, whether zmq takes it or
\* not: it is in the pipe, or it was deleted.
LEMMA SendKeeps ==
  ASSUME IInv, NEW k \in {"async", "sync"}, rspns[k] # Null, Send(k),
         UNCHANGED <<used, member, temp, queue, local, jBuffer, awaits, gaveUp>>
  PROVE  /\ rspns' \in [{"async", "sync"} -> Refs]
         /\ rspns' = [rspns EXCEPT ![k] = Null]
         /\ pipe' \in [Sockets -> Seq(Messages)] /\ freed' \subseteq Addr
         /\ Owned' /\ Distinct' /\ Carried(pipe["async"])' /\ Carried(pipe["sync"])'
         /\ Requests' /\ ReadsLiveMemory'
PROOF
  <1>1. PICK at \in [Addr -> Kinds] : Labelled(at) /\ Members(at)
    BY DEF IInv, Owned
  <1>2. PICK obj, mem : obj = rspns[k] /\ mem = member[obj]
    OBVIOUS
  <1>3. /\ obj \in Addr /\ at[obj] = k /\ at[obj] \in Objects /\ obj # Null
    <2>1. obj \in Addr /\ obj # Null
      BY <1>2, RefFacts DEF IInv, TypeOK
    <2>2. QED
      BY <1>1, <1>2, <2>1 DEF Labelled, Label, Objects
  <1>4. /\ mem \in Refs /\ (mem # Null => mem \in Addr /\ at[mem] = "member")
        /\ obj \notin freed /\ mem \notin freed /\ Deleted(obj) \intersect freed = {}
        /\ \A a \in Addr : a \in Deleted(obj) \ {Null} <=> a = obj \/ a = mem
    BY <1>1, <1>2, <1>3, DeletedIsLive DEF IInv
  <1>5. /\ rspns' = [rspns EXCEPT ![k] = Null] /\ rspns' \in [{"async", "sync"} -> Refs]
        /\ rspns'[k] = Null /\ \A j \in {"async", "sync"} : j # k => rspns'[j] = rspns[j]
    BY NullFacts DEF IInv, TypeOK, Send
  <1>6. ASSUME NEW a \in Addr
        PROVE  Label(at, a) /\ a # Null
    BY <1>1 DEF Labelled, Addr, Null
  <1>7. CASE /\ pipe' = [pipe EXCEPT ![k] = Append(@, Message(rspns[k]))]
             /\ UNCHANGED <<freed, fault>>
    <2>1. PICK msg : msg = Message(obj)
      OBVIOUS
    <2>2. msg \in Messages /\ msg.hint = obj /\ msg.data = mem
      BY <1>2, <1>3, <1>4, <2>1 DEF Message, Messages, Addr, Refs
    <2>3. /\ pipe[k] \in Seq(Messages) /\ pipe'[k] = Append(pipe[k], msg) /\ k \in Sockets
          /\ \A j \in Sockets : j # k => pipe'[j] = pipe[j]
      BY <1>2, <1>7, <2>1 DEF IInv, TypeOK, Sockets
    <2>4. obj \notin Hints(pipe[k]) /\ DistinctHints(pipe[k])
      BY <1>3, <1>6 DEF Label, IInv, Distinct
    <2>5. /\ pipe'[k] \in Seq(Messages) /\ DistinctHints(pipe'[k])
          /\ \A a \in Addr : a \in Hints(pipe'[k]) <=> a \in Hints(pipe[k]) \/ a = obj
      BY <2>2, <2>3, <2>4, AppendHints
    <2>6. pipe' \in [Sockets -> Seq(Messages)] /\ freed' \subseteq Addr
      BY <1>7, <2>3, <2>5 DEF IInv, TypeOK
    <2>7. PICK b : b = [a \in Addr |-> IF a # obj THEN at[a]
                                       ELSE IF k = "async" THEN "pipe async" ELSE "pipe sync"]
      OBVIOUS
    <2>8. Labelled(b)'
      <3>1. ASSUME NEW a \in Addr
            PROVE  Label(b, a)'
        <4>1. b[a] = IF a # obj THEN at[a]
                     ELSE IF k = "async" THEN "pipe async" ELSE "pipe sync"
          BY <2>7
        <4>2. CASE k = "async"
          <5>1. pipe'["sync"] = pipe["sync"] /\ rspns'["sync"] = rspns["sync"]
            BY <1>5, <2>3, <4>2 DEF Sockets
          <5>2. QED
            BY <1>2, <1>3, <1>5, <1>6, <1>7, <2>5, <4>1, <4>2, <5>1 DEF Label
        <4>3. CASE k = "sync"
          <5>1. pipe'["async"] = pipe["async"] /\ rspns'["async"] = rspns["async"]
            BY <1>5, <2>3, <4>3 DEF Sockets
          <5>2. QED
            BY <1>2, <1>3, <1>5, <1>6, <1>7, <2>5, <4>1, <4>3, <5>1 DEF Label
        <4>4. QED
          BY <4>2, <4>3
      <3>2. b \in [Addr -> Kinds]
        BY <2>7 DEF Kinds, Buffers, Objects
      <3>3. QED
        BY <3>1, <3>2 DEF Labelled
    <2>9. Members(b)'
      <3>1. ASSUME NEW a \in Addr
            PROVE  /\ b[a] \in Objects <=> at[a] \in Objects
                   /\ b[a] = "member" <=> at[a] = "member"
                   /\ b[a] \in Buffers => at[a] \in Buffers
        BY <1>3, <2>7 DEF Objects, Buffers
      <3>2. UNCHANGED member /\ TypeOK
        BY DEF IInv
      <3>3. QED
        BY <1>1, <3>1, <3>2, ObjectsStay
    <2>10. Owned'
      BY <2>8, <2>9 DEF Owned, Labelled
    <2>11. Distinct'
      BY <2>3, <2>5 DEF IInv, Distinct, DistinctItems, Sockets
    <2>12. Carried(pipe["async"])' /\ Carried(pipe["sync"])'
      <3>1. \A i \in DOMAIN pipe'[k] : pipe'[k][i] = msg \/ (i \in DOMAIN pipe[k] /\ pipe'[k][i] = pipe[k][i])
        BY <2>2, <2>3
      <3>2. \A j \in {"async", "sync"} : Carried(pipe[j])
        BY DEF IInv
      <3>3. \A j \in {"async", "sync"} : \A i \in DOMAIN pipe'[j] :
              pipe'[j][i].hint # Null /\ pipe'[j][i].data = member[pipe'[j][i].hint]
        <4>1. ASSUME NEW i \in DOMAIN pipe'[k]
              PROVE  pipe'[k][i].hint # Null /\ pipe'[k][i].data = member[pipe'[k][i].hint]
          <5>1. CASE pipe'[k][i] = msg
            BY <1>2, <1>3, <2>2, <5>1
          <5>2. CASE i \in DOMAIN pipe[k] /\ pipe'[k][i] = pipe[k][i]
            BY <3>2, <5>2 DEF Carried
          <5>3. QED
            BY <3>1, <5>1, <5>2
        <4>2. ASSUME NEW j \in {"async", "sync"}, j # k
              PROVE  pipe'[j] = pipe[j] /\ Carried(pipe[j])
          BY <2>3, <3>2, <4>2 DEF Sockets
        <4>3. QED
          BY <4>1, <4>2 DEF Carried
      <3>4. QED
        BY <3>3 DEF Carried
    <2>13. Requests' /\ ReadsLiveMemory'
      BY <1>7, <2>3 DEF IInv, Requests, ReadsLiveMemory, Sockets
    <2>14. QED
      BY <1>5, <2>6, <2>10, <2>11, <2>12, <2>13
  <1>8. CASE Free(Deleted(rspns[k])) /\ UNCHANGED pipe
    <2>1. /\ freed' = freed \union (Deleted(obj) \ {Null}) /\ fault' = fault
      BY <1>2, <1>4, <1>8, FreeLive DEF IInv
    <2>2. freed' \subseteq Addr
      BY <1>2, <1>3, <1>4, <2>1 DEF IInv, TypeOK, Deleted
    <2>3. \A a \in Addr : a \in freed' <=> a \in freed \/ a = obj \/ a = mem
      BY <1>4, <2>1
    <2>4. PICK b : b = [a \in Addr |-> IF a = obj \/ a = mem THEN "freed" ELSE at[a]]
      OBVIOUS
    <2>5. Labelled(b)'
      <3>1. ASSUME NEW a \in Addr
            PROVE  Label(b, a)'
        <4>1. b[a] = IF a = obj \/ a = mem THEN "freed" ELSE at[a]
          BY <2>4
        <4>2. /\ Label(at, a) /\ a # Null
              /\ a = mem => at[a] = "member"
              /\ a = obj => at[a] = k
              /\ a \in freed' <=> a \in freed \/ a = obj \/ a = mem
          BY <1>3, <1>4, <1>6, <2>3
        <4>3. CASE k = "async"
          <5>1. rspns'["async"] = Null /\ rspns'["sync"] = rspns["sync"] /\ rspns["async"] = obj
            BY <1>2, <1>5, <4>3
          <5>2. QED
            BY <1>8, <4>1, <4>2, <4>3, <5>1 DEF Label
        <4>4. CASE k = "sync"
          <5>1. rspns'["sync"] = Null /\ rspns'["async"] = rspns["async"] /\ rspns["sync"] = obj
            BY <1>2, <1>5, <4>4
          <5>2. QED
            BY <1>8, <4>1, <4>2, <4>4, <5>1 DEF Label
        <4>5. QED
          BY <4>3, <4>4
      <3>2. b \in [Addr -> Kinds]
        BY <2>4 DEF Kinds
      <3>3. QED
        BY <3>1, <3>2 DEF Labelled
    <2>6. Members(b)'
      <3>1. ASSUME NEW a \in Addr
            PROVE  /\ b[a] \in Objects <=> at[a] \in Objects /\ a # obj
                   /\ b[a] = "member" <=> at[a] = "member" /\ a # mem
                   /\ b[a] \in Buffers => at[a] \in Buffers
        BY <1>3, <1>4, <1>6, <2>4 DEF Objects, Buffers
      <3>2. UNCHANGED member /\ TypeOK /\ mem = member[obj] /\ at[obj] \in Objects /\ obj \in Addr
        BY <1>2, <1>3 DEF IInv
      <3>3. QED
        BY <1>1, <3>1, <3>2, ObjectGoes
    <2>7. Distinct' /\ Carried(pipe["async"])' /\ Carried(pipe["sync"])'
      BY <1>8 DEF IInv, Distinct, Carried, DistinctItems, DistinctHints
    <2>8. Requests' /\ ReadsLiveMemory'
      BY <1>8, <2>1 DEF IInv, Requests, ReadsLiveMemory
    <2>9. QED
      BY <1>5, <1>8, <2>2, <2>5, <2>6, <2>7, <2>8 DEF Owned, Labelled, IInv, TypeOK
  <1>9. QED
    BY <1>7, <1>8 DEF Send

\* async_work sends an item, or finds that zmq does not take it.
LEMMA SendItemStep == IInv /\ send_item => IInv'
PROOF
  <1> SUFFICES ASSUME IInv, send_item
               PROVE  IInv'
    OBVIOUS
  <1>1. rspns["async"] # Null /\ Send("async")
    BY DEF IInv, Control, send_item
  <1>2. UNCHANGED <<used, member, temp, queue, local, jBuffer, awaits, gaveUp>>
    BY DEF send_item, unitVars, callVars
  <1>3. /\ rspns' \in [{"async", "sync"} -> Refs]
        /\ rspns' = [rspns EXCEPT !["async"] = Null]
        /\ pipe' \in [Sockets -> Seq(Messages)] /\ freed' \subseteq Addr
        /\ Owned' /\ Distinct' /\ Carried(pipe["async"])' /\ Carried(pipe["sync"])'
        /\ Requests' /\ ReadsLiveMemory'
    BY <1>1, <1>2, SendKeeps
  <1>4. TypeOK'
    BY <1>3 DEF IInv, TypeOK, send_item, unitVars, callVars
  <1>5. Control'
    BY <1>3 DEF IInv, TypeOK, Control, send_item, unitVars
  <1>6. QED
    BY <1>3, <1>4, <1>5 DEF IInv

\* sync_work sends a response, or finds that zmq does not take it.
LEMMA SendResponseStep == IInv /\ send_response => IInv'
PROOF
  <1> SUFFICES ASSUME IInv, send_response
               PROVE  IInv'
    OBVIOUS
  <1>1. rspns["sync"] # Null /\ Send("sync")
    BY DEF send_response
  <1>2. UNCHANGED <<used, member, temp, queue, local, jBuffer, awaits, gaveUp>>
    BY DEF send_response, unitVars, callVars, asyncVars
  <1>3. /\ rspns' \in [{"async", "sync"} -> Refs]
        /\ rspns' = [rspns EXCEPT !["sync"] = Null]
        /\ pipe' \in [Sockets -> Seq(Messages)] /\ freed' \subseteq Addr
        /\ Owned' /\ Distinct' /\ Carried(pipe["async"])' /\ Carried(pipe["sync"])'
        /\ Requests' /\ ReadsLiveMemory'
    BY <1>1, <1>2, SendKeeps
  <1>4. TypeOK'
    BY <1>3 DEF IInv, TypeOK, send_response, unitVars, callVars, asyncVars
  <1>5. Control'
    BY <1>3 DEF IInv, TypeOK, Control, send_response, unitVars, asyncVars
  <1>6. QED
    BY <1>3, <1>4, <1>5 DEF IInv

\* When send throws, the message deletes the item and the stack the rest of the batch.
LEMMA SendThrowsStep == IInv /\ send_throws => IInv'
PROOF
  <1> SUFFICES ASSUME IInv, send_throws
               PROVE  IInv'
    OBVIOUS
  <1>1. PICK at \in [Addr -> Kinds] : Labelled(at) /\ Members(at)
    BY DEF IInv, Owned
  <1>2. PICK obj, mem : obj = rspns["async"] /\ mem = member[obj]
    OBVIOUS
  <1>3. obj \in Addr /\ at[obj] = "async" /\ at[obj] \in Objects
    <2>1. obj # Null /\ obj \in Refs
      BY <1>2 DEF IInv, TypeOK, Control, send_throws
    <2>2. obj \in Addr
      BY <2>1, RefFacts
    <2>3. QED
      BY <1>1, <1>2, <2>2 DEF Labelled, Label, Objects
  <1>4. /\ mem \in Refs /\ (mem # Null => mem \in Addr /\ at[mem] = "member")
        /\ Deleted(obj) \intersect freed = {}
        /\ \A a \in Addr : a \in Deleted(obj) \ {Null} <=> a = obj \/ a = mem
    BY <1>1, <1>2, <1>3, DeletedIsLive DEF IInv
  <1>5. Range(local) \subseteq Refs
    BY DEF IInv, TypeOK, Range
  <1>6. Range(local) \intersect freed = {}
    <2>1. \A a \in Addr : a \in Range(local) => a \notin freed
      BY <1>1 DEF Labelled, Label
    <2>2. QED
      BY <2>1 DEF IInv, TypeOK
  <1>7. /\ freed' = freed \union ((Deleted(obj) \union Range(local)) \ {Null}) /\ fault' = fault
    <2>1. (Deleted(obj) \union Range(local)) \intersect freed = {}
      BY <1>4, <1>6
    <2>2. Free(Deleted(obj) \union Range(local))
      BY <1>2 DEF send_throws
    <2>3. QED
      BY <2>1, <2>2, FreeLive DEF IInv
  <1>8. freed' \subseteq Addr
    <2>1. Deleted(obj) \ {Null} \subseteq Addr
      BY <1>2, <1>3, <1>4 DEF Deleted
    <2>2. Range(local) \ {Null} \subseteq Addr
      BY <1>5, RefFacts
    <2>3. QED
      BY <1>7, <2>1, <2>2 DEF IInv, TypeOK
  <1>9. \A a \in Addr : a \in freed' <=> a \in freed \/ a = obj \/ a = mem \/ a \in Range(local)
    <2>1. \A a \in Addr : a # Null
      BY DEF Addr, Null
    <2>2. QED
      BY <1>4, <1>7, <2>1
  <1>10. /\ rspns' \in [{"async", "sync"} -> Refs] /\ rspns'["async"] = Null
         /\ rspns'["sync"] = rspns["sync"] /\ local' = <<>>
    BY NullFacts DEF IInv, TypeOK, send_throws
  <1>11. TypeOK'
    <2>1. local' \in Seq(Refs) /\ ended' \in BOOLEAN
      BY <1>10 DEF send_throws
    <2>2. QED
      BY <1>8, <1>10, <2>1 DEF IInv, TypeOK, send_throws, unitVars, callVars
  <1>12. PICK b : b = [a \in Addr |-> IF a = obj \/ a = mem \/ at[a] = "local" THEN "freed" ELSE at[a]]
    OBVIOUS
  <1>13. Labelled(b)'
    <2>1. ASSUME NEW a \in Addr
          PROVE  Label(b, a)'
      <3>1. /\ Label(at, a) /\ a # Null
            /\ b[a] = IF a = obj \/ a = mem \/ at[a] = "local" THEN "freed" ELSE at[a]
            /\ a = mem => at[a] = "member"
            /\ a = obj => at[a] = "async"
            /\ a \in freed' <=> a \in freed \/ a = obj \/ a = mem \/ a \in Range(local)
        BY <1>1, <1>3, <1>4, <1>9, <1>12 DEF Labelled, Addr, Null
      <3>2. a \notin Range(local')
        BY <1>10 DEF Range
      <3>3. QED
        BY <1>2, <1>10, <3>1, <3>2 DEF Label, send_throws, unitVars, callVars
    <2>2. b \in [Addr -> Kinds]
      BY <1>12 DEF Kinds
    <2>3. QED
      BY <2>1, <2>2 DEF Labelled
  <1>14. Members(b)'
    <2>1. ASSUME NEW a \in Addr
          PROVE  /\ b[a] \in Objects <=> at[a] \in Objects /\ a # obj
                 /\ b[a] = "member" <=> at[a] = "member" /\ a # mem
                 /\ b[a] \in Buffers => at[a] \in Buffers
      <3>1. a # Null
        BY DEF Addr, Null
      <3>2. QED
        BY <1>3, <1>4, <1>12, <3>1 DEF Objects, Buffers
    <2>2. UNCHANGED member /\ TypeOK /\ mem = member[obj] /\ at[obj] \in Objects /\ obj \in Addr
      BY <1>2, <1>3 DEF IInv, send_throws
    <2>3. QED
      BY <1>1, <2>1, <2>2, ObjectGoes
  <1>15. Distinct' /\ Carried(pipe["async"])' /\ Carried(pipe["sync"])'
    BY <1>10 DEF IInv, Distinct, Carried, DistinctItems, DistinctHints, send_throws
  <1>16. Control' /\ Requests' /\ ReadsLiveMemory'
    BY <1>7 DEF IInv, Control, Requests, ReadsLiveMemory, send_throws, callVars
  <1>17. QED
    BY <1>11, <1>13, <1>14, <1>15, <1>16 DEF IInv, Owned, Labelled

----------------------------------------------------------------------------
(* sync_work and the dispatcher.                                           *)

\* A response and its buffer take two fresh addresses.
LEMMA NewResponseStep == IInv /\ new_response => IInv'
PROOF
  <1> SUFFICES ASSUME IInv, new_response
               PROVE  IInv'
    OBVIOUS
  <1>1. PICK at \in [Addr -> Kinds] : Labelled(at) /\ Members(at)
    BY DEF IInv, Owned
  <1>2. PICK obj, mem : obj = used + 1 /\ mem = used + 2
    OBVIOUS
  <1>3. /\ obj \in Addr /\ mem \in Addr /\ mem # obj /\ obj > used /\ mem > used
        /\ obj \in Refs /\ mem \in Refs /\ obj # Null /\ mem # Null
        /\ used \in Nat /\ used' = mem /\ used' \in 0..Size
    BY <1>2, OwnershipAssumption DEF IInv, TypeOK, new_response, New, Addr, Null, Refs
  <1>4. at[obj] = "fresh" /\ at[mem] = "fresh"
    BY <1>1, <1>3 DEF Labelled, Label
  <1>5. /\ rspns["sync"] = Null /\ rspns'["sync"] = obj /\ rspns'["async"] = rspns["async"]
        /\ rspns' \in [{"async", "sync"} -> Refs]
        /\ member' = [member EXCEPT ![obj] = mem] /\ member' \in [Addr -> Refs]
    BY <1>2, <1>3 DEF IInv, TypeOK, new_response
  <1>6. TypeOK'
    BY <1>3, <1>5 DEF IInv, TypeOK, new_response, unitVars, asyncVars, callVars
  <1>7. PICK b : b = [a \in Addr |-> IF a = obj THEN "sync" ELSE IF a = mem THEN "member" ELSE at[a]]
    OBVIOUS
  <1>8. Labelled(b)'
    <2>1. ASSUME NEW a \in Addr
          PROVE  Label(b, a)'
      <3>1. /\ Label(at, a) /\ a # Null
            /\ b[a] = IF a = obj THEN "sync" ELSE IF a = mem THEN "member" ELSE at[a]
        BY <1>1, <1>7 DEF Labelled, Addr, Null
      <3>2. a > used' <=> a > used /\ a # obj /\ a # mem
        BY <1>2, <1>3 DEF Addr
      <3>3. QED
        BY <1>3, <1>4, <1>5, <3>1, <3>2 DEF Label, new_response, unitVars, asyncVars, callVars
    <2>2. b \in [Addr -> Kinds]
      BY <1>7 DEF Kinds, Objects
    <2>3. QED
      BY <2>1, <2>2 DEF Labelled
  <1>9. Members(b)'
    <2>1. ASSUME NEW a \in Addr
          PROVE  /\ b[a] \in Objects <=> at[a] \in Objects \/ a = obj
                 /\ b[a] = "member" <=> at[a] = "member" \/ a = mem
                 /\ b[a] \in Buffers => at[a] \in Buffers
      BY <1>3, <1>4, <1>7 DEF Objects, Buffers
    <2>2. TypeOK /\ at[obj] \in Buffers /\ (mem # Null => at[mem] \in Buffers)
      BY <1>4 DEF IInv, Buffers
    <2>3. /\ obj \in Addr /\ mem \in Refs /\ Members(at) /\ mem # obj
          /\ member' = [member EXCEPT ![obj] = mem]
      BY <1>1, <1>3, <1>5
    <2>4. QED
      BY <2>1, <2>2, <2>3, ObjectComes
  <1>10. Distinct'
    BY DEF IInv, Distinct, DistinctItems, DistinctHints, new_response, asyncVars
  <1>11. Carried(pipe["async"])' /\ Carried(pipe["sync"])'
    <2>1. ASSUME NEW k \in {"async", "sync"}, NEW i \in DOMAIN pipe[k]
          PROVE  pipe[k][i].hint \in Addr /\ pipe[k][i].hint # obj
      <3>1. pipe[k][i] \in Messages /\ pipe[k][i].hint # Null
        BY DEF IInv, TypeOK, Carried, Sockets
      <3>2. pipe[k][i].hint \in Addr
        BY <3>1, RefFacts DEF Messages
      <3>3. pipe[k][i].hint \in Hints(pipe[k])
        BY DEF Hints
      <3>4. QED
        BY <1>1, <1>4, <3>2, <3>3 DEF Labelled, Label
    <2>2. \A a \in Addr : a # obj => member'[a] = member[a]
      BY <1>5 DEF IInv, TypeOK
    <2>3. QED
      BY <2>1, <2>2 DEF IInv, Carried, new_response
  <1>12. Control' /\ Requests' /\ ReadsLiveMemory'
    BY <1>5 DEF IInv, Control, Requests, ReadsLiveMemory, new_response, unitVars, asyncVars, callVars
  <1>13. QED
    BY <1>6, <1>8, <1>9, <1>10, <1>11, <1>12 DEF IInv, Owned, Labelled

\* A request takes a fresh address: it is on the stack while the call lasts, or it is
\* freed at once because the socket expects a reply.
LEMMA CallStep == IInv /\ call => IInv'
PROOF
  <1> SUFFICES ASSUME IInv, call
               PROVE  IInv'
    OBVIOUS
  <1>1. PICK at \in [Addr -> Kinds] : Labelled(at) /\ Members(at)
    BY DEF IInv, Owned
  <1>2. PICK new : new = used + 1
    OBVIOUS
  <1>3. /\ new \in Addr /\ new > used /\ new \in Refs /\ new # Null
        /\ used \in Nat /\ used' = new /\ used' \in 0..Size
        /\ \A a \in Addr : a > used' <=> a > used /\ a # new
    BY <1>2, OwnershipAssumption DEF IInv, TypeOK, call, New, Addr, Null, Refs
  <1>4. at[new] = "fresh"
    BY <1>1, <1>3 DEF Labelled, Label
  <1>5. jBuffer = Null
    BY DEF call
  <1>6. UNCHANGED <<member, temp, queue, local, rspns, unitPc, items, asyncPc, gaveUp, ended>>
    BY DEF call, unitVars, asyncVars
  <1>7. CASE /\ ~awaits /\ awaits' = TRUE /\ jBuffer' = used + 1
             /\ pipe' = [pipe EXCEPT !["req"] = Append(@, [data |-> used + 1, hint |-> Null])]
             /\ UNCHANGED <<freed, fault>>
    <2>1. PICK msg : msg = [data |-> new, hint |-> Null]
      OBVIOUS
    <2>2. msg \in Messages /\ msg.data = new /\ msg.hint = Null
      BY <1>3, <2>1, NullFacts DEF Messages, IInv
    <2>3. pipe["req"] = <<>> /\ pipe'["req"] = Append(<<>>, msg) /\ jBuffer' = new
      BY <1>2, <1>7, <2>1 DEF IInv, Requests, TypeOK, Sockets
    <2>4. pipe'["async"] = pipe["async"] /\ pipe'["sync"] = pipe["sync"]
      BY <1>7 DEF IInv, TypeOK, Sockets
    <2>5. pipe' \in [Sockets -> Seq(Messages)]
      <3>1. pipe'["req"] \in Seq(Messages)
        BY <2>2, <2>3
      <3>2. pipe' = [pipe EXCEPT !["req"] = pipe'["req"]]
        BY <1>7 DEF IInv, TypeOK, Sockets
      <3>3. QED
        BY <3>1, <3>2 DEF IInv, TypeOK
    <2>6. TypeOK'
      <3>1. awaits' \in BOOLEAN
        BY <1>7
      <3>2. QED
        BY <1>3, <1>6, <1>7, <2>3, <2>5, <3>1 DEF IInv, TypeOK
    <2>7. PICK b : b = [a \in Addr |-> IF a = new THEN "jBuffer" ELSE at[a]]
      OBVIOUS
    <2>8. Labelled(b)'
      <3>1. ASSUME NEW a \in Addr
            PROVE  Label(b, a)'
        <4>1. Label(at, a) /\ a # Null /\ b[a] = IF a = new THEN "jBuffer" ELSE at[a]
          BY <1>1, <2>7 DEF Labelled, Addr, Null
        <4>2. QED
          BY <1>3, <1>4, <1>5, <1>6, <1>7, <2>3, <2>4, <4>1 DEF Label
      <3>2. b \in [Addr -> Kinds]
        BY <2>7 DEF Kinds, Buffers
      <3>3. QED
        BY <3>1, <3>2 DEF Labelled
    <2>9. Members(b)'
      <3>1. ASSUME NEW a \in Addr
            PROVE  /\ b[a] \in Objects <=> at[a] \in Objects
                   /\ b[a] = "member" <=> at[a] = "member"
                   /\ b[a] \in Buffers => at[a] \in Buffers
        BY <1>4, <2>7 DEF Objects, Buffers
      <3>2. UNCHANGED member /\ TypeOK
        BY <1>6 DEF IInv
      <3>3. QED
        BY <1>1, <3>1, <3>2, ObjectsStay
    <2>10. Distinct' /\ Carried(pipe["async"])' /\ Carried(pipe["sync"])'
      BY <1>6, <2>4 DEF IInv, Distinct, Carried, DistinctItems, DistinctHints
    <2>11. Control'
      BY <1>6 DEF IInv, Control
    <2>12. Requests' /\ ReadsLiveMemory'
      <3>1. \A i \in DOMAIN pipe'["req"] : pipe'["req"][i] = msg
        BY <2>2, <2>3
      <3>2. QED
        BY <1>3, <1>6, <1>7, <2>2, <2>3, <3>1 DEF IInv, Requests, ReadsLiveMemory
    <2>13. QED
      BY <2>6, <2>8, <2>9, <2>10, <2>11, <2>12 DEF IInv, Owned, Labelled
  <1>8. CASE awaits /\ Free({used + 1}) /\ UNCHANGED <<awaits, jBuffer, pipe>>
    <2>1. new \notin freed
      BY <1>1, <1>3, <1>4 DEF Labelled, Label
    <2>2. freed' = freed \union {new} /\ fault' = fault
      BY <1>2, <1>3, <1>8, <2>1, FreeLive DEF IInv
    <2>3. TypeOK'
      <3>1. freed' \subseteq Addr
        BY <1>3, <2>2 DEF IInv, TypeOK
      <3>2. QED
        BY <1>3, <1>6, <1>8, <3>1 DEF IInv, TypeOK
    <2>4. PICK b : b = [a \in Addr |-> IF a = new THEN "freed" ELSE at[a]]
      OBVIOUS
    <2>5. Labelled(b)'
      <3>1. ASSUME NEW a \in Addr
            PROVE  Label(b, a)'
        <4>1. Label(at, a) /\ a # Null /\ b[a] = IF a = new THEN "freed" ELSE at[a]
          BY <1>1, <2>4 DEF Labelled, Addr, Null
        <4>2. QED
          BY <1>3, <1>4, <1>6, <1>8, <2>2, <4>1 DEF Label
      <3>2. b \in [Addr -> Kinds]
        BY <2>4 DEF Kinds
      <3>3. QED
        BY <3>1, <3>2 DEF Labelled
    <2>6. Members(b)'
      <3>1. ASSUME NEW a \in Addr
            PROVE  /\ b[a] \in Objects <=> at[a] \in Objects
                   /\ b[a] = "member" <=> at[a] = "member"
                   /\ b[a] \in Buffers => at[a] \in Buffers
        BY <1>4, <2>4 DEF Objects, Buffers
      <3>2. UNCHANGED member /\ TypeOK
        BY <1>6 DEF IInv
      <3>3. QED
        BY <1>1, <3>1, <3>2, ObjectsStay
    <2>7. Distinct' /\ Carried(pipe["async"])' /\ Carried(pipe["sync"])'
      BY <1>6, <1>8 DEF IInv, Distinct, Carried, DistinctItems, DistinctHints
    <2>8. Control' /\ Requests' /\ ReadsLiveMemory'
      BY <1>6, <1>8, <2>2 DEF IInv, Control, Requests, ReadsLiveMemory
    <2>9. QED
      BY <2>3, <2>5, <2>6, <2>7, <2>8 DEF IInv, Owned, Labelled
  <1>9. QED
    BY <1>7, <1>8 DEF call

\* A call that ends frees its request, which nothing else owns.
LEMMA RequestGoes ==
  ASSUME IInv, jBuffer # Null, Free({jBuffer}), jBuffer' = Null,
         UNCHANGED <<used, member, temp, queue, local, rspns, pipe>>
  PROVE  freed' \subseteq Addr /\ fault' = fault /\ Owned'
PROOF
  <1>1. PICK at \in [Addr -> Kinds] : Labelled(at) /\ Members(at)
    BY DEF IInv, Owned
  <1>2. PICK old : old = jBuffer
    OBVIOUS
  <1>3. old \in Addr
    BY <1>2, RefFacts DEF IInv, TypeOK
  <1>4. at[old] = "jBuffer" /\ old \notin freed
    BY <1>1, <1>2, <1>3 DEF Labelled, Label
  <1>5. freed' = freed \union {old} /\ fault' = fault
    BY <1>2, <1>4, FreeLive DEF IInv
  <1>6. freed' \subseteq Addr
    BY <1>3, <1>5 DEF IInv, TypeOK
  <1>7. PICK b : b = [a \in Addr |-> IF a = old THEN "freed" ELSE at[a]]
    OBVIOUS
  <1>8. Labelled(b)'
    <2>1. ASSUME NEW a \in Addr
          PROVE  Label(b, a)'
      <3>1. Label(at, a) /\ a # Null /\ b[a] = IF a = old THEN "freed" ELSE at[a]
        BY <1>1, <1>7 DEF Labelled, Addr, Null
      <3>2. QED
        BY <1>2, <1>4, <1>5, <3>1 DEF Label
    <2>2. b \in [Addr -> Kinds]
      BY <1>7 DEF Kinds
    <2>3. QED
      BY <2>1, <2>2 DEF Labelled
  <1>9. Members(b)'
    <2>1. ASSUME NEW a \in Addr
          PROVE  /\ b[a] \in Objects <=> at[a] \in Objects
                 /\ b[a] = "member" <=> at[a] = "member"
                 /\ b[a] \in Buffers => at[a] \in Buffers
      BY <1>4, <1>7 DEF Objects, Buffers
    <2>2. UNCHANGED member /\ TypeOK
      BY DEF IInv
    <2>3. QED
      BY <1>1, <2>1, <2>2, ObjectsStay
  <1>10. QED
    BY <1>5, <1>6, <1>8, <1>9 DEF Owned, Labelled

\* A reply came, after zmq transmitted the request.
LEMMA CallReturnsStep == IInv /\ call_returns => IInv'
PROOF
  <1> SUFFICES ASSUME IInv, call_returns
               PROVE  IInv'
    OBVIOUS
  <1>1. freed' \subseteq Addr /\ fault' = fault /\ Owned'
    BY RequestGoes DEF call_returns, unitVars, asyncVars
  <1>2. TypeOK'
    <2>1. awaits' \in BOOLEAN
      BY DEF call_returns
    <2>2. QED
      BY <1>1, <2>1, NullFacts DEF IInv, TypeOK, call_returns, unitVars, asyncVars
  <1>3. Distinct' /\ Carried(pipe["async"])' /\ Carried(pipe["sync"])'
    BY DEF IInv, Distinct, Carried, DistinctItems, DistinctHints, call_returns, asyncVars
  <1>4. Control' /\ ReadsLiveMemory'
    BY <1>1 DEF IInv, Control, ReadsLiveMemory, call_returns, unitVars, asyncVars
  <1>5. Requests'
    <2>1. pipe'["req"] = <<>> /\ jBuffer' = Null
      BY DEF call_returns
    <2>2. QED
      BY <2>1 DEF Requests
  <1>6. QED
    BY <1>1, <1>2, <1>3, <1>4, <1>5 DEF IInv

\* A signal ended the call; if zmq still holds the request, that is remembered.
LEMMA CallInterruptedStep == IInv /\ call_interrupted => IInv'
PROOF
  <1> SUFFICES ASSUME IInv, call_interrupted
               PROVE  IInv'
    OBVIOUS
  <1>1. freed' \subseteq Addr /\ fault' = fault /\ Owned'
    BY RequestGoes DEF call_interrupted, unitVars, asyncVars
  <1>2. TypeOK'
    <2>1. gaveUp' \in BOOLEAN
      BY DEF call_interrupted
    <2>2. QED
      BY <1>1, <2>1, NullFacts DEF IInv, TypeOK, call_interrupted, unitVars, asyncVars
  <1>3. Distinct' /\ Carried(pipe["async"])' /\ Carried(pipe["sync"])'
    BY DEF IInv, Distinct, Carried, DistinctItems, DistinctHints, call_interrupted, asyncVars
  <1>4. Control' /\ ReadsLiveMemory'
    <2>1. Control'
      BY DEF IInv, Control, call_interrupted, unitVars, asyncVars
    <2>2. (gaveUp => gaveUp') /\ fault \subseteq {"use after free"} /\ (~gaveUp => fault = {})
      BY DEF IInv, ReadsLiveMemory, call_interrupted
    <2>3. QED
      BY <1>1, <2>1, <2>2 DEF ReadsLiveMemory
  <1>5. Requests'
    <2>1. /\ pipe' = pipe /\ awaits' = awaits /\ jBuffer' = Null
          /\ ~gaveUp' => pipe["req"] = <<>>
      BY DEF call_interrupted
    <2>2. \A i \in DOMAIN pipe["req"] : pipe["req"] # <<>>
      OBVIOUS
    <2>3. QED
      BY <2>1, <2>2 DEF IInv, Requests
  <1>6. QED
    BY <1>1, <1>2, <1>3, <1>4, <1>5 DEF IInv

----------------------------------------------------------------------------
(* zmq's threads.                                                          *)

\* A message of one of the two servers leaves its pipe, and its object goes.
LEMMA TransmitServed ==
  ASSUME IInv, NEW k \in {"async", "sync"}, transmit(k)
  PROVE  IInv'
PROOF
  <1>1. PICK at \in [Addr -> Kinds] : Labelled(at) /\ Members(at)
    BY DEF IInv, Owned
  <1>2. PICK msg : msg = Head(pipe[k])
    OBVIOUS
  <1>3. PICK obj, mem : obj = msg.hint /\ mem = member[obj]
    OBVIOUS
  <1>4. /\ k \in Sockets /\ pipe[k] \in Seq(Messages) /\ pipe[k] # <<>>
        /\ DistinctHints(pipe[k]) /\ Carried(pipe[k])
    BY DEF IInv, TypeOK, Sockets, Distinct, transmit
  <1>5. /\ Tail(pipe[k]) \in Seq(Messages) /\ msg \in Messages /\ msg = pipe[k][1]
        /\ 1 \in DOMAIN pipe[k] /\ obj \in Hints(pipe[k])
        /\ \A a \in Addr : a \in Hints(Tail(pipe[k])) <=> a \in Hints(pipe[k]) /\ a # obj
        /\ DistinctHints(Tail(pipe[k]))
        /\ \A i \in DOMAIN Tail(pipe[k]) : i + 1 \in DOMAIN pipe[k] /\ Tail(pipe[k])[i] = pipe[k][i + 1]
    BY <1>2, <1>3, <1>4, TailHints
  <1>6. obj \in Addr /\ obj # Null /\ msg.data = mem
    <2>1. obj # Null /\ msg.data = mem
      BY <1>3, <1>4, <1>5 DEF Carried
    <2>2. QED
      BY <1>3, <1>5, <2>1, RefFacts DEF Messages
  <1>7. at[obj] = (IF k = "async" THEN "pipe async" ELSE "pipe sync") /\ at[obj] \in Objects
    BY <1>1, <1>5, <1>6 DEF Labelled, Label, Objects
  <1>8. /\ mem \in Refs /\ (mem # Null => mem \in Addr /\ at[mem] = "member")
        /\ mem \notin freed /\ Deleted(obj) \intersect freed = {}
        /\ \A a \in Addr : a \in Deleted(obj) \ {Null} <=> a = obj \/ a = mem
    <2>1. TypeOK /\ Labelled(at) /\ Members(at) /\ obj \in Addr /\ at[obj] \in Objects
      BY <1>1, <1>6, <1>7 DEF IInv
    <2>2. QED
      BY <1>3, <2>1, DeletedIsLive
  <1>9. freed' = freed \union (Deleted(obj) \ {Null}) /\ fault' = fault
    <2>1. /\ freed' = freed \union ((IF msg.hint = Null THEN {} ELSE Deleted(msg.hint)) \ {Null})
          /\ fault' = fault \union Uses(msg)
               \union IF (IF msg.hint = Null THEN {} ELSE Deleted(msg.hint)) \intersect freed = {}
                      THEN {} ELSE {"double free"}
      BY <1>2 DEF transmit
    <2>2. Uses(msg) = {}
      BY <1>6, <1>8 DEF Uses
    <2>3. QED
      BY <1>3, <1>6, <1>8, <2>1, <2>2
  <1>10. freed' \subseteq Addr
    BY <1>3, <1>6, <1>8, <1>9 DEF IInv, TypeOK, Deleted
  <1>11. \A a \in Addr : a \in freed' <=> a \in freed \/ a = obj \/ a = mem
    BY <1>8, <1>9
  <1>12. /\ pipe'[k] = Tail(pipe[k]) /\ pipe' \in [Sockets -> Seq(Messages)]
         /\ \A j \in Sockets : j # k => pipe'[j] = pipe[j]
    BY <1>4, <1>5 DEF transmit, IInv, TypeOK
  <1>13. UNCHANGED <<used, member, unitPc, temp, items, queue, asyncPc, local, rspns, jBuffer,
                     awaits, gaveUp, ended>>
    BY DEF transmit, unitVars, asyncVars, callVars
  <1>14. TypeOK'
    BY <1>10, <1>12, <1>13 DEF IInv, TypeOK
  <1>15. PICK b : b = [a \in Addr |-> IF a = obj \/ a = mem THEN "freed" ELSE at[a]]
    OBVIOUS
  <1>16. Labelled(b)'
    <2>1. ASSUME NEW a \in Addr
          PROVE  Label(b, a)'
      <3>1. /\ Label(at, a) /\ a # Null
            /\ b[a] = IF a = obj \/ a = mem THEN "freed" ELSE at[a]
            /\ a = mem => at[a] = "member"
            /\ a = obj => at[a] = IF k = "async" THEN "pipe async" ELSE "pipe sync"
            /\ a \in freed' <=> a \in freed \/ a = obj \/ a = mem
            /\ a \in Hints(pipe'[k]) <=> a \in Hints(pipe[k]) /\ a # obj
        <4>1. Label(at, a) /\ a # Null
          BY <1>1 DEF Labelled, Addr, Null
        <4>2. b[a] = IF a = obj \/ a = mem THEN "freed" ELSE at[a]
          BY <1>15
        <4>3. QED
          BY <1>5, <1>7, <1>8, <1>11, <1>12, <4>1, <4>2
      <3>2. CASE k = "async"
        <4>1. pipe'["sync"] = pipe["sync"]
          BY <1>12, <3>2 DEF Sockets
        <4>2. QED
          BY <1>13, <3>1, <3>2, <4>1 DEF Label
      <3>3. CASE k = "sync"
        <4>1. pipe'["async"] = pipe["async"]
          BY <1>12, <3>3 DEF Sockets
        <4>2. QED
          BY <1>13, <3>1, <3>3, <4>1 DEF Label
      <3>4. QED
        BY <3>2, <3>3
    <2>2. b \in [Addr -> Kinds]
      BY <1>15 DEF Kinds
    <2>3. QED
      BY <2>1, <2>2 DEF Labelled
  <1>17. Members(b)'
    <2>1. ASSUME NEW a \in Addr
          PROVE  /\ b[a] \in Objects <=> at[a] \in Objects /\ a # obj
                 /\ b[a] = "member" <=> at[a] = "member" /\ a # mem
                 /\ b[a] \in Buffers => at[a] \in Buffers
      <3>1. /\ b[a] = IF a = obj \/ a = mem THEN "freed" ELSE at[a]
            /\ a = mem => at[a] = "member"
            /\ a = obj => at[a] \in Objects
        BY <1>7, <1>8, <1>15 DEF Addr, Null
      <3>2. QED
        BY <3>1 DEF Objects, Buffers
    <2>2. UNCHANGED member /\ TypeOK /\ mem = member[obj] /\ at[obj] \in Objects /\ obj \in Addr
      BY <1>3, <1>6, <1>7, <1>13 DEF IInv
    <2>3. QED
      BY <1>1, <2>1, <2>2, ObjectGoes
  <1>18. Distinct'
    BY <1>5, <1>12, <1>13 DEF IInv, Distinct, DistinctItems, Sockets
  <1>19. Carried(pipe["async"])' /\ Carried(pipe["sync"])'
    <2>1. ASSUME NEW j \in {"async", "sync"}, NEW i \in DOMAIN pipe'[j]
          PROVE  pipe'[j][i].hint # Null /\ pipe'[j][i].data = member[pipe'[j][i].hint]
      <3>1. CASE j = k
        <4>1. i + 1 \in DOMAIN pipe[k] /\ pipe'[j][i] = pipe[k][i + 1]
          BY <1>5, <1>12, <3>1
        <4>2. QED
          BY <1>4, <4>1 DEF Carried
      <3>2. CASE j # k
        <4>1. pipe'[j] = pipe[j] /\ Carried(pipe[j])
          BY <1>12, <3>2 DEF IInv, Sockets
        <4>2. QED
          BY <4>1 DEF Carried
      <3>3. QED
        BY <3>1, <3>2
    <2>2. QED
      BY <1>13, <2>1 DEF Carried
  <1>20. Control' /\ ReadsLiveMemory'
    BY <1>9, <1>13 DEF IInv, Control, ReadsLiveMemory
  <1>21. Requests'
    <2>1. pipe'["req"] = pipe["req"]
      BY <1>12 DEF Sockets
    <2>2. QED
      BY <1>13, <2>1 DEF IInv, Requests
  <1>22. QED
    BY <1>14, <1>16, <1>17, <1>18, <1>19, <1>20, <1>21 DEF IInv, Owned, Labelled

\* A request for the dispatcher leaves its pipe; it is no longer there only if its
\* call was given up.
LEMMA TransmitRequest ==
  ASSUME IInv, transmit("req")
  PROVE  IInv'
PROOF
  <1>1. PICK msg : msg = Head(pipe["req"])
    OBVIOUS
  <1>2. pipe["req"] \in Seq(Messages) /\ pipe["req"] # <<>>
    BY DEF IInv, TypeOK, Sockets, transmit
  <1>3. /\ Tail(pipe["req"]) \in Seq(Messages) /\ msg = pipe["req"][1] /\ 1 \in DOMAIN pipe["req"]
        /\ \A i \in DOMAIN Tail(pipe["req"]) :
             i + 1 \in DOMAIN pipe["req"] /\ Tail(pipe["req"])[i] = pipe["req"][i + 1]
    BY <1>1, <1>2, TailHints
  <1>4. /\ msg.hint = Null /\ (~gaveUp => msg.data = jBuffer /\ jBuffer # Null)
    BY <1>3 DEF IInv, Requests
  <1>5. freed' = freed /\ fault' = fault \union Uses(msg)
    <2>1. /\ freed' = freed \union ((IF msg.hint = Null THEN {} ELSE Deleted(msg.hint)) \ {Null})
          /\ fault' = fault \union Uses(msg)
               \union IF (IF msg.hint = Null THEN {} ELSE Deleted(msg.hint)) \intersect freed = {}
                      THEN {} ELSE {"double free"}
      BY <1>1 DEF transmit
    <2>2. QED
      BY <1>4, <2>1
  <1>6. ~gaveUp => Uses(msg) = {}
    <2>1. PICK at \in [Addr -> Kinds] : Labelled(at) /\ Members(at)
      BY DEF IInv, Owned
    <2>2. ASSUME ~gaveUp
          PROVE  msg.data \notin freed
      <3>1. msg.data = jBuffer /\ jBuffer \in Addr
        BY <1>4, <2>2, RefFacts DEF IInv, TypeOK
      <3>2. QED
        BY <2>1, <3>1 DEF Labelled, Label
    <2>3. QED
      BY <2>2 DEF Uses
  <1>7. /\ pipe'["req"] = Tail(pipe["req"]) /\ pipe' \in [Sockets -> Seq(Messages)]
        /\ pipe'["async"] = pipe["async"] /\ pipe'["sync"] = pipe["sync"]
    BY <1>3 DEF transmit, IInv, TypeOK, Sockets
  <1>8. UNCHANGED <<used, member, unitPc, temp, items, queue, asyncPc, local, rspns, jBuffer,
                    awaits, gaveUp, ended>>
    BY DEF transmit, unitVars, asyncVars, callVars
  <1>9. TypeOK'
    BY <1>5, <1>7, <1>8 DEF IInv, TypeOK
  <1>10. Owned'
    <2>1. PICK at \in [Addr -> Kinds] : Labelled(at) /\ Members(at)
      BY DEF IInv, Owned
    <2>2. Labelled(at)' /\ Members(at)'
      BY <1>5, <1>7, <1>8, <2>1 DEF Labelled, Label, Members
    <2>3. QED
      BY <2>2 DEF Owned
  <1>11. Distinct' /\ Carried(pipe["async"])' /\ Carried(pipe["sync"])'
    BY <1>7, <1>8 DEF IInv, Distinct, DistinctItems, Carried
  <1>12. Control'
    BY <1>8 DEF IInv, Control
  <1>13. ReadsLiveMemory'
    <2>1. Uses(msg) \subseteq {"use after free"}
      BY DEF Uses
    <2>2. QED
      BY <1>5, <1>6, <1>8, <2>1 DEF IInv, ReadsLiveMemory
  <1>14. Requests'
    <2>1. awaits
      BY <1>2 DEF IInv, Requests
    <2>2. QED
      BY <1>3, <1>7, <1>8, <2>1 DEF IInv, Requests
  <1>15. QED
    BY <1>9, <1>10, <1>11, <1>12, <1>13, <1>14 DEF IInv

----------------------------------------------------------------------------
(* The invariant.                                                          *)

\* Nothing is given out when the process starts.
LEMMA InitIInv == Init => IInv
PROOF
  <1> SUFFICES ASSUME Init
               PROVE  IInv
    OBVIOUS
  <1>1. /\ awaits \in BOOLEAN /\ gaveUp \in BOOLEAN /\ ended \in BOOLEAN
    BY Zenon DEF Init
  <1>2. /\ pipe \in [Sockets -> Seq(Messages)] /\ pipe["async"] = <<>> /\ pipe["sync"] = <<>>
        /\ pipe["req"] = <<>>
    BY DEF Init, Sockets
  <1>3. Null \in Refs /\ Null \notin Addr
    BY OwnershipAssumption DEF Refs, Null, Addr
  <1>4. TypeOK
    <2>1. queue \in Seq(Refs) /\ local \in Seq(Refs)
      BY DEF Init
    <2>2. used \in 0..Size /\ items \in Nat
      BY OwnershipAssumption DEF Init
    <2>3. QED
      BY <1>1, <1>2, <1>3, <2>1, <2>2 DEF Init, TypeOK
  <1>5. Owned
    <2>1. PICK at : at = [a \in Addr |-> "fresh"]
      OBVIOUS
    <2>2. Labelled(at)
      <3>1. ASSUME NEW a \in Addr
            PROVE  Label(at, a)
        <4>1. a \notin Range(<<>>) /\ a \notin Hints(<<>>) /\ a > used /\ a # Null
          BY DEF Range, Hints, Addr, Init, Null
        <4>2. QED
          BY <1>2, <2>1, <4>1 DEF Label, Init
      <3>2. QED
        BY <2>1, <3>1 DEF Labelled, Kinds, Buffers
    <2>3. Members(at)
      <3>1. \A a \in Addr : at[a] \notin Objects /\ at[a] # "member" /\ member[a] = Null
        BY <2>1 DEF Objects, Init
      <3>2. QED
        BY <3>1 DEF Members
    <2>4. QED
      BY <2>2, <2>3 DEF Owned, Labelled
  <1>6. Distinct /\ Carried(pipe["async"]) /\ Carried(pipe["sync"]) /\ Requests
    BY <1>2 DEF Init, Distinct, DistinctItems, DistinctHints, Carried, Requests
  <1>7. Control /\ ReadsLiveMemory
    BY DEF Init, Control, ReadsLiveMemory
  <1>8. QED
    BY <1>4, <1>5, <1>6, <1>7 DEF IInv

\* Every step keeps the invariant.
LEMMA NextIInv == IInv /\ [Next]_vars => IInv'
PROOF
  <1> SUFFICES ASSUME IInv, [Next]_vars
               PROVE  IInv'
    OBVIOUS
  <1>1. CASE buffer_item
    BY <1>1, BufferItemStep
  <1>2. CASE push
    BY <1>2, PushStep
  <1>3. CASE destroy_temp
    BY <1>3, DestroyTempStep
  <1>4. CASE pop_all
    BY <1>4, PopAllStep
  <1>5. CASE move_front
    BY <1>5, MoveFrontStep
  <1>6. CASE pop
    BY <1>6, PopStep
  <1>7. CASE send_item
    BY <1>7, SendItemStep
  <1>8. CASE send_throws
    BY <1>8, SendThrowsStep
  <1>9. CASE batch_done
    BY <1>9, BatchDoneStep
  <1>10. CASE new_response
    BY <1>10, NewResponseStep
  <1>11. CASE send_response
    BY <1>11, SendResponseStep
  <1>12. CASE call
    BY <1>12, CallStep
  <1>13. CASE call_returns
    BY <1>13, CallReturnsStep
  <1>14. CASE call_interrupted
    BY <1>14, CallInterruptedStep
  <1>15. ASSUME NEW k \in Sockets, transmit(k)
         PROVE  IInv'
    <2>1. CASE k \in {"async", "sync"}
      BY <1>15, <2>1, TransmitServed
    <2>2. CASE k = "req"
      BY <1>15, <2>2, TransmitRequest
    <2>3. QED
      BY <2>1, <2>2 DEF Sockets
  <1>16. CASE UNCHANGED vars
    <2>1. TypeOK' /\ Distinct' /\ Carried(pipe["async"])' /\ Carried(pipe["sync"])'
      BY <1>16 DEF IInv, TypeOK, Distinct, DistinctItems, DistinctHints, Carried, vars, unitVars,
                   asyncVars, callVars
    <2>2. Owned'
      BY <1>16, OwnersStay DEF IInv, vars, unitVars, asyncVars, callVars
    <2>3. Control' /\ Requests' /\ ReadsLiveMemory'
      BY <1>16 DEF IInv, Control, Requests, ReadsLiveMemory, vars, unitVars, asyncVars, callVars
    <2>4. QED
      BY <2>1, <2>2, <2>3 DEF IInv
  <1>17. QED
    BY <1>1, <1>2, <1>3, <1>4, <1>5, <1>6, <1>7, <1>8, <1>9, <1>10, <1>11, <1>12, <1>13,
       <1>14, <1>15, <1>16 DEF Next

\* The inductive invariant holds in every state.
THEOREM OwnershipInvariant == Spec => []IInv
PROOF
  <1>1. QED
    BY InitIInv, NextIInv, PTL DEF Spec

\* ReadsLiveMemory for any number of addresses and of items: zmq reads freed memory
\* only after a call of the dispatcher was interrupted, and nothing is freed twice.
THEOREM OwnershipReadsLiveMemory == Spec => []ReadsLiveMemory
PROOF
  <1>1. IInv => ReadsLiveMemory
    BY DEF IInv
  <1>2. QED
    BY <1>1, OwnershipInvariant, PTL

----------------------------------------------------------------------------
(* One owner.                                                              *)

\* The place of an address that is not Null agrees with the address's label.
RootOf(at, r, a) ==
  \/ at[a] = "temp" /\ r = <<"temp", 1, a>>
  \/ at[a] = "jBuffer" /\ r = <<"jBuffer", 1, a>>
  \/ at[a] = "queue" /\ \E i \in DOMAIN queue : queue[i] = a /\ r = <<"queue", i, a>>
  \/ at[a] = "local" /\ \E i \in DOMAIN local : local[i] = a /\ r = <<"local", i, a>>
  \/ at[a] = "async" /\ r = <<"rspns", "async", a>>
  \/ at[a] = "sync" /\ r = <<"rspns", "sync", a>>
  \/ at[a] = "pipe async" /\ \E i \in DOMAIN pipe["async"] :
                               pipe["async"][i].hint = a /\ r = <<"async", i, a>>
  \/ at[a] = "pipe sync" /\ \E i \in DOMAIN pipe["sync"] :
                               pipe["sync"][i].hint = a /\ r = <<"sync", i, a>>

\* The places of Roots, one by one.
LEMMA RootCases ==
  ASSUME TypeOK, NEW r
  PROVE  r \in Roots <=>
           \/ r = <<"temp", 1, temp>> \/ r = <<"jBuffer", 1, jBuffer>>
           \/ \E i \in DOMAIN queue : r = <<"queue", i, queue[i]>>
           \/ \E i \in DOMAIN local : r = <<"local", i, local[i]>>
           \/ r = <<"rspns", "async", rspns["async"]>> \/ r = <<"rspns", "sync", rspns["sync"]>>
           \/ \E k \in Sockets : \E i \in DOMAIN pipe[k] : r = <<k, i, pipe[k][i].hint>>
PROOF
  <1>1. DOMAIN rspns = {"async", "sync"}
    BY DEF TypeOK
  <1>2. r \in {<<"rspns", k, rspns[k]>> : k \in DOMAIN rspns} <=>
          r = <<"rspns", "async", rspns["async"]>> \/ r = <<"rspns", "sync", rspns["sync"]>>
    BY <1>1
  <1>3. r \in UNION {{<<k, i, pipe[k][i].hint>> : i \in DOMAIN pipe[k]} : k \in Sockets} <=>
          \E k \in Sockets : \E i \in DOMAIN pipe[k] : r = <<k, i, pipe[k][i].hint>>
    OBVIOUS
  <1>4. QED
    BY <1>2, <1>3 DEF Roots

\* A place that holds an address is the one its label names.
LEMMA RootIsLabelled ==
  ASSUME IInv, NEW at \in [Addr -> Kinds], Labelled(at), NEW a \in Addr, NEW r \in Roots, r[3] = a
  PROVE  RootOf(at, r, a)
PROOF
  <1>1. Label(at, a) /\ TypeOK
    BY DEF Labelled, IInv
  <1>2. CASE r = <<"temp", 1, temp>>
    BY <1>1, <1>2 DEF Label, RootOf
  <1>3. CASE r = <<"jBuffer", 1, jBuffer>>
    BY <1>1, <1>3 DEF Label, RootOf
  <1>4. ASSUME NEW i \in DOMAIN queue, r = <<"queue", i, queue[i]>>
        PROVE  RootOf(at, r, a)
    <2>1. a = queue[i] /\ a \in Range(queue)
      BY <1>4 DEF Range
    <2>2. QED
      BY <1>1, <1>4, <2>1 DEF Label, RootOf
  <1>5. ASSUME NEW i \in DOMAIN local, r = <<"local", i, local[i]>>
        PROVE  RootOf(at, r, a)
    <2>1. a = local[i] /\ a \in Range(local)
      BY <1>5 DEF Range
    <2>2. QED
      BY <1>1, <1>5, <2>1 DEF Label, RootOf
  <1>6. CASE r = <<"rspns", "async", rspns["async"]>>
    BY <1>1, <1>6 DEF Label, RootOf
  <1>7. CASE r = <<"rspns", "sync", rspns["sync"]>>
    BY <1>1, <1>7 DEF Label, RootOf
  <1>8. ASSUME NEW k \in Sockets, NEW i \in DOMAIN pipe[k], r = <<k, i, pipe[k][i].hint>>
        PROVE  RootOf(at, r, a)
    <2>1. a = pipe[k][i].hint /\ a \in Hints(pipe[k]) /\ a # Null
      BY <1>8 DEF Hints, Addr, Null
    <2>2. k # "req"
      BY <2>1 DEF IInv, Requests
    <2>3. CASE k = "async"
      BY <1>1, <1>8, <2>1, <2>3 DEF Label, RootOf
    <2>4. CASE k = "sync"
      BY <1>1, <1>8, <2>1, <2>4 DEF Label, RootOf
    <2>5. QED
      BY <2>2, <2>3, <2>4 DEF Sockets
  <1>9. QED
    BY <1>1, <1>2, <1>3, <1>4, <1>5, <1>6, <1>7, <1>8, RootCases

\* An address that is neither fresh nor freed nor a member is in exactly one place.
LEMMA OneRoot ==
  ASSUME IInv, NEW at \in [Addr -> Kinds], Labelled(at), NEW a \in Addr,
         at[a] \notin {"fresh", "freed", "member"}
  PROVE  \E r \in Roots : r[3] = a /\ \A q \in Roots : q[3] = a => q = r
PROOF
  <1>1. Label(at, a) /\ TypeOK /\ a # Null /\ at[a] \in Kinds
    BY DEF Labelled, IInv, Addr, Null
  <1>2. PICK r : r \in Roots /\ r[3] = a
    <2>1. CASE at[a] = "temp"
      <3>1. <<"temp", 1, temp>> \in Roots /\ temp = a
        BY <1>1, <2>1, RootCases DEF Label
      <3>2. QED
        BY <3>1
    <2>2. CASE at[a] = "jBuffer"
      <3>1. <<"jBuffer", 1, jBuffer>> \in Roots /\ jBuffer = a
        BY <1>1, <2>2, RootCases DEF Label
      <3>2. QED
        BY <3>1
    <2>3. CASE at[a] = "queue"
      <3>1. PICK i \in DOMAIN queue : queue[i] = a
        BY <1>1, <2>3 DEF Label, Range
      <3>2. <<"queue", i, queue[i]>> \in Roots
        BY <1>1, RootCases
      <3>3. QED
        BY <3>1, <3>2
    <2>4. CASE at[a] = "local"
      <3>1. PICK i \in DOMAIN local : local[i] = a
        BY <1>1, <2>4 DEF Label, Range
      <3>2. <<"local", i, local[i]>> \in Roots
        BY <1>1, RootCases
      <3>3. QED
        BY <3>1, <3>2
    <2>5. CASE at[a] = "async"
      <3>1. <<"rspns", "async", rspns["async"]>> \in Roots /\ rspns["async"] = a
        BY <1>1, <2>5, RootCases DEF Label
      <3>2. QED
        BY <3>1
    <2>6. CASE at[a] = "sync"
      <3>1. <<"rspns", "sync", rspns["sync"]>> \in Roots /\ rspns["sync"] = a
        BY <1>1, <2>6, RootCases DEF Label
      <3>2. QED
        BY <3>1
    <2>7. CASE at[a] = "pipe async"
      <3>1. PICK i \in DOMAIN pipe["async"] : pipe["async"][i].hint = a
        BY <1>1, <2>7 DEF Label, Hints
      <3>2. <<"async", i, pipe["async"][i].hint>> \in Roots
        BY <1>1, RootCases DEF Sockets
      <3>3. QED
        BY <3>1, <3>2
    <2>8. CASE at[a] = "pipe sync"
      <3>1. PICK i \in DOMAIN pipe["sync"] : pipe["sync"][i].hint = a
        BY <1>1, <2>8 DEF Label, Hints
      <3>2. <<"sync", i, pipe["sync"][i].hint>> \in Roots
        BY <1>1, RootCases DEF Sockets
      <3>3. QED
        BY <3>1, <3>2
    <2>9. QED
      BY <1>1, <2>1, <2>2, <2>3, <2>4, <2>5, <2>6, <2>7, <2>8 DEF Kinds, Objects, Buffers
  <1>3. ASSUME NEW q \in Roots, q[3] = a
        PROVE  q = r
    <2>1. RootOf(at, r, a) /\ RootOf(at, q, a)
      BY <1>2, <1>3, RootIsLabelled
    <2>2. CASE at[a] \in {"temp", "jBuffer", "async", "sync"}
      <3>1. CASE at[a] = "temp"
        BY <2>1, <3>1 DEF RootOf
      <3>2. CASE at[a] = "jBuffer"
        BY <2>1, <3>2 DEF RootOf
      <3>3. CASE at[a] = "async"
        BY <2>1, <3>3 DEF RootOf
      <3>4. CASE at[a] = "sync"
        BY <2>1, <3>4 DEF RootOf
      <3>5. QED
        BY <2>2, <3>1, <3>2, <3>3, <3>4
    <2>3. CASE at[a] = "queue"
      <3>1. PICK i \in DOMAIN queue, j \in DOMAIN queue :
              /\ queue[i] = a /\ r = <<"queue", i, a>>
              /\ queue[j] = a /\ q = <<"queue", j, a>>
        BY <2>1, <2>3 DEF RootOf
      <3>2. QED
        BY <1>1, <3>1 DEF IInv, Distinct, DistinctItems
    <2>4. CASE at[a] = "local"
      <3>1. PICK i \in DOMAIN local, j \in DOMAIN local :
              /\ local[i] = a /\ r = <<"local", i, a>>
              /\ local[j] = a /\ q = <<"local", j, a>>
        BY <2>1, <2>4 DEF RootOf
      <3>2. QED
        BY <1>1, <3>1 DEF IInv, Distinct, DistinctItems
    <2>5. CASE at[a] = "pipe async"
      BY <2>1, <2>5 DEF RootOf, IInv, Distinct, DistinctHints
    <2>6. CASE at[a] = "pipe sync"
      BY <2>1, <2>6 DEF RootOf, IInv, Distinct, DistinctHints
    <2>7. QED
      BY <1>1, <2>2, <2>3, <2>4, <2>5, <2>6 DEF Kinds, Objects, Buffers
  <1>4. QED
    BY <1>2, <1>3

\* What was freed and what an object owns is in no place of its own.
LEMMA NoRoot ==
  ASSUME IInv, NEW at \in [Addr -> Kinds], Labelled(at), NEW a \in Addr,
         at[a] \in {"fresh", "freed", "member"}, NEW r \in Roots
  PROVE  r[3] # a
  BY RootIsLabelled DEF RootOf

\* A place that holds something holds Null or an address.
LEMMA RootRefs == ASSUME IInv, NEW r \in Roots PROVE r[3] \in Refs
PROOF
  <1>1. TypeOK
    BY DEF IInv
  <1>2. \A k \in Sockets : \A i \in DOMAIN pipe[k] : pipe[k][i].hint \in Refs
    <2>1. \A k \in Sockets : \A i \in DOMAIN pipe[k] : pipe[k][i] \in Messages
      BY <1>1 DEF TypeOK
    <2>2. QED
      BY <2>1 DEF Messages
  <1>3. /\ \A i \in DOMAIN queue : queue[i] \in Refs
        /\ \A i \in DOMAIN local : local[i] \in Refs
        /\ temp \in Refs /\ jBuffer \in Refs /\ rspns["async"] \in Refs /\ rspns["sync"] \in Refs
    BY <1>1 DEF TypeOK
  <1>4. QED
    BY <1>1, <1>2, <1>3, RootCases

\* An object that owns an address is in exactly one place, and no other object owns it.
LEMMA MemberOwners ==
  ASSUME IInv, NEW at \in [Addr -> Kinds], Labelled(at), Members(at), NEW a \in Addr,
         NEW q \in Roots, q[3] # Null, member[q[3]] = a
  PROVE  q[3] \in Addr /\ at[q[3]] \in Objects /\ at[a] = "member"
PROOF
  <1>1. q[3] \in Addr /\ a # Null
    BY RootRefs, RefFacts DEF Addr, Null
  <1>2. at[q[3]] \in Kinds /\ at[q[3]] \notin {"fresh", "freed", "member"}
    BY <1>1, NoRoot
  <1>3. at[q[3]] \notin Buffers
    BY <1>1 DEF Members
  <1>4. at[q[3]] \in Objects
    BY <1>2, <1>3 DEF Kinds
  <1>5. QED
    BY <1>1, <1>4 DEF Members

\* Owners has one element for what is in use, and none for what was freed.
LEMMA OwnersOf ==
  ASSUME IInv, NEW a \in 1..used
  PROVE  IF a \in freed THEN Owners(a) = {} ELSE \E w : Owners(a) = {w}
PROOF
  <1>1. PICK at \in [Addr -> Kinds] : Labelled(at) /\ Members(at)
    BY DEF IInv, Owned
  <1>2. a \in Addr /\ a # Null /\ ~(a > used)
    <2>1. used \in 0..Size
      BY DEF IInv, TypeOK
    <2>2. QED
      BY <2>1, OwnershipAssumption DEF Addr, Null
  <1>3. Label(at, a) /\ at[a] # "fresh"
    BY <1>1, <1>2 DEF Labelled, Label
  <1>4. CASE at[a] \in {"freed", "member"}
    <2>1. {r \in Roots : r[3] = a} = {}
      BY <1>1, <1>2, <1>4, NoRoot
    <2>2. CASE at[a] = "freed"
      <3>1. {q \in Roots : q[3] # Null /\ member[q[3]] = a} = {}
        BY <1>1, <1>2, <2>2, MemberOwners
      <3>2. QED
        BY <1>3, <2>1, <2>2, <3>1 DEF Owners, Label
    <2>3. CASE at[a] = "member"
      <3>1. PICK o \in Addr : at[o] \in Objects /\ member[o] = a
        BY <1>1, <1>2, <2>3 DEF Members
      <3>2. PICK r \in Roots : r[3] = o /\ \A q \in Roots : q[3] = o => q = r
        <4>1. at[o] \notin {"fresh", "freed", "member"}
          BY <3>1 DEF Objects
        <4>2. QED
          BY <1>1, <4>1, OneRoot
      <3>3. {q \in Roots : q[3] # Null /\ member[q[3]] = a} = {r}
        <4>1. o # Null
          BY DEF Addr, Null
        <4>2. ASSUME NEW q \in Roots, q[3] # Null, member[q[3]] = a
              PROVE  q = r
          <5>1. q[3] \in Addr /\ at[q[3]] \in Objects
            BY <1>1, <1>2, <4>2, MemberOwners
          <5>2. q[3] = o
            <6>1. \A p \in Addr : at[p] \in Objects /\ member[p] = a => p = o
              BY <1>1, <1>2, <3>1 DEF Members
            <6>2. QED
              BY <4>2, <5>1, <6>1
          <5>3. QED
            BY <3>2, <5>2
        <4>3. QED
          BY <3>1, <3>2, <4>1, <4>2
      <3>4. Owners(a) = {<<"member", r, a>>}
        BY <2>1, <3>3 DEF Owners
      <3>5. QED
        BY <1>3, <2>3, <3>4 DEF Label
    <2>4. QED
      BY <1>4, <2>2, <2>3
  <1>5. CASE at[a] \notin {"freed", "member"}
    <2>1. PICK r \in Roots : r[3] = a /\ \A q \in Roots : q[3] = a => q = r
      BY <1>1, <1>2, <1>3, <1>5, OneRoot
    <2>2. {q \in Roots : q[3] = a} = {r}
      BY <2>1
    <2>3. {q \in Roots : q[3] # Null /\ member[q[3]] = a} = {}
      BY <1>1, <1>2, <1>5, MemberOwners
    <2>4. Owners(a) = {r}
      BY <2>2, <2>3 DEF Owners
    <2>5. QED
      BY <1>3, <1>5, <2>4 DEF Label
  <1>6. QED
    BY <1>4, <1>5

\* OneOwner for any number of addresses and of items: what is in use has exactly one
\* owner and what was freed has none, in every interleaving of the unit's thread,
\* async_work, sync_work and the threads of zmq.
THEOREM OwnershipOneOwner == Spec => []OneOwner
PROOF
  <1>1. IInv => OneOwner
    <2> SUFFICES ASSUME IInv, NEW a \in 1..used
                 PROVE  Cardinality(Owners(a)) = IF a \in freed THEN 0 ELSE 1
      BY DEF OneOwner
    <2>1. CASE a \in freed
      BY <2>1, OwnersOf, FS_EmptySet
    <2>2. CASE a \notin freed
      <3>1. PICK w : Owners(a) = {w}
        BY <2>2, OwnersOf
      <3>2. QED
        BY <2>2, <3>1, FS_Singleton
    <2>3. QED
      BY <2>1, <2>2
  <1>2. QED
    BY <1>1, OwnershipInvariant, PTL

=============================================================================
