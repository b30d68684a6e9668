----------------------- MODULE CirculatorSwitchProofs -----------------------
(***************************************************************************)
(* Proofs about CirculatorSwitch for any port count and any width of       *)
(* std::size_t: when the unit and the dispatcher can disagree, and that    *)
(* what it answers about two ports is what the ring says.                  *)
(***************************************************************************)
EXTENDS CirculatorSwitch, TLAPS

\* The answer of get_state is about the rotation kept since: only configure
\* changes it, and configure replaces the reply.
ReplyInv ==
  /\ phase = "new" => reply.call = "none"
  /\ reply.call = "get_state" =>
       /\ reply.in \in Ports
       /\ reply.out \in Ports
       /\ reply.result = (state = Rotation(reply.in, reply.out))

SwitchInv ==
  /\ TypeOK
  /\ DivergesOnlyAfterFailure
  /\ ReplyInv

----------------------------------------------------------------------------

\* Both branches of the condition on the ports give a rotation.
LEMMA RotationType ==
  \A i, o \in Ports : Rotation(i, o) \in Chiralities
  BY DEF Rotation, Chiralities

\* The uninitialised unit has no reply, and is not ready.
LEMMA SwitchInit == Init => SwitchInv
<1> SUFFICES ASSUME Init PROVE SwitchInv
  OBVIOUS
<1>1. reply \in [call : {"none"}]
  BY DEF Init
<1>2. failed \in BOOLEAN
  BY Zenon DEF Init
<1>3. TypeOK
  BY <1>1, <1>2, Zenon DEF Init, TypeOK
<1>4. DivergesOnlyAfterFailure /\ ReplyInv
  BY DEF Init, DivergesOnlyAfterFailure, ReplyInv
<1>5. QED
  BY <1>3, <1>4 DEF SwitchInv

\* Every action keeps the types.
LEMMA SwitchTypeStep == TypeOK /\ [Next]_vars => TypeOK'
<1> SUFFICES ASSUME TypeOK, [Next]_vars PROVE TypeOK'
  OBVIOUS
<1>1. ASSUME NEW a \in Answers, string_initialize_parameters(a) PROVE TypeOK'
  BY <1>1 DEF TypeOK, string_initialize_parameters, DispatcherCall, Answers,
     Chiralities
<1>2. ASSUME NEW i \in Ports, NEW o \in Ports, get_state(i, o) PROVE TypeOK'
  BY <1>2 DEF TypeOK, get_state, get_switch_state
<1>3. ASSUME NEW i \in Ports, NEW o \in Ports, NEW a \in Answers,
             configure(i, o, a)
      PROVE  TypeOK'
  BY <1>3, RotationType DEF TypeOK, configure, DispatcherCall, Answers,
     InRange
<1>4. CASE UNCHANGED vars
  BY <1>4 DEF vars, TypeOK
<1>5. QED
  BY <1>1, <1>2, <1>3, <1>4 DEF Next

\* A call of the dispatcher that succeeds leaves both with the new rotation;
\* without a call neither changes.
LEMMA DivergesStep ==
  ASSUME TypeOK, DivergesOnlyAfterFailure, [Next]_vars
  PROVE  DivergesOnlyAfterFailure'
<1>1. ASSUME NEW a \in Answers, string_initialize_parameters(a)
      PROVE  DivergesOnlyAfterFailure'
  BY <1>1 DEF DivergesOnlyAfterFailure, string_initialize_parameters,
     DispatcherCall, Answers
<1>2. ASSUME NEW i \in Ports, NEW o \in Ports, get_state(i, o)
      PROVE  DivergesOnlyAfterFailure'
  BY <1>2 DEF DivergesOnlyAfterFailure, get_state
<1>3. ASSUME NEW i \in Ports, NEW o \in Ports, NEW a \in Answers,
             configure(i, o, a)
      PROVE  DivergesOnlyAfterFailure'
  BY <1>3 DEF DivergesOnlyAfterFailure, configure, Told, DispatcherCall,
     Answers
<1>4. CASE UNCHANGED vars
  BY <1>4 DEF vars, DivergesOnlyAfterFailure
<1>5. QED
  BY <1>1, <1>2, <1>3, <1>4 DEF Next

\* The rotation a get_state answered about is still the present one.
LEMMA ReplyStep ==
  ASSUME TypeOK, ReplyInv, [Next]_vars
  PROVE  ReplyInv'
<1>1. ASSUME NEW a \in Answers, string_initialize_parameters(a)
      PROVE  ReplyInv'
  <2>1. phase = "new" /\ phase' # "new" /\ reply' = reply
    BY <1>1 DEF string_initialize_parameters
  <2>2. QED
    BY <2>1 DEF ReplyInv
<1>2. ASSUME NEW i \in Ports, NEW o \in Ports, get_state(i, o)
      PROVE  ReplyInv'
  BY <1>2 DEF ReplyInv, get_state, get_switch_state, Rotation
<1>3. ASSUME NEW i \in Ports, NEW o \in Ports, NEW a \in Answers,
             configure(i, o, a)
      PROVE  ReplyInv'
  BY <1>3 DEF ReplyInv, configure
<1>4. CASE UNCHANGED vars
  BY <1>4 DEF vars, ReplyInv, Rotation
<1>5. QED
  BY <1>1, <1>2, <1>3, <1>4 DEF Next

----------------------------------------------------------------------------

\* SwitchInv holds of every behaviour of the unit.
THEOREM SwitchInvariant == Spec => []SwitchInv
<1>1. SwitchInv /\ [Next]_vars => SwitchInv'
  BY SwitchTypeStep, DivergesStep, ReplyStep DEF SwitchInv
<1>2. QED
  BY <1>1, SwitchInit, PTL DEF Spec

\* The chirality of the unit and that of the dispatcher, and the ports of a reply,
\* keep their types, whatever is asked for and whatever the dispatcher answers.
THEOREM SwitchTypeCorrect == Spec => []TypeOK
<1>1. SwitchInv => TypeOK
  BY DEF SwitchInv
<1>2. QED
  BY <1>1, SwitchInvariant, PTL

\* A dispatcher call that failed is the only reason why the unit and the
\* dispatcher disagree about the rotation.
THEOREM DivergesOnlyAfterFailureHolds == Spec => []DivergesOnlyAfterFailure
<1>1. SwitchInv => DivergesOnlyAfterFailure
  BY DEF SwitchInv
<1>2. QED
  BY <1>1, SwitchInvariant, PTL

----------------------------------------------------------------------------

\* Remainders on either side of the modulus.
LEMMA ModFacts ==
  ASSUME NEW n \in Nat \ {0}, NEW a \in Nat
  PROVE  /\ a < n => a % n = a
         /\ n <= a /\ a < n + n => a % n = a - n
  OBVIOUS

\* Between neighbours of a ring of at least three ports the condition of
\* get_switch_state separates the two rotations.
LEMMA RingAgrees ==
  ASSUME SwitchAssumption, NEW n \in PortCounts, portCount = n, n > 2,
         NEW i \in Ports, NEW o \in Ports, i < n - 1,
         o = i + 1 \/ o = (i + n - 1) % n,
         NEW s \in Chiralities
  PROVE  (s = Rotation(i, o)) = Connects(s, n, i, o)
<1>1. n \in Nat /\ n < SizeBound /\ SizeBound \in Nat /\ i \in Nat /\ o \in Nat
  BY DEF SwitchAssumption, Ports
<1>2. (i + 1) % SizeBound = i + 1 /\ (i + 1) % n = i + 1
  <2>1. SizeBound \in Nat \ {0} /\ n \in Nat \ {0} /\ i + 1 \in Nat
    BY <1>1
  <2>2. i + 1 < SizeBound /\ i + 1 < n
    BY <1>1
  <2>3. QED
    BY <2>1, <2>2, ModFacts
<1>3. Rotation(i, o) = IF o = i + 1 THEN "cw" ELSE "ccw"
  BY <1>1, <1>2 DEF Rotation
<1>4. CASE o = i + 1
  <2>1. i # (o + 1) % n
    BY <1>1, <1>4, ModFacts
  <2>2. QED
    BY <1>2, <1>3, <1>4, <2>1 DEF Connects, Chiralities
<1>5. CASE o # i + 1
  <2>1. o = (i + n - 1) % n /\ i + n - 1 \in Nat
    BY <1>1, <1>5
  <2>2. IF i = 0 THEN o = n - 1 ELSE o = i - 1
    <3>1. CASE i = 0
      <4>1. n \in Nat \ {0} /\ n - 1 \in Nat /\ n - 1 < n
        BY <1>1
      <4>2. (n - 1) % n = n - 1
        BY <4>1, ModFacts
      <4>3. i + n - 1 = n - 1
        BY <1>1, <3>1
      <4>4. QED
        BY <2>1, <3>1, <4>2, <4>3
    <3>2. CASE i # 0
      <4>1. n \in Nat \ {0} /\ n <= i + n - 1 /\ i + n - 1 < n + n
        BY <1>1, <3>2
      <4>2. (i + n - 1) % n = (i + n - 1) - n
        BY <2>1, <4>1, ModFacts
      <4>3. (i + n - 1) - n = i - 1
        BY <1>1
      <4>4. QED
        BY <2>1, <3>2, <4>2, <4>3
    <3>3. QED
      BY <3>1, <3>2
  <2>3. (o + 1) % n = i
    BY <1>1, <2>2, ModFacts
  <2>4. QED
    BY <1>2, <1>3, <1>5, <2>3 DEF Connects, Chiralities
<1>6. QED
  BY <1>4, <1>5

\* What get_state answers about neighbouring ports is what the circulant
\* matrix says, from every port but the last, for every port count above two.
THEOREM AnswersAgreeWithRingHolds == Spec => []AnswersAgreeWithRing
<1>1. SwitchInv => AnswersAgreeWithRing
  BY SwitchAssumption, RingAgrees
     DEF SwitchInv, TypeOK, ReplyInv, AnswersAgreeWithRing
<1>2. QED
  BY <1>1, SwitchInvariant, PTL

=============================================================================
