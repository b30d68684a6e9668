------------------------- MODULE ConversionsProofs -------------------------
(***************************************************************************)
(* Proofs about Conversions, for every number of values of a byte that is  *)
(* even, any inputs and any number of calls of get_next_basis. The facts   *)
(* about integers, which the provers find one at a time, are lemmas.       *)
(***************************************************************************)
EXTENDS Conversions, TLAPS

----------------------------------------------------------------------------
(* Integers.                                                               *)

\* Quotient and remainder of q * d + r.
LEMMA DivMod ==
  ASSUME NEW d \in Nat, d > 0, NEW q \in Int, NEW r \in 0..(d - 1)
  PROVE  (q * d + r) \div d = q /\ (q * d + r) % d = r
PROOF
  <1>1. (q * d + r) \div d = q
    OBVIOUS
  <1>2. (q * d + r) % d = r
    OBVIOUS
  <1>3. QED
    BY <1>1, <1>2

\* A number is made of its quotient and its remainder.
LEMMA DivModOf ==
  ASSUME NEW d \in Nat, d > 0, NEW n \in Int
  PROVE  \E q \in Int, r \in 0..(d - 1) : q = n \div d /\ r = n % d /\ n = q * d + r
PROOF
  <1>1. n \div d \in Int
    OBVIOUS
  <1>2. n % d \in 0..(d - 1)
    OBVIOUS
  <1>3. PICK q \in Int, r \in 0..(d - 1) : q = n \div d /\ r = n % d
    BY <1>1, <1>2
  <1>4. n = q * d + r
    BY <1>3
  <1>5. QED
    BY <1>3, <1>4, Zenon

\* Two numbers below c and d are the high and the low part of one below c * d.
LEMMA PairBelow ==
  ASSUME NEW c \in Nat, NEW d \in Nat, NEW a \in 0..(c - 1), NEW b \in 0..(d - 1)
  PROVE  a * d + b \in 0..(c * d - 1)
PROOF
  <1>1. a * d \in Nat /\ c * d \in Nat /\ a * d + b >= 0
    OBVIOUS
  <1>2. (a + 1) * d <= c * d
    OBVIOUS
  <1>3. (a + 1) * d = a * d + d
    OBVIOUS
  <1>4. QED
    BY <1>1, <1>2, <1>3

\* The ranges of the types, and the weights of the bytes of an unsigned int.
LEMMA Widths ==
  /\ Byte \in Nat /\ Byte > 0 /\ Short \in Nat /\ Short > 0
  /\ UInt \in Nat /\ UInt > 0 /\ ULong \in Nat /\ ULong > 0
  /\ Short * Byte \in Nat /\ Short * Byte > 0 /\ Short <= UInt
  /\ UInt = ((Byte * Byte) * Byte) * Byte
PROOF
  <1>1. Byte \in Nat /\ Byte > 1
    BY ConversionsAssumption
  <1>2. Short \in Nat /\ Short > 1
    BY <1>1 DEF Short
  <1>3. UInt \in Nat /\ UInt > 1 /\ Short <= UInt
    BY <1>2 DEF UInt
  <1>4. ULong \in Nat /\ ULong > 1
    BY <1>3 DEF ULong
  <1>5. Short * Byte \in Nat /\ Short * Byte > 0
    BY <1>1, <1>2
  <1>6. UInt = ((Byte * Byte) * Byte) * Byte
    BY <1>1 DEF UInt, Short
  <1>7. QED
    BY <1>1, <1>2, <1>3, <1>4, <1>5, <1>6

Bytes == 0..(Byte - 1)

\* A word of four bytes is an unsigned int.
LEMMA WordIsUInt ==
  ASSUME NEW a \in Bytes, NEW b \in Bytes, NEW c \in Bytes, NEW d \in Bytes
  PROVE  Word(a, b, c, d) \in 0..(UInt - 1)
PROOF
  <1>1. Byte \in Nat
    BY Widths
  <1>2. PICK x : x = a * Byte + b
    OBVIOUS
  <1>3. x \in 0..(Byte * Byte - 1)
    BY <1>1, <1>2, PairBelow DEF Bytes
  <1>4. PICK y : y = x * Byte + c
    OBVIOUS
  <1>5. y \in 0..((Byte * Byte) * Byte - 1)
    <2>1. Byte * Byte \in Nat
      BY <1>1
    <2>2. QED
      BY <1>1, <1>3, <1>4, <2>1, PairBelow DEF Bytes
  <1>6. y * Byte + d \in 0..(((Byte * Byte) * Byte) * Byte - 1)
    <2>1. (Byte * Byte) * Byte \in Nat
      BY <1>1
    <2>2. QED
      BY <1>1, <1>5, <2>1, PairBelow DEF Bytes
  <1>7. Word(a, b, c, d) = y * Byte + d
    BY <1>2, <1>4 DEF Word
  <1>8. QED
    BY <1>6, <1>7, Widths

\* The digits of a word are the bytes it was made of.
LEMMA WordDigits ==
  ASSUME NEW a \in Bytes, NEW b \in Bytes, NEW c \in Bytes, NEW d \in Bytes,
         NEW n, n = Word(a, b, c, d)
  PROVE  /\ Digit(n, 1) = d /\ Digit(n, Byte) = c
         /\ Digit(n, Short) = b /\ Digit(n, Short * Byte) = a
PROOF
  <1>1. Byte \in Nat /\ Byte > 0 /\ a \in Int /\ b \in Int /\ c \in Int /\ d \in Int
    BY Widths DEF Bytes
  <1>2. PICK x : x = a * Byte + b
    OBVIOUS
  <1>3. PICK y : y = x * Byte + c
    OBVIOUS
  <1>4. x \in Int /\ y \in Int /\ n = y * Byte + d /\ n \in Int
    BY <1>1, <1>2, <1>3 DEF Word
  <1>5. n % Byte = d /\ n \div Byte = y /\ y % Byte = c /\ x % Byte = b
    BY <1>1, <1>2, <1>3, <1>4, DivMod DEF Bytes
  <1>6. Digit(n, 1) = d /\ Digit(n, Byte) = c
    BY <1>4, <1>5 DEF Digit
  <1>7. n \div Short = x
    <2>1. c * Byte + d \in 0..(Short - 1)
      BY <1>1, PairBelow DEF Bytes, Short
    <2>2. n = x * Short + (c * Byte + d)
      BY <1>1, <1>3, <1>4 DEF Short
    <2>3. QED
      BY <1>4, <2>1, <2>2, Widths, DivMod
  <1>8. n \div (Short * Byte) = a
    <2>1. PICK low : low = (b * Byte + c) * Byte + d
      OBVIOUS
    <2>2. low \in 0..(Short * Byte - 1)
      <3>1. b * Byte + c \in 0..(Short - 1)
        BY <1>1, PairBelow DEF Bytes, Short
      <3>2. QED
        BY <1>1, <2>1, <3>1, Widths, PairBelow DEF Bytes
    <2>3. n = a * (Short * Byte) + low
      BY <1>1, <1>2, <1>3, <1>4, <2>1 DEF Short
    <2>4. QED
      BY <1>1, <2>2, <2>3, Widths, DivMod
  <1>9. a % Byte = a
    BY <1>1, DivMod DEF Bytes
  <1>10. QED
    BY <1>5, <1>6, <1>7, <1>8, <1>9 DEF Digit

----------------------------------------------------------------------------
(* Addresses.                                                              *)

\* Reversing the bytes of a word gives the word of the bytes in reverse.
LEMMA ReverseWord ==
  ASSUME NEW a \in Bytes, NEW b \in Bytes, NEW c \in Bytes, NEW d \in Bytes
  PROVE  endian_reverse(Word(a, b, c, d)) = Word(d, c, b, a)
  BY WordDigits DEF endian_reverse

\* Reversing the bytes of a port twice gives the port.
LEMMA ReverseTwice ==
  ASSUME NEW n \in 0..(Short - 1)
  PROVE  endian_reverse_short(endian_reverse_short(n)) = n
PROOF
  <1>1. Byte \in Nat /\ Byte > 0 /\ n \in Int
    BY Widths
  <1>2. PICK h \in Int, l \in 0..(Byte - 1) : h = n \div Byte /\ l = n % Byte /\ n = h * Byte + l
    BY <1>1, DivModOf, Zenon
  <1>3. h \in Int /\ l \in 0..(Byte - 1) /\ n = h * Byte + l
    BY <1>2
  <1>4. h \in 0..(Byte - 1)
    <2>1. h >= 0
      BY <1>1, <1>3
    <2>2. h < Byte
      <3>1. SUFFICES ASSUME h >= Byte PROVE FALSE
        BY <1>1, <1>3
      <3>2. h * Byte >= Byte * Byte
        BY <1>1, <1>3, <3>1
      <3>3. QED
        BY <1>1, <1>3, <3>2 DEF Short
    <2>3. QED
      BY <1>1, <1>3, <2>1, <2>2
  <1>5. h % Byte = h
    BY <1>1, <1>4, DivMod
  <1>6. endian_reverse_short(n) = l * Byte + h
    BY <1>1, <1>2, <1>5 DEF endian_reverse_short, Digit
  <1>7. (l * Byte + h) % Byte = h /\ (l * Byte + h) \div Byte = l /\ l % Byte = l
    BY <1>1, <1>3, <1>4, DivMod
  <1>8. endian_reverse_short(l * Byte + h) = h * Byte + l
    BY <1>1, <1>3, <1>4, <1>7 DEF endian_reverse_short, Digit
  <1>9. QED
    BY <1>3, <1>6, <1>8

\* The acceptor of a receiver is where a client that was given its address and its
\* port connects to.
LEMMA EndpointsAgree ==
  ASSUME NEW q \in [1..4 -> Nat], NEW port \in Nat, inet_aton(q), port < UInt
  PROVE  {acceptor(n) : n \in set_request_endpoint(q, port)}
           = connect(Number(HostOrder(q)), Number(port))
PROOF
  <1>1. q[1] \in Bytes /\ q[2] \in Bytes /\ q[3] \in Bytes /\ q[4] \in Bytes
    BY Widths DEF inet_aton, Bytes
  <1>2. PICK addr, p : addr = HostOrder(q) /\ p = port % Short
    OBVIOUS
  <1>3. addr \in 0..(UInt - 1) /\ p \in 0..(Short - 1)
    <2>1. addr \in 0..(UInt - 1)
      BY <1>1, <1>2, WordIsUInt DEF HostOrder
    <2>2. p \in 0..(Short - 1)
      BY <1>2, Widths, DivModOf
    <2>3. QED
      BY <2>1, <2>2
  <1>4. endian_reverse(s_addr(q)) = addr
    BY <1>1, <1>2, ReverseWord DEF s_addr, HostOrder
  <1>5. endian_reverse_short(endian_reverse_short(p)) = p
    BY <1>3, ReverseTwice
  <1>6. {acceptor(n) : n \in set_request_endpoint(q, port)} = {[address |-> addr, port |-> p]}
    <2>1. set_request_endpoint(q, port) =
            {[sin_addr |-> s_addr(q), sin_port |-> endian_reverse_short(p)]}
      BY <1>2 DEF set_request_endpoint
    <2>2. acceptor([sin_addr |-> s_addr(q), sin_port |-> endian_reverse_short(p)]) =
            [address |-> addr, port |-> p]
      BY <1>4, <1>5 DEF acceptor
    <2>3. QED
      BY <2>1, <2>2
  <1>7. scalar("unsigned int", Number(addr)) = {addr}
    BY <1>3 DEF scalar, Uint, Number
  <1>8. scalar("unsigned short", Number(port)) = {p}
    <2>1. Uint(Number(port)) = {port}
      BY Widths DEF Uint, Number
    <2>2. QED
      BY <1>2, <2>1 DEF scalar
  <1>9. connect(Number(addr), Number(port)) = {[address |-> addr, port |-> p]}
    <2>1. connect(Number(addr), Number(port)) = [address : {addr}, port : {p}]
      BY <1>7, <1>8 DEF connect
    <2>2. [address : {addr}, port : {p}] = {[address |-> addr, port |-> p]}
      <3>1. ASSUME NEW x \in [address : {addr}, port : {p}]
            PROVE  x = [address |-> addr, port |-> p]
        <4>1. x = [address |-> x.address, port |-> x.port] /\ x.address = addr /\ x.port = p
          OBVIOUS
        <4>2. QED
          BY <4>1
      <3>2. [address |-> addr, port |-> p] \in [address : {addr}, port : {p}]
        OBVIOUS
      <3>3. QED
        BY <3>1, <3>2
    <2>3. QED
      BY <2>1, <2>2
  <1>10. QED
    BY <1>2, <1>6, <1>9

\* An address the switch packs by hand is the number its bytes make.
LEMMA PackedAddress ==
  ASSUME NEW q \in [1..4 -> Nat], inet_aton(q)
  PROVE  /\ pnIP(q) = HostOrder(q)
         /\ trx_node(q) = switch_node(q)
PROOF
  <1>1. q[1] \in Bytes /\ q[2] \in Bytes /\ q[3] \in Bytes /\ q[4] \in Bytes
    BY Widths DEF inet_aton, Bytes
  <1>2. \A b \in Bytes : b % Byte = b
    <2>1. ASSUME NEW b \in Bytes
          PROVE  b % Byte = b
      <3>1. (0 * Byte + b) % Byte = b
        BY Widths, DivMod DEF Bytes
      <3>2. 0 * Byte + b = b
        BY Widths DEF Bytes
      <3>3. QED
        BY <3>1, <3>2
    <2>2. QED
      BY <2>1
  <1>3. pnIP(q) = HostOrder(q)
    BY <1>1, <1>2 DEF pnIP, HostOrder
  <1>4. QED
    BY <1>1, <1>3, ReverseWord DEF trx_node, switch_node, s_addr, HostOrder

----------------------------------------------------------------------------
(* Parameters.                                                             *)

\* What is left of a number that is cut to two bytes differs from it by a multiple of
\* their range.
LEMMA UnsignedShort ==
  ASSUME NEW v \in Int, NEW r, r = v % Short
  PROVE  /\ r \in 0..(Short - 1)
         /\ v \in 0..(Short - 1) => r = v
         /\ (r - v) % Short = 0
PROOF
  <1>1. Short \in Nat /\ Short > 0
    BY Widths
  <1>2. PICK q \in Int, s \in 0..(Short - 1) : s = v % Short /\ v = q * Short + s
    BY <1>1, DivModOf, Zenon
  <1>3. v \in 0..(Short - 1) => r = v
    <2>1. ASSUME v \in 0..(Short - 1)
          PROVE  (0 * Short + v) % Short = v
      BY <1>1, <2>1, DivMod
    <2>2. 0 * Short + v = v
      BY <1>1
    <2>3. QED
      BY <2>1, <2>2
  <1>4. (r - v) % Short = 0
    <2>1. PICK p \in Int : p = -q
      OBVIOUS
    <2>2. (p * Short + 0) % Short = 0
      BY <1>1, DivMod
    <2>3. r - v = p * Short + 0
      BY <1>1, <1>2, <2>1
    <2>4. QED
      BY <2>2, <2>3
  <1>5. QED
    BY <1>2, <1>3, <1>4

\* The same for a short, whose range is half below zero.
LEMMA SignedShort ==
  ASSUME NEW v \in Int, NEW r, r = Signed(v, Short)
  PROVE  /\ r \in -(Short \div 2)..(Short \div 2 - 1)
         /\ v \in -(Short \div 2)..(Short \div 2 - 1) => r = v
         /\ (r - v) % Short = 0
PROOF
  <1>1. PICK h : h = Short \div 2
    OBVIOUS
  <1>2. h \in Nat /\ Short = h + h /\ Short \in Nat /\ Short > 0
    <2>1. PICK k : k = Byte \div 2
      OBVIOUS
    <2>2. Byte = k * 2 /\ k \in Nat
      BY <2>1, ConversionsAssumption
    <2>3. PICK m : m = k * Byte
      OBVIOUS
    <2>4. m \in Nat /\ Short = m * 2 + 0
      BY <2>2, <2>3, Widths DEF Short
    <2>5. h = m
      BY <1>1, <2>4
    <2>6. QED
      BY <2>4, <2>5, Widths
  <1>3. PICK w : w = v + h
    OBVIOUS
  <1>4. PICK s : s = w % Short
    OBVIOUS
  <1>5. w \in Int /\ r = s - h
    BY <1>1, <1>2, <1>3, <1>4 DEF Signed
  <1>6. /\ s \in 0..(Short - 1)
        /\ w \in 0..(Short - 1) => s = w
        /\ (s - w) % Short = 0
    BY <1>4, <1>5, UnsignedShort
  <1>7. r - v = s - w
    BY <1>2, <1>3, <1>5, <1>6
  <1>8. r \in -h..(h - 1) /\ (v \in -h..(h - 1) => r = v)
    BY <1>2, <1>3, <1>5, <1>6
  <1>9. QED
    BY <1>1, <1>6, <1>7, <1>8

\* A number arrives as parameter<T> of its type, if the type can hold it, and
\* unchanged unless the type has two bytes.
LEMMA ScalarArrives ==
  ASSUME NEW T \in Types, NEW j, j.t = "number", j.v \in Int
  PROVE  /\ j.v \in TypeRange(T) => j.v \in scalar(T, j)
         /\ \A r \in scalar(T, j) : Arrives(T, j.v, r)
PROOF
  <1>1. CASE T = "unsigned short"
    <2>1. TypeRange(T) = 0..(Short - 1) /\ scalar(T, j) = {n % Short : n \in Uint(j)}
      BY <1>1 DEF TypeRange, scalar
    <2>2. j.v \in TypeRange(T) => Uint(j) = {j.v} /\ j.v % Short = j.v
      <3>1. j.v \in TypeRange(T) => j.v \in 0..(UInt - 1)
        BY <2>1, Widths
      <3>2. j.v \in TypeRange(T) => j.v % Short = j.v
        BY <2>1, UnsignedShort
      <3>3. QED
        BY <3>1, <3>2 DEF Uint
    <2>3. \A r \in scalar(T, j) : r = j.v % Short
      BY <2>1 DEF Uint
    <2>4. QED
      BY <1>1, <2>1, <2>2, <2>3, UnsignedShort DEF Arrives
  <1>2. CASE T = "short"
    <2>1. /\ TypeRange(T) = -(Short \div 2)..(Short \div 2 - 1)
          /\ scalar(T, j) = {Signed(n, Short) : n \in Int32(j)}
      BY <1>2 DEF TypeRange, scalar
    <2>2. j.v \in TypeRange(T) => Int32(j) = {j.v} /\ Signed(j.v, Short) = j.v
      <3>1. Short \div 2 <= UInt \div 2 /\ Short \div 2 \in Nat /\ UInt \div 2 \in Nat
        BY Widths
      <3>2. j.v \in TypeRange(T) => j.v \in -(UInt \div 2)..(UInt \div 2 - 1)
        BY <2>1, <3>1
      <3>3. QED
        BY <2>1, <3>2, SignedShort DEF Int32
    <2>3. \A r \in scalar(T, j) : r = Signed(j.v, Short)
      BY <2>1 DEF Int32
    <2>4. QED
      BY <1>2, <2>1, <2>2, <2>3, SignedShort DEF Arrives
  <1>3. CASE T \in {"unsigned int", "int", "unsigned long", "long"}
    <2>1. scalar(T, j) = IF j.v \in TypeRange(T) THEN {j.v} ELSE {}
      BY <1>3 DEF scalar, TypeRange, Uint, Int32, Uint64, Int64
    <2>2. QED
      BY <2>1 DEF Arrives
  <1>4. CASE T \in {"const char*", "char", "bool"}
    <2>1. scalar(T, j) = {} /\ TypeRange(T) = {}
      BY <1>4 DEF scalar, TypeRange
    <2>2. QED
      BY <2>1
  <1>5. QED
    BY <1>1, <1>2, <1>3, <1>4 DEF Types

\* The same for every element of an array.
LEMMA ArrayArrives ==
  ASSUME NEW T \in Types, NEW j, j.t = "array",
         \A i \in DOMAIN j.v : j.v[i].t = "number" => j.v[i].v \in Int
  PROVE  /\ (\A i \in DOMAIN j.v : j.v[i].t = "number" /\ j.v[i].v \in TypeRange(T))
              => array(T, j) # {}
         /\ \A r \in array(T, j) :
              /\ DOMAIN r = DOMAIN j.v
              /\ \A i \in DOMAIN r : j.v[i].t = "number" => Arrives(T, j.v[i].v, r[i])
PROOF
  <1>1. ASSUME NEW i \in DOMAIN j.v, j.v[i].t = "number"
        PROVE  /\ j.v[i].v \in TypeRange(T) => j.v[i].v \in scalar(T, j.v[i])
               /\ \A r \in scalar(T, j.v[i]) : Arrives(T, j.v[i].v, r)
    BY <1>1, ScalarArrives
  <1>2. ASSUME \A i \in DOMAIN j.v : j.v[i].t = "number" /\ j.v[i].v \in TypeRange(T)
        PROVE  array(T, j) # {}
    <2>1. PICK a : a = [i \in DOMAIN j.v |-> j.v[i].v]
      OBVIOUS
    <2>2. \A i \in DOMAIN j.v : a[i] \in scalar(T, j.v[i])
      BY <1>1, <1>2, <2>1
    <2>3. a \in [DOMAIN j.v -> UNION {scalar(T, j.v[i]) : i \in DOMAIN j.v}]
      BY <2>1, <2>2
    <2>4. a \in array(T, j)
      BY <2>2, <2>3 DEF array
    <2>5. QED
      BY <2>4
  <1>3. ASSUME NEW r \in array(T, j)
        PROVE  /\ DOMAIN r = DOMAIN j.v
               /\ \A i \in DOMAIN r : j.v[i].t = "number" => Arrives(T, j.v[i].v, r[i])
    <2>1. DOMAIN r = DOMAIN j.v /\ \A i \in DOMAIN j.v : r[i] \in scalar(T, j.v[i])
      BY <1>3 DEF array
    <2>2. QED
      BY <1>1, <2>1
  <1>4. QED
    BY <1>2, <1>3

----------------------------------------------------------------------------
(* Lists of actions.                                                       *)

Names == {"PUSH", "WAIT", "REQUEST", "REPLY"}

\* The bit of an action in a packed list.
BitOf(a, list) == (list \div Actions[a]) % 2

\* The values of the actions.
LEMMA ActionValues ==
  /\ DOMAIN Actions = Names
  /\ Actions["PUSH"] = 1 /\ Actions["WAIT"] = 2 /\ Actions["REQUEST"] = 4 /\ Actions["REPLY"] = 8
  BY DEF Actions, Names

\* An action has its own bit and no other.
LEMMA ActionBits ==
  ASSUME NEW a \in Names, NEW b \in Names
  PROVE  /\ Actions[b] \in 0..15
         /\ BitOf(a, Actions[b]) = IF a = b THEN 1 ELSE 0
PROOF
  <1>1. Actions[b] \in 0..15
    BY ActionValues DEF Names
  <1>2. CASE a = "PUSH"
    BY <1>2, ActionValues DEF Names, BitOf
  <1>3. CASE a = "WAIT"
    BY <1>3, ActionValues DEF Names, BitOf
  <1>4. CASE a = "REQUEST"
    BY <1>4, ActionValues DEF Names, BitOf
  <1>5. CASE a = "REPLY"
    BY <1>5, ActionValues DEF Names, BitOf
  <1>6. QED
    BY <1>1, <1>2, <1>3, <1>4, <1>5 DEF Names

\* The exclusive or has a bit if one of the two has it and the other has not.
LEMMA XorBits ==
  ASSUME NEW x \in 0..15, NEW y \in 0..15, NEW a \in Names
  PROVE  /\ Xor(x, y) \in 0..15
         /\ BitOf(a, x) \in 0..1 /\ BitOf(a, y) \in 0..1
         /\ BitOf(a, Xor(x, y)) = IF BitOf(a, x) = BitOf(a, y) THEN 0 ELSE 1
PROOF
  <1>1. PICK b0 \in 0..1, b1 \in 0..1, b2 \in 0..1, b3 \in 0..1 :
          x = b0 + 2 * b1 + 4 * b2 + 8 * b3
    <2>1. PICK c0, c1, c2, c3 : /\ c0 = x % 2 /\ c1 = (x \div 2) % 2
                                /\ c2 = (x \div 4) % 2 /\ c3 = (x \div 8) % 2
      OBVIOUS
    <2>2. /\ c0 \in 0..1 /\ c1 \in 0..1 /\ c2 \in 0..1 /\ c3 \in 0..1
          /\ x = c0 + 2 * c1 + 4 * c2 + 8 * c3
      BY <2>1
    <2>3. QED
      BY <2>2
  <1>2. PICK d0 \in 0..1, d1 \in 0..1, d2 \in 0..1, d3 \in 0..1 :
          y = d0 + 2 * d1 + 4 * d2 + 8 * d3
    <2>1. PICK c0, c1, c2, c3 : /\ c0 = y % 2 /\ c1 = (y \div 2) % 2
                                /\ c2 = (y \div 4) % 2 /\ c3 = (y \div 8) % 2
      OBVIOUS
    <2>2. /\ c0 \in 0..1 /\ c1 \in 0..1 /\ c2 \in 0..1 /\ c3 \in 0..1
          /\ y = c0 + 2 * c1 + 4 * c2 + 8 * c3
      BY <2>1
    <2>3. QED
      BY <2>2
  <1>3. PICK e0, e1, e2, e3 :
          /\ e0 = XorBit(x, y, 1) /\ e1 = XorBit(x, y, 2)
          /\ e2 = XorBit(x, y, 4) /\ e3 = XorBit(x, y, 8)
    OBVIOUS
  <1>4. e0 = IF b0 = d0 THEN 0 ELSE 1
    BY <1>1, <1>2, <1>3 DEF XorBit
  <1>5. e1 = IF b1 = d1 THEN 0 ELSE 2
    BY <1>1, <1>2, <1>3 DEF XorBit
  <1>6. e2 = IF b2 = d2 THEN 0 ELSE 4
    BY <1>1, <1>2, <1>3 DEF XorBit
  <1>7. e3 = IF b3 = d3 THEN 0 ELSE 8
    BY <1>1, <1>2, <1>3 DEF XorBit
  <1>8. Xor(x, y) = e0 + e1 + e2 + e3 /\ Xor(x, y) \in 0..15
    BY <1>3, <1>4, <1>5, <1>6, <1>7 DEF Xor
  <1>9. CASE a = "PUSH"
    BY <1>1, <1>2, <1>4, <1>5, <1>6, <1>7, <1>8, <1>9, ActionValues DEF BitOf
  <1>10. CASE a = "WAIT"
    BY <1>1, <1>2, <1>4, <1>5, <1>6, <1>7, <1>8, <1>10, ActionValues DEF BitOf
  <1>11. CASE a = "REQUEST"
    BY <1>1, <1>2, <1>4, <1>5, <1>6, <1>7, <1>8, <1>11, ActionValues DEF BitOf
  <1>12. CASE a = "REPLY"
    BY <1>1, <1>2, <1>4, <1>5, <1>6, <1>7, <1>8, <1>12, ActionValues DEF BitOf
  <1>13. QED
    BY <1>8, <1>9, <1>10, <1>11, <1>12 DEF Names

\* check looks at the bit of the action.
LEMMA CheckIsBit ==
  ASSUME NEW a \in Names, NEW list \in 0..15
  PROVE  check(a, list) <=> BitOf(a, list) = 1
PROOF
  <1>1. CASE a = "PUSH"
    BY <1>1, ActionValues DEF check, Masked, BitOf
  <1>2. CASE a = "WAIT"
    BY <1>2, ActionValues DEF check, Masked, BitOf
  <1>3. CASE a = "REQUEST"
    BY <1>3, ActionValues DEF check, Masked, BitOf
  <1>4. CASE a = "REPLY"
    BY <1>4, ActionValues DEF check, Masked, BitOf
  <1>5. QED
    BY <1>1, <1>2, <1>3, <1>4 DEF Names

\* A list that names no action twice has at most four.
LEMMA AtMostFour ==
  ASSUME NEW list \in Seq(Names), list # <<>>, Distinct(list)
  PROVE  Len(list) \in 1..4
PROOF
  <1>1. Len(list) \in Nat /\ Len(list) > 0 /\ DOMAIN list = 1..Len(list)
    OBVIOUS
  <1>2. SUFFICES ASSUME Len(list) > 4
                 PROVE  FALSE
    BY <1>1
  <1>3. /\ list[1] \in Names /\ list[2] \in Names /\ list[3] \in Names /\ list[4] \in Names
        /\ list[5] \in Names
    BY <1>1, <1>2
  <1>4. /\ list[1] # list[2] /\ list[1] # list[3] /\ list[1] # list[4] /\ list[1] # list[5]
        /\ list[2] # list[3] /\ list[2] # list[4] /\ list[2] # list[5]
        /\ list[3] # list[4] /\ list[3] # list[5] /\ list[4] # list[5]
    BY <1>1, <1>2 DEF Distinct
  <1>5. QED
    BY <1>3, <1>4 DEF Names

\* The positions of a list of at most four actions, from the end.
LEMMA LastFour ==
  ASSUME NEW n \in 1..4, NEW i \in 1..n
  PROVE  i = n \/ i = n - 1 \/ i = n - 2 \/ i = n - 3
PROOF
  <1>1. n = 1 \/ n = 2 \/ n = 3 \/ n = 4
    OBVIOUS
  <1>2. QED
    BY <1>1

\* The recursion of pack, for the lists that name no action twice.
LEMMA PackUnfolds ==
  ASSUME NEW list \in Seq(Names), NEW n \in 1..4, n = Len(list)
  PROVE  \E f : /\ f[n] = Actions[list[n]]
                /\ \A i \in 1..n : i # n => f[i] = Xor(Actions[list[i]], f[i + 1])
                /\ pack(list) = f[1]
PROOF
  <1> DEFINE F == CHOOSE f : f = [i \in 1..Len(list) |->
                    IF i = Len(list) THEN Actions[list[i]] ELSE Xor(Actions[list[i]], f[i + 1])]
  <1>1. pack(list) = F[1]
    BY DEF pack
  <1>2. \E f : f = [i \in 1..Len(list) |->
           IF i = Len(list) THEN Actions[list[i]] ELSE Xor(Actions[list[i]], f[i + 1])]
    <2>1. PICK v : v = [i \in 1..n |-> Actions[list[i]]]
      OBVIOUS
    <2>2. PICK h : h = [i \in 1..n |->
            IF i = n THEN v[n]
            ELSE IF i = n - 1 THEN Xor(v[n - 1], v[n])
            ELSE IF i = n - 2 THEN Xor(v[n - 2], Xor(v[n - 1], v[n]))
            ELSE Xor(v[n - 3], Xor(v[n - 2], Xor(v[n - 1], v[n])))]
      OBVIOUS
    <2>3. ASSUME NEW i \in 1..n
          PROVE  h[i] = IF i = n THEN Actions[list[i]] ELSE Xor(Actions[list[i]], h[i + 1])
      <3>1. v[i] = Actions[list[i]]
        BY <2>1
      <3>2. CASE i = n
        BY <2>2, <3>1, <3>2
      <3>3. CASE i = n - 1
        BY <2>2, <3>1, <3>3
      <3>4. CASE i = n - 2
        BY <2>2, <3>1, <3>4
      <3>5. CASE i = n - 3
        BY <2>2, <3>1, <3>5
      <3>6. i = n \/ i = n - 1 \/ i = n - 2 \/ i = n - 3
        BY LastFour
      <3>7. QED
        BY <3>2, <3>3, <3>4, <3>5, <3>6, Zenon
    <2>4. h = [i \in 1..Len(list) |->
            IF i = Len(list) THEN Actions[list[i]] ELSE Xor(Actions[list[i]], h[i + 1])]
      BY <2>2, <2>3
    <2>5. QED
      BY <2>4
  <1>3. F = [i \in 1..Len(list) |->
          IF i = Len(list) THEN Actions[list[i]] ELSE Xor(Actions[list[i]], F[i + 1])]
    BY <1>2
  <1>4. PICK f : f = F
    OBVIOUS
  <1>5. f = [i \in 1..n |->
          IF i = n THEN Actions[list[i]] ELSE Xor(Actions[list[i]], f[i + 1])]
    BY <1>3, <1>4
  <1> HIDE DEF F
  <1>6. f[n] = Actions[list[n]] /\ \A i \in 1..n : i # n => f[i] = Xor(Actions[list[i]], f[i + 1])
    BY <1>5
  <1>7. QED
    BY <1>1, <1>4, <1>6

\* A packed list has the bits of the actions it was packed from, and no others.
LEMMA PackedBits ==
  ASSUME NEW list \in Seq(Names), list # <<>>, Distinct(list), NEW a \in Names
  PROVE  check(a, pack(list)) <=> \E i \in DOMAIN list : list[i] = a
PROOF
  <1>1. PICK n \in 1..4 : n = Len(list)
    BY AtMostFour
  <1>2. PICK f : /\ f[n] = Actions[list[n]]
                 /\ \A i \in 1..n : i # n => f[i] = Xor(Actions[list[i]], f[i + 1])
                 /\ pack(list) = f[1]
    BY <1>1, PackUnfolds
  <1>3. DOMAIN list = 1..n /\ \A i \in 1..n : list[i] \in Names
    BY <1>1
  <1> DEFINE P(i) == /\ f[i] \in 0..15
                     /\ BitOf(a, f[i]) = IF \E k \in i..n : list[k] = a THEN 1 ELSE 0
  <1>4. P(n)
    BY <1>2, <1>3, ActionBits
  <1>5. ASSUME NEW i \in 1..n, i # n, P(i + 1)
        PROVE  P(i)
    <2>1. PICK x, y : x = Actions[list[i]] /\ y = f[i + 1]
      OBVIOUS
    <2>2. /\ x \in 0..15 /\ BitOf(a, x) = (IF a = list[i] THEN 1 ELSE 0)
      BY <1>3, <2>1, ActionBits
    <2>3. y \in 0..15 /\ BitOf(a, y) = (IF \E k \in (i + 1)..n : list[k] = a THEN 1 ELSE 0)
      BY <1>5, <2>1
    <2>4. f[i] = Xor(x, y)
      BY <1>2, <1>5, <2>1
    <2>5. /\ f[i] \in 0..15
          /\ BitOf(a, f[i]) = IF BitOf(a, x) = BitOf(a, y) THEN 0 ELSE 1
      <3>1. /\ Xor(x, y) \in 0..15
            /\ BitOf(a, Xor(x, y)) = IF BitOf(a, x) = BitOf(a, y) THEN 0 ELSE 1
        BY <2>2, <2>3, XorBits, Zenon
      <3>2. QED
        BY <2>4, <3>1, Zenon
    <2>6. a = list[i] => ~ \E k \in (i + 1)..n : list[k] = a
      BY <1>3, <1>5 DEF Distinct
    <2>7. (\E k \in i..n : list[k] = a) <=> a = list[i] \/ \E k \in (i + 1)..n : list[k] = a
      BY <1>5
    <2>8. QED
      BY <2>2, <2>3, <2>5, <2>6, <2>7
  <1>6. P(1)
    <2>1. CASE n = 1
      BY <1>4, <2>1
    <2>2. CASE n = 2
      BY <1>4, <1>5, <2>2
    <2>3. CASE n = 3
      <3>1. P(2)
        BY <1>4, <1>5, <2>3
      <3>2. QED
        BY <1>5, <2>3, <3>1
    <2>4. CASE n = 4
      <3>1. P(3)
        BY <1>4, <1>5, <2>4
      <3>2. P(2)
        BY <1>5, <2>4, <3>1
      <3>3. QED
        BY <1>5, <2>4, <3>2
    <2>5. QED
      BY <2>1, <2>2, <2>3, <2>4
  <1>7. check(a, f[1]) <=> BitOf(a, f[1]) = 1
    BY <1>6, CheckIsBit
  <1>8. BitOf(a, f[1]) = 1 <=> \E i \in 1..n : list[i] = a
    BY <1>6
  <1>9. QED
    BY <1>2, <1>3, <1>7, <1>8

----------------------------------------------------------------------------
(* The bases of bobwire.                                                   *)

\* The weights of the bits of a signed char from the second one on.
Weight == <<2, 4, 8, 16, 32, 64, 128>>
Bit(c, i) == (c \div Weight[i]) % 2

\* The bases bobwire uses: seven times the standard basis, then the bits of the
\* first byte of the file from the second one on, then its sign for ever. No other
\* byte is used, and a file that is empty ends the receiver at the eighth symbol.
\* The code's own comments promise otherwise: "File of bases to measure in", "Read
\* latest byte", "If EOF, wrap around to beginning of file".
BasesAreThoseOfTheFirstByte ==
  Converted("bases") =>
    result = IF calls <= 7 THEN {0}
             ELSE IF input.file = <<>> THEN {}
             ELSE {Bit(input.file[1], IF calls >= 14 THEN 7 ELSE calls - 7)}

Readers == [basisByte : Int, basisBytePos : Nat, read : Nat, failed : BOOLEAN]

\* How far the byte has been shifted at the k-th call, from the eighth on.
Shifts(k) == IF k >= 14 THEN 7 ELSE k - 7

\* The reader of a file after k calls.
ReaderAt(file, r, k) ==
  /\ r \in Readers
  /\ ~r.failed => r.basisBytePos = k
  /\ k <= 7 => ~r.failed /\ r.read = 0 /\ r.basisByte = 0
  /\ k > 7 /\ file = <<>> => r.failed
  /\ k > 7 /\ file # <<>> =>
       ~r.failed /\ r.read = 1 /\ r.basisByte = file[1] \div Weight[Shifts(k)]

\* The weights of the bits.
LEMMA Weights ==
  /\ Weight[1] = 2 /\ Weight[2] = 4 /\ Weight[3] = 8 /\ Weight[4] = 16
  /\ Weight[5] = 32 /\ Weight[6] = 64 /\ Weight[7] = 128
  BY DEF Weight

\* One shift more, up to the sign, which stays.
LEMMA ShiftOnce ==
  ASSUME NEW c \in Chars, NEW k \in Nat, k > 7
  PROVE  (c \div Weight[Shifts(k)]) \div 2 = c \div Weight[Shifts(k + 1)]
PROOF
  <1>0. c \in Int /\ -128 <= c /\ c <= 127
    BY DEF Chars
  <1>1. CASE k = 8
    BY <1>0, <1>1, Weights DEF Shifts
  <1>2. CASE k = 9
    BY <1>0, <1>2, Weights DEF Shifts
  <1>3. CASE k = 10
    BY <1>0, <1>3, Weights DEF Shifts
  <1>4. CASE k = 11
    BY <1>0, <1>4, Weights DEF Shifts
  <1>5. CASE k = 12
    BY <1>0, <1>5, Weights DEF Shifts
  <1>6. CASE k = 13
    BY <1>0, <1>6, Weights DEF Shifts
  <1>7. CASE k >= 14
    <2>1. Weight[Shifts(k)] = 128 /\ Weight[Shifts(k + 1)] = 128
      BY <1>7, Weights DEF Shifts
    <2>2. c \div 128 = -1 \/ c \div 128 = 0
      BY <1>0
    <2>3. QED
      BY <2>1, <2>2
  <1>8. QED
    BY <1>1, <1>2, <1>3, <1>4, <1>5, <1>6, <1>7

\* One call more of get_next_basis: it reads a byte at the eighth call and at no other.
LEMMA ReaderStep ==
  ASSUME NEW file \in Seq(Chars), NEW r, NEW k \in Nat,
         ReaderAt(file, r, k), ~r.failed
  PROVE  ReaderAt(file, get_next_basis(file, r), k + 1)
PROOF
  <1>1. /\ r \in Readers /\ r.basisBytePos = k
        /\ k <= 7 => r.read = 0 /\ r.basisByte = 0
        /\ k > 7 => /\ file # <<>> /\ r.read = 1
                    /\ r.basisByte = file[1] \div Weight[Shifts(k)]
    BY DEF ReaderAt
  <1>2. Len(file) \in Nat /\ (file = <<>> <=> Len(file) = 0)
    OBVIOUS
  <1>3. file # <<>> => file[1] \in Chars /\ file[1] \div 2 \in Int
    <2>1. \A i \in 1..Len(file) : file[i] \in Chars
      OBVIOUS
    <2>2. file # <<>> => file[1] \in Chars
      BY <1>2, <2>1
    <2>3. \A c \in Chars : c \div 2 \in Int
      BY DEF Chars
    <2>4. QED
      BY <2>2, <2>3, Zenon
  <1>4. PICK s, b, m : s = get_next_basis(file, r) /\ b = r.basisByte /\ m = r.read
    OBVIOUS
  <1>5. ASSUME ~(k = 7 /\ m = Len(file)),
               NEW x, x = IF k = 7 THEN file[m + 1] ELSE b,
               NEW p, p = IF k = 7 THEN m + 1 ELSE m
        PROVE  s = [basisByte |-> x \div 2, basisBytePos |-> k + 1, read |-> p, failed |-> FALSE]
    BY <1>1, <1>4, <1>5, Zenon DEF get_next_basis
  <1>6. CASE k < 7
    <2>1. s = [basisByte |-> 0 \div 2, basisBytePos |-> k + 1, read |-> 0, failed |-> FALSE]
      BY <1>1, <1>4, <1>5, <1>6
    <2>2. /\ s.basisByte = 0 /\ s.basisBytePos = k + 1 /\ s.read = 0 /\ s.failed = FALSE
          /\ s \in Readers
      BY <2>1 DEF Readers
    <2>3. QED
      BY <1>4, <1>6, <2>2 DEF ReaderAt
  <1>7. CASE k = 7 /\ file = <<>>
    <2>1. s = [r EXCEPT !.failed = TRUE]
      BY <1>1, <1>2, <1>4, <1>7 DEF get_next_basis
    <2>2. s \in Readers /\ s.failed = TRUE
      BY <1>1, <2>1 DEF Readers
    <2>3. QED
      BY <1>4, <1>7, <2>2 DEF ReaderAt
  <1>8. CASE k = 7 /\ file # <<>>
    <2>1. PICK h \in Int : h = file[1] \div 2
      BY <1>3, <1>8
    <2>2. s = [basisByte |-> h, basisBytePos |-> k + 1, read |-> 1, failed |-> FALSE]
      BY <1>1, <1>2, <1>4, <1>5, <1>8, <2>1
    <2>3. /\ s.basisByte = h /\ s.basisBytePos = k + 1 /\ s.read = 1
          /\ s.failed = FALSE /\ s \in Readers
      BY <2>1, <2>2 DEF Readers
    <2>4. Weight[Shifts(k + 1)] = 2
      BY <1>8, Weights DEF Shifts
    <2>5. s.basisByte = file[1] \div Weight[Shifts(k + 1)]
      BY <2>1, <2>3, <2>4, Zenon
    <2>6. QED
      BY <1>4, <1>8, <2>3, <2>5 DEF ReaderAt
  <1>9. CASE k > 7
    <2>1. s = [basisByte |-> b \div 2, basisBytePos |-> k + 1, read |-> 1, failed |-> FALSE]
      <3>1. m = 1 /\ k # 7
        BY <1>1, <1>4, <1>9
      <3>2. b = (IF k = 7 THEN file[m + 1] ELSE b) /\ 1 = (IF k = 7 THEN m + 1 ELSE m)
        BY <3>1
      <3>3. QED
        BY <1>5, <3>1, <3>2
    <2>2. b \in Int /\ b \div 2 \in Int
      BY <1>1, <1>4 DEF Readers
    <2>3. /\ s.basisByte = b \div 2 /\ s.basisBytePos = k + 1 /\ s.read = 1
          /\ s.failed = FALSE /\ s \in Readers
      BY <2>1, <2>2 DEF Readers
    <2>4. s.basisByte = file[1] \div Weight[Shifts(k + 1)]
      BY <1>1, <1>3, <1>4, <1>9, <2>3, ShiftOnce
    <2>5. QED
      BY <1>1, <1>4, <1>9, <2>3, <2>4 DEF ReaderAt
  <1>10. QED
    BY <1>6, <1>7, <1>8, <1>9

----------------------------------------------------------------------------
(* The inductive invariant: what has been converted, and how far the       *)
(* reader is.                                                              *)

ConvertedInv ==
  /\ Converted("endpoint") =>
       result = {acceptor(n) : n \in set_request_endpoint(input.address, input.port)}
  /\ Converted("scalar") => result = scalar(input.type, input.json)
  /\ Converted("array") => result = array(input.type, input.json)
  /\ Converted("actions") => result = {pack(input.list)}
  /\ Converted("lcc") => result = lcc_parameters(input.given, input.address)

ReaderInv ==
  input.kind = "bases" =>
    /\ calls \in Nat /\ ReaderAt(input.file, reader, calls)
    /\ done => calls > 0 /\ result = IF reader.failed THEN {} ELSE {reader.basisByte % 2}

IInv == input \in Inputs /\ ConvertedInv /\ ReaderInv

\* Nothing has been converted and no byte read at the start, a conversion is made
\* once, and a call of get_next_basis moves the reader by one.
THEOREM ConversionsInvariant == Spec => []IInv
PROOF
  <1>1. Init => IInv
    <2>1. SUFFICES ASSUME Init PROVE IInv
      OBVIOUS
    <2>2. ~done /\ input \in Inputs /\ reader = ReaderInit /\ calls = 0
      BY <2>1 DEF Init
    <2>3. ConvertedInv
      BY <2>2 DEF ConvertedInv, Converted
    <2>4. ReaderAt(input.file, reader, calls)
      BY <2>2 DEF ReaderAt, ReaderInit, Readers
    <2>5. QED
      BY <2>2, <2>3, <2>4 DEF IInv, ReaderInv
  <1>2. IInv /\ [Next]_vars => IInv'
    <2>1. SUFFICES ASSUME IInv, [Next]_vars PROVE IInv'
      OBVIOUS
    <2>2. input' = input /\ input' \in Inputs
      BY <2>1 DEF IInv, Next, vars
    <2>3. CASE /\ ~done /\ UNCHANGED <<reader, calls>> /\ done' = TRUE
               /\ listen \/ decode \/ pack_actions \/ initialize_lcc
      <3>1. input.kind # "bases"
        BY <2>3 DEF listen, decode, pack_actions, initialize_lcc
      <3>2. ConvertedInv'
        BY <2>2, <2>3 DEF ConvertedInv, Converted, listen, decode, pack_actions,
           initialize_lcc
      <3>3. QED
        BY <2>2, <3>1, <3>2 DEF IInv, ReaderInv
    <2>4. CASE next_basis
      <3>1. /\ input.kind = "bases" /\ ~reader.failed
            /\ reader' = get_next_basis(input.file, reader) /\ calls' = calls + 1
            /\ result' = IF reader'.failed THEN {} ELSE {reader'.basisByte % 2}
        BY <2>4 DEF next_basis
      <3>2. calls \in Nat /\ ReaderAt(input.file, reader, calls)
        BY <2>1, <3>1 DEF IInv, ReaderInv
      <3>3. input.file \in Seq(Chars)
        BY <2>1, <3>1, InputsAssumption DEF IInv
      <3>4. ReaderAt(input.file, reader, calls)'
        <4>1. ReaderAt(input.file, get_next_basis(input.file, reader), calls + 1)
          BY <3>1, <3>2, <3>3, ReaderStep
        <4>2. QED
          BY <2>2, <3>1, <4>1
      <3>5. ReaderInv'
        BY <3>1, <3>2, <3>4 DEF ReaderInv
      <3>6. ConvertedInv'
        BY <2>2, <3>1 DEF ConvertedInv, Converted
      <3>7. QED
        BY <2>2, <3>5, <3>6 DEF IInv
    <2>5. CASE UNCHANGED vars
      BY <2>1, <2>5 DEF IInv, ConvertedInv, Converted, ReaderInv, vars
    <2>6. QED
      BY <2>1, <2>3, <2>4, <2>5 DEF Next
  <1>3. QED
    BY <1>1, <1>2, PTL DEF Spec

----------------------------------------------------------------------------
(* The properties.                                                         *)

\* set_request_endpoint and work() reverse the bytes as often as a client that names
\* the receiver in "tx" expects: it reaches the receiver's acceptor.
THEOREM SenderFindsReceiver == Spec => []SenderReachesReceiver
PROOF
  <1>1. IInv => SenderReachesReceiver
    <2>1. SUFFICES ASSUME IInv, Converted("endpoint"), inet_aton(input.address), input.port < UInt
                   PROVE  result = connect(Number(HostOrder(input.address)), Number(input.port))
      BY DEF SenderReachesReceiver
    <2>2. input.address \in [1..4 -> Nat] /\ input.port \in Nat
      BY <2>1, InputsAssumption DEF IInv, Converted
    <2>3. QED
      BY <2>1, <2>2, EndpointsAgree DEF IInv, ConvertedInv
  <1>2. QED
    BY <1>1, ConversionsInvariant, PTL

\* The dispatcher gets the same number for an address from the transceivers, which
\* use inet_aton, and from the switch, which packs it by hand.
THEOREM OneNumberPerNode == Spec => []NodeNamesAgree
PROOF
  <1>1. IInv => NodeNamesAgree
    <2>1. SUFFICES ASSUME IInv, Converted("endpoint"), inet_aton(input.address)
                   PROVE  trx_node(input.address) = switch_node(input.address)
      BY DEF NodeNamesAgree
    <2>2. input.address \in [1..4 -> Nat]
      BY <2>1, InputsAssumption DEF IInv, Converted
    <2>3. QED
      BY <2>1, <2>2, PackedAddress
  <1>2. QED
    BY <1>1, ConversionsInvariant, PTL

\* parameter<T> and parameter<T*> give the number that was written or none, except
\* that a type of two bytes cuts it.
THEOREM NumbersArrive == Spec => []NumbersArriveUnchanged
PROOF
  <1>1. IInv => NumbersArriveUnchanged
    <2>1. SUFFICES ASSUME IInv PROVE NumbersArriveUnchanged
      OBVIOUS
    <2>2. ASSUME Converted("scalar"), input.json.t = "number"
          PROVE  /\ input.json.v \in TypeRange(input.type) => result # {}
                 /\ \A r \in result : Arrives(input.type, input.json.v, r)
      <3>1. input.type \in Types /\ input.json.v \in Int
        BY <2>1, <2>2, InputsAssumption DEF IInv, Converted
      <3>2. result = scalar(input.type, input.json)
        BY <2>1, <2>2 DEF IInv, ConvertedInv
      <3>3. QED
        BY <2>2, <3>1, <3>2, ScalarArrives
    <2>3. ASSUME Converted("array"), input.json.t = "array"
          PROVE  /\ (\A i \in DOMAIN input.json.v : input.json.v[i].t = "number"
                           /\ input.json.v[i].v \in TypeRange(input.type)) => result # {}
                 /\ \A r \in result :
                      /\ DOMAIN r = DOMAIN input.json.v
                      /\ \A i \in DOMAIN r : input.json.v[i].t = "number"
                                               => Arrives(input.type, input.json.v[i].v, r[i])
      <3>1. /\ input.type \in Types
            /\ \A i \in DOMAIN input.json.v :
                 input.json.v[i].t = "number" => input.json.v[i].v \in Int
        BY <2>1, <2>3, InputsAssumption DEF ArrayTypes, IInv, Converted
      <3>2. result = array(input.type, input.json)
        BY <2>1, <2>3 DEF IInv, ConvertedInv
      <3>3. QED
        BY <2>3, <3>1, <3>2, ArrayArrives
    <2>4. QED
      BY <2>2, <2>3 DEF NumbersArriveUnchanged
  <1>2. QED
    BY <1>1, ConversionsInvariant, PTL

\* check finds in a packed list the actions it was packed from and no others.
THEOREM PackedListIsTheList == Spec => []PackKeepsTheList
PROOF
  <1>1. IInv => PackKeepsTheList
    <2>1. SUFFICES ASSUME IInv, Converted("actions"), Distinct(input.list),
                          NEW a \in DOMAIN Actions, NEW r \in result
                   PROVE  check(a, r) <=> \E i \in DOMAIN input.list : input.list[i] = a
      BY DEF PackKeepsTheList
    <2>2. input.list \in Seq(DOMAIN Actions) /\ input.list # <<>>
      BY <2>1, InputsAssumption DEF IInv, Converted
    <2>3. r = pack(input.list)
      BY <2>1 DEF IInv, ConvertedInv
    <2>4. a \in Names /\ input.list \in Seq(Names)
      BY <2>2, ActionValues, Zenon
    <2>5. QED
      BY <2>1, <2>2, <2>3, <2>4, PackedBits
  <1>2. QED
    BY <1>1, ConversionsInvariant, PTL

\* However long bobwire measures, get_next_basis uses the standard basis seven
\* times, then the bits of the first byte of the file, then that byte's sign: it
\* neither reads the bytes after the first nor wraps around, unlike its comments.
THEOREM BasesFromFirstByte == Spec => []BasesAreThoseOfTheFirstByte
PROOF
  <1>1. IInv => BasesAreThoseOfTheFirstByte
    <2>1. SUFFICES ASSUME IInv, Converted("bases")
                   PROVE  result = IF calls <= 7 THEN {0}
                                   ELSE IF input.file = <<>> THEN {}
                                   ELSE {Bit(input.file[1], IF calls >= 14 THEN 7 ELSE calls - 7)}
      BY DEF BasesAreThoseOfTheFirstByte
    <2>2. /\ calls \in Nat /\ ReaderAt(input.file, reader, calls)
          /\ result = IF reader.failed THEN {} ELSE {reader.basisByte % 2}
      BY <2>1 DEF IInv, ReaderInv, Converted
    <2>3. CASE calls <= 7
      BY <2>2, <2>3 DEF ReaderAt
    <2>4. CASE calls > 7 /\ input.file = <<>>
      BY <2>2, <2>4 DEF ReaderAt
    <2>5. CASE calls > 7 /\ input.file # <<>>
      <3>1. result = {(input.file[1] \div Weight[Shifts(calls)]) % 2}
        BY <2>2, <2>5 DEF ReaderAt
      <3>2. result = {Bit(input.file[1], IF calls >= 14 THEN 7 ELSE calls - 7)}
        BY <3>1, Zenon DEF Bit, Shifts
      <3>3. ~(calls <= 7)
        BY <2>2, <2>5
      <3>4. QED
        BY <2>5, <3>2, <3>3, Zenon
    <2>6. QED
      BY <2>2, <2>3, <2>4, <2>5
  <1>2. QED
    BY <1>1, ConversionsInvariant, PTL

=============================================================================
