----------------------------- MODULE Conversions ---------------------------
(***************************************************************************)
(* The conversions of data that two parts of the system have to agree on:  *)
(* where a transceiver listens and where another one connects to, the      *)
(* number under which a unit names itself to the dispatcher, what a unit   *)
(* reads from a JSON parameter, the bits of a list of actions, the         *)
(* parameters of lcc_and_fpga and the bases bobwire measures in.           *)
(*                                                                         *)
(* An integer of n bytes is a number below Byte^n (256 in the code), so    *)
(* that wrapping and byte order keep their meaning in small instances. The *)
(* machine is little-endian and has 64 bits.                               *)
(***************************************************************************)
EXTENDS Integers, Sequences

CONSTANTS
  Byte,        \* number of values of a byte
  Inputs,      \* what is converted: a set of records, each with its kind
  MaxCalls     \* bound: calls of get_next_basis

VARIABLES
  input,
  result,      \* what the conversion may give: nothing, if it throws or aborts
  done,
  reader,      \* bobwire: basisByte, basisBytePos and the file's position and state
  calls        \* history: calls of get_next_basis so far

vars == <<input, result, done, reader, calls>>

Short == Byte * Byte
UInt == Short * Short
ULong == UInt * UInt

\* A byte has an even number of values, and basisBytePos, a size_t, does not wrap.
ASSUME ConversionsAssumption ==
  /\ Byte \in Nat /\ Byte > 1 /\ Byte % 2 = 0
  /\ MaxCalls \in 0..(ULong - 1)

----------------------------------------------------------------------------
(* Addresses. A dotted address is the sequence of its four numbers.        *)

\* The byte of an integer that has the given weight.
Digit(n, weight) == (n \div weight) % Byte

\* The integer whose bytes are, from the highest to the lowest, b3 ... b0.
Word(b3, b2, b1, b0) == ((b3 * Byte + b2) * Byte + b1) * Byte + b0

\* HTN_BYTE_ORD and NTH_BYTE_ORD: endian_reverse of four and of two bytes.
endian_reverse(n) ==
  Word(Digit(n, 1), Digit(n, Byte), Digit(n, Short), Digit(n, Short * Byte))
endian_reverse_short(n) == Digit(n, 1) * Byte + Digit(n, Byte)

\* inet_aton refuses a number that is no byte; s_addr holds the bytes in order.
inet_aton(q) == \A i \in 1..4 : q[i] < Byte
s_addr(q) == Word(q[4], q[3], q[2], q[1])

\* set_request_endpoint, with the port std::stoul has read.
set_request_endpoint(q, port) ==
  IF inet_aton(q)
  THEN {[sin_addr |-> s_addr(q), sin_port |-> endian_reverse_short(port % Short)]}
  ELSE {}

\* Mutant: the port is left in network byte order.
acceptor_network_order(netInfo) ==
  [address |-> endian_reverse(netInfo.sin_addr), port |-> netInfo.sin_port]

\* work(): the endpoint of the acceptor, in host byte order.
acceptor(netInfo) ==
  [address |-> endian_reverse(netInfo.sin_addr),
   port    |-> endian_reverse_short(netInfo.sin_port)]

\* pnIP[3] = strtoul(...) and so on: each number is cut to a char.
pnIP(q) == Word(q[1] % Byte, q[2] % Byte, q[3] % Byte, q[4] % Byte)

\* The number under which the dispatcher knows a transceiver and a switch.
trx_node(q) == s_addr(q)
\* Mutant: the address is not reversed.
switch_node_host_order(q) == pnIP(q)

switch_node(q) == endian_reverse(pnIP(q))

----------------------------------------------------------------------------
(* Parameters of a request. A JSON value is [t, v]: a number, a Boolean    *)
(* (as a number), a string (the sequence of its characters) or an array of *)
(* values.                                                                 *)

Uint(j) == IF j.t = "number" /\ j.v \in 0..(UInt - 1) THEN {j.v} ELSE {}
Int32(j) ==
  IF j.t = "number" /\ j.v \in -(UInt \div 2)..(UInt \div 2 - 1) THEN {j.v} ELSE {}
Uint64(j) == IF j.t = "number" /\ j.v \in 0..(ULong - 1) THEN {j.v} ELSE {}
Int64(j) ==
  IF j.t = "number" /\ j.v \in -(ULong \div 2)..(ULong \div 2 - 1) THEN {j.v} ELSE {}

Types == {"const char*", "char", "bool", "unsigned short", "short", "unsigned int",
          "int", "unsigned long", "long"}

\* There is no parameter<char*>.
ArrayTypes == Types \ {"char"}

\* GetString()[0]: the terminator, if the string is empty.
FirstChar(string) == IF string = <<>> THEN 0 ELSE string[1]

Signed(n, range) == ((n + range \div 2) % range) - range \div 2

\* Mutant: an unsigned int is read as an int.
scalar_signed(T, j) ==
  CASE T = "const char*" -> IF j.t = "string" THEN {j.v} ELSE {}
    [] T = "char" -> IF j.t = "string" THEN {FirstChar(j.v)} ELSE {}
    [] T = "bool" -> IF j.t = "bool" THEN {j.v} ELSE {}
    [] T = "unsigned short" -> {n % Short : n \in Uint(j)}
    [] T = "short" -> {Signed(n, Short) : n \in Int32(j)}
    [] T \in {"int", "unsigned int"} -> Int32(j)
    [] T = "unsigned long" -> Uint64(j)
    [] T = "long" -> Int64(j)

\* parameter<T> of one value; an assertion of rapidjson aborts the process.
scalar(T, j) ==
  CASE T = "const char*" -> IF j.t = "string" THEN {j.v} ELSE {}
    [] T = "char" -> IF j.t = "string" THEN {FirstChar(j.v)} ELSE {}
    [] T = "bool" -> IF j.t = "bool" THEN {j.v} ELSE {}
    [] T = "unsigned short" -> {n % Short : n \in Uint(j)}
    [] T = "short" -> {Signed(n, Short) : n \in Int32(j)}
    [] T = "unsigned int" -> Uint(j)
    [] T = "int" -> Int32(j)
    [] T = "unsigned long" -> Uint64(j)
    [] T = "long" -> Int64(j)

\* parameter<T*>: element by element, and a failed assertion aborts.
array(T, j) ==
  IF j.t # "array" THEN {}
  ELSE {a \in [DOMAIN j.v -> UNION {scalar(T, j.v[i]) : i \in DOMAIN j.v}] :
          \A i \in DOMAIN j.v : a[i] \in scalar(T, j.v[i])}

\* The endpoint transmit connects to, from the first two parameters of "tx".
connect(ip, port) ==
  [address : scalar("unsigned int", ip), port : scalar("unsigned short", port)]

----------------------------------------------------------------------------
(* Lists of actions.                                                       *)

Actions == [PUSH |-> 1, WAIT |-> 2, REQUEST |-> 4, REPLY |-> 8]

\* The exclusive or of two numbers of four bits, bit by bit.
XorBit(x, y, weight) == weight * ((x \div weight + y \div weight) % 2)
Xor(x, y) == XorBit(x, y, 1) + XorBit(x, y, 2) + XorBit(x, y, 4) + XorBit(x, y, 8)

\* pack: the exclusive or of the actions, the last one first.
pack(list) ==
  LET f[i \in 1..Len(list)] ==
        IF i = Len(list) THEN Actions[list[i]] ELSE Xor(Actions[list[i]], f[i + 1])
  IN  f[1]

\* List & Query, which has one bit.
Masked(query, list) == Actions[query] * ((list \div Actions[query]) % 2)

\* Mutant: the shift is one too long.
check_shifts_too_far(query, list) == Masked(query, list) \div (2 * Actions[query]) # 0

\* check: the bit is masked and shifted to the lowest place.
check(query, list) == Masked(query, list) \div Actions[query] # 0

----------------------------------------------------------------------------
(* lcc_and_fpga: which sets of options are accepted.                       *)

LccOptions == {"lccDev0", "lccDev1", "lccSpeed0", "lccSpeed1", "voltages",
               "zedboardIp", "zedboardPort", "handshakeIp"}

\* The checks, in the order of the code: the first that fails throws.
lcc_accepts(given) ==
  /\ "lccDev0" \in given <=> "lccDev1" \in given
  /\ "lccDev0" \in given => {"lccSpeed0", "lccSpeed1"} \subseteq given
  /\ "lccDev0" \in given => "voltages" \in given
  /\ "zedboardIp" \in given => "zedboardPort" \in given

\* A handshake address that is not given is parsed past its end.
lcc_parameters(given, q) ==
  IF ~lcc_accepts(given) THEN {}
  ELSE IF "zedboardIp" \notin given THEN {[isRx |-> FALSE, nIp |-> 0]}
  ELSE [isRx : {TRUE},
        nIp  : IF "handshakeIp" \in given THEN {pnIP(q)} ELSE 0..(UInt - 1)]

----------------------------------------------------------------------------
(* bobwire's bases: signed chars, and a file that is read byte by byte.    *)

Chars == -128..127

ReaderInit == [basisByte |-> 0, basisBytePos |-> 0, read |-> 0, failed |-> FALSE]

\* The state of the reader after one more call. Reading at the end of the file sets
\* failbit, which seekg does not clear: the next get fails without eof, and throws.
get_next_basis(file, r) ==
  IF r.failed \/ (r.basisBytePos = 7 /\ r.read = Len(file))
  THEN [r EXCEPT !.failed = TRUE]
  ELSE LET reads == r.basisBytePos = 7
       IN  [basisByte    |-> (IF reads THEN file[r.read + 1] ELSE r.basisByte) \div 2,
            basisBytePos |-> r.basisBytePos + 1,
            read         |-> IF reads THEN r.read + 1 ELSE r.read,
            failed       |-> FALSE]

----------------------------------------------------------------------------

\* What is converted is well formed; whether it can be converted is another matter.
ASSUME InputsAssumption ==
  \A in \in Inputs :
    /\ in.kind = "endpoint" => in.address \in [1..4 -> Nat] /\ in.port \in Nat
    /\ in.kind = "scalar" =>
         in.type \in Types /\ (in.json.t = "number" => in.json.v \in Int)
    /\ in.kind = "array" =>
         /\ in.type \in ArrayTypes
         /\ in.json.t = "array" =>
              \A i \in DOMAIN in.json.v : in.json.v[i].t = "number" => in.json.v[i].v \in Int
    /\ in.kind = "actions" => in.list \in Seq(DOMAIN Actions) /\ in.list # <<>>
    /\ in.kind = "lcc" => in.address \in [1..4 -> Nat]
    /\ in.kind = "bases" => in.file \in Seq(Chars)

Init ==
  /\ input \in Inputs
  /\ result = {} /\ done = FALSE
  /\ reader = ReaderInit /\ calls = 0

\* One conversion per kind of input.
listen ==
  /\ input.kind = "endpoint"
  /\ result' = {acceptor(n) : n \in set_request_endpoint(input.address, input.port)}

decode ==
  \/ input.kind = "scalar" /\ result' = scalar(input.type, input.json)
  \/ input.kind = "array" /\ result' = array(input.type, input.json)

pack_actions == input.kind = "actions" /\ result' = {pack(input.list)}

initialize_lcc ==
  input.kind = "lcc" /\ result' = lcc_parameters(input.given, input.address)

\* The receiver asks for a basis before every symbol; an exception ends its thread.
next_basis ==
  /\ input.kind = "bases" /\ ~reader.failed /\ calls < MaxCalls
  /\ reader' = get_next_basis(input.file, reader)
  /\ calls' = calls + 1
  /\ result' = IF reader'.failed THEN {} ELSE {reader'.basisByte % 2}

Next ==
  /\ \/ /\ ~done
        /\ listen \/ decode \/ pack_actions \/ initialize_lcc
        /\ UNCHANGED <<reader, calls>>
     \/ next_basis
  /\ done' = TRUE
  /\ UNCHANGED input

Spec == Init /\ [][Next]_vars

----------------------------------------------------------------------------

Converted(kind) == done /\ input.kind = kind

\* The address a reader of the option means, as a number.
HostOrder(q) == Word(q[1], q[2], q[3], q[4])

Number(n) == [t |-> "number", v |-> n]

\* A client that passes the address and the port of a receiver to "tx" reaches the
\* acceptor of that receiver, whatever the port is cut to on the way: the bytes are
\* reversed as often in the one as in the other. (A port that is no unsigned int is
\* cut by the receiver, and refused when a client passes it to "tx".)
SenderReachesReceiver ==
  Converted("endpoint") /\ inet_aton(input.address) /\ input.port < UInt
    => result = connect(Number(HostOrder(input.address)), Number(input.port))

\* The transceivers take their number from inet_aton and the switch packs it by hand
\* and reverses it; the dispatcher gets the same number for the same address.
NodeNamesAgree ==
  Converted("endpoint") /\ inet_aton(input.address)
    => trx_node(input.address) = switch_node(input.address)

\* The range of a type, independently of the accessor that is called for it.
TypeRange(T) ==
  CASE T = "unsigned short" -> 0..(Short - 1)
    [] T = "short" -> -(Short \div 2)..(Short \div 2 - 1)
    [] T = "unsigned int" -> 0..(UInt - 1)
    [] T = "int" -> -(UInt \div 2)..(UInt \div 2 - 1)
    [] T = "unsigned long" -> 0..(ULong - 1)
    [] T = "long" -> -(ULong \div 2)..(ULong \div 2 - 1)
    [] OTHER -> {}

\* A number a type can hold arrives as it was written, and one it cannot hold does
\* not arrive; only the types of two bytes ("possible loss of precision") let one
\* through, changed by a multiple of 2^16. The same goes for every element of an array.
Arrives(T, n, r) ==
  /\ n \in TypeRange(T) => r = n
  /\ r \in TypeRange(T)
  /\ r # n => T \in {"short", "unsigned short"} /\ (r - n) % Short = 0

NumbersArriveUnchanged ==
  /\ Converted("scalar") /\ input.json.t = "number" =>
       /\ input.json.v \in TypeRange(input.type) => result # {}
       /\ \A r \in result : Arrives(input.type, input.json.v, r)
  /\ Converted("array") /\ input.json.t = "array" =>
       /\ (\A i \in DOMAIN input.json.v : input.json.v[i].t = "number"
                 /\ input.json.v[i].v \in TypeRange(input.type)) => result # {}
       /\ \A r \in result :
            /\ DOMAIN r = DOMAIN input.json.v
            /\ \A i \in DOMAIN r : input.json.v[i].t = "number"
                                     => Arrives(input.type, input.json.v[i].v, r[i])

\* A list packed by exclusive or contains the actions it was packed from, and no
\* others, as long as none is named twice.
Distinct(list) == \A i, j \in DOMAIN list : list[i] = list[j] => i = j

PackKeepsTheList ==
  Converted("actions") /\ Distinct(input.list) =>
    \A a \in DOMAIN Actions, r \in result :
      check(a, r) <=> \E i \in DOMAIN input.list : input.list[i] = a

=============================================================================
