---------------------------- MODULE MCConversions --------------------------
(***************************************************************************)
(* Instance of Conversions for TLC: bytes of four values; every dotted     *)
(* address of numbers up to one more than a byte, ports to beyond the wrap *)
(* of two bytes and to one beyond an unsigned int; JSON values of every    *)
(* kind, with numbers at the limits of every type, alone and in arrays of  *)
(* up to two; all lists of up to four actions, repeated ones too; all sets *)
(* of lcc options; files of up to two bytes and twenty calls.              *)
(***************************************************************************)
EXTENDS Conversions

MCByte == 4

\* The limits of all numeric types.
Limits == {0} \union UNION {{-r, -(r \div 2), r \div 2, r} : r \in {4 ^ 2, 4 ^ 4, 4 ^ 8}}
Values == UNION {{l - 1, l, l + 1} : l \in Limits}

Addresses == [1..4 -> 0..4]
Ports == {0, 1, 6, 11, 15, 16, 37, 255, 256}
Bytes == {-128, -127, -86, -1, 0, 1, 2, 85, 127}

Json(T, vs) == {[t |-> T, v |-> v] : v \in vs}
Scalars == Json("number", Values) \union Json("string", {<<>>, <<65>>, <<66, 65>>}) \union Json("bool", {0, 1})

MCInputs ==
  [kind : {"endpoint"}, address : Addresses, port : Ports]
  \union [kind : {"scalar"}, type : Types, json : Scalars]
  \union [kind : {"array"}, type : ArrayTypes,
          json : Scalars \union Json("array", {<<>>} \union {<<x>> : x \in Scalars}
                               \union {<<[t |-> "number", v |-> 3], x>> : x \in Scalars})]
  \union [kind : {"actions"},
          list : UNION {[1..n -> DOMAIN Actions] : n \in 1..4}]
  \union [kind : {"lcc"}, given : SUBSET LccOptions, address : {<<1, 2, 3, 0>>, <<3, 0, 0, 4>>}]
  \union [kind : {"bases"},
          file : {<<>>} \union {<<b>> : b \in Bytes} \union {<<b, c>> : b, c \in Bytes}]

=============================================================================
