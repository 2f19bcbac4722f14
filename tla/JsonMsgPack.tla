----------------------------- MODULE JsonMsgPack -----------------------------
(***************************************************************************)
(* MessagePack: the members of binary_reader and binary_writer in          *)
(* engine/json.hpp for it.                                                 *)
(***************************************************************************)
EXTENDS JsonBinary
LOCAL INSTANCE FiniteSetsExt

(* A string, the length of which is in its first byte or behind it.        *)
get_msgpack_string(at) ==
  LET b == byteAt(at)
  IN CASE b \in 160..191 -> get_string(at + 1, b % 32)
       [] b \in 217..219 -> get_prefixed(at + 1, 2 ^ (b - 217))
       [] OTHER          -> Failed

(* A byte string; an extension has its type as a subtype.                  *)
bin(at, width) == Read(get_prefixed(at, width), Plain)

extension(at, len) ==
  Then(get_number(at, 1), LAMBDA type :
    Read(get_binary(type.next, len), LAMBDA bytes : <<"binary", bytes, unsigned(type.value)>>))

ext(at, width) == Then(get_length(at, width), LAMBDA len : extension(len.next, len.value))

get_msgpack_binary(at) ==
  LET b == byteAt(at)
  IN CASE b \in 196..198 -> bin(at + 1, 2 ^ (b - 196))
       [] b \in 199..201 -> ext(at + 1, 2 ^ (b - 199))
       [] b \in 212..216 -> extension(at + 1, 2 ^ (b - 212))

RECURSIVE parse_msgpack_internal(_)

get_msgpack_array(at, len) == Read(repeat(at, len, parse_msgpack_internal), Array)

get_msgpack_object(at, len) ==
  Read(repeat(at, len, LAMBDA i : member(i, get_msgpack_string, parse_msgpack_internal)), objectOf)

msgpackNumber(at) ==
  LET b == byteAt(at)
  IN IF b <= 207 THEN Read(get_number(at + 1, 2 ^ (b - 204)), Unsigned)
     ELSE Read(get_number(at + 1, 2 ^ (b - 208)), Signed)

parse_msgpack_internal(at) ==
  LET b == byteAt(at)
  IN CASE b \in 0..127   -> Found(Unsigned(<<b>>), at + 1)
       [] b \in 128..143 -> get_msgpack_object(at + 1, b % 16)
       [] b \in 144..159 -> get_msgpack_array(at + 1, b % 16)
       [] b \in 160..191 \cup 217..219 -> Read(get_msgpack_string(at), String)
       [] b = 192        -> Found(Null, at + 1)
       [] b \in 194..195 -> Found(Boolean(b = 195), at + 1)
       [] b \in 196..201 \cup 212..216 -> get_msgpack_binary(at)
       [] b \in 202..203 -> get_float(at + 1, IF b = 202 THEN 4 ELSE 8)
       [] b \in 204..211 -> msgpackNumber(at)
       [] b \in 220..221 ->
            Then(get_length(at + 1, 2 * (b - 219)), LAMBDA len : get_msgpack_array(len.next, len.value))
       [] b \in 222..223 ->
            Then(get_length(at + 1, 2 * (b - 221)), LAMBDA len : get_msgpack_object(len.next, len.value))
       [] b \in 224..255 -> Found(Signed(<<b>>), at + 1)
       [] OTHER          -> Failed

-----------------------------------------------------------------------------
(* Writing.                                                                *)

(* A length: in the first byte, or behind one of the markers.              *)
msgpackHead(n, short, base, marker) ==
  IF n <= short THEN <<base + n>> ELSE wide(natural(n).magnitude, marker)

writePositive(n) ==
  IF count(n.magnitude) < 128 THEN <<count(n.magnitude)>>
  ELSE wide(n.magnitude, markers(204, {1, 2, 4, 8}))

(* A fault to seed: as wide as the magnitude needs without a sign.         *)
negativeWidthUnsigned(n) == widthFor(n.magnitude, {1, 2, 4, 8})

negativeWidth(n) == Min({w \in {1, 2, 4, 8} : inSigned(n, w)})

writeNegative(n) ==
  IF count(n.magnitude) <= 32 THEN cast(n, 1)
  ELSE <<markers(208, {1, 2, 4, 8})[negativeWidth(n)]>> \o write_number(cast(n, negativeWidth(n)))

(* The markers of a byte string: fixext for some lengths, or bin or ext.   *)
binaryHead(n, subtype) ==
  CASE subtype = NoSubtype -> wide(natural(n).magnitude, markers(196, {1, 2, 4}))
    [] subtype # NoSubtype /\ n \in {1, 2, 4, 8, 16} -> <<markers(212, {1, 2, 4, 8, 16})[n]>>
    [] OTHER -> wide(natural(n).magnitude, markers(199, {1, 2, 4}))

writeSubtype(subtype) == IF subtype = NoSubtype THEN <<>> ELSE cast(subtype, 1)

RECURSIVE write_msgpack(_)
write_msgpack(j) ==
  CASE j[1] = "null"    -> <<192>>
    [] j[1] = "boolean" -> <<IF j[2] THEN 195 ELSE 194>>
    [] j[1] = "number"  -> IF j[2].negative THEN writeNegative(j[2]) ELSE writePositive(j[2])
    [] j[1] = "float"   -> write_compact_float(j[2], 202, 203)
    [] j[1] = "string"  ->
         msgpackHead(Len(j[2]), 31, 160, markers(217, {1, 2, 4})) \o j[2]
    [] j[1] = "binary"  -> binaryHead(Len(j[2]), j[3]) \o writeSubtype(j[3]) \o j[2]
    [] j[1] = "array"   ->
         msgpackHead(Len(j[2]), 15, 144, markers(220, {2, 4})) \o
         joined(mapped(j[2], write_msgpack))
    [] j[1] = "object"  ->
         msgpackHead(Len(keysOf(j[2])), 15, 128, markers(222, {2, 4})) \o
         joined(mapped(keysOf(j[2]), LAMBDA k : write_msgpack(String(k)) \o write_msgpack(j[2][k])))
=============================================================================
