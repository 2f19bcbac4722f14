------------------------------ MODULE JsonCbor ------------------------------
(***************************************************************************)
(* CBOR: the members of binary_reader and binary_writer in engine/json.hpp *)
(* for it.  An item is at the place of its first byte, which has its major *)
(* type in three bits and its argument in, or announced by, the others.    *)
(***************************************************************************)
EXTENDS JsonBinary
LOCAL INSTANCE SequencesExt

INDEFINITE == 31
BREAK      == 255

argument(at) == byteAt(at) % 32
widthOf(n)   == 2 ^ (n - 24)

(* What the first byte says and, in 24 to 27, the number behind it.        *)
cborNumber(at, inByte(_), behind(_)) ==
  IF argument(at) < 24 THEN Found(inByte(argument(at)), at + 1)
  ELSE Read(get_number(at + 1, widthOf(argument(at))), behind)

cborUnsigned(at) == cborNumber(at, LAMBDA n : Unsigned(<<n>>), Unsigned)

(* -1 - n, of which eight bytes may be too few: then it wraps around.      *)
minusOneLess(bytes) == Signed(complement(IF Len(bytes) = 8 THEN bytes ELSE <<0>> \o bytes))

cborNegative(at) == cborNumber(at, LAMBDA n : Signed(<<255 - n>>), minusOneLess)

(* A string, or the chunks of one.                                         *)
RECURSIVE get_cbor_string(_)
get_cbor_string(at) ==
  CASE byteAt(at) \in 96..123 ->
         Then(cborNumber(at, LAMBDA n : n, count), LAMBDA len : get_string(len.next, len.value))
    [] byteAt(at) = 127 -> Read(until(at + 1, BREAK, get_cbor_string), joined)
    [] OTHER -> Failed

RECURSIVE get_cbor_binary(_)
get_cbor_binary(at) ==
  CASE byteAt(at) \in 64..91 ->
         Then(cborNumber(at, LAMBDA n : n, count), LAMBDA len : get_binary(len.next, len.value))
    [] byteAt(at) = 95 -> Read(until(at + 1, BREAK, get_cbor_binary), joined)
    [] OTHER -> Failed

cborSize(at) ==
  IF argument(at) = INDEFINITE THEN Found(Unknown, at + 1)
  ELSE cborNumber(at, LAMBDA n : n, sizeOf)

RECURSIVE parse_cbor_internal(_)

get_cbor_array(at, len) == Read(elements(at, len, BREAK, parse_cbor_internal), Array)

get_cbor_object(at, len) ==
  Read(elements(at, len, BREAK, LAMBDA i : member(i, get_cbor_string, parse_cbor_internal)), objectOf)

(* A tag, and the item behind it: the tag of a byte string can be kept, as *)
(* its subtype.                                                            *)
tagWidth(at) == IF byteAt(at) < 216 THEN 0 ELSE widthOf(argument(at))

cborTag(at) ==
  CASE codec.tags = "error"  -> Failed
    [] codec.tags = "ignore" \/ tagWidth(at) = 0 ->
         Then(get_to(at + 1, tagWidth(at)), LAMBDA tag : parse_cbor_internal(tag.next))
    [] codec.tags = "store" /\ tagWidth(at) # 0 ->
         Then(get_number(at + 1, tagWidth(at)), LAMBDA tag :
           Read(get_cbor_binary(tag.next), LAMBDA b : <<"binary", b, unsigned(tag.value)>>))

parse_cbor_internal(at) ==
  LET b == byteAt(at)
  IN CASE b \in 0..27                -> cborUnsigned(at)
       [] b \in 32..59               -> cborNegative(at)
       [] b \in 64..91 \cup {95}     -> Read(get_cbor_binary(at), Plain)
       [] b \in 96..123 \cup {127}   -> Read(get_cbor_string(at), String)
       [] b \in 128..155 \cup {159}  ->
            Then(cborSize(at), LAMBDA size : get_cbor_array(size.next, size.value))
       [] b \in 160..187 \cup {191}  ->
            Then(cborSize(at), LAMBDA size : get_cbor_object(size.next, size.value))
       [] b \in 198..212 \cup 216..219 -> cborTag(at)
       [] b \in {244, 245}           -> Found(Boolean(b = 245), at + 1)
       [] b = 246                    -> Found(Null, at + 1)
       [] b = 249                    -> Read(get_number(at + 1, 2), halfFloat)
       [] b \in {250, 251}           -> get_float(at + 1, IF b = 250 THEN 4 ELSE 8)
       [] OTHER                      -> Failed

-----------------------------------------------------------------------------
(* Writing.                                                                *)

(* The shortest head of a major type for an argument.                      *)
cborHead(major, magnitude) ==
  IF count(magnitude) <= 23 THEN <<32 * major + count(magnitude)>>
  ELSE wide(magnitude, markers(32 * major + 24, {1, 2, 4, 8}))

sized(major, n) == cborHead(major, natural(n).magnitude)

writeCborInteger(n) ==
  IF n.negative THEN cborHead(1, Stripped(complement(cast(n, 8)))) ELSE cborHead(0, n.magnitude)

writeCborFloat(d) ==
  CASE isnan(d) -> <<249, 126, 0>>
    [] isinf(d) -> <<249, IF sign(d) = 0 THEN 124 ELSE 252, 0>>
    [] OTHER    -> write_compact_float(d, 250, 251)

(* The subtype of a byte string is written as a tag.                       *)
writeCborTag(subtype) ==
  IF subtype = NoSubtype THEN <<>>
  ELSE wide(subtype.magnitude, markers(216, {1, 2, 4, 8}))

RECURSIVE write_cbor(_)
write_cbor(j) ==
  CASE j[1] = "null"    -> <<246>>
    [] j[1] = "boolean" -> <<IF j[2] THEN 245 ELSE 244>>
    [] j[1] = "number"  -> writeCborInteger(j[2])
    [] j[1] = "float"   -> writeCborFloat(j[2])
    [] j[1] = "string"  -> sized(3, Len(j[2])) \o j[2]
    [] j[1] = "binary"  -> writeCborTag(j[3]) \o sized(2, Len(j[2])) \o j[2]
    [] j[1] = "array"   -> sized(4, Len(j[2])) \o joined(mapped(j[2], write_cbor))
    [] j[1] = "object"  ->
         sized(5, Len(keysOf(j[2]))) \o
         joined(mapped(keysOf(j[2]), LAMBDA k : write_cbor(String(k)) \o write_cbor(j[2][k])))
=============================================================================
