----------------------------- MODULE JsonBinary -----------------------------
(***************************************************************************)
(* What the binary formats of engine/json.hpp share: how binary_reader     *)
(* takes numbers, strings and elements from a message, and binary_writer   *)
(* puts numbers into one.  Their members become operators that give what   *)
(* was read and where the next byte is; an exception ends the reading.     *)
(*                                                                         *)
(* A value is <<"null">>, <<"boolean", b>>, <<"number", an integer>>,      *)
(* <<"float", its bytes>>, <<"string", bytes>>, <<"binary", bytes,         *)
(* subtype>>, <<"array", elements>> or <<"object", a function from keys>>. *)
(***************************************************************************)
EXTENDS JsonBytes, FiniteSets
LOCAL INSTANCE SequencesExt
LOCAL INSTANCE FiniteSetsExt
LOCAL INSTANCE Functions

CONSTANT MaxSize  (* max_size() of a vector and of a map, scaled down       *)

VARIABLES
  message,  (* the bytes                                                    *)
  codec     (* the format, and how it is to be written and read             *)

EOF == -1

NoSubtype == <<>>

-----------------------------------------------------------------------------
(* Reading.                                                                *)

Found(value, next) == [is |-> "found", value |-> value, next |-> next]
Failed    == [is |-> "failed"]
Discarded == [is |-> "discarded"]

Then(outcome, rest(_)) == IF outcome.is = "found" THEN rest(outcome) ELSE outcome

(* What was read, as the value that it is.                                 *)
Read(outcome, as(_)) == Then(outcome, LAMBDA found : Found(as(found.value), found.next))

byteAt(at) == IF at <= Len(message) THEN message[at] ELSE EOF

get_to(at, width) ==
  IF at + width - 1 > Len(message) THEN Failed
  ELSE Found(SubSeq(message, at, at + width - 1), at + width)

littleEndian == codec.format \in {"bson", "bjdata"}

ordered(bytes) == IF littleEndian THEN Reverse(bytes) ELSE bytes

(* A number of so many bytes, the most significant first.                  *)
get_number(at, width) == Read(get_to(at, width), ordered)

(* A string of a length; a negative one is taken for 0.                    *)
get_string(at, len) == get_to(at, IF len < 0 THEN 0 ELSE len)
get_binary(at, len) == get_string(at, len)

(* A length of so many bytes, and what has that length.                    *)
get_length(at, width) == Read(get_number(at, width), count)
get_size(at, width)   == Read(get_number(at, width), sizeOf)
get_prefixed(at, width) ==
  Then(get_length(at, width), LAMBDA len : get_string(len.next, len.value))

(* len elements, each read by one(at), from there on: those of the first   *)
(* half, and then the others.                                              *)
repeat(at, len, one(_)) ==
  LET some[i \in at..Len(message) + 2, k \in 0..len] ==
        CASE k = 0 -> Found(<<>>, i)
          [] k = 1 -> Read(one(i), LAMBDA v : <<v>>)
          [] k > 1 -> Then(some[i, k \div 2], LAMBDA before :
                        Read(some[before.next, k - (k \div 2)], LAMBDA after : before.value \o after))
  IN IF len > MaxSize THEN Failed ELSE some[at, len]

(* Elements up to a byte that ends them.                                   *)
until(at, last, one(_)) ==
  LET rest[i \in at..Len(message) + 2] ==
        IF byteAt(i) = last THEN Found(<<>>, i + 1)
        ELSE Then(one(i), LAMBDA first :
               Then(rest[first.next], LAMBDA more :
                 Found(<<first.value>> \o more.value, more.next)))
  IN rest[at]

elements(at, len, last, one(_)) ==
  IF len = Unknown THEN until(at, last, one) ELSE repeat(at, len, one)

(* A key and the value behind it.                                          *)
member(at, key(_), value(_)) ==
  Then(key(at), LAMBDA k : Read(value(k.next), LAMBDA v : <<k.value, v>>))

(* The object of such pairs: of a key that comes twice the last counts.    *)
objectOf(pairs) ==
  <<"object", [k \in {p[1] : p \in Range(pairs)} |->
                 pairs[Max({i \in DOMAIN pairs : pairs[i][1] = k})][2]]>>

Null         == <<"null">>
Boolean(b)   == <<"boolean", b>>
Unsigned(m)  == <<"number", unsigned(m)>>
Signed(m)    == <<"number", signed(m)>>
Float(d)     == <<"float", d>>
String(s)    == <<"string", s>>
Array(s)     == <<"array", s>>
Plain(bytes) == <<"binary", bytes, NoSubtype>>

(* A float of two bytes.                                                   *)
halfFloat(bytes) ==
  LET negative == bytes[1] \div 128
      exp      == (bytes[1] \div 4) % 32
      mant     == 256 * (bytes[1] % 4) + bytes[2]
  IN Float(CASE exp = 0               -> ldexp(negative, mant, -24)
             [] exp = 31 /\ mant = 0  -> double(negative, 2047, 0)
             [] exp = 31 /\ mant # 0  -> IF negative = 1 THEN negated(quiet_NaN) ELSE quiet_NaN
             [] OTHER                 -> ldexp(negative, mant + 1024, exp - 25))

(* A float of four bytes or a double of eight.                             *)
get_float(at, width) ==
  Read(get_number(at, width), LAMBDA bytes : Float(IF width = 4 THEN widened(bytes) ELSE bytes))

-----------------------------------------------------------------------------
(* Writing.                                                                *)

written(bytes) == [is |-> "written", bytes |-> bytes]
Thrown         == [is |-> "thrown"]

write_number(bytes) == ordered(bytes)

joined(parts) == FlattenSeq(parts)
mapped(s, as(_)) == [i \in DOMAIN s |-> as(s[i])]

(* The narrowest of the widths that holds a magnitude.                     *)
widthFor(magnitude, widths) == Min({w \in widths : Len(magnitude) <= w})

(* Bytes in a row that stand for such widths.                              *)
markers(first, widths) == [w \in widths |-> first + Cardinality({v \in widths : v < w})]

(* A number behind the byte that says how wide it is.                      *)
wide(magnitude, marker) ==
  LET w == widthFor(magnitude, DOMAIN marker)
  IN <<marker[w]>> \o write_number(lowest(magnitude, w))

write_compact_float(d, single, other) ==
  IF isFloat(d) THEN <<single>> \o write_number(narrowed(d)) ELSE <<other>> \o write_number(d)
=============================================================================
