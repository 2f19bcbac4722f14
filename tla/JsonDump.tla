------------------------------ MODULE JsonDump ------------------------------
(***************************************************************************)
(* detail::serializer of engine/json.hpp, as json::dump() runs it: a value *)
(* is written compactly, and its strings byte by byte through a buffer,    *)
(* decoded as UTF-8 on the way.  dump() is strict and does not escape what *)
(* is not ASCII; the other settings of the serializer are modelled as well.*)
(***************************************************************************)
EXTENDS JsonDom
LOCAL INSTANCE TLC

CONSTANT
  BufferSize   (* of string_buffer: 512                                     *)

ASSUME DumpAssumption == BufferSize \in Nat /\ BufferSize >= 16

VARIABLES
  settings,      (* ensure_ascii and error_handler                          *)
  out,           (* what has been written                                   *)
  todo,          (* what is still to be written, in order                   *)
  string_buffer, (* its first bytes                                         *)
  decoding,      (* state and codepoint of decode                           *)
  accepted,      (* bytes_after_last_accept                                 *)
  undumped,      (* undumped_chars                                          *)
  thrown         (* type_error 316                                          *)

escapeVars == <<string_buffer, decoding, accepted, undumped>>
dumpVars   == <<settings, out, todo, escapeVars, thrown>>

-----------------------------------------------------------------------------
(* What to write: bytes, a value, or the inside of a string.               *)
Bytes(bytes)  == <<"bytes", bytes>>
Value(a)      == <<"value", a>>
Inside(bytes) == <<"string", bytes>>

Quote == Bytes(<<34>>)

(* std::map keeps its keys in order.                                       *)
before(k, l) ==
  \E n \in 1..Len(l) :
    /\ \A i \in 1..(n - 1) : i <= Len(k) /\ k[i] = l[i]
    /\ n <= Len(k) => k[n] < l[n]

separated(items) ==
  FlattenSeq([i \in DOMAIN items |->
                IF i = 1 THEN items[i] ELSE <<Bytes(<<44>>)>> \o items[i]])

decimalDigits(n) ==
  LET digits[k \in Nat] == IF k < 10 THEN <<48 + k>> ELSE Append(digits[k \div 10], 48 + (k % 10))
  IN digits[n]

(* The magnitude of a negative number, without negating the smallest.      *)
remove_sign(n) == -(n + 1) + 1

(* dump_integer.                                                           *)
dump_integer(n) == IF n < 0 THEN <<45>> \o decimalDigits(remove_sign(n)) ELSE decimalDigits(n)

(* One call of dump, up to the calls it makes.                             *)
expansion(v) ==
  CASE v[1] = "null"    -> <<Bytes(<<110, 117, 108, 108>>)>>
    [] v[1] = "boolean" -> <<Bytes(IF v[2] THEN <<116, 114, 117, 101>> ELSE <<102, 97, 108, 115, 101>>)>>
    [] v[1] = "number"  -> <<Bytes(dump_integer(v[2]))>>
    [] v[1] = "string"  -> <<Quote, Inside(v[2]), Quote>>
    [] v[1] = "array"   ->
         <<Bytes(<<91>>)>> \o separated([i \in DOMAIN v[2] |-> <<Value(v[2][i])>>]) \o <<Bytes(<<93>>)>>
    [] v[1] = "object"  ->
         LET keys == SetToSortSeq(DOMAIN v[2], before)
             member(k) == <<Quote, Inside(k), Bytes(<<34, 58>>), Value(v[2][k])>>
         IN <<Bytes(<<123>>)>> \o separated([i \in DOMAIN keys |-> member(keys[i])]) \o <<Bytes(<<125>>)>>

dumpValue ==
  /\ todo # <<>> /\ todo[1][1] = "value"
  /\ todo' = expansion(heap[todo[1][2]]) \o Tail(todo)
  /\ UNCHANGED <<out, escapeVars, thrown>>

write ==
  /\ todo # <<>> /\ todo[1][1] = "bytes"
  /\ out' = out \o todo[1][2]
  /\ todo' = Tail(todo)
  /\ UNCHANGED <<escapeVars, thrown>>

-----------------------------------------------------------------------------
(* decode: the type of a byte, and the machine over the types.  State 0    *)
(* accepts and state 1 rejects.                                            *)
UTF8_ACCEPT == 0
UTF8_REJECT == 1

byteType(b) ==
  CASE b \in 0..127   -> 0  [] b \in 128..143 -> 1  [] b \in 144..159 -> 9
    [] b \in 160..191 -> 7  [] b \in 192..193 -> 8  [] b \in 194..223 -> 2
    [] b = 224        -> 10 [] b = 237        -> 4  [] b \in 225..239 \ {237} -> 3
    [] b = 240        -> 11 [] b \in 241..243 -> 6  [] b = 244 -> 5
    [] b \in 245..255 -> 8

(* For each state the types it goes on with, and to which state.           *)
Transitions ==
  { <<0, {0}, 0>>, <<0, {2}, 2>>, <<0, {3}, 3>>, <<0, {4}, 5>>, <<0, {5}, 8>>,
    <<0, {6}, 7>>, <<0, {10}, 4>>, <<0, {11}, 6>>,
    <<2, {1, 7, 9}, 0>>, <<3, {1, 7, 9}, 2>>, <<4, {7}, 2>>, <<5, {1, 9}, 2>>,
    <<6, {7, 9}, 3>>, <<7, {1, 7, 9}, 3>>, <<8, {1}, 3>> }

decode(d, b) ==
  LET type == byteType(b)
      to   == {t[3] : t \in {t \in Transitions : t[1] = d.state /\ type \in t[2]}}
  IN [state     |-> IF to = {} THEN UTF8_REJECT ELSE CHOOSE s \in to : TRUE,
      codepoint |-> IF d.state # UTF8_ACCEPT THEN 64 * d.codepoint + (b % 64)
                    ELSE IF type > 8 THEN 0 ELSE b % 2 ^ (8 - type)]

Begin == [state |-> UTF8_ACCEPT, codepoint |-> 0]

-----------------------------------------------------------------------------
(* dump_escaped.                                                           *)

hexDigitOf(n) == IF n < 10 THEN 48 + n ELSE 87 + n

escapedUnit(n) ==
  <<92, 117, hexDigitOf(n \div 4096), hexDigitOf((n \div 256) % 16),
    hexDigitOf((n \div 16) % 16), hexDigitOf(n % 16)>>

ShortEscape ==
  (8 :> 98) @@ (9 :> 116) @@ (10 :> 110) @@ (12 :> 102) @@ (13 :> 114) @@ (34 :> 34) @@ (92 :> 92)

(* What a code point adds to the buffer; of one that is not escaped, its   *)
(* last byte, as the others are there already.                             *)
codepointBytes(cp, lastByte) ==
  IF cp \in DOMAIN ShortEscape THEN <<92, ShortEscape[cp]>>
  ELSE IF cp <= 31 \/ (settings.ensure_ascii /\ cp >= 127)
  THEN IF cp <= 65535 THEN escapedUnit(cp)
       ELSE escapedUnit(55232 + (cp \div 1024)) \o escapedUnit(56320 + (cp % 1024))
  ELSE <<lastByte>>

Replacement == IF settings.ensure_ascii THEN escapedUnit(65533) ELSE <<239, 191, 189>>

(* A fault to seed: the buffer is flushed a byte too late.                 *)
bufferedLate(bytes) ==
  IF BufferSize - Len(bytes) < 12
  THEN out' = out \o bytes /\ string_buffer' = <<>> /\ accepted' = 0
  ELSE UNCHANGED out /\ string_buffer' = bytes /\ accepted' = Len(bytes)

(* The buffer after a code point: written out when what the next one may   *)
(* need does not fit any more.                                             *)
buffered(bytes) ==
  IF BufferSize - Len(bytes) < 13
  THEN out' = out \o bytes /\ string_buffer' = <<>> /\ accepted' = 0
  ELSE UNCHANGED out /\ string_buffer' = bytes /\ accepted' = Len(bytes)

upToAccepted == SubSeq(string_buffer, 1, accepted)

(* One turn of the loop, on a byte that completes a code point, ...        *)
codepointDone(b, d) ==
  /\ d.state = UTF8_ACCEPT
  /\ buffered(string_buffer \o codepointBytes(d.codepoint, b))
  /\ undumped' = 0 /\ decoding' = d
  /\ UNCHANGED thrown

(* ... on one within a code point, ...                                     *)
codepointGoesOn(b, d) ==
  /\ d.state \notin {UTF8_ACCEPT, UTF8_REJECT}
  /\ string_buffer' = IF settings.ensure_ascii THEN string_buffer ELSE Append(string_buffer, b)
  /\ undumped' = undumped + 1 /\ decoding' = d
  /\ UNCHANGED <<out, accepted, thrown>>

(* ... and on one that cannot be where it is.                              *)
ill_formed(d) ==
  /\ d.state = UTF8_REJECT
  /\ \/ /\ settings.error_handler = "strict" /\ thrown' = TRUE
        /\ UNCHANGED <<out, escapeVars>>
     \/ /\ settings.error_handler = "ignore"
        /\ string_buffer' = upToAccepted
        /\ undumped' = 0 /\ decoding' = Begin
        /\ UNCHANGED <<out, accepted, thrown>>
     \/ /\ settings.error_handler = "replace"
        /\ buffered(upToAccepted \o Replacement)
        /\ undumped' = 0 /\ decoding' = Begin
        /\ UNCHANGED thrown

(* Faults to seed: an ill-formed byte is looked at again never, or always. *)
readAgainNever(d)  == FALSE
readAgainAlways(d) == d.state = UTF8_REJECT

(* The byte that shows a sequence to be incomplete may begin the next one. *)
readAgain(d) == d.state = UTF8_REJECT /\ undumped > 0

dump_escaped ==
  /\ ~thrown
  /\ todo # <<>> /\ todo[1][1] = "string" /\ todo[1][2] # <<>>
  /\ LET b == Head(todo[1][2])
         d == decode(decoding, b)
     IN /\ codepointDone(b, d) \/ codepointGoesOn(b, d) \/ ill_formed(d)
        /\ todo' = IF readAgain(d) THEN todo
                   ELSE <<Inside(Tail(todo[1][2]))>> \o Tail(todo)

(* The end of the string, which may be within a code point.                *)
stringEnd ==
  /\ ~thrown
  /\ todo # <<>> /\ todo[1] = Inside(<<>>)
  /\ IF decoding.state # UTF8_ACCEPT /\ settings.error_handler = "strict"
     THEN thrown' = TRUE /\ UNCHANGED <<out, todo, escapeVars>>
     ELSE /\ out' = out \o (CASE decoding.state = UTF8_ACCEPT -> string_buffer
                              [] settings.error_handler = "ignore" -> upToAccepted
                              [] OTHER -> upToAccepted \o Replacement)
          /\ todo' = Tail(todo)
          /\ string_buffer' = <<>> /\ decoding' = Begin /\ accepted' = 0 /\ undumped' = 0
          /\ UNCHANGED thrown

Dump ==
  /\ dumpValue \/ write \/ dump_escaped \/ stringEnd
  /\ UNCHANGED settings

DumpInit(with, items) ==
  /\ settings = with
  /\ out = <<>> /\ todo = items
  /\ string_buffer = <<>> /\ decoding = Begin /\ accepted = 0 /\ undumped = 0
  /\ thrown = FALSE

(* A value is written while nothing changes it.                            *)
DumpSpec(with, items) ==
  DumpInit(with, items) /\ [][Dump /\ UNCHANGED heap]_<<dumpVars, heap>>

-----------------------------------------------------------------------------
(* What one code point may still need fits into string_buffer: escaped as  *)
(* a pair it is 12 bytes and the NUL of snprintf, escaped alone 6, and raw *)
(* the bytes that are missing, of which there are four at most.            *)
RoomForCodePoint ==
  /\ undumped <= 3
  /\ Len(string_buffer) + (CASE settings.ensure_ascii -> 13
                             [] ~settings.ensure_ascii /\ undumped = 0 -> 7
                             [] OTHER -> 4 - undumped) <= BufferSize
=============================================================================
