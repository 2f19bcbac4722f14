---------------------------- MODULE JsonGrammar ----------------------------
(***************************************************************************)
(* What a JSON text is and what it denotes (RFC 8259, over UTF-8 as the    *)
(* Unicode standard defines it), as a recursive descent over a text, or    *)
(* the beginning of one.  It is the reference the parser of json.hpp is    *)
(* compared with; it shares with it the arithmetic of numbers only.        *)
(***************************************************************************)
EXTENDS Integers, Sequences
LOCAL INSTANCE SequencesExt
LOCAL INSTANCE TLC

CONSTANTS
  Overflows(_),   (* no float has the value of these bytes                    *)
  NumberTree(_)   (* a number as a value: exact, or a float                   *)

(* An outcome: what was found and where it ends; the text is over before   *)
(* it could be told; or no continuation makes it one.                      *)
Found(value, at) == [is |-> "found", value |-> value, next |-> at]
Short == [is |-> "short"]
Bad   == [is |-> "bad"]

over(s, i)      == i > Len(s)
at(s, i, bytes) == ~over(s, i) /\ s[i] \in bytes

(* What is found first and then what comes after it.                       *)
Then(outcome, rest(_)) == IF outcome.is = "found" THEN rest(outcome) ELSE outcome

(* These bytes.                                                            *)
exactly(s, i, bytes) ==
  IF \E j \in DOMAIN bytes : i + j - 1 <= Len(s) /\ s[i + j - 1] # bytes[j] THEN Bad
  ELSE IF over(s, i + Len(bytes) - 1) THEN Short
  ELSE Found(bytes, i + Len(bytes))

-----------------------------------------------------------------------------
(* Characters.  Of n bytes whose first is the lead, with those still       *)
(* missing left open, the code points form an interval.                    *)
ScalarRanges == <<{<<0, 127>>}, {<<128, 2047>>}, {<<2048, 55295>>, <<57344, 65535>>},
                  {<<65536, 1114111>>}>>

bytesOf(lead) ==
  CASE lead < 128 -> 1 [] lead \in 192..223 -> 2 [] lead \in 224..239 -> 3
    [] lead \in 240..247 -> 4 [] OTHER -> 0

Filled(s, i, n, filler) ==
  LET part(j) == IF over(s, i + j) THEN filler ELSE s[i + j] - 128
  IN FoldLeft(LAMBDA codepoint, j : 64 * codepoint + part(j),
              s[i] % (IF n = 1 THEN 128 ELSE 2 ^ (7 - n)), [j \in 1..(n - 1) |-> j])

characterOf(s, i, n) ==
  IF n = 0 \/ \E j \in (i + 1)..(i + n - 1) : j <= Len(s) /\ s[j] \notin 128..191 THEN Bad
  ELSE IF \A range \in ScalarRanges[n] :
            range[2] < Filled(s, i, n, 0) \/ Filled(s, i, n, 63) < range[1]
  THEN Bad
  ELSE IF over(s, i + n - 1) THEN Short
  ELSE Found(SubSeq(s, i, i + n - 1), i + n)

character(s, i) == characterOf(s, i, bytesOf(s[i]))

(* Strings.                                                                *)
hex(b) == CASE b \in 48..57 -> b - 48 [] b \in 65..70 -> b - 55 [] b \in 97..102 -> b - 87 [] OTHER -> -1

fourHex(s, i) ==
  IF \E j \in i..(i + 3) : j <= Len(s) /\ hex(s[j]) = -1 THEN Bad
  ELSE IF over(s, i + 3) THEN Short
  ELSE Found(FoldLeft(LAMBDA n, b : 16 * n + hex(b), 0, SubSeq(s, i, i + 3)), i + 4)

(* A code point in UTF-8: the one sequence that decodes to it.             *)
Encoded(cp) ==
  LET n == CASE cp < 128 -> 1 [] cp \in 128..2047 -> 2 [] cp \in 2048..65535 -> 3 [] OTHER -> 4
      byte(j) == (cp \div 64 ^ (n - j)) % 64
  IN IF n = 1 THEN <<cp>>
     ELSE [j \in 1..n |-> IF j = 1 THEN <<0, 192, 224, 240>>[n] + byte(1) ELSE 128 + byte(j)]

lowSurrogate(s, i, first) ==
  Then(fourHex(s, i), LAMBDA second :
    IF second.value \notin 56320..57343 THEN Bad
    ELSE Found(Encoded(65536 + 1024 * (first - 55296) + second.value - 56320), second.next))

unicodeEscape(s, i) ==
  Then(fourHex(s, i), LAMBDA first :
    IF first.value \in 56320..57343 THEN Bad
    ELSE IF first.value \notin 55296..56319 THEN Found(Encoded(first.value), first.next)
    ELSE Then(exactly(s, first.next, <<92, 117>>), LAMBDA u : lowSurrogate(s, u.next, first.value)))

(* Which letter stands for which character.                                *)
Letters == (34 :> 34) @@ (92 :> 92) @@ (47 :> 47) @@ (98 :> 8) @@ (102 :> 12)
             @@ (110 :> 10) @@ (114 :> 13) @@ (116 :> 9)

escape(s, i) ==
  IF over(s, i) THEN Short
  ELSE IF s[i] = 117 THEN unicodeEscape(s, i + 1)
  ELSE IF s[i] \in DOMAIN Letters THEN Found(<<Letters[s[i]]>>, i + 1)
  ELSE Bad

RECURSIVE characters(_, _, _)
characters(s, i, sofar) ==
  IF over(s, i) THEN Short
  ELSE IF s[i] = 34 THEN Found(sofar, i + 1)
  ELSE IF s[i] < 32 THEN Bad
  ELSE Then(IF s[i] = 92 THEN escape(s, i + 1) ELSE character(s, i),
            LAMBDA one : characters(s, one.next, sofar \o one.value))

string(s, i) ==
  IF over(s, i) THEN Short ELSE IF s[i] = 34 THEN characters(s, i + 1, <<>>) ELSE Bad

-----------------------------------------------------------------------------
(* Numbers.                                                                *)
RECURSIVE digitsEnd(_, _)
digitsEnd(s, i) == IF at(s, i, 48..57) THEN digitsEnd(s, i + 1) ELSE i

(* At least one digit from i on.                                           *)
someDigits(s, i) ==
  IF over(s, i) THEN Short ELSE IF digitsEnd(s, i) = i THEN Bad ELSE Found(<<>>, digitsEnd(s, i))

whole(s, i)    == IF at(s, i, {48}) THEN Found(<<>>, i + 1) ELSE someDigits(s, i)
fraction(s, i) == IF at(s, i, {46}) THEN someDigits(s, i + 1) ELSE Found(<<>>, i)
exponent(s, i) ==
  IF at(s, i, {69, 101}) THEN someDigits(s, IF at(s, i + 1, {43, 45}) THEN i + 2 ELSE i + 1)
  ELSE Found(<<>>, i)

magnitude(digits) == FoldLeft(LAMBDA n, b : 10 * n + (b - 48), 0, digits)

(* The number from i on, its digits from first to before point, to end.    *)
numberFound(s, i, first, point, end) ==
  IF Overflows(SubSeq(s, i, end - 1)) THEN Bad
  ELSE Found(NumberTree([number   |-> (IF i = first THEN 1 ELSE -1) * magnitude(SubSeq(s, first, point - 1)),
                         integral |-> point = end,
                         bytes    |-> SubSeq(s, i, end - 1)]), end)

unsigned(s, i, first) ==
  Then(whole(s, first), LAMBDA digits :
    Then(fraction(s, digits.next), LAMBDA point :
      Then(exponent(s, point.next), LAMBDA end : numberFound(s, i, first, digits.next, end.next))))

number(s, i) == unsigned(s, i, IF s[i] = 45 THEN i + 1 ELSE i)

-----------------------------------------------------------------------------
(* Values: the tree a text denotes.  Of a key that occurs more than once   *)
(* the last value counts.                                                  *)
RECURSIVE space(_, _)
space(s, i) == IF at(s, i, {9, 10, 13, 32}) THEN space(s, i + 1) ELSE i

Words ==
  (116 :> [bytes |-> <<116, 114, 117, 101>>, value |-> <<"boolean", TRUE>>])
  @@ (102 :> [bytes |-> <<102, 97, 108, 115, 101>>, value |-> <<"boolean", FALSE>>])
  @@ (110 :> [bytes |-> <<110, 117, 108, 108>>, value |-> <<"null">>])

word(s, i, w) == Then(exactly(s, i, w.bytes), LAMBDA found : Found(w.value, found.next))

(* What follows an element: the end of its container, or a comma and more. *)
after(s, i, close, all, more(_)) ==
  IF over(s, i) THEN Short
  ELSE IF s[i] = 44 THEN more(i + 1)
  ELSE IF s[i] = close THEN Found(all, i + 1)
  ELSE Bad

RECURSIVE value(_, _), elements(_, _, _), members(_, _, _)

valueAt(s, i) ==
  IF over(s, i) THEN Short
  ELSE IF s[i] \in {45} \cup 48..57 THEN number(s, i)
  ELSE IF s[i] \in DOMAIN Words THEN word(s, i, Words[s[i]])
  ELSE IF s[i] = 34 THEN Then(string(s, i), LAMBDA found : Found(<<"string", found.value>>, found.next))
  ELSE IF s[i] = 91
  THEN IF at(s, space(s, i + 1), {93}) THEN Found(<<"array", <<>>>>, space(s, i + 1) + 1)
       ELSE elements(s, i + 1, <<>>)
  ELSE IF s[i] = 123
  THEN IF at(s, space(s, i + 1), {125}) THEN Found(<<"object", <<>>>>, space(s, i + 1) + 1)
       ELSE members(s, i + 1, <<>>)
  ELSE Bad

value(s, i) == valueAt(s, space(s, i))

elements(s, i, sofar) ==
  Then(value(s, i), LAMBDA one :
    after(s, space(s, one.next), 93, <<"array", Append(sofar, one.value)>>,
          LAMBDA next : elements(s, next, Append(sofar, one.value))))

member(s, i, name, sofar) ==
  Then(value(s, i), LAMBDA one :
    after(s, space(s, one.next), 125, <<"object", (name :> one.value) @@ sofar>>,
          LAMBDA next : members(s, next, (name :> one.value) @@ sofar)))

members(s, i, sofar) ==
  Then(string(s, space(s, i)), LAMBDA name :
    Then(exactly(s, space(s, name.next), <<58>>), LAMBDA colon :
      member(s, colon.next, name.value, sofar)))

(* A whole text: a byte order mark may precede it, and a NUL ends it.      *)
textFrom(s, i) ==
  Then(value(s, i), LAMBDA one :
    IF over(s, space(s, one.next)) \/ s[space(s, one.next)] = 0 THEN one ELSE Bad)

document(s) ==
  IF at(s, 1, {239}) THEN Then(exactly(s, 1, <<239, 187, 191>>), LAMBDA mark : textFrom(s, mark.next))
  ELSE textFrom(s, 1)
=============================================================================
