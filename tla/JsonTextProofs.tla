--------------------------- MODULE JsonTextProofs ---------------------------
(***************************************************************************)
(* Proofs about the text side of engine/json.hpp.  For every text, the     *)
(* position the scanner and the parser keep is that of the byte they are   *)
(* at, and the two stacks of open containers agree.  For every value,      *)
(* every string in it, well formed or not, and every setting, dump() never *)
(* writes past string_buffer.                                              *)
(***************************************************************************)
EXTENDS JsonParser, JsonDump, SequenceTheorems, FiniteSetTheorems, TLAPS

Byte == 0..255
Text == [rest : Seq(Byte), pieces : SUBSET (Seq(Byte) \ {<<>>}), left : Nat]

-----------------------------------------------------------------------------
(* Lines of a text.                                                        *)

(* A byte that is not a newline changes neither the newlines nor the       *)
(* beginning of the last line, a newline begins one behind it.             *)
LEMMA NewlinesAppend ==
  ASSUME NEW s \in Seq(Byte), NEW b \in Byte
  PROVE  /\ b # NEWLINE => Newlines(Append(s, b)) = Newlines(s)
         /\ b = NEWLINE => Newlines(Append(s, b)) = Newlines(s) \cup {Len(s) + 1}
<1> DEFINE longer == Append(s, b)
<1>1. /\ DOMAIN s = 1..Len(s) /\ Len(s) \in Nat
      /\ DOMAIN longer = 1..(Len(s) + 1) /\ longer[Len(s) + 1] = b
      /\ \A i \in 1..Len(s) : longer[i] = s[i]
  BY AppendProperties
<1> HIDE DEF longer
<1>2. \A i \in 1..(Len(s) + 1) : i \in 1..Len(s) \/ i = Len(s) + 1
  BY <1>1
<1> QED
  BY <1>1, <1>2 DEF Newlines, longer

(* The newlines of a text can be counted.                                  *)
LEMMA NewlinesFinite ==
  ASSUME NEW s \in Seq(Byte)
  PROVE  /\ IsFiniteSet(Newlines(s)) /\ Newlines(s) \subseteq 1..Len(s)
         /\ Cardinality(Newlines(s)) \in Nat
<1>1. IsFiniteSet(1..Len(s))
  BY FS_Interval, LenProperties
<1>2. Newlines(s) \subseteq 1..Len(s)
  BY LenProperties DEF Newlines
<1> QED
  BY <1>1, <1>2, FS_Subset, FS_CardinalityType

LEMMA LinesAppend ==
  ASSUME NEW s \in Seq(Byte), NEW b \in Byte
  PROVE  /\ b # NEWLINE => /\ Cardinality(Newlines(Append(s, b))) = Cardinality(Newlines(s))
                           /\ LineStart(Append(s, b)) = LineStart(s)
         /\ b = NEWLINE => /\ Cardinality(Newlines(Append(s, b))) = Cardinality(Newlines(s)) + 1
                           /\ LineStart(Append(s, b)) = Len(s) + 1
<1>1. CASE b # NEWLINE
  <2>1. Newlines(Append(s, b)) = Newlines(s)
    BY <1>1, NewlinesAppend
  <2> QED
    BY <1>1, <2>1 DEF LineStart
<1>2. CASE b = NEWLINE
  <2> DEFINE n == Len(s) + 1
             N == Newlines(Append(s, b))
  <2>1. N = Newlines(s) \cup {n}
    BY <1>2, NewlinesAppend
  <2>2. IsFiniteSet(Newlines(s)) /\ Newlines(s) \subseteq 1..Len(s) /\ Len(s) \in Nat
    BY NewlinesFinite, LenProperties
  <2>3. n \notin Newlines(s)
    BY <2>2
  <2>4. Cardinality(N) = Cardinality(Newlines(s)) + 1
    BY <2>1, <2>2, <2>3, FS_AddElement
  <2> HIDE DEF N
  <2>5. \A j \in N : j \in 1..n
    BY <2>1, <2>2
  <2>6. n \in N
    BY <2>1
  <2>7. \A i \in N : (\A j \in N : j <= i) <=> i = n
    BY <2>2, <2>5, <2>6
  <2>8. (CHOOSE i \in N : \A j \in N : j <= i) = n
    BY <2>6, <2>7
  <2>9. LineStart(Append(s, b)) = n
    BY <2>6, <2>8 DEF LineStart, N
  <2> QED
    BY <1>2, <2>4, <2>9 DEF N
<1> QED
  BY <1>1, <1>2

-----------------------------------------------------------------------------
(* The position, and what it is the position of.                           *)

Position == [chars_read_total : Nat, chars_read_current_line : Nat, lines_read : Nat]

(* p is the position behind the bytes, plus one if the end was read; its   *)
(* column counts only if it is asked for.                                  *)
Exact(p, bytes, atEnd, column) ==
  /\ p.chars_read_total = Len(bytes) + atEnd
  /\ p.lines_read = Cardinality(Newlines(bytes))
  /\ LineStart(bytes) \in Nat
  /\ column => p.chars_read_current_line = Len(bytes) - LineStart(bytes) + atEnd

(* What get() does to an exact position: on a byte ...                     *)
LEMMA AdvancedByte ==
  ASSUME NEW s \in Seq(Byte), NEW b \in Byte, NEW column, position \in Position,
         Exact(position, s, 0, column), ~column => b = NEWLINE
  PROVE  advanced(b) \in Position /\ Exact(advanced(b), Append(s, b), 0, TRUE)
<1>1. /\ position.chars_read_total \in Nat /\ position.chars_read_current_line \in Nat
      /\ position.lines_read \in Nat
  BY DEF Position
<1>2. advanced(b) \in Position
  BY <1>1 DEF advanced, Position
<1>3. Len(Append(s, b)) = Len(s) + 1 /\ Len(s) \in Nat
  BY AppendProperties
<1>4. Cardinality(Newlines(s)) \in Nat
  BY NewlinesFinite
<1>5. CASE b = NEWLINE
  BY <1>1, <1>2, <1>3, <1>4, <1>5, LinesAppend DEF advanced, Exact
<1>6. CASE b # NEWLINE
  <2>1. LineStart(Append(s, b)) = LineStart(s)
    BY <1>6, LinesAppend
  <2>2. Cardinality(Newlines(Append(s, b))) = Cardinality(Newlines(s))
    BY <1>6, LinesAppend
  <2>3. position.chars_read_current_line = Len(s) - LineStart(s) + 0
    BY <1>6 DEF Exact
  <2>4. LineStart(s) \in Nat
    BY DEF Exact
  <2> QED
    BY <1>1, <1>2, <1>3, <1>6, <2>1, <2>2, <2>3, <2>4 DEF advanced, Exact
<1> QED
  BY <1>5, <1>6

(* ... on the end, ...                                                     *)
LEMMA AdvancedEnd ==
  ASSUME NEW s \in Seq(Byte), position \in Position, Exact(position, s, 0, TRUE)
  PROVE  advanced(EOF) \in Position /\ Exact(advanced(EOF), s, 1, TRUE)
<1>1. /\ position.chars_read_total \in Nat /\ position.chars_read_current_line \in Nat
      /\ position.lines_read \in Nat /\ EOF # NEWLINE /\ Len(s) \in Nat
  BY LenProperties DEF Position, EOF, NEWLINE
<1>2. advanced(EOF) \in Position
  BY <1>1 DEF advanced, Position
<1> QED
  BY <1>1, <1>2 DEF advanced, Exact

(* ... and what unget() does after it: the position is what it was, but    *)
(* for the column at a newline.                                            *)
LEMMA Retreated ==
  ASSUME NEW b, position \in Position
  PROVE  /\ retreated(advanced(b)) \in Position
         /\ retreated(advanced(b)).chars_read_total = position.chars_read_total
         /\ retreated(advanced(b)).lines_read = position.lines_read
         /\ b # NEWLINE => retreated(advanced(b)) = position
<1>1. /\ position.chars_read_total \in Nat /\ position.chars_read_current_line \in Nat
      /\ position.lines_read \in Nat
      /\ position = [chars_read_total |-> position.chars_read_total,
                     chars_read_current_line |-> position.chars_read_current_line,
                     lines_read |-> position.lines_read]
  BY DEF Position
<1> DEFINE total == position.chars_read_total
           column == position.chars_read_current_line
           lines == position.lines_read
           p == advanced(b)
<1>2. p \in Position /\ p.chars_read_total = total + 1
  BY <1>1 DEF advanced, Position
<1>3. /\ b = NEWLINE => p.chars_read_current_line = 0 /\ p.lines_read = lines + 1
      /\ b # NEWLINE => p.chars_read_current_line = column + 1 /\ p.lines_read = lines
  BY <1>1 DEF advanced
<1> HIDE DEF p
<1>4. retreated(p) =
        [chars_read_total |-> p.chars_read_total - 1,
         chars_read_current_line |->
           IF p.chars_read_current_line = 0 THEN 0 ELSE p.chars_read_current_line - 1,
         lines_read |-> IF p.chars_read_current_line = 0 /\ p.lines_read > 0
                        THEN p.lines_read - 1 ELSE p.lines_read]
  BY DEF retreated
<1>5. CASE b = NEWLINE
  <2>1. retreated(p) = [chars_read_total |-> total, chars_read_current_line |-> 0,
                        lines_read |-> lines]
    BY <1>1, <1>2, <1>3, <1>4, <1>5
  <2> QED
    BY <1>1, <1>5, <2>1 DEF Position, p
<1>6. CASE b # NEWLINE
  <2>1. retreated(p) = [chars_read_total |-> total, chars_read_current_line |-> column,
                        lines_read |-> lines]
    BY <1>1, <1>2, <1>3, <1>4, <1>6
  <2> QED
    BY <1>1, <2>1 DEF Position, p
<1> QED
  BY <1>5, <1>6

-----------------------------------------------------------------------------
(* The invariant of the scanner.                                           *)

Ends == {"end_of_input", "parse_error"}

InNumber == {"minus", "zero", "any1", "decimal1", "decimal2", "exponent", "sign", "any2"}
WithDue  == {"literal_true", "literal_false", "literal_null", "character", "surrogate"}

InputTyped ==
  /\ source \in Text /\ text \in Seq(Byte)
  /\ current \in Byte \cup {EOF} /\ next_unget \in BOOLEAN
  /\ position \in Position
  /\ next_unget /\ current # EOF => text # <<>> /\ text[Len(text)] = current

(* A byte that is still due is a byte, so that the end of the text is none. *)
DueTyped == lex \in WithDue => due \in Seq(SUBSET Byte) /\ due # <<>>

AtEnd  == current = EOF /\ ~next_unget /\ lex # "bom"
Column == ~(next_unget /\ current = NEWLINE)

(* The position is exact, and once the end was read nothing more is.       *)
ScanInv ==
  /\ InputTyped /\ DueTyped
  /\ Exact(position, Consumed, IF AtEnd THEN 1 ELSE 0, Column)
  /\ AtEnd => lex = "token" /\ last_token \in Ends
  /\ lex \notin {"bom", "space"} => position.chars_read_total >= 1

(* What get() returns: the byte that was put back, the next one or the end. *)
LEMMA ReadsTyped ==
  ASSUME InputTyped, NEW b, reads(b),
         b \in (IF next_unget THEN {current} ELSE {Head(piece) : piece \in offered})
  PROVE  /\ b \in Byte \cup {EOF} /\ current' = b
         /\ source' \in Text /\ text' \in Seq(Byte)
         /\ b = EOF => text' = text
         /\ b # EOF => text' # <<>> /\ text'[Len(text')] = b
         /\ Consumed \in Seq(Byte)
         /\ b = EOF => Consumed = text
         /\ b # EOF => text' = Append(Consumed, b)
<1>1. CASE next_unget
  <2>1. b = current /\ current' = b /\ text' = text /\ source' = source /\ text \in Seq(Byte)
    BY <1>1 DEF reads, InputTyped
  <2>2. CASE b = EOF
    BY <1>1, <2>1, <2>2 DEF InputTyped, Consumed
  <2>3. CASE b # EOF
    <3>1. text # <<>> /\ text[Len(text)] = b
      BY <1>1, <2>1, <2>3 DEF InputTyped
    <3>2. Consumed = SubSeq(text, 1, Len(text) - 1)
      BY <1>1, <2>1, <2>3 DEF Consumed
    <3>3. Consumed \in Seq(Byte) /\ text = Append(Consumed, text[Len(text)])
      BY <2>1, <3>1, <3>2
    <3> QED
      BY <2>1, <2>3, <3>1, <3>3 DEF InputTyped
  <2> QED
    BY <2>2, <2>3
<1>2. CASE ~next_unget
  <2>1. Consumed = text /\ text \in Seq(Byte)
    BY <1>2 DEF Consumed, InputTyped
  <2>2. PICK piece \in offered :
          /\ b = Head(piece)
          /\ source' = [source EXCEPT !.rest = Tail(piece),
                                      !.left = IF source.rest = <<>> /\ b # EOF THEN @ - 1 ELSE @]
    BY <1>2 DEF reads
  <2>3. current' = b /\ text' = IF b = EOF THEN text ELSE Append(text, b)
    BY <1>2 DEF reads
  <2>4. /\ source.rest \in Seq(Byte) /\ source.pieces \in SUBSET (Seq(Byte) \ {<<>>})
        /\ source.left \in Nat
        /\ source = [rest |-> source.rest, pieces |-> source.pieces, left |-> source.left]
    BY DEF InputTyped, Text
  <2>5. /\ b \in Byte \cup {EOF} /\ Tail(piece) \in Seq(Byte)
        /\ source.rest = <<>> /\ b # EOF => source.left >= 1
    <3>1. CASE source.rest # <<>>
      <4>1. piece = source.rest
        BY <3>1 DEF offered
      <4> QED
        BY <2>2, <2>4, <3>1, <4>1, HeadTailProperties
    <3>2. CASE source.rest = <<>>
      <4>1. piece = <<EOF>> \/ (piece \in source.pieces /\ source.left > 0)
        BY <2>4, <3>2 DEF offered
      <4>2. CASE piece = <<EOF>>
        BY <2>2, <4>2
      <4>3. CASE piece \in source.pieces /\ source.left > 0
        <5>1. piece \in Seq(Byte) /\ piece # <<>>
          BY <2>4, <4>3
        <5> QED
          BY <2>2, <2>4, <4>3, <5>1, HeadTailProperties
      <4> QED
        BY <4>1, <4>2, <4>3
    <3> QED
      BY <3>1, <3>2
  <2>6. source' \in Text
    <3> DEFINE left == IF source.rest = <<>> /\ b # EOF THEN source.left - 1 ELSE source.left
    <3>1. left \in Nat
      BY <2>4, <2>5
    <3>2. source' = [rest |-> Tail(piece), pieces |-> source.pieces, left |-> left]
      BY <2>2, <2>4
    <3> HIDE DEF left
    <3> QED
      BY <2>4, <2>5, <3>1, <3>2 DEF Text
  <2>7. b # EOF => b \in Byte
    BY <2>5
  <2>8. b # EOF => /\ text' \in Seq(Byte) /\ text' # <<>> /\ text'[Len(text')] = b
    BY <2>1, <2>3, <2>7, AppendProperties
  <2> QED
    BY <2>1, <2>3, <2>5, <2>6, <2>8
<1> QED
  BY <1>1, <1>2 DEF InputTyped

(* get(): the position moves over the byte, or counts the end.             *)
LEMMA GetExact ==
  ASSUME ScanInv, lex # "token", NEW b, get(b),
         b \in (IF next_unget THEN {current} ELSE {Head(piece) : piece \in offered})
  PROVE  /\ InputTyped' /\ b \in Byte \cup {EOF} /\ current' = b /\ ~next_unget'
         /\ Exact(position', Consumed', IF b = EOF THEN 1 ELSE 0, TRUE)
         /\ position'.chars_read_total >= 1
<1>1. /\ InputTyped /\ ~AtEnd /\ Exact(position, Consumed, 0, Column)
  BY DEF ScanInv
<1>2. reads(b) /\ next_unget' = FALSE /\ position' = advanced(b)
  BY DEF get
<1>3. /\ b \in Byte \cup {EOF} /\ current' = b
      /\ source' \in Text /\ text' \in Seq(Byte)
      /\ b = EOF => text' = text
      /\ b # EOF => text' # <<>> /\ text'[Len(text')] = b
      /\ Consumed \in Seq(Byte)
      /\ b = EOF => Consumed = text
      /\ b # EOF => text' = Append(Consumed, b)
  BY <1>1, <1>2, ReadsTyped
<1>4. Consumed' = text'
  BY <1>2 DEF Consumed
<1>5. position \in Position /\ (~Column => b = NEWLINE) /\ NEWLINE # EOF
  <2>1. ~Column => b = NEWLINE
    BY <1>2 DEF Column, reads
  <2>2. NEWLINE # EOF
    BY DEF NEWLINE, EOF
  <2> QED
    BY <1>1, <2>1, <2>2 DEF InputTyped
<1>6. CASE b = EOF
  <2>1. Exact(position, Consumed, 0, TRUE)
    BY <1>1, <1>5, <1>6 DEF Exact
  <2>2. advanced(EOF) \in Position /\ Exact(advanced(EOF), Consumed, 1, TRUE)
    BY <1>3, <1>5, <2>1, AdvancedEnd
  <2>3. position' \in Position /\ Exact(position', Consumed', 1, TRUE) /\ Len(Consumed') \in Nat
    BY <1>2, <1>3, <1>4, <1>6, <2>2, LenProperties
  <2>4. InputTyped'
    BY <1>2, <1>3, <1>6, <2>3 DEF InputTyped
  <2> QED
    BY <1>2, <1>3, <1>6, <2>3, <2>4 DEF Exact
<1>7. CASE b # EOF
  <2>1. b \in Byte
    BY <1>3, <1>7
  <2>2. advanced(b) \in Position /\ Exact(advanced(b), Append(Consumed, b), 0, TRUE)
    BY <1>1, <1>3, <1>5, <2>1, AdvancedByte
  <2>3. /\ position' \in Position /\ Exact(position', Consumed', 0, TRUE)
        /\ Len(Consumed') \in Nat /\ Len(Consumed') >= 1
    <3>1. Len(Append(Consumed, b)) \in Nat /\ Len(Append(Consumed, b)) >= 1
      BY <1>3, <2>1, AppendProperties, LenProperties
    <3>2. Consumed' = Append(Consumed, b)
      BY <1>3, <1>4, <1>7
    <3> QED
      BY <1>2, <2>2, <3>1, <3>2
  <2>4. InputTyped'
    BY <1>2, <1>3, <1>7, <2>3 DEF InputTyped
  <2> QED
    BY <1>2, <1>3, <1>7, <2>3, <2>4 DEF Exact
<1> QED
  BY <1>6, <1>7

(* get() and unget(): the position stays.                                  *)
LEMMA UngetExact ==
  ASSUME ScanInv, lex # "token", NEW b, getAndUnget(b),
         b \in (IF next_unget THEN {current} ELSE {Head(piece) : piece \in offered})
  PROVE  /\ InputTyped' /\ next_unget'
         /\ Exact(position', Consumed', 0, Column')
         /\ position'.chars_read_total = position.chars_read_total
<1>1. /\ InputTyped /\ ~AtEnd /\ Exact(position, Consumed, 0, Column)
  BY DEF ScanInv
<1>2. reads(b) /\ next_unget' = TRUE /\ position' = retreated(advanced(b))
  BY DEF getAndUnget
<1>3. /\ b \in Byte \cup {EOF} /\ current' = b
      /\ source' \in Text /\ text' \in Seq(Byte)
      /\ b = EOF => text' = text
      /\ b # EOF => text' # <<>> /\ text'[Len(text')] = b
      /\ Consumed \in Seq(Byte)
      /\ b = EOF => Consumed = text
      /\ b # EOF => text' = Append(Consumed, b)
  BY <1>1, <1>2, ReadsTyped
<1>4. Consumed' = Consumed
  <2>1. CASE b = EOF
    BY <1>2, <1>3, <2>1 DEF Consumed
  <2>2. CASE b # EOF
    <3>1. b \in Byte
      BY <1>3, <2>2
    <3>2. Consumed' = SubSeq(Append(Consumed, b), 1, Len(Append(Consumed, b)) - 1)
      BY <1>2, <1>3, <2>2 DEF Consumed
    <3>3. SubSeq(Append(Consumed, b), 1, Len(Append(Consumed, b)) - 1) = Consumed
      BY <1>3, <3>1
    <3> QED
      BY <3>2, <3>3
  <2> QED
    BY <2>1, <2>2
<1>5. /\ position \in Position
      /\ position' \in Position
      /\ position'.chars_read_total = position.chars_read_total
      /\ position'.lines_read = position.lines_read
      /\ b # NEWLINE => position' = position
  BY <1>1, <1>2, Retreated DEF InputTyped
<1>6. InputTyped'
  BY <1>2, <1>3, <1>5 DEF InputTyped
<1>7. Column' => b # NEWLINE
  BY <1>2, <1>3 DEF Column
<1>8. Column \/ b = NEWLINE
  BY <1>2 DEF Column, reads
<1>9. Exact(position', Consumed', 0, Column')
  BY <1>1, <1>4, <1>5, <1>7, <1>8 DEF Exact
<1> QED
  BY <1>2, <1>5, <1>6, <1>9

-----------------------------------------------------------------------------
(* The steps of a scan.                                                    *)

(* The sets the bytes of a literal or of a character must be in.           *)
LEMMA LiteralDue ==
  ASSUME NEW b \in DOMAIN Literal
  PROVE  /\ Literal[b].token \in {"literal_true", "literal_false", "literal_null"}
         /\ Literal[b].rest \in Seq(SUBSET Byte) /\ Literal[b].rest # <<>>
<1>1. b \in {102, 110, 116}
  BY DEF Literal
<1>2. {114} \in SUBSET Byte /\ {117} \in SUBSET Byte /\ {101} \in SUBSET Byte
      /\ {97} \in SUBSET Byte /\ {108} \in SUBSET Byte /\ {115} \in SUBSET Byte
  BY DEF Byte
<1>3. CASE b = 116
  <2>1. Literal[b] = [token |-> "literal_true", rest |-> <<{114}, {117}, {101}>>]
    BY <1>1, <1>3 DEF Literal
  <2> QED
    BY <1>2, <2>1
<1>4. CASE b = 102
  <2>1. Literal[b] = [token |-> "literal_false", rest |-> <<{97}, {108}, {115}, {101}>>]
    BY <1>1, <1>4 DEF Literal
  <2> QED
    BY <1>2, <2>1
<1>5. CASE b = 110
  <2>1. Literal[b] = [token |-> "literal_null", rest |-> <<{117}, {108}, {108}>>]
    BY <1>1, <1>5 DEF Literal
  <2> QED
    BY <1>2, <2>1
<1> QED
  BY <1>1, <1>3, <1>4, <1>5

LEMMA CharacterDue ==
  ASSUME NEW b \in MultiByteLead
  PROVE  Following(b) \in Seq(SUBSET Byte) /\ Following(b) # <<>>
<1>1. b \in 194..244
  BY DEF MultiByteLead
<1>2. /\ Tail80BF \in SUBSET Byte /\ 160..191 \in SUBSET Byte /\ 128..159 \in SUBSET Byte
      /\ 144..191 \in SUBSET Byte /\ 128..143 \in SUBSET Byte
  BY DEF Byte, Tail80BF
<1>3. CASE b \in 194..223
  <2>1. Following(b) = <<Tail80BF>>
    BY <1>3 DEF Following
  <2> QED
    BY <1>2, <2>1
<1>4. CASE b = 224
  <2>1. Following(b) = <<160..191, Tail80BF>>
    BY <1>4 DEF Following
  <2> QED
    BY <1>2, <2>1
<1>5. CASE b \in 225..236 \cup 238..239
  <2>1. Following(b) = <<Tail80BF, Tail80BF>>
    BY <1>5 DEF Following
  <2> QED
    BY <1>2, <2>1
<1>6. CASE b = 237
  <2>1. Following(b) = <<128..159, Tail80BF>>
    BY <1>6 DEF Following
  <2> QED
    BY <1>2, <2>1
<1>7. CASE b = 240
  <2>1. Following(b) = <<144..191, Tail80BF, Tail80BF>>
    BY <1>7 DEF Following
  <2> QED
    BY <1>2, <2>1
<1>8. CASE b \in 241..243
  <2>1. Following(b) = <<Tail80BF, Tail80BF, Tail80BF>>
    BY <1>8 DEF Following
  <2> QED
    BY <1>2, <2>1
<1>9. CASE b = 244
  <2>1. Following(b) = <<128..143, Tail80BF, Tail80BF>>
    BY <1>9 DEF Following
  <2> QED
    BY <1>2, <2>1
<1> QED
  BY <1>1, <1>3, <1>4, <1>5, <1>6, <1>7, <1>8, <1>9

(* The end of the text is none of the bytes a scan goes on with.           *)
LEMMA EndIsNoByte ==
  /\ EOF \notin Byte /\ EOF \notin {239, 187, 191}
  /\ EOF \notin Whitespace /\ EOF \notin DOMAIN Structural /\ EOF \notin DOMAIN Literal
  /\ EOF \notin Plain /\ EOF \notin MultiByteLead /\ EOF \notin HexDigit
  /\ EOF \notin DOMAIN Escape /\ EOF # QUOTE /\ EOF # BACKSLASH /\ EOF # LETTER_u
<1>1. EOF \notin Byte /\ EOF \notin {239, 187, 191}
  BY DEF EOF, Byte
<1>2. EOF \notin Whitespace
  BY DEF EOF, Whitespace, NEWLINE
<1>3. EOF \notin DOMAIN Structural
  BY DEF EOF, Structural
<1>4. EOF \notin DOMAIN Literal
  BY DEF EOF, Literal
<1>5. EOF \notin Plain /\ EOF \notin MultiByteLead /\ EOF \notin HexDigit
  BY DEF EOF, Plain, MultiByteLead, HexDigit
<1>6. EOF \notin DOMAIN Escape
  BY DEF EOF, Escape, QUOTE, BACKSLASH
<1>7. EOF # QUOTE /\ EOF # BACKSLASH /\ EOF # LETTER_u
  BY DEF EOF, QUOTE, BACKSLASH, LETTER_u
<1> QED
  BY <1>1, <1>2, <1>3, <1>4, <1>5, <1>6, <1>7

(* What is due is never empty, and the rest of it neither until its last.  *)
LEMMA DueNext ==
  ASSUME DueTyped, lex \in WithDue
  PROVE  /\ EOF \notin Head(due) /\ Tail(due) \in Seq(SUBSET Byte)
         /\ Len(due) # 1 => Tail(due) # <<>>
<1>1. due \in Seq(SUBSET Byte) /\ due # <<>>
  BY DEF DueTyped
<1>2. Head(due) \in SUBSET Byte /\ Tail(due) \in Seq(SUBSET Byte) /\ Len(due) \in Nat
      /\ Len(Tail(due)) = Len(due) - 1 /\ Len(due) # 0
  BY <1>1, HeadTailProperties, LenProperties, EmptySeq
<1>3. Len(due) # 1 => Len(Tail(due)) # 0
  BY <1>2
<1>4. Tail(due) = <<>> => Len(Tail(due)) = 0
  BY EmptySeq
<1> QED
  BY <1>2, <1>3, <1>4, EndIsNoByte

(* A scan that meets the end of the text is over; only the byte behind a   *)
(* number, or the first one, is put back.                                  *)
Got(b)    == get(b) /\ lex' # "bom" /\ (b = EOF => lex' = "token" /\ last_token' \in Ends)
PutBack(b) == getAndUnget(b) /\ lex' # "bom" /\ (lex' # "space" => lex \in InNumber)

LEMMA BomKinds ==
  ASSUME ScanInv, NEW b \in Byte \cup {EOF}, skip_bom(b)
  PROVE  (Got(b) \/ PutBack(b)) /\ DueTyped'
BY EndIsNoByte DEF skip_bom, goto, return, Ends, DueTyped, WithDue, Got, PutBack

LEMMA SpaceKinds ==
  ASSUME ScanInv, NEW b \in Byte \cup {EOF}, skip_whitespace(b)
  PROVE  (Got(b) \/ PutBack(b)) /\ DueTyped'
<1>1. get(b) /\ lex = "space"
  BY DEF skip_whitespace
<1>2. lex' \in {"space", "token"} /\ (b = EOF => lex' = "token" /\ last_token' \in Ends)
  BY EndIsNoByte DEF skip_whitespace, goto, return, Ends
<1> QED
  BY <1>1, <1>2 DEF DueTyped, WithDue, Got

LEMMA LiteralKinds ==
  ASSUME ScanInv, NEW b \in Byte \cup {EOF}, scan_literal(b)
  PROVE  (Got(b) \/ PutBack(b)) /\ DueTyped'
<1>1. get(b) /\ DueTyped
  BY DEF scan_literal, ScanInv
<1>2. CASE lex = "space" /\ b \in DOMAIN Literal
  <2>1. CASE lex' = Literal[b].token /\ due' = Literal[b].rest
    BY <1>1, <1>2, <2>1, LiteralDue, EndIsNoByte DEF DueTyped, Got
  <2>2. lex' = Literal[b].token /\ due' = Literal[b].rest
    BY <1>2 DEF scan_literal, goto
  <2> QED
    BY <2>1, <2>2
<1>3. CASE lex \in {"literal_true", "literal_false", "literal_null"}
  <2>1. /\ EOF \notin Head(due) /\ Tail(due) \in Seq(SUBSET Byte)
        /\ Len(due) # 1 => Tail(due) # <<>>
    BY <1>1, <1>3, DueNext DEF WithDue
  <2>2. CASE b \notin Head(due)
    <3>1. lex' = "token" /\ last_token' = "parse_error"
      BY <1>3, <2>2 DEF scan_literal, return
    <3> QED
      BY <1>1, <3>1 DEF DueTyped, WithDue, Got, Ends
  <2>3. CASE b \in Head(due)
    <3>1. due' = Tail(due) /\ (IF Len(due) = 1 THEN return(lex) ELSE goto(lex)) /\ b # EOF
      BY <1>3, <2>1, <2>3 DEF scan_literal
    <3>2. lex' # "bom"
      BY <1>3, <3>1 DEF goto, return
    <3>3. lex' = "token" \/ due' # <<>>
      BY <2>1, <3>1 DEF goto, return
    <3> QED
      BY <1>1, <2>1, <3>1, <3>2, <3>3 DEF DueTyped, WithDue, Got
  <2> QED
    BY <2>2, <2>3
<1> QED
  BY <1>2, <1>3 DEF scan_literal

LEMMA NumberKinds ==
  ASSUME ScanInv, NEW b \in Byte \cup {EOF}, scan_number(b)
  PROVE  (Got(b) \/ PutBack(b)) /\ DueTyped'
<1>1. \A arc \in NumberArcs : arc[3] \in InNumber /\ EOF \notin arc[2]
  <2>1. EOF \notin {45} /\ EOF \notin {48} /\ EOF \notin 49..57 /\ EOF \notin {46}
        /\ EOF \notin {69, 101} /\ EOF \notin Digit /\ EOF \notin {43, 45}
    BY DEF EOF, Digit
  <2>2. \A arc \in IntegerArcs : arc[3] \in InNumber /\ EOF \notin arc[2]
    BY <2>1 DEF IntegerArcs, InNumber
  <2>3. \A arc \in FractionArcs : arc[3] \in InNumber /\ EOF \notin arc[2]
    BY <2>1 DEF FractionArcs, InNumber
  <2>4. \A arc \in ExponentArcs : arc[3] \in InNumber /\ EOF \notin arc[2]
    BY <2>1 DEF ExponentArcs, InNumber
  <2> QED
    BY <2>2, <2>3, <2>4 DEF NumberArcs
<1>2. CASE arcsFor(b) # {}
  <2>1. DEFINE arc == CHOOSE arc \in arcsFor(b) : TRUE
  <2>2. arc \in NumberArcs /\ b \in arc[2]
    BY <1>2 DEF arcsFor
  <2>3. (arc[3] \in InNumber) /\ b # EOF
    BY <1>1, <2>2
  <2>4. get(b) /\ lex' = arc[3]
    BY <1>2 DEF scan_number, goto
  <2> HIDE DEF arc
  <2> QED
    BY <2>3, <2>4 DEF DueTyped, WithDue, InNumber, Got
<1>3. CASE arcsFor(b) = {}
  BY <1>3 DEF scan_number, NumberEnds, return, DueTyped, WithDue, InNumber, Ends, Got, PutBack
<1> QED
  BY <1>2, <1>3

LEMMA StringKinds ==
  ASSUME ScanInv, NEW b \in Byte \cup {EOF}, scan_string(b)
  PROVE  (Got(b) \/ PutBack(b)) /\ DueTyped'
<1>1. get(b) /\ DueTyped
  BY DEF scan_string, ScanInv
<1> DEFINE Goal == /\ lex' # "bom" /\ (b = EOF => lex' = "token" /\ last_token' \in Ends)
                   /\ DueTyped'
<1> SUFFICES Goal
  BY <1>1 DEF Got
<1>2. CASE stringByte(b)
  <2>1. CASE lex' = "character"
    <3>1. b \in MultiByteLead /\ due' = Following(b)
      BY <1>2, <2>1 DEF stringByte, goto, return
    <3> QED
      BY <2>1, <3>1, CharacterDue, EndIsNoByte DEF DueTyped
  <2>2. CASE lex' # "character"
    <3>1. lex' \in {"string", "escape", "token"}
      BY <1>2, <2>2 DEF stringByte, goto, return
    <3>2. b = EOF => lex' = "token" /\ last_token' \in Ends
      BY <1>2, EndIsNoByte DEF stringByte, goto, return, Ends
    <3> QED
      BY <3>1, <3>2 DEF DueTyped, WithDue
  <2> QED
    BY <2>1, <2>2
<1>3. CASE next_byte_in_range(b)
  <2>1. lex \in WithDue
    BY <1>3 DEF next_byte_in_range, WithDue
  <2>2. /\ EOF \notin Head(due) /\ Tail(due) \in Seq(SUBSET Byte)
        /\ Len(due) # 1 => Tail(due) # <<>>
    BY <1>1, <2>1, DueNext
  <2> QED
    BY <1>3, <2>2 DEF next_byte_in_range, goto, return, DueTyped, WithDue, Ends
<1>4. CASE escaped(b)
  BY <1>4, EndIsNoByte DEF escaped, goto, return, DueTyped, WithDue, Ends
<1>5. CASE hexDigit(b)
  <2>1. CASE b \notin HexDigit
    BY <1>5, <2>1 DEF hexDigit, return, DueTyped, WithDue, Ends
  <2>2. CASE b \in HexDigit /\ lex' = "hex"
    BY <2>2, EndIsNoByte DEF DueTyped, WithDue
  <2>3. ASSUME b \in HexDigit, NEW cp, codepoint(cp)
        PROVE  Goal
    <3>1. CASE lex' = "surrogate"
      <4>1. due' = <<{BACKSLASH}, {LETTER_u}>>
        BY <2>3, <3>1 DEF codepoint, goto, return
      <4>2. {BACKSLASH} \in SUBSET Byte /\ {LETTER_u} \in SUBSET Byte
        BY DEF BACKSLASH, LETTER_u, Byte
      <4> QED
        BY <2>3, <3>1, <4>1, <4>2, EndIsNoByte DEF DueTyped
    <3>2. CASE lex' # "surrogate"
      <4>1. lex' \in {"string", "token"}
        BY <2>3, <3>2 DEF codepoint, goto, return
      <4> QED
        BY <2>3, <4>1, EndIsNoByte DEF DueTyped, WithDue
    <3> QED
      BY <3>1, <3>2
  <2>4. b \notin HexDigit \/ (b \in HexDigit /\ lex' = "hex")
        \/ (b \in HexDigit /\ \E cp : codepoint(cp))
    BY <1>5 DEF hexDigit, goto
  <2> HIDE DEF Goal
  <2> QED
    BY <2>1, <2>2, <2>3, <2>4
<1>6. CASE surrogate(b)
  <2>1. lex \in WithDue
    BY <1>6 DEF surrogate, WithDue
  <2>2. /\ EOF \notin Head(due) /\ Tail(due) \in Seq(SUBSET Byte)
        /\ Len(due) # 1 => Tail(due) # <<>>
    BY <1>1, <2>1, DueNext
  <2> QED
    BY <1>6, <2>2 DEF surrogate, goto, return, DueTyped, WithDue, Ends
<1> HIDE DEF Goal
<1> QED
  BY <1>2, <1>3, <1>4, <1>5, <1>6 DEF scan_string

LEMMA ScanKinds ==
  ASSUME ScanInv, NEW b \in Byte \cup {EOF}, Scanning(b)
  PROVE  (Got(b) \/ PutBack(b)) /\ DueTyped'
BY BomKinds, SpaceKinds, LiteralKinds, NumberKinds, StringKinds DEF Scanning

(* The initial predicate and the steps.                                    *)
ParserShape ==
  /\ pc = "evaluate" => lex = "token" /\ last_token \notin Ends
  /\ pc \in {"accepted", "failed"} => lex = "token"

PositionInv == ScanInv /\ ParserShape

LEMMA PositionInitially ==
  ASSUME NEW from \in Text, ParserInit(from)
  PROVE  PositionInv
<1>1. /\ source = from /\ text = <<>> /\ current = EOF /\ next_unget = FALSE /\ position = Start
      /\ lex = "bom" /\ pc = "value"
  BY DEF ParserInit, LexerInit
<1>2. text \in Seq(Byte) /\ Len(text) = 0
  BY <1>1, EmptySeq
<1>3. Cardinality(Newlines(text)) = 0 /\ LineStart(text) = 0
  <2>1. DOMAIN text = {}
    BY <1>2, LenProperties
  <2>2. Newlines(text) = {}
    BY <2>1 DEF Newlines
  <2> QED
    BY <2>2, FS_EmptySet DEF LineStart
<1>4. Consumed = text
  BY <1>1 DEF Consumed
<1>5. position \in Position /\ position.chars_read_total = 0 /\ position.lines_read = 0
      /\ position.chars_read_current_line = 0
  BY <1>1 DEF Start, Position
<1>6. InputTyped
  BY <1>1, <1>2, <1>5 DEF InputTyped
<1>7. Exact(position, Consumed, 0, Column)
  BY <1>2, <1>3, <1>4, <1>5 DEF Exact
<1> QED
  BY <1>1, <1>6, <1>7 DEF PositionInv, ScanInv, ParserShape, DueTyped, WithDue, AtEnd

(* A step of the scanner ...                                               *)
LEMMA ScanKeeps ==
  ASSUME ScanInv, Scan, lex # "token"
  PROVE  ScanInv'
<1>1. PICK b \in (IF next_unget THEN {current} ELSE {Head(piece) : piece \in offered}) : Scanning(b)
  BY DEF Scan
<1>2. b \in Byte \cup {EOF}
  <2>1. get(b) \/ getAndUnget(b)
    BY <1>1 DEF Scanning, skip_bom, skip_whitespace, scan_literal, scan_number, scan_string
  <2> QED
    BY <1>1, <2>1, ReadsTyped DEF ScanInv, get, getAndUnget
<1>3. (Got(b) \/ PutBack(b)) /\ DueTyped'
  BY <1>1, <1>2, ScanKinds
<1>4. CASE Got(b)
  <2>1. get(b) /\ lex' # "bom" /\ (b = EOF => lex' = "token" /\ last_token' \in Ends)
    BY <1>4 DEF Got
  <2>2. /\ InputTyped' /\ current' = b /\ ~next_unget'
        /\ Exact(position', Consumed', IF b = EOF THEN 1 ELSE 0, TRUE)
        /\ position'.chars_read_total >= 1
    BY <1>1, <2>1, GetExact
  <2>3. AtEnd' <=> b = EOF
    BY <2>1, <2>2 DEF AtEnd
  <2>4. Column'
    BY <2>2 DEF Column
  <2>5. Exact(position', Consumed', IF AtEnd' THEN 1 ELSE 0, Column')
    BY <2>2, <2>3, <2>4 DEF Exact
  <2> QED
    BY <1>3, <2>1, <2>2, <2>3, <2>5 DEF ScanInv
<1>5. CASE PutBack(b)
  <2>1. getAndUnget(b) /\ lex' # "bom" /\ (lex' # "space" => lex \in InNumber)
    BY <1>5 DEF PutBack
  <2>2. /\ InputTyped' /\ next_unget'
        /\ Exact(position', Consumed', 0, Column')
        /\ position'.chars_read_total = position.chars_read_total
    BY <1>1, <2>1, UngetExact
  <2>3. ~AtEnd'
    BY <2>2 DEF AtEnd
  <2>4. lex \in InNumber => lex \notin {"bom", "space"}
    BY DEF InNumber
  <2> QED
    BY <1>3, <2>1, <2>2, <2>3, <2>4 DEF ScanInv
<1> QED
  BY <1>3, <1>4, <1>5

(* ... and of the parser, which starts a scan only when the last one did   *)
(* not end the text.                                                       *)
LEMMA ParserKeepsInput ==
  ASSUME ScanInv, lex = "token", inputUnchanged,
         lex' = "token" \/ (scan /\ last_token \notin Ends)
  PROVE  ScanInv'
<1>1. /\ source' = source /\ text' = text /\ current' = current /\ next_unget' = next_unget
      /\ position' = position /\ due' = due /\ last_token' = last_token
  BY DEF inputUnchanged, inputVars, scanVars
<1>2. InputTyped' /\ Consumed' = Consumed /\ (Column' <=> Column)
  BY <1>1 DEF ScanInv, InputTyped, Consumed, Column
<1>3. position.chars_read_total \in Nat /\ position.chars_read_total >= 1
  BY DEF ScanInv, InputTyped, Position
<1>4. lex' \in {"token", "space"}
  BY <1>3 DEF scan
<1>5. AtEnd' <=> AtEnd
  BY <1>1, <1>4 DEF AtEnd
<1>6. AtEnd' => lex' = "token" /\ last_token' \in Ends
  BY <1>1, <1>5 DEF ScanInv
<1>7. Exact(position', Consumed', IF AtEnd' THEN 1 ELSE 0, Column')
  BY <1>1, <1>2, <1>5 DEF ScanInv, Exact
<1> QED
  BY <1>1, <1>2, <1>3, <1>4, <1>6, <1>7 DEF ScanInv, DueTyped, WithDue

LEMMA PositionStep ==
  ASSUME PositionInv, Parse
  PROVE  PositionInv'
<1> USE DEF ParserShape
<1>1. CASE Scan /\ lex # "token" /\ UNCHANGED <<buildVars, pc, states>>
  BY <1>1, ScanKeeps DEF PositionInv
<1>2. CASE Parsing
  <2>1. /\ lex = "token" /\ inputUnchanged
        /\ lex' = "token" \/ (scan /\ last_token \notin Ends)
        /\ pc' = "evaluate" => lex' = "token" /\ last_token \notin Ends
        /\ pc' \in {"accepted", "failed"} => lex' = "token"
    <3> USE DEF on, get_token, keepToken, Ends
    <3>1. CASE parseScalar
      BY <3>1 DEF parseScalar, Scalars
    <3>2. CASE number_overflow
      BY <3>2 DEF number_overflow
    <3>3. CASE begin_object \/ begin_array
      BY <3>3 DEF begin_object, begin_array
    <3>4. CASE closeEmpty
      BY <3>4 DEF closeEmpty
    <3>5. CASE parseKey
      BY <3>5 DEF parseKey
    <3>6. CASE separator
      BY <3>6 DEF separator
    <3>7. CASE firstElement
      BY <3>7 DEF firstElement
    <3>8. CASE evaluate
      BY <3>8 DEF evaluate, PositionInv
    <3>9. CASE comma
      BY <3>9 DEF comma
    <3>10. CASE close
      BY <3>10 DEF close
    <3>11. CASE accept
      BY <3>11 DEF accept
    <3>12. CASE parse_error
      BY <3>12 DEF parse_error
    <3> QED
      BY <1>2, <3>1, <3>2, <3>3, <3>4, <3>5, <3>6, <3>7, <3>8, <3>9, <3>10, <3>11, <3>12
      DEF Parsing
  <2>2. ScanInv'
    BY <2>1, ParserKeepsInput DEF PositionInv
  <2>3. last_token' = last_token
    BY <2>1 DEF inputUnchanged
  <2> QED
    BY <2>1, <2>2, <2>3 DEF PositionInv
<1> QED
  BY <1>1, <1>2 DEF Parse

LEMMA PositionStutter ==
  ASSUME PositionInv, UNCHANGED parserVars
  PROVE  PositionInv'
<1>1. UNCHANGED lexerVars /\ UNCHANGED pc
  BY DEF parserVars
<1>2. UNCHANGED <<inputVars, scanVars>> /\ UNCHANGED lex /\ UNCHANGED last_token
  BY <1>1 DEF lexerVars
<1>3. /\ source' = source /\ text' = text /\ current' = current /\ next_unget' = next_unget
      /\ position' = position /\ due' = due /\ lex' = lex /\ last_token' = last_token /\ pc' = pc
  BY <1>1, <1>2 DEF inputVars, scanVars
<1>4. InputTyped' /\ Consumed' = Consumed /\ (Column' <=> Column) /\ (AtEnd' <=> AtEnd)
  BY <1>3 DEF PositionInv, ScanInv, InputTyped, Consumed, Column, AtEnd
<1>5. Exact(position', Consumed', IF AtEnd' THEN 1 ELSE 0, Column')
  BY <1>3, <1>4 DEF PositionInv, ScanInv, Exact
<1> QED
  BY <1>3, <1>4, <1>5 DEF PositionInv, ScanInv, DueTyped, ParserShape

(* The position of an error message is that of the byte the scan is at,    *)
(* for every text.                                                         *)
THEOREM ErrorsAreWhereTheyAre ==
  ASSUME NEW from \in Text
  PROVE  ParserSpec(from) => []PositionExact
<1>1. ParserInit(from) => PositionInv
  BY PositionInitially
<1>2. PositionInv /\ [Parse]_parserVars => PositionInv'
  BY PositionStep, PositionStutter
<1>3. PositionInv => PositionExact
  <2> SUFFICES ASSUME PositionInv, lex # "bom"
               PROVE  /\ position.chars_read_total = Len(Consumed) + IF AtEnd THEN 1 ELSE 0
                      /\ position.lines_read = Cardinality(Newlines(Consumed))
                      /\ Column => position.chars_read_current_line
                                     = Len(Consumed) - LineStart(Consumed) + IF AtEnd THEN 1 ELSE 0
    BY DEF PositionExact, AtEnd, Column
  <2> QED
    BY DEF PositionInv, ScanInv, Exact
<1> QED
  BY <1>1, <1>2, <1>3, PTL DEF ParserSpec

-----------------------------------------------------------------------------
(* The two stacks.                                                         *)

Kinds == {"array", "object"}
Opening == {"openObject", "openArray", "firstColon"}
Ahead == IF pc \in Opening THEN 1 ELSE 0

(* Sequences of whatever elements.                                         *)
Sequence(s) == \E T : s \in Seq(T)

Top(s, kind) == s # <<>> /\ s[Len(s)] = kind

StacksInv ==
  /\ states \in Seq(Kinds)
  /\ Sequence(ref_stack)
  /\ pc # "failed" => Len(ref_stack) = Len(states) + Ahead
  /\ pc = "inArray" => Top(states, "array")
  /\ pc \in {"inObject", "nextKey", "nextColon"} => Top(states, "object")


LEMMA Popped ==
  ASSUME NEW s, Sequence(s), s # <<>>
  PROVE  Sequence(SubSeq(s, 1, Len(s) - 1)) /\ Len(SubSeq(s, 1, Len(s) - 1)) = Len(s) - 1
<1>1. PICK T : s \in Seq(T)
  BY DEF Sequence
<1>2. Len(s) \in Nat \ {0}
  BY <1>1, EmptySeq
<1>3. SubSeq(s, 1, Len(s) - 1) \in Seq(T) /\ Len(SubSeq(s, 1, Len(s) - 1)) = Len(s) - 1
  <2>1. \A i \in 1..(Len(s) - 1) : s[i] \in T
    BY <1>1, <1>2, ElementOfSeq
  <2> DEFINE n == Len(s) - 1
  <2>2. n \in Nat /\ 1 \in Int /\ n \in Int /\ (IF 1 <= n THEN n - 1 + 1 ELSE 0) = n
    BY <1>2
  <2> HIDE DEF n
  <2>3. SubSeq(s, 1, n) \in Seq(T) /\ Len(SubSeq(s, 1, n)) = IF 1 <= n THEN n - 1 + 1 ELSE 0
    <3>1. \A i \in 1..n : s[i] \in T
      BY <2>1 DEF n
    <3> QED
      BY <2>2, <3>1, SubSeqProperties
  <2> QED
    BY <2>2, <2>3 DEF n
<1> QED
  BY <1>3 DEF Sequence

LEMMA Pushed ==
  ASSUME NEW s, Sequence(s), NEW e
  PROVE  /\ Sequence(Append(s, e)) /\ Len(Append(s, e)) = Len(s) + 1
         /\ Top(Append(s, e), e) /\ Len(s) \in Nat
<1>1. PICK T : s \in Seq(T)
  BY DEF Sequence
<1>2. s \in Seq(T \cup {e}) /\ e \in T \cup {e}
  BY <1>1, SeqMonotonic
<1> DEFINE U == T \cup {e}
<1> HIDE DEF U
<1>3. s \in Seq(U) /\ e \in U
  BY <1>2 DEF U
<1>4. /\ Append(s, e) \in Seq(U) /\ Len(Append(s, e)) = Len(s) + 1 /\ Append(s, e) # <<>>
      /\ Append(s, e)[Len(s) + 1] = e /\ Len(s) \in Nat
  BY <1>3, AppendProperties, LenProperties
<1> QED
  BY <1>4 DEF Sequence, Top

LEMMA StacksInitially ==
  ASSUME NEW from, ParserInit(from)
  PROVE  StacksInv
BY EmptySeq DEF ParserInit, LexerInit, DomInit, StacksInv, Sequence, Ahead, Opening

LEMMA StacksStep ==
  ASSUME StacksInv, Parse
  PROVE  StacksInv'
<1>0. /\ Sequence(states) /\ Sequence(ref_stack) /\ states \in Seq(Kinds)
      /\ pc # "failed" => Len(ref_stack) = Len(states) + Ahead
      /\ Len(states) \in Nat /\ Len(ref_stack) \in Nat
  BY LenProperties DEF StacksInv, Sequence
<1> USE DEF on, get_token, keepToken, Opening, Kinds
<1>1. CASE Scan /\ lex # "token" /\ UNCHANGED <<buildVars, pc, states>>
  BY <1>1 DEF StacksInv, buildVars, Ahead
<1>2. CASE parseScalar
  BY <1>0, <1>2 DEF parseScalar, StacksInv, Ahead
<1>3. CASE number_overflow
  BY <1>0, <1>3 DEF number_overflow, StacksInv, Ahead, buildVars
<1>4. CASE begin_object
  BY <1>0, <1>4, Pushed DEF begin_object, start, StacksInv, Ahead
<1>5. CASE begin_array
  BY <1>0, <1>5, Pushed DEF begin_array, start, StacksInv, Ahead
<1>6. CASE closeEmpty
  <2>1. Len(ref_stack) = Len(states) + 1
    BY <1>0, <1>6 DEF closeEmpty, Ahead
  <2>2. ref_stack # <<>>
    BY <1>0, <2>1, EmptySeq
  <2> QED
    BY <1>0, <1>6, <2>1, <2>2, Popped DEF closeEmpty, end, StacksInv, Ahead
<1>7. CASE parseKey
  BY <1>0, <1>7 DEF parseKey, StacksInv, Ahead
<1>8. CASE separator
  BY <1>0, <1>8, Pushed DEF separator, StacksInv, Ahead, buildVars
<1>9. CASE firstElement
  BY <1>0, <1>9, Pushed DEF firstElement, StacksInv, Ahead, buildVars
<1>10. CASE evaluate
  BY <1>0, <1>10 DEF evaluate, StacksInv, Ahead, buildVars, Top
<1>11. CASE comma
  BY <1>0, <1>11 DEF comma, StacksInv, Ahead, buildVars
<1>12. CASE close
  BY <1>0, <1>12, Popped DEF close, end, StacksInv, Ahead, Top
<1>13. CASE accept
  BY <1>0, <1>13 DEF accept, StacksInv, Ahead, buildVars
<1>14. CASE parse_error
  BY <1>0, <1>14 DEF parse_error, StacksInv, Ahead, buildVars
<1> QED
  BY <1>1, <1>2, <1>3, <1>4, <1>5, <1>6, <1>7, <1>8, <1>9, <1>10, <1>11, <1>12, <1>13, <1>14
  DEF Parse, Parsing

(* The two stacks of open containers agree, for every text.                *)
THEOREM StacksStayTogether ==
  ASSUME NEW from
  PROVE  ParserSpec(from) => []StacksAgree
<1>1. ParserInit(from) => StacksInv
  BY StacksInitially
<1>2. StacksInv /\ [Parse]_parserVars => StacksInv'
  <2>1. StacksInv /\ UNCHANGED parserVars => StacksInv'
    BY DEF StacksInv, parserVars, buildVars, Ahead, Top
  <2> QED
    BY <2>1, StacksStep
<1>3. StacksInv => StacksAgree
  BY DEF StacksInv, StacksAgree, Top, Ahead, Opening
<1> QED
  BY <1>1, <1>2, <1>3, PTL DEF ParserSpec

-----------------------------------------------------------------------------
(* dump(): what its settings are, and how it writes.                       *)
Setting == [ensure_ascii : BOOLEAN, error_handler : {"strict", "ignore", "replace"}]

(* Joining two sequences.                                                  *)
LEMMA Joined ==
  ASSUME NEW s, Sequence(s), NEW t, Sequence(t)
  PROVE  Sequence(s \o t) /\ Len(s \o t) = Len(s) + Len(t) /\ Len(s) \in Nat /\ Len(t) \in Nat
<1>1. PICK S : s \in Seq(S)
  BY DEF Sequence
<1>2. PICK T : t \in Seq(T)
  BY DEF Sequence
<1>3. s \in Seq(S \cup T) /\ t \in Seq(S \cup T)
  <2>1. Seq(S) \subseteq Seq(S \cup T) /\ Seq(T) \subseteq Seq(S \cup T)
    BY SeqMonotonic
  <2> QED
    BY <1>1, <1>2, <2>1
<1> QED
  BY <1>3, ConcatProperties, LenProperties DEF Sequence

(* One more element, and a prefix.                                         *)
LEMMA Grown ==
  ASSUME NEW s, Sequence(s), NEW e
  PROVE  Sequence(Append(s, e)) /\ Len(Append(s, e)) = Len(s) + 1
<1>1. PICK S : s \in Seq(S)
  BY DEF Sequence
<1>2. s \in Seq(S \cup {e}) /\ e \in S \cup {e}
  <2>1. Seq(S) \subseteq Seq(S \cup {e})
    BY SeqMonotonic
  <2> QED
    BY <1>1, <2>1
<1> QED
  BY <1>2, AppendProperties DEF Sequence

LEMMA Prefix ==
  ASSUME NEW s, Sequence(s), NEW n \in Nat, n <= Len(s)
  PROVE  Sequence(SubSeq(s, 1, n)) /\ Len(SubSeq(s, 1, n)) = n
<1>1. PICK S : s \in Seq(S)
  BY DEF Sequence
<1>2. SubSeq(s, 1, n) \in Seq(S) /\ Len(SubSeq(s, 1, n)) = n
  BY <1>1
<1> QED
  BY <1>2 DEF Sequence

(* An escaped unit is six bytes.                                           *)
LEMMA UnitBytes ==
  ASSUME NEW n
  PROVE  Sequence(escapedUnit(n)) /\ Len(escapedUnit(n)) = 6
<1> DEFINE T == {92, 117, hexDigitOf(n \div 4096), hexDigitOf((n \div 256) % 16),
                 hexDigitOf((n \div 16) % 16), hexDigitOf(n % 16)}
<1>1. escapedUnit(n) \in Seq(T) /\ Len(escapedUnit(n)) = 6
  BY DEF escapedUnit
<1> QED
  BY <1>1 DEF Sequence

(* Bytes written out one by one.                                           *)
LEMMA OneByte ==
  ASSUME NEW e
  PROVE  Sequence(<<e>>) /\ Len(<<e>>) = 1
<1>1. <<e>> \in Seq({e}) /\ Len(<<e>>) = 1
  OBVIOUS
<1> QED
  BY <1>1 DEF Sequence

LEMMA TwoBytes ==
  ASSUME NEW d, NEW e
  PROVE  Sequence(<<d, e>>) /\ Len(<<d, e>>) = 2
<1>1. <<d, e>> \in Seq({d, e}) /\ Len(<<d, e>>) = 2
  OBVIOUS
<1> QED
  BY <1>1 DEF Sequence

LEMMA Pair ==
  ASSUME NEW m, NEW n
  PROVE  Sequence(escapedUnit(m) \o escapedUnit(n)) /\ Len(escapedUnit(m) \o escapedUnit(n)) = 12
<1> DEFINE s == escapedUnit(m)
           t == escapedUnit(n)
<1>1. Sequence(s) /\ Len(s) = 6 /\ Sequence(t) /\ Len(t) = 6
  BY UnitBytes
<1> HIDE DEF s, t
<1>2. Sequence(s \o t)
  BY <1>1, Joined
<1>3. Len(s \o t) = Len(s) + Len(t)
  BY <1>1, Joined
<1>4. Len(s \o t) = 12
  BY <1>1, <1>3
<1> QED
  BY <1>2, <1>4 DEF s, t

(* What a code point adds is at most twelve bytes.                         *)
LEMMA CodepointBytes ==
  ASSUME NEW cp, NEW b
  PROVE  Sequence(codepointBytes(cp, b)) /\ Len(codepointBytes(cp, b)) <= 12
<1> DEFINE short == <<92, ShortEscape[cp]>>
           unit  == escapedUnit(cp)
           pair  == escapedUnit(55232 + (cp \div 1024)) \o escapedUnit(56320 + (cp % 1024))
           plain == <<b>>
<1>1. Sequence(short) /\ Len(short) = 2
  BY TwoBytes, Zenon
<1>2. Sequence(unit) /\ Len(unit) = 6
  BY UnitBytes
<1>3. Sequence(pair) /\ Len(pair) = 12
  <2> DEFINE m == 55232 + (cp \div 1024)
             n == 56320 + (cp % 1024)
  <2> HIDE DEF m, n
  <2>1. Sequence(escapedUnit(m) \o escapedUnit(n)) /\ Len(escapedUnit(m) \o escapedUnit(n)) = 12
    BY Pair
  <2> QED
    BY <2>1 DEF m, n
<1>4. Sequence(plain) /\ Len(plain) = 1
  BY OneByte, Zenon
<1>5. \/ codepointBytes(cp, b) = short \/ codepointBytes(cp, b) = unit
      \/ codepointBytes(cp, b) = pair \/ codepointBytes(cp, b) = plain
  BY DEF codepointBytes
<1> HIDE DEF short, unit, pair, plain
<1>6. Sequence(codepointBytes(cp, b))
  BY <1>1, <1>2, <1>3, <1>4, <1>5
<1>7. Len(codepointBytes(cp, b)) \in {1, 2, 6, 12}
  BY <1>1, <1>2, <1>3, <1>4, <1>5
<1>8. \A n \in {1, 2, 6, 12} : n <= 12
  OBVIOUS
<1> QED
  BY <1>6, <1>7, <1>8, Zenon

(* What stands for an ill-formed part is a sequence.                       *)
LEMMA ReplacementBytes == Sequence(Replacement)
<1> DEFINE unit == escapedUnit(65533)
           raw  == <<239, 191, 189>>
<1>1. raw \in Seq(Nat)
  OBVIOUS
<1>2. Sequence(raw)
  BY <1>1 DEF Sequence
<1>3. Sequence(unit)
  <2> DEFINE n == 65533
  <2> HIDE DEF n
  <2>1. Sequence(escapedUnit(n))
    BY UnitBytes
  <2> QED
    BY <2>1 DEF n
<1>4. Replacement = unit \/ Replacement = raw
  BY DEF Replacement
<1> HIDE DEF unit, raw
<1> QED
  BY <1>2, <1>3, <1>4

-----------------------------------------------------------------------------
(* decode: how many bytes of a code point can have been read in a state.   *)

Within == {2, 3, 4, 5, 6, 7, 8}

Most(state) ==
  CASE state = UTF8_ACCEPT -> 0 [] state = 2 -> 3 [] state \in {3, 4, 5} -> 2 [] OTHER -> 1

(* A state within a code point has one more byte behind it than the one    *)
(* before, and never more than three.                                      *)
LEMMA DecodeCounts ==
  ASSUME NEW d, d.state \in {UTF8_ACCEPT} \cup Within, NEW b
  PROVE  /\ decode(d, b).state \in {UTF8_ACCEPT, UTF8_REJECT} \cup Within
         /\ decode(d, b).state \in Within => Most(d.state) + 1 <= Most(decode(d, b).state)
<1> DEFINE type == byteType(b)
           to   == {t[3] : t \in {t \in Transitions : t[1] = d.state /\ type \in t[2]}}
<1>1. decode(d, b).state = IF to = {} THEN UTF8_REJECT ELSE CHOOSE s \in to : TRUE
  BY DEF decode
<1>2. \A t \in Transitions :
        /\ t[1] = 0 => t[3] \in {0, 2, 3, 4, 5, 6, 7, 8}
        /\ t[1] = 2 => t[3] = 0
        /\ t[1] \in {3, 4, 5} => t[3] = 2
        /\ t[1] \in {6, 7, 8} => t[3] = 3
  BY DEF Transitions
<1>3. \A s \in to :
        /\ d.state = 0 => s \in {0, 2, 3, 4, 5, 6, 7, 8}
        /\ d.state = 2 => s = 0
        /\ d.state \in {3, 4, 5} => s = 2
        /\ d.state \in {6, 7, 8} => s = 3
  BY <1>2
<1> HIDE DEF to
<1>4. decode(d, b).state = UTF8_REJECT \/ decode(d, b).state \in to
  BY <1>1
<1> QED
  BY <1>3, <1>4 DEF Most, Within, UTF8_ACCEPT, UTF8_REJECT

-----------------------------------------------------------------------------
(* The inductive invariant: once the bytes of the code point in hand are   *)
(* set apart, thirteen more always fit.                                    *)
InHand == IF settings.ensure_ascii THEN 0 ELSE undumped

BufferInv ==
  /\ settings \in Setting
  /\ Sequence(string_buffer)
  /\ accepted \in Nat /\ accepted <= Len(string_buffer) /\ accepted + 13 <= BufferSize
  /\ decoding.state \in {UTF8_ACCEPT} \cup Within
  /\ undumped \in Nat /\ undumped <= Most(decoding.state)
  /\ Len(string_buffer) - InHand + 13 <= BufferSize

(* After a code point, or its replacement, thirteen bytes are free.        *)
LEMMA BufferedRoom ==
  ASSUME NEW bytes, Sequence(bytes), buffered(bytes)
  PROVE  /\ Sequence(string_buffer') /\ accepted' = Len(string_buffer')
         /\ Len(string_buffer') \in Nat /\ Len(string_buffer') + 13 <= BufferSize
<1>1. Len(bytes) \in Nat
  BY LenProperties DEF Sequence
<1>2. CASE BufferSize - Len(bytes) < 13
  <2>1. <<>> \in Seq(Nat) /\ Len(<<>>) = 0
    OBVIOUS
  <2> QED
    BY <1>2, <2>1, DumpAssumption DEF buffered, Sequence
<1>3. CASE ~(BufferSize - Len(bytes) < 13)
  BY <1>1, <1>3, DumpAssumption DEF buffered
<1> QED
  BY <1>2, <1>3

(* Every byte of a string keeps the invariant.                             *)
LEMMA DumpEscapedRoom ==
  ASSUME BufferInv, dump_escaped, settings' = settings
  PROVE  BufferInv'
<1> DEFINE b == Head(todo[1][2])
           d == decode(decoding, b)
<1>1. codepointDone(b, d) \/ codepointGoesOn(b, d) \/ ill_formed(d)
  BY DEF dump_escaped
<1>2. /\ d.state \in {UTF8_ACCEPT, UTF8_REJECT} \cup Within
      /\ d.state \in Within => Most(decoding.state) + 1 <= Most(d.state)
  BY DecodeCounts DEF BufferInv
<1> HIDE DEF b, d
<1>3. /\ Len(string_buffer) \in Nat /\ settings.ensure_ascii \in BOOLEAN
      /\ Most(UTF8_ACCEPT) = 0 /\ Begin.state = UTF8_ACCEPT
      /\ \A s \in Within : Most(s) \in Nat
  BY LenProperties DEF BufferInv, Sequence, Setting, Most, Begin, Within, UTF8_ACCEPT
<1>4. ASSUME Sequence(string_buffer'), accepted' = Len(string_buffer'),
             Len(string_buffer') \in Nat, Len(string_buffer') + 13 <= BufferSize,
             undumped' = 0, decoding'.state = UTF8_ACCEPT
      PROVE  BufferInv'
  BY <1>3, <1>4 DEF BufferInv, InHand
<1>5. CASE codepointDone(b, d)
  <2>1. Sequence(string_buffer \o codepointBytes(d.codepoint, b))
    BY CodepointBytes, Joined DEF BufferInv
  <2> QED
    BY <1>4, <1>5, <2>1, BufferedRoom DEF codepointDone
<1>6. CASE codepointGoesOn(b, d)
  <2>1. d.state \in Within /\ decoding' = d /\ undumped' = undumped + 1 /\ accepted' = accepted
    BY <1>2, <1>6 DEF codepointGoesOn
  <2>2. undumped' \in Nat /\ undumped' <= Most(decoding'.state)
    <3>1. Most(decoding.state) \in Nat
      BY <1>3 DEF BufferInv
    <3> QED
      BY <1>2, <1>3, <2>1, <3>1 DEF BufferInv
  <2>3. CASE settings.ensure_ascii
    BY <1>6, <2>1, <2>2, <2>3 DEF codepointGoesOn, BufferInv, InHand
  <2>4. CASE ~settings.ensure_ascii
    <3>1. string_buffer' = Append(string_buffer, b)
      BY <1>6, <2>4 DEF codepointGoesOn
    <3>2. Sequence(string_buffer') /\ Len(string_buffer') = Len(string_buffer) + 1
      BY <3>1, Grown DEF BufferInv
    <3> QED
      BY <1>3, <2>1, <2>2, <2>4, <3>2, DumpAssumption DEF BufferInv, InHand
  <2> QED
    BY <2>3, <2>4
<1>7. CASE ill_formed(d)
  <2>1. Sequence(upToAccepted) /\ Len(upToAccepted) = accepted
    BY Prefix DEF BufferInv, upToAccepted
  <2>2. CASE UNCHANGED <<out, escapeVars>>
    BY <2>2 DEF BufferInv, InHand, escapeVars
  <2>3. CASE string_buffer' = upToAccepted /\ undumped' = 0 /\ decoding' = Begin /\ accepted' = accepted
    BY <1>3, <2>1, <2>3 DEF BufferInv, InHand
  <2>4. CASE buffered(upToAccepted \o Replacement) /\ undumped' = 0 /\ decoding' = Begin
    <3>1. Sequence(upToAccepted \o Replacement)
      BY <2>1, ReplacementBytes, Joined
    <3> QED
      BY <1>3, <1>4, <2>4, <3>1, BufferedRoom
  <2> QED
    BY <1>7, <2>2, <2>3, <2>4 DEF ill_formed
<1> QED
  BY <1>1, <1>5, <1>6, <1>7

(* So does the end of a string, and what lies between strings.             *)
LEMMA DumpRoom ==
  ASSUME BufferInv, Dump
  PROVE  BufferInv'
<1>1. settings' = settings
  BY DEF Dump
<1>2. CASE dumpValue \/ write
  BY <1>1, <1>2 DEF dumpValue, write, escapeVars, BufferInv, InHand
<1>3. CASE dump_escaped
  BY <1>1, <1>3, DumpEscapedRoom
<1>4. CASE stringEnd
  <2>1. CASE UNCHANGED escapeVars
    BY <1>1, <2>1 DEF escapeVars, BufferInv, InHand
  <2>2. CASE string_buffer' = <<>> /\ decoding' = Begin /\ accepted' = 0 /\ undumped' = 0
    <3>1. <<>> \in Seq(Nat) /\ Len(<<>>) = 0
      OBVIOUS
    <3> QED
      BY <1>1, <2>2, <3>1, DumpAssumption
      DEF BufferInv, InHand, Sequence, Begin, Most, UTF8_ACCEPT
  <2> QED
    BY <1>4, <2>1, <2>2 DEF stringEnd
<1> QED
  BY <1>2, <1>3, <1>4 DEF Dump

(* Whatever is written, and however it is not UTF-8, what a code point may *)
(* still need fits into string_buffer, of any size that is at least 16     *)
(* (dump_escaped, json.hpp; the size there is 512).                        *)
THEOREM NeverOverrun ==
  ASSUME NEW with \in Setting, NEW items
  PROVE  DumpSpec(with, items) => []RoomForCodePoint
<1>1. DumpInit(with, items) => BufferInv
  <2>1. <<>> \in Seq(Nat) /\ Len(<<>>) = 0
    OBVIOUS
  <2> QED
    BY <2>1, DumpAssumption DEF DumpInit, BufferInv, InHand, Sequence, Begin, Most, UTF8_ACCEPT
<1>2. BufferInv /\ [Dump /\ UNCHANGED heap]_<<dumpVars, heap>> => BufferInv'
  <2>1. CASE Dump
    BY <2>1, DumpRoom
  <2>2. CASE UNCHANGED <<dumpVars, heap>>
    BY <2>2 DEF dumpVars, escapeVars, BufferInv, InHand
  <2> QED
    BY <2>1, <2>2
<1>3. BufferInv => RoomForCodePoint
  <2> SUFFICES ASSUME BufferInv PROVE RoomForCodePoint
    OBVIOUS
  <2>1. Most(decoding.state) \in Nat /\ Most(decoding.state) <= 3 /\ Len(string_buffer) \in Nat
    BY LenProperties DEF BufferInv, Most, Within, Sequence, UTF8_ACCEPT
  <2>2. undumped <= 3
    BY <2>1 DEF BufferInv
  <2> QED
    BY <2>1, <2>2, DumpAssumption DEF BufferInv, InHand, RoomForCodePoint, Setting
<1> QED
  BY <1>1, <1>2, <1>3, PTL DEF DumpSpec
=============================================================================
