----------------------------- MODULE JsonLexer -----------------------------
(***************************************************************************)
(* detail::lexer of engine/json.hpp, the scanner beneath json::parse: one  *)
(* byte is read per step, by get(), and a scan ends with a token.  A byte  *)
(* is a number; comments are an error, as ignore_comments is false.        *)
(***************************************************************************)
EXTENDS JsonNumber, Sequences, FiniteSets
LOCAL INSTANCE SequencesExt

CONSTANTS
  MaxUnsigned,  (* of number_unsigned_t: 2^64 - 1                           *)
  MaxInteger    (* of number_integer_t: 2^63 - 1                            *)

ASSUME LexerAssumption == MaxUnsigned \in Nat /\ MaxInteger \in Nat

VARIABLES
  source,        (* what may still be read: the rest of a text, then any    *)
                 (* pieces out of a set, as many as are left                *)
  text,          (* history: the bytes it has returned                      *)
  current,       (* the last one, or EOF                                    *)
  next_unget,    (* the next get() returns current again                    *)
  position,      (* position_t                                              *)
  token_buffer,  (* the bytes of the token                                  *)
  lex,           (* where the scan stands                                   *)
  due,           (* sets the next bytes of a literal or character must be in *)
  digits,        (* the hex digits of a \u escape                           *)
  high,          (* the surrogate that waits for its second half, or 0      *)
  last_token     (* what the last scan returned                             *)

inputVars == <<source, text, current, next_unget, position>>
scanVars  == <<token_buffer, due, digits, high>>
lexerVars == <<inputVars, scanVars, lex, last_token>>

-----------------------------------------------------------------------------
(* Bytes.                                                                  *)

EOF       == -1
NUL       == 0
NEWLINE   == 10
QUOTE     == 34
BACKSLASH == 92
LETTER_u  == 117

Whitespace == {9, NEWLINE, 13, 32}

Structural ==
  [b \in {44, 58, 91, 93, 123, 125} |->
     CASE b = 91 -> "begin_array"  [] b = 93 -> "end_array"  [] b = 123 -> "begin_object"
       [] b = 125 -> "end_object" [] b = 58 -> "name_separator" [] b = 44 -> "value_separator"]

(* The literals by their first byte, with the bytes that must follow it.   *)
Literal ==
  [b \in {102, 110, 116} |->
     CASE b = 116 -> [token |-> "literal_true", rest |-> <<{114}, {117}, {101}>>]
       [] b = 102 -> [token |-> "literal_false", rest |-> <<{97}, {108}, {115}, {101}>>]
       [] b = 110 -> [token |-> "literal_null", rest |-> <<{117}, {108}, {108}>>]]

(* What follows a backslash, other than u, and the byte it stands for.     *)
Escape ==
  [b \in {QUOTE, BACKSLASH, 47, 98, 102, 110, 114, 116} |->
     CASE b = 98 -> 8 [] b = 102 -> 12 [] b = 110 -> NEWLINE [] b = 114 -> 13 [] b = 116 -> 9
       [] OTHER -> b]

(* What may stand for itself in a string, and what may not at all.         *)
Plain   == (32..127) \ {QUOTE, BACKSLASH}
Control == 0..31

Tail80BF == 128..191

(* The bytes that must follow the first byte of a character.               *)
Following(b) ==
  CASE b \in 194..223              -> <<Tail80BF>>
    [] b = 224                     -> <<160..191, Tail80BF>>
    [] b \in 225..236 \cup 238..239 -> <<Tail80BF, Tail80BF>>
    [] b = 237                     -> <<128..159, Tail80BF>>
    [] b = 240                     -> <<144..191, Tail80BF, Tail80BF>>
    [] b \in 241..243              -> <<Tail80BF, Tail80BF, Tail80BF>>
    [] b = 244                     -> <<128..143, Tail80BF, Tail80BF>>

MultiByteLead == 194..244
IllFormedLead == (128..193) \cup (245..255)

HexDigit == (48..57) \cup (65..70) \cup (97..102)

hexValue(b) == CASE b \in 48..57 -> b - 48 [] b \in 65..70 -> b - 55 [] b \in 97..102 -> b - 87

HighSurrogate == 55296..56319
LowSurrogate  == 56320..57343

continuation(n) == 128 + (n % 64)

(* A code point of a \u escape as the bytes added to the token.            *)
utf8(cp) ==
  CASE cp < 128 -> <<cp>>
    [] cp \in 128..2047 -> <<192 + (cp \div 64), continuation(cp)>>
    [] cp \in 2048..65535 -> <<224 + (cp \div 4096), continuation(cp \div 64), continuation(cp)>>
    [] OTHER -> <<240 + (cp \div 262144), continuation(cp \div 4096),
                  continuation(cp \div 64), continuation(cp)>>

-----------------------------------------------------------------------------
(* Input.                                                                  *)

(* What get_character may find next: the rest of a piece of text or, when  *)
(* that is read, another piece or the end.                                 *)
offered ==
  IF source.rest # <<>> THEN {source.rest}
  ELSE {<<EOF>>} \cup (IF source.left > 0 THEN source.pieces ELSE {})

advanced(b) ==
  [chars_read_total        |-> position.chars_read_total + 1,
   chars_read_current_line |-> IF b = NEWLINE THEN 0 ELSE position.chars_read_current_line + 1,
   lines_read              |-> position.lines_read + IF b = NEWLINE THEN 1 ELSE 0]

(* A fault to seed: an ungotten newline still counts as a line.            *)
retreatedKeepingLine(p) ==
  [p EXCEPT !.chars_read_total = @ - 1,
            !.chars_read_current_line = IF @ = 0 THEN 0 ELSE @ - 1]

retreated(p) ==
  [chars_read_total        |-> p.chars_read_total - 1,
   chars_read_current_line |-> IF p.chars_read_current_line = 0 THEN 0
                               ELSE p.chars_read_current_line - 1,
   lines_read              |-> IF p.chars_read_current_line = 0 /\ p.lines_read > 0
                               THEN p.lines_read - 1 ELSE p.lines_read]

reads(b) ==
  /\ current' = b
  /\ IF next_unget THEN b = current /\ UNCHANGED <<text, source>>
     ELSE /\ \E piece \in offered :
               /\ b = Head(piece)
               /\ source' = [source EXCEPT !.rest = Tail(piece),
                                           !.left = IF source.rest = <<>> /\ b # EOF THEN @ - 1 ELSE @]
          /\ text' = IF b = EOF THEN text ELSE Append(text, b)

get(b)         == reads(b) /\ next_unget' = FALSE /\ position' = advanced(b)
getAndUnget(b) == reads(b) /\ next_unget' = TRUE /\ position' = retreated(advanced(b))

-----------------------------------------------------------------------------
(* Scanning.                                                               *)

goto(state)   == lex' = state /\ UNCHANGED last_token
return(token) == lex' = "token" /\ last_token' = token

(* The parser calls scan().                                                *)
scan == lex' = IF position.chars_read_total = 0 THEN "bom" ELSE "space"

skip_bom(b) ==
  /\ UNCHANGED scanVars
  /\ \/ lex = "bom" /\ b # 239 /\ getAndUnget(b) /\ goto("space")
     \/ lex = "bom" /\ b = 239 /\ get(b) /\ goto("bom2")
     \/ lex = "bom2" /\ get(b) /\ (IF b = 187 THEN goto("bom3") ELSE return("parse_error"))
     \/ lex = "bom3" /\ get(b) /\ (IF b = 191 THEN goto("space") ELSE return("parse_error"))

(* skip_whitespace, and the tokens that are one byte.                      *)
skip_whitespace(b) ==
  /\ lex = "space" /\ get(b) /\ UNCHANGED scanVars
  /\ \/ b \in Whitespace /\ goto("space")
     \/ b \in DOMAIN Structural /\ return(Structural[b])
     \/ b \in {NUL, EOF} /\ return("end_of_input")
     \/ /\ b \notin Whitespace \cup DOMAIN Structural \cup {NUL, EOF, QUOTE, 45}
                    \cup Digit \cup DOMAIN Literal
        /\ return("parse_error")

scan_literal(b) ==
  /\ get(b)
  /\ UNCHANGED <<token_buffer, digits, high>>
  /\ \/ /\ lex = "space" /\ b \in DOMAIN Literal
        /\ goto(Literal[b].token) /\ due' = Literal[b].rest
     \/ /\ lex \in {"literal_true", "literal_false", "literal_null"}
        /\ \/ b \notin Head(due) /\ return("parse_error") /\ due' = <<>>
           \/ /\ b \in Head(due) /\ due' = Tail(due)
              /\ IF Len(due) = 1 THEN return(lex) ELSE goto(lex)

arcsFor(b) == {arc \in NumberArcs : arc[1] = lex /\ b \in arc[2]}

decimal(bytes) == FoldLeft(LAMBDA value, b : 10 * value + (b - 48), 0, bytes)

(* strtoull or strtoll of the buffer, unless it is out of range; a number  *)
(* with a point or an exponent is a float, and so is one out of range.     *)
numberToken(bytes) ==
  LET negative == bytes[1] = 45
      magnitude == decimal(IF negative THEN Tail(bytes) ELSE bytes)
  IN IF \E i \in DOMAIN bytes : bytes[i] \in {46, 69, 101} THEN "value_float"
     ELSE IF negative
          THEN IF magnitude <= MaxInteger + 1 THEN "value_integer" ELSE "value_float"
          ELSE IF magnitude <= MaxUnsigned THEN "value_unsigned" ELSE "value_float"

scan_number(b) ==
  /\ UNCHANGED <<due, digits, high>>
  /\ \/ /\ arcsFor(b) # {} /\ get(b)
        /\ goto((CHOOSE arc \in arcsFor(b) : TRUE)[3])
        /\ token_buffer' = Append(IF lex = "space" THEN <<>> ELSE token_buffer, b)
     \/ /\ lex \in NumberEnds /\ arcsFor(b) = {}
        /\ getAndUnget(b) /\ return(numberToken(token_buffer))
        /\ UNCHANGED token_buffer
     \/ /\ lex \in {"minus", "decimal1", "exponent", "sign"} /\ arcsFor(b) = {}
        /\ get(b) /\ return("parse_error")
        /\ UNCHANGED token_buffer

(* scan_string, between two characters.                                    *)
stringByte(b) ==
  /\ UNCHANGED <<digits, high>>
  /\ \/ /\ lex = "space" /\ b = QUOTE /\ goto("string")
        /\ token_buffer' = <<>> /\ UNCHANGED due
     \/ /\ lex = "string" /\ b = QUOTE /\ return("value_string")
        /\ UNCHANGED <<token_buffer, due>>
     \/ /\ lex = "string" /\ b = BACKSLASH /\ goto("escape")
        /\ UNCHANGED <<token_buffer, due>>
     \/ /\ lex = "string" /\ b \in Plain /\ goto("string")
        /\ token_buffer' = Append(token_buffer, b) /\ UNCHANGED due
     \/ /\ lex = "string" /\ b \in MultiByteLead /\ goto("character")
        /\ token_buffer' = Append(token_buffer, b) /\ due' = Following(b)
     \/ /\ lex = "string" /\ b \in Control \cup IllFormedLead \cup {EOF}
        /\ return("parse_error")
        /\ UNCHANGED <<token_buffer, due>>

(* next_byte_in_range.                                                     *)
next_byte_in_range(b) ==
  /\ lex = "character"
  /\ UNCHANGED <<digits, high>>
  /\ \/ /\ b \in Head(due) /\ due' = Tail(due)
        /\ goto(IF Len(due) = 1 THEN "string" ELSE "character")
        /\ token_buffer' = Append(token_buffer, b)
     \/ /\ b \notin Head(due) /\ return("parse_error")
        /\ due' = <<>> /\ UNCHANGED token_buffer

escaped(b) ==
  /\ lex = "escape"
  /\ UNCHANGED due
  /\ \/ /\ b \in DOMAIN Escape /\ goto("string")
        /\ token_buffer' = Append(token_buffer, Escape[b]) /\ UNCHANGED <<digits, high>>
     \/ /\ b = LETTER_u /\ goto("hex") /\ digits' = <<>> /\ high' = 0
        /\ UNCHANGED token_buffer
     \/ /\ b \notin DOMAIN Escape \cup {LETTER_u} /\ return("parse_error")
        /\ UNCHANGED <<token_buffer, digits, high>>

(* A fault to seed: half a character is taken for a whole one.             *)
codepointUnpaired(cp) ==
  /\ goto("string") /\ token_buffer' = token_buffer \o utf8(cp)
  /\ high' = 0 /\ UNCHANGED due

(* The code point of four hex digits: a character, the first half of one,  *)
(* which must be followed by \u and the second half, or an error.          *)
codepoint(cp) ==
  \/ /\ high = 0 /\ cp \notin HighSurrogate \cup LowSurrogate
     /\ goto("string") /\ token_buffer' = token_buffer \o utf8(cp)
     /\ UNCHANGED <<high, due>>
  \/ /\ high = 0 /\ cp \in HighSurrogate
     /\ goto("surrogate") /\ high' = cp /\ due' = <<{BACKSLASH}, {LETTER_u}>>
     /\ UNCHANGED token_buffer
  \/ /\ high # 0 /\ cp \in LowSurrogate
     /\ goto("string")
     /\ token_buffer' = token_buffer \o utf8(high * 1024 + cp - 56613888)
     /\ high' = 0 /\ UNCHANGED due
  \/ /\ IF high = 0 THEN cp \in LowSurrogate ELSE cp \notin LowSurrogate
     /\ return("parse_error") /\ UNCHANGED <<token_buffer, high, due>>

(* get_codepoint.                                                          *)
hexDigit(b) ==
  /\ lex = "hex"
  /\ \/ /\ b \notin HexDigit /\ return("parse_error")
        /\ UNCHANGED scanVars
     \/ /\ b \in HexDigit /\ Len(digits) < 3 /\ goto("hex")
        /\ digits' = Append(digits, hexValue(b)) /\ UNCHANGED <<token_buffer, due, high>>
     \/ /\ b \in HexDigit /\ Len(digits) = 3
        /\ codepoint(4096 * digits[1] + 256 * digits[2] + 16 * digits[3] + hexValue(b))
        /\ digits' = <<>>

surrogate(b) ==
  /\ lex = "surrogate"
  /\ UNCHANGED <<token_buffer, digits, high>>
  /\ \/ b \in Head(due) /\ due' = Tail(due) /\ goto(IF Len(due) = 1 THEN "hex" ELSE "surrogate")
     \/ b \notin Head(due) /\ due' = <<>> /\ return("parse_error")

scan_string(b) ==
  /\ get(b)
  /\ stringByte(b) \/ next_byte_in_range(b) \/ escaped(b) \/ hexDigit(b) \/ surrogate(b)

Scanning(b) == skip_bom(b) \/ skip_whitespace(b) \/ scan_literal(b) \/ scan_number(b) \/ scan_string(b)

Scan == \E b \in (IF next_unget THEN {current} ELSE {Head(piece) : piece \in offered}) : Scanning(b)

(* A lexer is made for each text.                                          *)
Start == [chars_read_total |-> 0, chars_read_current_line |-> 0, lines_read |-> 0]

LexerInit(from) ==
  /\ source = from /\ text = <<>> /\ current = EOF /\ next_unget = FALSE /\ position = Start
  /\ token_buffer = <<>> /\ due = <<>> /\ digits = <<>> /\ high = 0
  /\ lex = "bom" /\ last_token = "uninitialized"

newLexer(from) ==
  /\ source' = from /\ text' = <<>> /\ current' = EOF /\ next_unget' = FALSE /\ position' = Start
  /\ token_buffer' = <<>> /\ due' = <<>> /\ digits' = <<>> /\ high' = 0
  /\ lex' = "bom" /\ last_token' = "uninitialized"

-----------------------------------------------------------------------------
(* What get() has returned and unget() not taken back.                     *)
Consumed == IF next_unget /\ current # EOF THEN SubSeq(text, 1, Len(text) - 1) ELSE text

Newlines(bytes)  == {i \in DOMAIN bytes : bytes[i] = NEWLINE}
LineStart(bytes) ==
  IF Newlines(bytes) = {} THEN 0
  ELSE CHOOSE i \in Newlines(bytes) : \A j \in Newlines(bytes) : j <= i

(* The position an error message gives is that of the byte the scan is at, *)
(* also after a byte was put back.  (Behind a newline that was put back    *)
(* the column is given as 0, so it is not compared there.)                 *)
PositionExact ==
  LET atEnd == IF current = EOF /\ ~next_unget THEN 1 ELSE 0
  IN lex # "bom" =>
       /\ position.chars_read_total = Len(Consumed) + atEnd
       /\ position.lines_read = Cardinality(Newlines(Consumed))
       /\ ~(next_unget /\ current = NEWLINE)
            => position.chars_read_current_line = Len(Consumed) - LineStart(Consumed) + atEnd
=============================================================================
