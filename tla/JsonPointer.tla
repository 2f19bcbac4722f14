----------------------------- MODULE JsonPointer -----------------------------
(***************************************************************************)
(* json_pointer of engine/json.hpp: a path of tokens into a value, its     *)
(* text, and what the functions that follow it find, create or change.     *)
(*                                                                         *)
(* A value is <<"null">>, <<"boolean", b>>, <<"number", an integer>>,      *)
(* <<"string", bytes>>, <<"array", elements>> or <<"object", a function    *)
(* from keys>>, as in JsonBinary but without floats and byte strings.      *)
(* What is found or changed comes as an outcome, and so does an exception. *)
(***************************************************************************)
EXTENDS JsonBytes
LOCAL INSTANCE SequencesExt
LOCAL INSTANCE TLC

Null       == <<"null">>
Array(s)   == <<"array", s>>
Object(f)  == <<"object", f>>
Found(x)   == [is |-> "found", value |-> x]
OutOfRange == [is |-> "out_of_range"]
ParseError == [is |-> "parse_error"]
TypeError  == [is |-> "type_error"]

(* operator==: of two integers, of which one is unsigned, that one is cast *)
(* to the signed type, so that 2^64 - 1 equals -1.                         *)
RECURSIVE equals(_, _)
equals(j, k) ==
  /\ j[1] = k[1]
  /\ CASE j[1] = "number" -> cast(j[2], 8) = cast(k[2], 8)
       [] j[1] \in {"array", "object"} ->
            DOMAIN j[2] = DOMAIN k[2] /\ \A e \in DOMAIN j[2] : equals(j[2][e], k[2][e])
       [] OTHER -> j = k

-----------------------------------------------------------------------------
(* Texts.                                                                  *)
SLASH == 47
TILDE == 126
DASH  == <<45>>
Digits == 48..57

RECURSIVE replace_substring(_, _, _)
replace_substring(s, f, t) ==
  CASE IsPrefix(f, s)           -> t \o replace_substring(SubSeq(s, Len(f) + 1, Len(s)), f, t)
    [] s # <<>> /\ ~IsPrefix(f, s) -> <<Head(s)>> \o replace_substring(Tail(s), f, t)
    [] s = <<>>                 -> <<>>

(* A fault to seed: the slashes first.                                     *)
escapeSlashFirst(s) == replace_substring(replace_substring(s, <<47>>, <<126, 49>>), <<126>>, <<126, 48>>)

escape(s)   == replace_substring(replace_substring(s, <<126>>, <<126, 48>>), <<47>>, <<126, 49>>)
unescape(s) == replace_substring(replace_substring(s, <<126, 49>>, <<47>>), <<126, 48>>, <<126>>)

to_string(tokens) == FlattenSeq([i \in DOMAIN tokens |-> <<SLASH>> \o escape(tokens[i])])

(* The tokens between the slashes; a tilde must be followed by 0 or 1.     *)
split(s) ==
  LET slashes == SelectSeq([i \in DOMAIN s |-> i], LAMBDA i : s[i] = SLASH)
      end(i)  == IF i = Len(slashes) THEN Len(s) ELSE slashes[i + 1] - 1
  IN CASE s = <<>> -> Found(<<>>)
       [] s # <<>> /\ s[1] # SLASH -> ParseError
       [] \E i \in DOMAIN s : s[i] = TILDE /\ (i = Len(s) \/ s[i + 1] \notin {48, 49}) -> ParseError
       [] OTHER -> Found([i \in DOMAIN slashes |-> unescape(SubSeq(s, slashes[i] + 1, end(i)))])

(* An index: decimal, without leading zeros.  One too large for its type   *)
(* is out of range here, any other too large where it is used.             *)
array_index(token) ==
  IF Len(token) > 1 /\ token[1] \notin 49..57 THEN ParseError
  ELSE IF token = <<>> \/ \E i \in DOMAIN token : token[i] \notin Digits THEN OutOfRange
  ELSE Found(FoldLeft(LAMBDA n, b : 10 * n + (b - 48), 0, token))

-----------------------------------------------------------------------------
(* Places.                                                                 *)

(* The element that at() takes a token for: its key, or its position.      *)
place(j, token) ==
  CASE j[1] = "object" -> IF token \in DOMAIN j[2] THEN Found(token) ELSE OutOfRange
    [] j[1] = "array"  ->
         LET index == IF token = DASH THEN OutOfRange ELSE array_index(token)
         IN IF index.is # "found" THEN index
            ELSE IF index.value < Len(j[2]) THEN Found(index.value + 1) ELSE OutOfRange
    [] OTHER           -> OutOfRange

inside(j, at) == IF at.is = "found" THEN Found(j[2][at.value]) ELSE at
get_checked(j, tokens) ==
  FoldLeft(LAMBDA sofar, token : IF sofar.is = "found" THEN inside(sofar.value, place(sofar.value, token)) ELSE sofar,
           Found(j), tokens)

(* Whether there is something at a place; at() of an empty token in an     *)
(* array is not foreseen.                                                  *)
indexLike(token) ==
  IF Len(token) = 1 THEN token[1] \in Digits
  ELSE token[1] \in 49..57 /\ \A i \in DOMAIN token : token[i] \in Digits

RECURSIVE contains(_, _)
contains(j, tokens) ==
  IF tokens = <<>> THEN Found(TRUE)
  ELSE LET token == Head(tokens)
           at    == place(j, token)
       IN CASE j[1] = "array" /\ token = <<>> -> array_index(token)
            [] j[1] = "array" /\ token # <<>> ->
                 IF indexLike(token) /\ at.is = "found" THEN contains(j[2][at.value], Tail(tokens))
                 ELSE Found(FALSE)
            [] j[1] = "object" ->
                 IF token \in DOMAIN j[2] THEN contains(j[2][token], Tail(tokens)) ELSE Found(FALSE)
            [] OTHER -> Found(FALSE)

(* A value with another one at a place that is there.                      *)
RECURSIVE replaced(_, _, _)
replaced(j, tokens, new) ==
  IF tokens = <<>> THEN new
  ELSE [j EXCEPT ![2][place(j, Head(tokens)).value] = replaced(@, Tail(tokens), new)]

-----------------------------------------------------------------------------
(* Assigning to a place makes it if it is not there; what was made before  *)
(* an exception stays.                                                     *)
done(j)          == [is |-> "found", document |-> j]
failed(how, j)   == [is |-> how, document |-> j]
member(f, name)  == IF name \in DOMAIN f THEN f[name] ELSE Null
grown(s, length) == [i \in 1..(IF length > Len(s) THEN length ELSE Len(s)) |-> IF i \in DOMAIN s THEN s[i] ELSE Null]

(* What null becomes under a token: operator[] makes an array of any       *)
(* number or "-", unflatten of nothing but "0".                            *)
madeByIndex(token) ==
  IF token = DASH \/ \A i \in DOMAIN token : token[i] \in Digits THEN Array(<<>>) ELSE Object(<<>>)
madeByZero(token) == IF token = <<48>> THEN Array(<<>>) ELSE Object(<<>>)

RECURSIVE get_unchecked(_, _, _)
get_unchecked(null, tokens, new) ==
  IF tokens = <<>> THEN done(new)
  ELSE LET token == Head(tokens)
           j     == IF null = Null THEN madeByIndex(token) ELSE null
           index == IF token = DASH THEN Found(Len(j[2])) ELSE array_index(token)
           cells == grown(j[2], index.value + 1)
           inner == get_unchecked(IF j[1] = "object" THEN member(j[2], token) ELSE cells[index.value + 1],
                                  Tail(tokens), new)
       IN CASE j[1] = "object" -> [inner EXCEPT !.document = Object((token :> @) @@ j[2])]
            [] j[1] = "array" /\ index.is # "found" -> failed(index.is, j)
            [] j[1] = "array" /\ index.is = "found" ->
                 [inner EXCEPT !.document = Array([cells EXCEPT ![index.value + 1] = inner.document])]
            [] OTHER           -> failed("out_of_range", j)

RECURSIVE get_and_create(_, _, _)
get_and_create(null, tokens, new) ==
  IF tokens = <<>> THEN Found(new)
  ELSE LET token == Head(tokens)
           j     == IF null = Null THEN madeByZero(token) ELSE null
           index == array_index(token)
           cells == grown(j[2], index.value + 1)
           inner == get_and_create(IF j[1] = "object" THEN member(j[2], token) ELSE cells[index.value + 1],
                                   Tail(tokens), new)
       IN CASE j[1] \notin {"object", "array"} -> TypeError
            [] j[1] = "array" /\ index.is # "found" -> index
            [] OTHER ->
                 IF inner.is # "found" THEN inner
                 ELSE IF j[1] = "object" THEN Found(Object((token :> inner.value) @@ j[2]))
                 ELSE Found(Array([cells EXCEPT ![index.value + 1] = inner.value]))

-----------------------------------------------------------------------------
(* An object with an entry for each value that is no container, or an      *)
(* empty one, under the text of its path; an empty container becomes null. *)
RECURSIVE flattenUnder(_, _)
flattenUnder(text, j) ==
  LET under(k) == text \o <<SLASH>> \o (IF j[1] = "array" THEN decimalIndex(k - 1) ELSE escape(k))
  IN CASE j[1] \notin {"array", "object"} -> text :> j
       [] j[1] \in {"array", "object"} /\ j[2] = <<>> -> text :> Null
       [] OTHER -> FoldLeft(LAMBDA f, k : flattenUnder(under(k), j[2][k]) @@ f, <<>>,
                            IF j[1] = "array" THEN [i \in DOMAIN j[2] |-> i] ELSE keysOf(j[2]))

flatten(j) == Object(flattenUnder(<<>>, j))

(* Its entries are assigned, in the order of their paths, to null.         *)
unflatten(j) ==
  LET assign(sofar, path) ==
        LET tokens == split(path)
        IN IF sofar.is # "found" THEN sofar
           ELSE IF j[2][path][1] \in {"array", "object"} THEN TypeError
           ELSE IF tokens.is # "found" THEN tokens
           ELSE get_and_create(sofar.value, tokens.value, j[2][path])
  IN IF j[1] # "object" THEN TypeError ELSE FoldLeft(assign, Found(Null), keysOf(j[2]))
=============================================================================
