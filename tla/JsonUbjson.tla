----------------------------- MODULE JsonUbjson -----------------------------
(***************************************************************************)
(* UBJSON and BJData: the members of binary_reader and binary_writer in    *)
(* engine/json.hpp for them.  A value is its marker and what follows it;   *)
(* at is where the bytes behind a marker begin.  BJData has more markers,  *)
(* is little-endian and has arrays of several dimensions, which are read   *)
(* as an object of their type, size and data, and written from one.        *)
(***************************************************************************)
EXTENDS JsonBinary, JsonNumber
LOCAL INSTANCE SequencesExt
LOCAL INSTANCE FiniteSetsExt
LOCAL INSTANCE Functions
LOCAL INSTANCE TLC

Mark == [Z |-> 90, T |-> 84, F |-> 70, B |-> 66, C |-> 67, S |-> 83, H |-> 72, h |-> 104,
         d |-> 100, D |-> 68, U |-> 85, i |-> 105, I |-> 73, u |-> 117, l |-> 108, m |-> 109,
         L |-> 76, M |-> 77, array |-> 91, arrayEnd |-> 93, object |-> 123, objectEnd |-> 125,
         type |-> 36, count |-> 35, noop |-> 78]

bjdata == codec.format = "bjdata"

(* The markers of integers, from the one that is preferred, and what they  *)
(* announce.                                                               *)
integerMarkers ==
  IF bjdata THEN <<Mark.i, Mark.U, Mark.I, Mark.u, Mark.l, Mark.m, Mark.L, Mark.M>>
  ELSE <<Mark.i, Mark.U, Mark.I, Mark.l, Mark.L>>

width(marker) ==
  CASE marker \in {Mark.U, Mark.i, Mark.B, Mark.C} -> 1
    [] marker \in {Mark.I, Mark.u}                 -> 2
    [] marker \in {Mark.l, Mark.m, Mark.d}         -> 4
    [] marker \in {Mark.L, Mark.M, Mark.D}         -> 8
isSigned(marker) == marker \in {Mark.i, Mark.I, Mark.l, Mark.L}

get_integer(marker, at) ==
  Read(get_number(at, width(marker)),
       LAMBDA bytes : IF isSigned(marker) THEN signed(bytes) ELSE unsigned(bytes))

(* The next byte that is not a noop.                                       *)
noopsEnd(at) == Min({i \in at..(IF at > Len(message) THEN at ELSE Len(message) + 1) : byteAt(i) # Mark.noop})
afterNoops(at, rest(_, _)) == rest(byteAt(noopsEnd(at)), noopsEnd(at) + 1)

(* Elements up to the byte that ends them, from the marker that is there.  *)
unsized(marker, at, last, one(_, _)) ==
  LET rest[i \in at..Len(message) + 1] ==
        IF byteAt(noopsEnd(i)) = last THEN Found(<<>>, noopsEnd(i) + 1)
        ELSE Then(afterNoops(i, one), LAMBDA first :
               Read(rest[first.next], LAMBDA more : <<first.value>> \o more))
  IN IF marker = last THEN Found(<<>>, at)
     ELSE Then(one(marker, at), LAMBDA first :
            Read(rest[first.next], LAMBDA more : <<first.value>> \o more))

lengthOf(n) == IF n.negative THEN -1 ELSE count(n.magnitude)

(* A string behind the marker of its length.                               *)
get_ubjson_string(marker, at) ==
  IF marker \notin Range(integerMarkers) THEN Failed
  ELSE Then(get_integer(marker, at), LAMBDA n : get_string(n.next, lengthOf(n.value)))
get_ubjson_key(at) == get_ubjson_string(byteAt(at), at + 1)

-----------------------------------------------------------------------------
(* Sizes.  npos says that there is none; with dims, it is their product.   *)
(* current is the byte that was looked at last: the elements of a          *)
(* container without a size begin there.                                   *)
npos == Ones8

sizeIs(size, dims, current) == [size |-> size, dims |-> dims, type |-> 0, current |-> current]

(* The size that a vector of dimensions gives.                             *)
products(dims) == [k \in DOMAIN dims |-> FoldLeft(product, <<1>>, SubSeq(dims, 1, k))]

sizeOfDims(dims, current, next) ==
  CASE Len(dims) = 1 \/ (Len(dims) = 2 /\ dims[1] = <<1>>) ->
         Found(sizeIs(dims[Len(dims)], <<>>, current), next)
    [] dims = <<>> \/ <<>> \in Range(dims) -> Found(sizeIs(<<>>, <<>>, current), next)
    [] Range(products(dims)) \cap {<<>>, npos} # {} -> Failed
    [] OTHER -> Found(sizeIs(products(dims)[Len(dims)], dims, current), next)

RECURSIVE get_ubjson_ndarray_size(_)

(* A size behind its marker, which can be an array of them, but not of     *)
(* arrays.                                                                 *)
get_ubjson_size_value(marker, at, is_ndarray) ==
  CASE marker \in Range(integerMarkers) ->
         Then(get_integer(marker, at), LAMBDA n :
           IF n.value.negative THEN Failed ELSE Found(sizeIs(n.value.magnitude, <<>>, marker), n.next))
    [] marker = Mark.array /\ bjdata /\ ~is_ndarray ->
         Then(get_ubjson_ndarray_size(at), LAMBDA all : sizeOfDims(all.value.dims, all.value.current, all.next))
    [] OTHER -> Failed

(* The markers that cannot be the type of all elements in BJData.          *)
Untyped == {Mark.F, Mark.H, Mark.noop, Mark.S, Mark.T, Mark.Z, Mark.array, Mark.object}

(* $ and a type, # and a size, or the size alone, or neither.              *)
typed(at, inside) ==
  LET type == byteAt(at)
  IN IF type = EOF \/ (bjdata /\ type \in Untyped) \/ byteAt(noopsEnd(at + 1)) # Mark.count THEN Failed
     ELSE Then(afterNoops(noopsEnd(at + 1) + 1, LAMBDA m, i : get_ubjson_size_value(m, i, FALSE)),
            LAMBDA s : IF inside /\ s.value.dims # <<>> THEN Failed
                       ELSE Found([s.value EXCEPT !.type = type], s.next))

untyped(at) ==
  Then(afterNoops(at, LAMBDA m, i : get_ubjson_size_value(m, i, FALSE)),
    LAMBDA s : IF s.value.dims # <<>> THEN Failed ELSE s)

get_ubjson_size_type(at, inside) ==
  LET here == noopsEnd(at)
  IN CASE byteAt(here) = Mark.type  -> typed(here + 1, inside)
       [] byteAt(here) = Mark.count -> untyped(here + 1)
       [] OTHER -> Found(sizeIs(npos, <<>>, byteAt(here)), here + 1)

(* The dimensions of an array: none of them is an array itself.  The byte  *)
(* 0 for a type is no type, and for a marker it is passed over.            *)
dimension(marker, at) ==
  IF marker # 0 THEN get_ubjson_size_value(marker, at, TRUE)
  ELSE afterNoops(at, LAMBDA m, i : get_ubjson_size_value(m, i, TRUE))

sizesOf(all) == [i \in DOMAIN all |-> all[i].size]

get_ubjson_ndarray_size(at) ==
  Then(get_ubjson_size_type(at, TRUE), LAMBDA st :
    IF st.value.size = npos
    THEN Read(unsized(st.value.current, st.next, Mark.arrayEnd, dimension),
           LAMBDA all : [dims |-> sizesOf(all), current |-> Mark.arrayEnd])
    ELSE Read(repeat(st.next, count(st.value.size), LAMBDA i : dimension(st.value.type, i)),
           LAMBDA all : [dims    |-> sizesOf(all),
                         current |-> IF st.value.type # 0 \/ all = <<>> THEN st.value.current
                                     ELSE all[Len(all)].current]))

-----------------------------------------------------------------------------
(* A number as the text of one.  What strtod makes of a fraction, or of an *)
(* integer out of range, is left open: the text stands for it.             *)
ByteOrderMark == <<239, 187, 191>>
Blank         == {9, 10, 13, 32}

scanned(text) ==
  LET step(s, b) ==
        LET arcs == {arc \in NumberArcs : arc[1] = s.state /\ b \in arc[2]}
        IN CASE arcs # {} -> [state |-> (CHOOSE arc \in arcs : TRUE)[3], token |-> Append(s.token, b)]
             [] arcs = {} /\ s.state = "space" /\ b \in Blank -> s
             [] arcs = {} /\ s.state \in NumberEnds \cup {"after"} /\ b \in Blank \cup {0} ->
                  [s EXCEPT !.state = IF b = 0 THEN "end" ELSE "after"]
             [] arcs = {} /\ s.state = "end" -> s
             [] OTHER -> [s EXCEPT !.state = "error"]
      marked == IsPrefix(ByteOrderMark, text)
  IN FoldLeft(step, [state |-> "space", token |-> <<>>], IF marked THEN SubSeq(text, 4, Len(text)) ELSE text)

digitsValue(bytes) == FoldLeft(LAMBDA m, b : scaled(m, 10, b - 48), <<>>, bytes)

numberOf(token) ==
  LET negative == token[1] = 45
      m == digitsValue(IF negative THEN Tail(token) ELSE token)
      n == [negative |-> negative /\ m # <<>>, magnitude |-> m]
  IN IF {46, 69, 101} \cap Range(token) = {} /\ (IF negative THEN inSigned(n, 8) ELSE inUnsigned(n, 8))
     THEN <<"number", n>> ELSE <<"decimal", token>>

get_ubjson_high_precision_number(at) ==
  Then(afterNoops(at, LAMBDA m, i : get_ubjson_size_value(m, i, TRUE)), LAMBDA size :
    Then(get_string(size.next, count(size.value.size)), LAMBDA text :
      IF scanned(text.value).state \in NumberEnds \cup {"after", "end"}
      THEN Found(numberOf(scanned(text.value).token), text.next) ELSE Failed))

-----------------------------------------------------------------------------
(* Values.                                                                 *)

(* The object that stands for an array of several dimensions.              *)
ArrayType == <<95, 65, 114, 114, 97, 121, 84, 121, 112, 101, 95>>
ArraySize == <<95, 65, 114, 114, 97, 121, 83, 105, 122, 101, 95>>
ArrayData == <<95, 65, 114, 114, 97, 121, 68, 97, 116, 97, 95>>

TypeName ==
  (Mark.B :> <<98, 121, 116, 101>>) @@ (Mark.C :> <<99, 104, 97, 114>>) @@
  (Mark.d :> <<115, 105, 110, 103, 108, 101>>) @@ (Mark.D :> <<100, 111, 117, 98, 108, 101>>) @@
  (Mark.i :> <<105, 110, 116, 56>>) @@ (Mark.U :> <<117, 105, 110, 116, 56>>) @@
  (Mark.I :> <<105, 110, 116, 49, 54>>) @@ (Mark.u :> <<117, 105, 110, 116, 49, 54>>) @@
  (Mark.l :> <<105, 110, 116, 51, 50>>) @@ (Mark.m :> <<117, 105, 110, 116, 51, 50>>) @@
  (Mark.L :> <<105, 110, 116, 54, 52>>) @@ (Mark.M :> <<117, 105, 110, 116, 54, 52>>)

annotated(type, dims, data) ==
  <<"object", (ArrayType :> String(TypeName[type])) @@ (ArrayData :> Array(data)) @@
              (ArraySize :> Array([i \in DOMAIN dims |-> Unsigned(dims[i])]))>>

RECURSIVE get_ubjson_value(_, _)

get_ndarray(st) ==
  LET element == IF st.value.type \in {Mark.C, Mark.B} THEN Mark.U ELSE st.value.type
  IN IF st.value.type \notin DOMAIN TypeName THEN Failed
     ELSE Read(repeat(st.next, count(st.value.size), LAMBDA i : get_ubjson_value(element, i)),
            LAMBDA data : annotated(st.value.type, st.value.dims, data))

(* How the elements of a container are read: each with its marker, or all  *)
(* with the type that was given.                                           *)
elementAt(st, i) ==
  IF st.value.type = 0 THEN afterNoops(i, get_ubjson_value) ELSE get_ubjson_value(st.value.type, i)

get_ubjson_array(st) ==
  CASE st.value.dims # <<>> -> get_ndarray(st)
    [] st.value.dims = <<>> /\ st.value.size = npos ->
         Read(unsized(st.value.current, st.next, Mark.arrayEnd, get_ubjson_value), Array)
    [] st.value.size # npos /\ bjdata /\ st.value.dims = <<>> /\ st.value.type = Mark.B ->
         Read(get_binary(st.next, count(st.value.size)), Plain)
    [] st.value.size # npos /\ st.value.type = Mark.noop ->
         Read(repeat(st.next, count(st.value.size), LAMBDA i : Found(Null, i)), LAMBDA all : Array(<<>>))
    [] OTHER ->
         Read(repeat(st.next, count(st.value.size), LAMBDA i : elementAt(st, i)), Array)

get_ubjson_object(st) ==
  LET any(i)            == afterNoops(i, get_ubjson_value)
      keyed(marker, at) == member(at, LAMBDA i : get_ubjson_string(marker, i), any)
  IN CASE st.value.dims # <<>> -> Failed
       [] st.value.dims = <<>> /\ st.value.size = npos ->
            Read(unsized(st.value.current, st.next, Mark.objectEnd, keyed), objectOf)
       [] OTHER ->
            Read(repeat(st.next, count(st.value.size),
                        LAMBDA i : member(i, get_ubjson_key, LAMBDA j : elementAt(st, j))), objectOf)

get_char(at) == IF byteAt(at) \in 0..127 THEN Found(String(<<byteAt(at)>>), at + 1) ELSE Failed

get_ubjson_value(marker, at) ==
  CASE marker \in {Mark.T, Mark.F} -> Found(Boolean(marker = Mark.T), at)
    [] marker = Mark.Z -> Found(Null, at)
    [] marker \in Range(integerMarkers) -> Read(get_integer(marker, at), LAMBDA n : <<"number", n>>)
    [] marker = Mark.B /\ bjdata -> Read(get_number(at, 1), Unsigned)
    [] marker = Mark.h /\ bjdata -> Read(get_number(at, 2), halfFloat)
    [] marker \in {Mark.d, Mark.D} -> get_float(at, width(marker))
    [] marker = Mark.H -> get_ubjson_high_precision_number(at)
    [] marker = Mark.C -> get_char(at)
    [] marker = Mark.S -> Read(get_ubjson_key(at), String)
    [] marker = Mark.array  -> Then(get_ubjson_size_type(at, FALSE), get_ubjson_array)
    [] marker = Mark.object -> Then(get_ubjson_size_type(at, FALSE), get_ubjson_object)
    [] OTHER -> Failed

parse_ubjson_internal(at) == afterNoops(at, get_ubjson_value)

-----------------------------------------------------------------------------
(* Writing.                                                                *)
holds(marker, n) ==
  IF isSigned(marker) THEN inSigned(n, width(marker)) ELSE inUnsigned(n, width(marker))

(* The preferred marker of an integer; one that none holds is written as   *)
(* text.                                                                   *)
integerMarker(n) ==
  LET fit == SelectSeq(integerMarkers, LAMBDA marker : holds(marker, n))
  IN IF fit = <<>> THEN Mark.H ELSE Head(fit)

write_integer(n) == write_number(cast(n, width(integerMarker(n))))
write_size(size) == <<integerMarker(natural(size))>> \o write_integer(natural(size))

RECURSIVE decimalText(_)
decimalText(m) ==
  LET step(s, b) == [rest     |-> (256 * s.rest + b) % 10,
                     quotient |-> Append(s.quotient, (256 * s.rest + b) \div 10)]
      divided == FoldLeft(step, [rest |-> 0, quotient |-> <<>>], m)
  IN IF m = <<>> THEN <<>> ELSE Append(decimalText(Stripped(divided.quotient)), 48 + divided.rest)

ubjson_prefix(j) ==
  CASE j[1] = "null"    -> Mark.Z
    [] j[1] = "boolean" -> IF j[2] THEN Mark.T ELSE Mark.F
    [] j[1] = "number"  -> integerMarker(j[2])
    [] j[1] = "float"   -> Mark.D
    [] j[1] = "string"  -> Mark.S
    [] j[1] \in {"array", "binary"} -> Mark.array
    [] j[1] = "object"  -> Mark.object

(* What follows the marker of a number.                                    *)
write_number_with_ubjson_prefix(n) ==
  IF integerMarker(n) # Mark.H THEN write_integer(n)
  ELSE write_size(Len(decimalText(n.magnitude))) \o decimalText(n.magnitude)

(* A container: the type of all its elements, if they have one, and their  *)
(* number, as far as asked for, then the elements.                         *)
sameType(all) ==
  /\ codec.use_type /\ all # <<>>
  /\ \A i \in DOMAIN all : ubjson_prefix(all[i]) = ubjson_prefix(all[1])
  /\ ~(bjdata /\ ubjson_prefix(all[1]) \in Untyped)

typePart(all)   == IF sameType(all) THEN <<Mark.type, ubjson_prefix(all[1])>> ELSE <<>>
countPart(size) == IF codec.use_size THEN <<Mark.count>> \o write_size(size) ELSE <<>>
endPart(marker) == IF codec.use_size THEN <<>> ELSE <<marker>>

(* A byte string is an array of bytes.                                     *)
byteMarker == IF bjdata /\ codec.draft3 THEN Mark.B ELSE Mark.U
write_bytes(bytes) ==
  (IF codec.use_type /\ (bytes # <<>> \/ (bjdata /\ codec.draft3)) THEN <<Mark.type, byteMarker>> ELSE <<>>)
    \o countPart(Len(bytes))
    \o (IF codec.use_type THEN bytes ELSE joined(mapped(bytes, LAMBDA b : <<byteMarker, b>>)))
    \o endPart(Mark.arrayEnd)

(* An annotated array: its data, in as many elements as its size says, are *)
(* written as the type says, whatever they are; only numbers are modelled. *)
elementsOf(j) ==
  CASE j[1] = "array"  -> j[2]
    [] j[1] = "object" -> mapped(keysOf(j[2]), LAMBDA k : j[2][k])
    [] j[1] = "null"   -> <<>>
    [] OTHER           -> <<j>>

bits(j) == IF j[1] = "number" THEN cast(j[2], 8) ELSE j[2]

sizeProduct(size) ==
  IF elementsOf(size) = <<>> THEN <<>>
  ELSE FoldLeft(product, <<1>>, mapped(elementsOf(size), LAMBDA j : Stripped(bits(j))))

isAnnotated(j) == bjdata /\ j[1] = "object" /\ DOMAIN j[2] = {ArrayType, ArraySize, ArrayData}

marksNamed(name) == {marker \in DOMAIN TypeName : name = String(TypeName[marker])}

(* Its type is known, and it has as many data as it says.                  *)
isNdarray(j) ==
  /\ isAnnotated(j) /\ marksNamed(j[2][ArrayType]) # {}
  /\ sizeProduct(j[2][ArraySize]) = natural(Len(elementsOf(j[2][ArrayData]))).magnitude

write_datum(marker, j) ==
  write_number(IF marker = Mark.d THEN narrowed(bits(j)) ELSE lowest(bits(j), width(marker)))

RECURSIVE write_ubjson(_, _)

write_bjdata_ndarray(j) ==
  LET marker == CHOOSE m \in marksNamed(j[2][ArrayType]) : TRUE
  IN <<Mark.array, Mark.type, marker, Mark.count>> \o write_ubjson(j[2][ArraySize], TRUE)
       \o joined(mapped(elementsOf(j[2][ArrayData]), LAMBDA datum : write_datum(marker, datum)))

write_container(all) ==
  typePart(mapped(all, LAMBDA e : e[2])) \o countPart(Len(all))
    \o joined(mapped(all, LAMBDA e : e[1] \o write_ubjson(e[2], ~sameType(mapped(all, LAMBDA f : f[2])))))

write_ubjson(j, add_prefix) ==
  IF isNdarray(j) THEN write_bjdata_ndarray(j)
  ELSE
    (IF add_prefix THEN <<ubjson_prefix(j)>> ELSE <<>>) \o
    CASE j[1] \in {"null", "boolean"} -> <<>>
      [] j[1] = "number" -> write_number_with_ubjson_prefix(j[2])
      [] j[1] = "float"  -> write_number(j[2])
      [] j[1] = "string" -> write_size(Len(j[2])) \o j[2]
      [] j[1] = "binary" -> write_bytes(j[2])
      [] j[1] = "array"  ->
           write_container(mapped(j[2], LAMBDA v : <<<<>>, v>>)) \o endPart(Mark.arrayEnd)
      [] j[1] = "object" ->
           write_container(mapped(keysOf(j[2]), LAMBDA k : <<write_size(Len(k)) \o k, j[2][k]>>))
             \o endPart(Mark.objectEnd)

(* The type of an annotated array must be a string.                        *)
RECURSIVE typeNotString(_)
typeNotString(j) ==
  \/ isAnnotated(j) /\ j[2][ArrayType][1] # "string"
  \/ j[1] \in {"array", "object"} /\ \E v \in Range(elementsOf(j)) : typeNotString(v)
=============================================================================
