------------------------------ MODULE MCJson ------------------------------
(* Sessions of the JSON library: texts put together of pieces that bear on *)
(* one part of it at a time, and strings over the bytes at the edges of    *)
(* the ranges of UTF-8; values at the edges of the widths of the binary    *)
(* formats, and messages put together of their markers.                    *)
EXTENDS JsonLibrary
LOCAL INSTANCE SequencesExt

Ones(bytes) == {<<b>> : b \in bytes}
From(begun, pieces, count) == [rest |-> begun, pieces |-> pieces, left |-> count]

MCSources ==
  { (* containers: [ ] { } , 1 and "a": *)
    From(<<>>, Ones({91, 93, 123, 125, 44, 49}) \cup {<<34, 97, 34, 58>>}, 8),
    (* escapes in a string: \u and hex digits around the surrogates ... *)
    From(<<34>>, {<<92, 117>>, <<68, 55, 70, 70>>, <<100, 56, 48, 48>>, <<68, 66, 70, 102>>,
                  <<100, 99, 48, 48>>, <<68, 70, 102, 70>>, <<34>>}, 5),
    (* ... and at the lengths of UTF-8: 007f, 0080, 07ff, 0800, ffff *)
    From(<<34, 92, 117>>, {<<48, 48, 55, 102>>, <<48, 48, 56, 48>>, <<48, 55, 102, 102>>,
                           <<48, 56, 48, 48>>, <<102, 70, 70, 102>>, <<34>>}, 2),
    (* other escapes, and bytes in a string *)
    From(<<34>>, Ones({34, 92, 110, 31, 127, 128, 143, 144, 159, 160, 191, 193, 194, 224, 237, 239, 240, 244, 245}), 4),
    (* numbers *)
    From(<<>>, Ones({45, 48, 57, 46, 101, 43, 10}), 6),
    (* literals, white space, NUL and the byte order mark *)
    From(<<>>, {<<116, 114>>, <<117, 101>>, <<102, 97, 108, 115, 101>>, <<110, 117, 108, 108>>,
                <<32>>, <<10>>, <<0>>, <<44>>, <<91>>, <<93>>, <<239>>, <<187, 191>>}, 5) }

Edges == {34, 10, 127, 128, 144, 160, 191, 194, 224, 237, 240, 244, 245}

MCStrings == UNION {[1..n -> Edges] : n \in 0..2} \cup [1..3 -> {128, 144, 160, 194, 224, 237, 240, 244}]
               \cup [1..4 -> {65, 143, 144, 240}]

MCSettings == [ensure_ascii : BOOLEAN, error_handler : {"strict", "ignore", "replace"}]

-----------------------------------------------------------------------------
MCCodecs ==
  [format : {"cbor"}, tags : {"error", "ignore", "store"}] \cup
  [format : {"msgpack", "bson"}] \cup
  {c \in [format : {"ubjson"}, use_size : BOOLEAN, use_type : BOOLEAN] : c.use_type => c.use_size} \cup
  {c \in [format : {"bjdata"}, use_size : BOOLEAN, use_type : BOOLEAN, draft3 : BOOLEAN] :
     c.use_type => c.use_size}

B == INSTANCE JsonBytes

Repeated(b, n) == [i \in 1..n |-> b]
Number(n)      == <<"number", B!integer(n)>>
MCArray(s)     == <<"array", s>>
Object(keys)   == <<"object", keys>>

Magnitudes ==
  Ones({0, 1, 23, 24, 31, 32, 33, 129}) \cup {<<128, 1>>, <<128, 0, 1>>} \cup
  UNION {{<<127>> \o Repeated(255, n), <<128>> \o Repeated(0, n),
          <<255>> \o Repeated(255, n), <<1>> \o Repeated(0, n)} : n \in {0, 1, 3, 7}}

Integers64 ==
  LET of(minus) == [negative : {minus}, magnitude : {B!Stripped(m) : m \in Magnitudes}]
  IN of(FALSE) \cup {n \in of(TRUE) : n.magnitude # <<>> /\ B!inSigned(n, 8)}

(* 0, 1.5, the edges of float and of its denormals, infinity, NaN, 0.1     *)
Doubles ==
  { B!double(0, 0, 0), B!double(1, 0, 0), B!double(0, 1023, 4194304), B!double(1, 1150, 8388607),
    B!double(0, 1151, 0), B!double(0, 897, 0), B!double(0, 896, 0), B!double(0, 874, 0),
    B!double(0, 873, 0), B!double(0, 896, 1), B!double(1, 2047, 0), B!double(0, 2047, 0),
    B!quiet_NaN, B!negated(B!quiet_NaN), <<63, 185, 153, 153, 153, 153, 153, 154>>,
    <<0, 0, 0, 0, 0, 0, 0, 1>> }

Subtypes == {<<>>, B!unsigned(Repeated(255, 8))} \cup {B!natural(n) : n \in {0, 128, 256, 65536}}

Plains ==
  {<<"null">>, <<"boolean", TRUE>>, <<"boolean", FALSE>>} \cup
  {<<"number", n>> : n \in Integers64} \cup {<<"float", d>> : d \in Doubles} \cup
  {<<"string", Repeated(97, n)>> : n \in {0, 1, 23, 24, 31, 32, 255, 256}} \cup
  {<<"binary", Repeated(255, n), s>> : n \in {0, 1, 2, 3, 4, 8, 16}, s \in Subtypes}

(* Those that UBJSON would read byte by byte are for the other formats.    *)
LongBinaries ==
  {<<"binary", Repeated(255, n), s>> : n \in {23, 24, 255, 256}, s \in {<<>>, B!natural(1)}}

Small ==
  {<<"null">>, <<"boolean", TRUE>>, <<"boolean", FALSE>>, Number(1), Number(200), Number(-200),
   <<"number", B!unsigned(Repeated(255, 8))>>, <<"float", B!double(0, 1023, 4194304)>>,
   <<"string", <<97>>>>, MCArray(<<>>), MCArray(<< <<"null">> >>), Object(<<>>),
   <<"binary", <<1>>, <<>>>>, <<"binary", <<1, 2>>, B!natural(5)>>}

Containers ==
  {MCArray(Repeated(<<"null">>, n)) : n \in {15, 16, 23, 24}} \cup
  {MCArray(<<a, b>>) : a \in Small, b \in Small} \cup
  {Object((<<97>> :> a) @@ (<<97, 98>> :> b)) : a \in Small, b \in Small}

(* Objects of a type, a size and data.                                     *)
Annotated ==
  LET U == INSTANCE JsonUbjson
      numbers(q) == MCArray([i \in DOMAIN q |-> Number(q[i])])
      types == {U!TypeName[m] : m \in {U!Mark.U, U!Mark.B, U!Mark.i, U!Mark.I}} \cup {<<120>>}
      sizes == {numbers(q) : q \in {<<>>, <<2>>, <<1, 2>>, <<2, 1>>, <<2, 2>>, <<0, 2>>, <<2, 1, 1>>}}
      datas == {numbers(q) : q \in {<<>>, <<1, 127>>, <<1, 2, 3, 4>>}}
  IN {Object((U!ArrayType :> <<"string", t>>) @@ (U!ArraySize :> s) @@ (U!ArrayData :> d)) :
        t \in types, s \in sizes \cup {Number(2)}, d \in datas}
     \cup {Object((U!ArrayType :> Number(2)) @@ (U!ArraySize :> Number(0)) @@ (U!ArrayData :> <<"null">>))}

MCValues(c) ==
  LET all == Plains \cup Containers
  IN CASE c.format = "bson" -> {Object(<<107>> :> v) : v \in all} \cup
                               {Object(<<>>), <<"null">>, Object(<<0>> :> <<"null">>)}
       [] c.format = "bjdata" -> all \cup Annotated
       [] c.format = "ubjson" -> all
       [] OTHER -> all \cup LongBinaries

(* Messages: a byte and something behind it, or up to n pieces.            *)
Heads ==
  {<<b>> \o rest : b \in 0..255,
     rest \in {<<>>, <<0>>, <<1, 0>>, <<1, 1, 1>>, Repeated(255, 3), Repeated(0, 8), Repeated(255, 9)}}
Pieced(begin, pieces, n) == {begin \o FlattenSeq(s) : s \in UNION {[1..k -> pieces] : k \in 0..n}}

MCForeign(c) ==
  CASE c.format = "cbor" -> Heads \cup
         Pieced(<<>>, Ones({0, 95, 127, 130, 159, 161, 191, 198, 255}) \cup {<<65, 7>>, <<97, 107>>, <<216, 5>>},
                IF c.tags = "store" THEN 4 ELSE 3)
    [] c.format = "msgpack" -> Heads \cup
         Pieced(<<>>, Ones({0, 1, 129, 146, 192, 199, 213, 221}) \cup {<<161, 97>>, <<217, 1>>, <<220, 0, 2>>}, 4)
    [] c.format = "bson" ->
         Pieced(<<0, 0, 0, 0>>, Ones({0, 1, 2}) \cup {<<t, 107, 0>> : t \in {2, 3, 4, 5, 8, 10, 16}}
                                 \cup {<<1, 0, 0, 0>>, <<255, 255, 255, 255>>}, 4)
    [] c.format = "ubjson" /\ ~c.use_size -> Heads \cup
         Pieced(<<91>>, Ones({35, 36, 78, 84, 85, 90, 91, 93, 125, 0}) \cup {<<105, 1>>, <<72, 85, 1, 48>>}, 4) \cup
         Pieced(<<123>>, Ones({35, 36, 67, 78, 85, 125}) \cup {<<105, 1>>, <<85, 2, 97>>}, 4) \cup
         {<<72, 85, Len(t)>> \o t : t \in UNION {[1..k -> {45, 48, 46, 101, 49, 32, 0}] : k \in 0..4}}
    [] c.format = "bjdata" /\ ~c.use_size /\ ~c.draft3 -> Heads \cup
         Pieced(<<91>>, Ones({35, 36, 66, 78, 85, 90, 91, 93, 104}) \cup {<<105, 1>>, <<117, 2, 0>>, <<36, 85, 35>>}, 4) \cup
         Pieced(<<91, 36, 85, 35, 91>>, Ones({0, 1, 2, 35, 36, 85, 91, 93})
                                        \cup {<<105, 2>>, <<77, 0, 0, 0, 0, 0, 0, 0, 128>>}, 4) \cup
         Pieced(<<123>>, Ones({35, 36, 85, 91, 125}) \cup {<<105, 1>>, <<85, 2, 97>>}, 4)
    [] OTHER -> {}

MCCuts(length) ==
  IF length <= 12 THEN 0..(length - 1) ELSE {0, 1, 2, 3, length \div 2, length - 2, length - 1}

-----------------------------------------------------------------------------
(* Edits: keys that must be escaped, that look like an index, or that come *)
(* before one in the order of a map; arrays of more than ten elements.     *)
One == Number(1)

Wide == {Number(-1), <<"number", B!unsigned(Repeated(255, 8))>>}
Bare == {Null, One, MCArray(<<>>), Object(<<>>)} \cup Wide

Keyed ==
  {Object(k :> v) : k \in {<<>>, <<47>>, <<126>>, <<126, 49>>, <<45>>, <<48>>, <<97>>}, v \in {Null, One}} \cup
  {Object((<<97>> :> One) @@ (k :> v)) : k \in {<<126, 49>>, <<48>>, <<48, 33>>}, v \in {Null, One}}

Listed ==
  {MCArray(<<v>>) : v \in Bare} \cup {MCArray(<<One, v>>) : v \in {Null, One}} \cup
  {MCArray([i \in 1..n |-> Number(i)]) : n \in {3, 9, 11, 12}}

Edited ==
  {MCArray(<<One, Object(<<97>> :> One)>>), Object(<<97>> :> MCArray(<<One, Null, Number(2)>>)),
   Object((<<97>> :> Object(<<48>> :> One)) @@ (<<126, 49>> :> Null)), Null, One}

Editable ==
  Bare \cup Keyed \cup Listed \cup Edited \cup
  {MCArray(<<j, Number(2)>>) : j \in Keyed} \cup {Object(<<97>> :> j) : j \in Listed \cup Keyed} \cup
  {Object(<<97>> :> Object((<<97>> :> One) @@ (<<126, 49>> :> v))) : v \in Bare}

Paths ==
  {<<>>, <<97>>, <<47, 126>>, <<47, 126, 50>>} \cup
  Pieced(<<>>, Ones({47}) \cup {<<47, 48>>, <<47, 49>>, <<47, 45>>, <<47, 97>>, <<47, 48, 49>>, <<47, 126, 48, 49>>}, 2)

Operations ==
  [op : {"add", "replace", "test"}, path : Paths, value : {One, MCArray(<<Number(8)>>)}] \cup
  [op : {"remove"}, path : Paths] \cup [op : {"move", "copy"}, path : Paths, from : Paths] \cup
  {[op |-> "add"], [op |-> "sub", path |-> <<>>], [op |-> "add", path |-> <<>>]}

Edit(how, documents, patches, operands) ==
  [editing |-> how, documents |-> documents, patches |-> patches, operands |-> operands]

MCEdits ==
  {Edit("diff", Editable, {<<>>}, Editable), Edit("merge", Editable, {<<>>}, Editable),
   Edit("flatten", Editable, {<<>>}, {NoOperand}),
   Edit("assign", Editable, {<<[path |-> p, value |-> One]>> : p \in Paths}, {NoOperand}),
   Edit("patch", Edited, {<<o>> : o \in Operations}, {NoOperand}),
   Edit("patch", Wide, {<<[op |-> "test", path |-> <<>>, value |-> v]>> : v \in Wide}, {NoOperand})}
=============================================================================
