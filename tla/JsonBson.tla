------------------------------ MODULE JsonBson ------------------------------
(***************************************************************************)
(* BSON: the members of binary_reader and binary_writer in engine/json.hpp *)
(* for it.  A document, be it an object or an array, is its size, its      *)
(* elements and a NUL; the writer computes each size beforehand, and the   *)
(* reader looks at none.                                                   *)
(***************************************************************************)
EXTENDS JsonBinary
LOCAL INSTANCE SequencesExt
LOCAL INSTANCE Functions

NUL == 0

(* Bytes up to a NUL.                                                      *)
get_bson_cstr(at) ==
  until(at, NUL, LAMBDA i : IF byteAt(i) = EOF THEN Failed ELSE Found(byteAt(i), i + 1))

asLength(bytes) == LET n == signed(bytes) IN IF n.negative THEN -1 ELSE count(n.magnitude)
get_int32(at)   == Read(get_number(at, 4), asLength)

(* A length counts the NUL at the end.  That this is missing is not        *)
(* reported: the result is then a discarded value.                         *)
get_bson_string(at, len) ==
  IF len < 1 THEN Failed
  ELSE Then(get_string(at, len - 1), LAMBDA s :
         IF byteAt(s.next) = EOF THEN Discarded ELSE Found(String(s.value), s.next + 1))

get_bson_binary(at, len) ==
  IF len < 0 THEN Failed
  ELSE Then(get_number(at, 1), LAMBDA subtype :
         Read(get_binary(subtype.next, len), LAMBDA b : <<"binary", b, unsigned(subtype.value)>>))

RECURSIVE parse_bson_element_list(_)

parse_bson_element_internal(type, at) ==
  CASE type = 1  -> get_float(at, 8)
    [] type = 2  -> Then(get_int32(at), LAMBDA len : get_bson_string(len.next, len.value))
    [] type = 3  -> Then(get_int32(at), LAMBDA size : Read(parse_bson_element_list(size.next), objectOf))
    [] type = 4  ->
         Then(get_int32(at), LAMBDA size :
           Read(parse_bson_element_list(size.next), LAMBDA pairs : Array([i \in DOMAIN pairs |-> pairs[i][2]])))
    [] type = 5  -> Then(get_int32(at), LAMBDA len : get_bson_binary(len.next, len.value))
    [] type = 8  -> Found(Boolean(byteAt(at) # 0), at + 1)
    [] type = 10 -> Found(Null, at)
    [] type \in {16, 18} -> Read(get_number(at, IF type = 16 THEN 4 ELSE 8), Signed)
    [] type = 17 -> Read(get_number(at, 8), Unsigned)
    [] OTHER     -> Failed

parse_bson_element_list(at) ==
  until(at, NUL, LAMBDA i :
    IF byteAt(i) = EOF THEN Failed
    ELSE member(i + 1, get_bson_cstr, LAMBDA j :
           parse_bson_element_internal(byteAt(i), j)))

parse_bson_internal(at) == parse_bson_element_internal(3, at)

-----------------------------------------------------------------------------
(* Writing.                                                                *)
int32(n) == write_number(cast(natural(n), 4))

(* The elements of a document, each with its name.                         *)
entries(j) ==
  IF j[1] = "array" THEN [i \in DOMAIN j[2] |-> <<decimalIndex(i - 1), j[2][i]>>]
  ELSE mapped(keysOf(j[2]), LAMBDA k : <<k, j[2][k]>>)

total(sizes) == FoldLeft(LAMBDA n, size : n + size, 0, sizes)

calc_bson_entry_header_size(name) == 1 + Len(name) + 1

(* A fault to seed: without the NUL at its end.                            *)
calc_bson_text_size(bytes) == 4 + Len(bytes)
calc_bson_string_size(bytes)      == 4 + Len(bytes) + 1
calc_bson_binary_size(bytes)      == 4 + Len(bytes) + 1
calc_bson_integer_size(n)         == IF inSigned(n, 4) THEN 4 ELSE 8

RECURSIVE calc_bson_element_size(_)
calc_bson_document_size(j) ==
  4 + total(mapped(entries(j), LAMBDA e :
              calc_bson_entry_header_size(e[1]) + calc_bson_element_size(e[2]))) + 1
calc_bson_element_size(j) ==
  CASE j[1] \in {"object", "array"} -> calc_bson_document_size(j)
    [] j[1] = "binary"  -> calc_bson_binary_size(j[2])
    [] j[1] = "boolean" -> 1
    [] j[1] = "float"   -> 8
    [] j[1] = "number"  -> calc_bson_integer_size(j[2])
    [] j[1] = "string"  -> calc_bson_string_size(j[2])
    [] j[1] = "null"    -> 0

write_bson_entry_header(name, type) == <<type>> \o name \o <<NUL>>

write_bson_integer(name, n) ==
  CASE inSigned(n, 4) -> write_bson_entry_header(name, 16) \o write_number(cast(n, 4))
    [] ~inSigned(n, 4) /\ inSigned(n, 8) ->
         write_bson_entry_header(name, 18) \o write_number(cast(n, 8))
    [] OTHER -> write_bson_entry_header(name, 17) \o write_number(cast(n, 8))

write_bson_string(name, bytes) ==
  write_bson_entry_header(name, 2) \o int32(Len(bytes) + 1) \o bytes \o <<NUL>>

write_bson_binary(name, bytes, subtype) ==
  write_bson_entry_header(name, 5) \o int32(Len(bytes))
    \o (IF subtype = NoSubtype THEN <<0>> ELSE cast(subtype, 1)) \o bytes

RECURSIVE write_bson_element(_, _)
write_bson_document(j) ==
  int32(calc_bson_document_size(j))
    \o joined(mapped(entries(j), LAMBDA e : write_bson_element(e[1], e[2]))) \o <<NUL>>
write_bson_element(name, j) ==
  CASE j[1] = "object"  -> write_bson_entry_header(name, 3) \o write_bson_document(j)
    [] j[1] = "array"   -> write_bson_entry_header(name, 4) \o write_bson_document(j)
    [] j[1] = "binary"  -> write_bson_binary(name, j[2], j[3])
    [] j[1] = "boolean" -> write_bson_entry_header(name, 8) \o <<IF j[2] THEN 1 ELSE 0>>
    [] j[1] = "float"   -> write_bson_entry_header(name, 1) \o write_number(j[2])
    [] j[1] = "number"  -> write_bson_integer(name, j[2])
    [] j[1] = "string"  -> write_bson_string(name, j[2])
    [] j[1] = "null"    -> write_bson_entry_header(name, 10)

(* A name with a NUL in it cannot be written.                              *)
RECURSIVE nulInName(_)
nulInName(j) ==
  j[1] \in {"object", "array"} /\ \E e \in Range(entries(j)) : NUL \in Range(e[1]) \/ nulInName(e[2])

write_bson(j) ==
  IF j[1] # "object" \/ nulInName(j) THEN Thrown ELSE written(write_bson_document(j))
=============================================================================
