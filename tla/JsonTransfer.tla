---------------------------- MODULE JsonTransfer ----------------------------
(***************************************************************************)
(* A value sent in one of the binary formats of engine/json.hpp: written   *)
(* by to_cbor, to_msgpack, to_ubjson, to_bjdata or to_bson, and read by    *)
(* from_cbor and so on, from a message that may have been cut short or     *)
(* have something behind it.  Or bytes from anywhere are read, and what    *)
(* they were taken for is sent in its turn.                                *)
(***************************************************************************)
EXTENDS Integers, Sequences

CONSTANTS
  MaxSize,    (* max_size() of a vector and of a map, scaled down           *)
  Codecs,     (* how values are written and read                            *)
  Values(_),  (* the values that are sent, and ...                          *)
  Foreign(_), (* ... the bytes that come from anywhere, by codec            *)
  Cuts(_)     (* where a message of a length may be cut                     *)

VARIABLES
  message, codec,
  step,       (* "write", "sent", "read" or "done"                          *)
  sent,       (* history: the value, once there is one                      *)
  whole,      (* history: the message is as it was written                  *)
  received    (* what the reader made of it                                 *)

transferVars == <<message, codec, step, sent, whole, received>>

Cbor    == INSTANCE JsonCbor
MsgPack == INSTANCE JsonMsgPack
Bson    == INSTANCE JsonBson
Ubjson  == INSTANCE JsonUbjson
LOCAL INSTANCE JsonBinary
LOCAL INSTANCE Functions
LOCAL INSTANCE SequencesExt

NoValue == <<"none">>
Nothing == [is |-> "nothing"]

-----------------------------------------------------------------------------
(* binary_writer: to_cbor ... to_bson.                                     *)
writeAs(j) ==
  CASE codec.format = "cbor"    -> written(Cbor!write_cbor(j))
    [] codec.format = "msgpack" -> written(MsgPack!write_msgpack(j))
    [] codec.format = "bson"    -> Bson!write_bson(j)
    [] codec.format \in {"ubjson", "bjdata"} ->
         IF Ubjson!typeNotString(j) THEN Thrown ELSE written(Ubjson!write_ubjson(j, TRUE))

(* binary_reader::sax_parse: a value, and nothing behind it.               *)
parsed ==
  CASE codec.format = "cbor"    -> Cbor!parse_cbor_internal(1)
    [] codec.format = "msgpack" -> MsgPack!parse_msgpack_internal(1)
    [] codec.format = "bson"    -> Bson!parse_bson_internal(1)
    [] codec.format \in {"ubjson", "bjdata"} -> Ubjson!parse_ubjson_internal(1)

(* A fault to seed: the reader does not look at what follows the value.    *)
expectNothing(at) == TRUE

expectEnd(at) == byteAt(IF codec.format \in {"ubjson", "bjdata"} THEN Ubjson!noopsEnd(at) ELSE at) = EOF

sax_parse == Then(parsed, LAMBDA found : IF expectEnd(found.next) THEN found ELSE Failed)

-----------------------------------------------------------------------------
to_binary ==
  /\ step = "write"
  /\ LET outcome == writeAs(sent)
     IN IF outcome.is = "written"
        THEN message' = outcome.bytes /\ step' = "sent" /\ UNCHANGED received
        ELSE step' = "done" /\ received' = outcome /\ UNCHANGED message
  /\ UNCHANGED <<codec, sent, whole>>

arrive ==
  /\ step = "sent" /\ step' = "read"
  /\ UNCHANGED <<message, codec, sent, whole, received>>

damage ==
  /\ step = "sent" /\ step' = "read" /\ whole' = FALSE
  /\ \/ \E n \in Cuts(Len(message)) : message' = SubSeq(message, 1, n)
     \/ message' = Append(message, 0)
  /\ UNCHANGED <<codec, sent, received>>

from_binary ==
  /\ step = "read" /\ step' = "done"
  /\ received' = sax_parse
  /\ UNCHANGED <<message, codec, sent, whole>>

(* A number given as text that is no integer: its double is not modelled.  *)
RECURSIVE hasDecimal(_)
hasDecimal(j) ==
  \/ j[1] = "decimal"
  \/ j[1] \in {"array", "object"} /\ \E k \in DOMAIN j[2] : hasDecimal(j[2][k])

(* What came from anywhere is a value like any other.                      *)
forward ==
  /\ step = "done" /\ sent = NoValue /\ received.is = "found" /\ ~hasDecimal(received.value)
  /\ step' = "write" /\ sent' = received.value /\ received' = Nothing
  /\ UNCHANGED <<message, codec, whole>>

TransferInit ==
  /\ codec \in Codecs
  /\ whole = TRUE /\ received = Nothing
  /\ \/ step = "write" /\ sent \in Values(codec) /\ message = <<>>
     \/ step = "read" /\ sent = NoValue /\ message \in Foreign(codec)

NoTransfer ==
  /\ codec = [format |-> "none"] /\ message = <<>> /\ whole = TRUE
  /\ step = "done" /\ sent = NoValue /\ received = Nothing

TransferNext == to_binary \/ arrive \/ damage \/ from_binary \/ forward

-----------------------------------------------------------------------------
(* Properties.                                                             *)

(* What a format makes of a byte string, and of a float that is no number. *)
imageOfBinary(bytes, subtype) ==
  CASE codec.format = "cbor" ->
         <<"binary", bytes, IF codec.tags = "store" THEN subtype ELSE NoSubtype>>
    [] codec.format = "msgpack" ->
         <<"binary", bytes, IF subtype = NoSubtype THEN NoSubtype ELSE unsigned(cast(subtype, 1))>>
    [] codec.format = "bson" ->
         <<"binary", bytes, IF subtype = NoSubtype THEN natural(0) ELSE unsigned(cast(subtype, 1))>>
    [] codec.format = "bjdata" /\ codec.draft3 /\ codec.use_type -> Plain(bytes)
    [] OTHER -> Array([i \in DOMAIN bytes |-> Unsigned(<<bytes[i]>>)])

imageOfFloat(d) == IF isnan(d) /\ codec.format = "cbor" THEN quiet_NaN ELSE d

(* An annotated array comes back as it was, or as an array if it has but   *)
(* one dimension, or no data; bytes then come back as a byte string.       *)
imageOfNdarray(j) ==
  LET sizes == mapped(Ubjson!elementsOf(j[2][Ubjson!ArraySize]), LAMBDA n : n[2].magnitude)
      data  == Ubjson!elementsOf(j[2][Ubjson!ArrayData])
      bytes == j[2][Ubjson!ArrayType] = String(Ubjson!TypeName[Ubjson!Mark.B])
      flat  == \/ Len(sizes) < 2 \/ <<>> \in Range(sizes)
               \/ Len(sizes) = 2 /\ sizes[1] = <<1>>
  IN CASE flat /\ bytes  -> Plain(mapped(data, LAMBDA n : cast(n[2], 1)[1]))
       [] flat /\ ~bytes -> Array(data)
       [] ~flat          -> [j EXCEPT ![2][Ubjson!ArrayData] = Array(data)]

RECURSIVE Image(_)
Image(j) ==
  CASE Ubjson!isNdarray(j) -> imageOfNdarray(j)
    [] ~Ubjson!isNdarray(j) /\ j[1] \in {"array", "object"} ->
         <<j[1], [k \in DOMAIN j[2] |-> Image(j[2][k])]>>
    [] j[1] = "binary" -> imageOfBinary(j[2], j[3])
    [] j[1] = "float"  -> Float(imageOfFloat(j[2]))
    [] OTHER           -> j

RECURSIVE isTagged(_)
isTagged(j) ==
  \/ j[1] = "binary" /\ j[3] # NoSubtype
  \/ j[1] \in {"array", "object"} /\ \E k \in DOMAIN j[2] : isTagged(j[2][k])

(* Whatever the format and its options, what arrives is the value that was *)
(* sent, but for what the format cannot tell apart.  A subtype is a tag in *)
(* CBOR, which its reader turns down unless told to take it.               *)
TransferExact ==
  step = "done" /\ sent # NoValue /\ whole /\ received # Thrown =>
    IF codec.format = "cbor" /\ codec.tags = "error" /\ isTagged(sent) THEN received = Failed
    ELSE received.is = "found" /\ received.value = Image(sent)

(* A message is read whole or not at all: one cut anywhere, or with a NUL  *)
(* byte behind it, gives no value; BSON's discarded value counts as none.  *)
(* (Of UBJSON's no-op, which its reader skips, nothing is said.)           *)
WholeOrNothing == step = "done" /\ ~whole => received.is # "found"

RECURSIVE Documents(_)
Documents(j) ==
  IF j[1] \in {"array", "object"} THEN {j} \cup UNION {Documents(j[2][k]) : k \in DOMAIN j[2]} ELSE {}

(* Each document in a BSON message is as long as the size says that was    *)
(* computed before it was written.                                         *)
SizesAnnounced ==
  step = "sent" /\ codec.format = "bson" =>
    \A j \in Documents(sent) : Len(Bson!write_bson_document(j)) = Bson!calc_bson_document_size(j)
=============================================================================
