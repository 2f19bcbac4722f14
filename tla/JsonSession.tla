---------------------------- MODULE JsonSession ----------------------------
(***************************************************************************)
(* A value's life in engine/json.hpp: json::parse builds it, dump() writes *)
(* it, its destructor takes it apart; what was written is parsed again.    *)
(* WebSocketReader parses each message, and dumps the subscription it      *)
(* sends; the key in that comes from the environment and need not be       *)
(* UTF-8, so a session may also begin with such a value.                   *)
(*                                                                         *)
(* A float is not written (see the README), so a session with one skips    *)
(* the writing.                                                            *)
(***************************************************************************)
EXTENDS JsonParser, JsonDump

CONSTANTS
  Sources,   (* the texts that may come, as sets of pieces                  *)
  Strings,   (* the strings a program may put into a value                  *)
  Settings   (* of the serializer                                           *)

VARIABLES
  stage,     (* "parse", "dump", "destroy", "reparse", "clear" or "done"    *)
  tree       (* history: the value that was parsed or made                  *)

sessionVars == <<parserVars, destroyVars, dumpVars, stage, tree>>

-----------------------------------------------------------------------------
(* The tree at an address of the heap.                                     *)
Tree[a \in DOMAIN heap] ==
  LET v == heap[a]
  IN IF isContainer(v) THEN <<v[1], [k \in DOMAIN v[2] |-> Tree[v[2][k]]]>> ELSE v

hasFloat == \E a \in DOMAIN heap : heap[a][1] = "float"

-----------------------------------------------------------------------------
onParser == stage \in {"parse", "reparse"} /\ pc \notin {"accepted", "failed"}

parse ==
  /\ onParser /\ Parse
  /\ UNCHANGED <<destroyVars, dumpVars, stage, tree>>

(* The value is there, and is written.                                     *)
beginDump ==
  /\ stage = "parse" /\ pc = "accepted" /\ ~hasFloat
  /\ stage' = "dump" /\ tree' = Tree[ROOT]
  /\ todo' = <<Value(ROOT)>>
  /\ UNCHANGED <<parserVars, destroyVars, settings, out, escapeVars, thrown>>

dump ==
  /\ stage = "dump" /\ Dump
  /\ UNCHANGED <<parserVars, destroyVars, stage, tree>>

(* It is no longer needed, or an exception unwinds.                        *)
beginDestroy ==
  /\ \/ stage = "parse" /\ (pc = "failed" \/ (pc = "accepted" /\ hasFloat)) /\ stage' = "destroy"
     \/ stage = "dump" /\ (todo = <<>> \/ thrown) /\ stage' = "destroy"
     \/ stage = "reparse" /\ pc \in {"accepted", "failed"} /\ stage' = "clear"
  /\ destroy
  /\ tree' = IF stage = "parse" /\ pc = "accepted" THEN Tree[ROOT] ELSE tree
  /\ UNCHANGED <<lexerVars, pc, states, dumpVars>>

destroyStep ==
  /\ stage \in {"destroy", "clear"}
  /\ takeItem \/ destroyItem
  /\ UNCHANGED <<lexerVars, pc, states, dumpVars, stage, tree>>

NoText == [rest |-> <<>>, pieces |-> {}, left |-> 0]

(* What was written is parsed in its turn.                                 *)
parseAgain ==
  /\ stage' = "reparse"
  /\ newLexer([NoText EXCEPT !.rest = out])
  /\ pc' = "value" /\ states' = <<>>

endSession ==
  /\ stage \in {"destroy", "clear"} /\ destroyRoot
  /\ UNCHANGED <<dumpVars, tree>>
  /\ IF stage = "destroy" /\ out # <<>> /\ ~thrown THEN parseAgain
     ELSE stage' = "done" /\ UNCHANGED <<lexerVars, pc, states>>

finished == stage = "done" /\ UNCHANGED sessionVars

-----------------------------------------------------------------------------
NoTree == <<"none">>

(* A session begins with a text ...                                        *)
parsing ==
  /\ \E from \in Sources : ParserInit(from)
  /\ \E with \in Settings : with.error_handler = "strict" /\ DumpInit(with, <<>>)
  /\ stage = "parse" /\ tree = NoTree

(* ... or with an object a program made: {"k": the string}.                *)
made(string) ==
  [a \in {ROOT, 1} |-> IF a = ROOT THEN <<"object", [k \in {<<107>>} |-> 1]>>
                       ELSE <<"string", string>>]

writing ==
  /\ \E string \in Strings : DomInit(made(string))
  /\ \E with \in Settings : DumpInit(with, <<Value(ROOT)>>)
  /\ LexerInit(NoText) /\ pc = "accepted" /\ states = <<>>
  /\ stage = "dump" /\ tree = Tree[ROOT]

SessionInit == parsing \/ writing

NoSession ==
  /\ LexerInit(NoText) /\ DomInit([a \in {ROOT} |-> Null]) /\ pc = "accepted" /\ states = <<>>
  /\ DumpInit([ensure_ascii |-> FALSE, error_handler |-> "strict"], <<>>)
  /\ stage = "done" /\ tree = NoTree

SessionNext ==
  parse \/ beginDump \/ dump \/ beginDestroy \/ destroyStep \/ endSession \/ finished

SessionSpec == SessionInit /\ [][SessionNext]_sessionVars

-----------------------------------------------------------------------------
(* Properties.                                                             *)

(* The pointers the DOM parser keeps while the vectors under them grow are *)
(* valid: each to an element of the one before, the first to the root, and *)
(* object_element to one of the innermost.                                 *)
ReferencesLive ==
  onParser =>
    /\ \A i \in DOMAIN ref_stack :
         /\ ref_stack[i] \in DOMAIN heap /\ isContainer(heap[ref_stack[i]])
         /\ IF i = 1 THEN ref_stack[i] = ROOT ELSE ref_stack[i] \in Children(heap[ref_stack[i - 1]])
    /\ \/ pc \in {"firstColon", "nextColon"}
       \/ pc = "value" /\ states # <<>> /\ states[Len(states)] = "object"
       => object_element \in Children(heap[container])

(* However deep a value is, its destructor does not recurse: what it       *)
(* destroys has had its elements taken out.                                *)
FlatDestruction ==
  stage \in {"destroy", "clear"} =>
    /\ current_item # NoItem => \A a \in Children(current_item) : heap[a] = Null
    /\ \A a \in Children(heap[ROOT]) : heap[a] = Null

(* No cell is lost: each is under the root, and at the end none is left.   *)
NothingLeaks ==
  /\ stage \notin {"destroy", "clear"} => DOMAIN heap = {ROOT} \cup Below(ROOT)
  /\ stage = "done" => heap[ROOT] = Null
=============================================================================
