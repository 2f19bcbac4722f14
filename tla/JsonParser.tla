----------------------------- MODULE JsonParser -----------------------------
(***************************************************************************)
(* detail::parser of engine/json.hpp, as json::parse runs it: the loop of  *)
(* sax_parse_internal asks the lexer for a token at a time and reports     *)
(* what it finds to the DOM parser.  A step of the parser is what it does  *)
(* between two tokens; the lexer's steps come in between.                  *)
(***************************************************************************)
EXTENDS JsonLexer, JsonDom
LOCAL INSTANCE TLC

CONSTANT
  MaxExponent   (* of number_float_t, a power of ten                        *)

ASSUME ParserAssumption == MaxExponent \in Nat

VARIABLES
  pc,      (* where the parser stands, and which tokens it can go on with   *)
  states   (* the containers that have an element, outermost first          *)

parserVars == <<lexerVars, buildVars, pc, states>>

-----------------------------------------------------------------------------
(* The parser acts on the token of a finished scan; get_token then starts  *)
(* the next one.                                                           *)
on(place, token) == lex = "token" /\ pc = place /\ last_token = token

inputUnchanged == UNCHANGED <<inputVars, scanVars, last_token>>

get_token(place) == scan /\ pc' = place /\ inputUnchanged
keepToken(place) == UNCHANGED lex /\ pc' = place /\ inputUnchanged

-----------------------------------------------------------------------------
(* Values.                                                                 *)

Scalars == {"literal_null", "literal_true", "literal_false",
            "value_unsigned", "value_integer", "value_float", "value_string"}

scalar(token, bytes) ==
  CASE token = "literal_null"   -> Null
    [] token = "literal_true"   -> <<"boolean", TRUE>>
    [] token = "literal_false"  -> <<"boolean", FALSE>>
    [] token = "value_unsigned" -> <<"number", decimal(bytes)>>
    [] token = "value_integer"  -> <<"number", -decimal(Tail(bytes))>>
    [] token = "value_float"    -> <<"float", bytes>>
    [] token = "value_string"   -> <<"string", bytes>>

(* strtod takes the text of a float to infinity.                           *)
infinite(bytes) ==
  \E e \in DOMAIN bytes :
    /\ bytes[e] \in {69, 101}
    /\ \E i \in 1..(e - 1) : bytes[i] \in 49..57
    /\ LET signed == bytes[e + 1] \in {43, 45}
       IN /\ bytes[e + 1] # 45
          /\ decimal(SubSeq(bytes, IF signed THEN e + 2 ELSE e + 1, Len(bytes))) > MaxExponent

parseScalar ==
  \E token \in Scalars :
    /\ on("value", token)
    /\ token = "value_float" => ~infinite(token_buffer)
    /\ handle_value(scalar(token, token_buffer))
    /\ keepToken("evaluate")
    /\ UNCHANGED <<ref_stack, object_element, states>>

number_overflow ==
  /\ on("value", "value_float") /\ infinite(token_buffer)
  /\ keepToken("failed")
  /\ UNCHANGED <<buildVars, states>>

-----------------------------------------------------------------------------
(* Containers.                                                             *)

begin_object ==
  /\ on("value", "begin_object")
  /\ start("object") /\ get_token("openObject")
  /\ UNCHANGED <<object_element, states>>

begin_array ==
  /\ on("value", "begin_array")
  /\ start("array") /\ get_token("openArray")
  /\ UNCHANGED <<object_element, states>>

(* A container that ends before its first element was never in states.     *)
closeEmpty ==
  /\ on("openObject", "end_object") \/ on("openArray", "end_array")
  /\ end /\ keepToken("evaluate")
  /\ UNCHANGED <<heap, fresh, object_element, states>>

parseKey ==
  /\ on("openObject", "value_string") \/ on("nextKey", "value_string")
  /\ key(token_buffer)
  /\ get_token(IF pc = "openObject" THEN "firstColon" ELSE "nextColon")
  /\ UNCHANGED <<ref_stack, states>>

separator ==
  /\ on("firstColon", "name_separator") \/ on("nextColon", "name_separator")
  /\ states' = IF pc = "firstColon" THEN Append(states, "object") ELSE states
  /\ get_token("value")
  /\ UNCHANGED buildVars

firstElement ==
  /\ lex = "token" /\ pc = "openArray" /\ last_token # "end_array"
  /\ states' = Append(states, "array")
  /\ keepToken("value")
  /\ UNCHANGED buildVars

(* A value is complete: what may follow depends on what it is in.          *)
evaluate ==
  /\ lex = "token" /\ pc = "evaluate"
  /\ get_token(IF states = <<>> THEN "strict"
               ELSE IF states[Len(states)] = "array" THEN "inArray" ELSE "inObject")
  /\ UNCHANGED <<buildVars, states>>

comma ==
  /\ on("inArray", "value_separator") \/ on("inObject", "value_separator")
  /\ get_token(IF pc = "inArray" THEN "value" ELSE "nextKey")
  /\ UNCHANGED <<buildVars, states>>

(* A fault to seed: the closed container stays on the stack of states.     *)
closeKeepingState ==
  /\ on("inArray", "end_array") \/ on("inObject", "end_object")
  /\ end /\ keepToken("evaluate")
  /\ UNCHANGED <<heap, fresh, object_element, states>>

close ==
  /\ on("inArray", "end_array") \/ on("inObject", "end_object")
  /\ end
  /\ states' = SubSeq(states, 1, Len(states) - 1)
  /\ keepToken("evaluate")
  /\ UNCHANGED <<heap, fresh, object_element>>

-----------------------------------------------------------------------------
(* In strict mode, which json::parse asks for, nothing may follow.         *)
accept ==
  /\ on("strict", "end_of_input")
  /\ keepToken("accepted")
  /\ UNCHANGED <<buildVars, states>>

Expected ==
  [value      |-> Scalars \cup {"begin_object", "begin_array"},
   openObject |-> {"end_object", "value_string"}, nextKey   |-> {"value_string"},
   firstColon |-> {"name_separator"},             nextColon |-> {"name_separator"},
   inArray    |-> {"value_separator", "end_array"},
   inObject   |-> {"value_separator", "end_object"},
   strict     |-> {"end_of_input"}]

(* sax->parse_error, which throws and leaves what was built to the         *)
(* destructor of the result.                                               *)
parse_error ==
  /\ lex = "token" /\ pc \in DOMAIN Expected /\ last_token \notin Expected[pc]
  /\ keepToken("failed")
  /\ UNCHANGED <<buildVars, states>>

Parsing ==
  \/ parseScalar \/ number_overflow
  \/ begin_object \/ begin_array \/ closeEmpty \/ parseKey \/ separator
  \/ firstElement \/ evaluate \/ comma \/ close \/ accept \/ parse_error

(* json::parse.                                                            *)
Parse ==
  \/ Scan /\ lex # "token" /\ UNCHANGED <<buildVars, pc, states>>
  \/ Parsing

ParserInit(from) == LexerInit(from) /\ DomInit([a \in {ROOT} |-> Null]) /\ pc = "value" /\ states = <<>>

ParserSpec(from) == ParserInit(from) /\ [][Parse]_parserVars

-----------------------------------------------------------------------------
(* The two stacks kept of the open containers, the states of               *)
(* sax_parse_internal and the ref_stack of the DOM parser, agree: an       *)
(* element goes into a container of the kind the parser believes it is in, *)
(* and neither stack is popped, or its last element used, when it is empty.*)
StacksAgree ==
  /\ pc # "failed" =>
       Len(ref_stack) = Len(states) + IF pc \in {"openObject", "openArray", "firstColon"} THEN 1 ELSE 0
  /\ pc = "inArray" => states # <<>> /\ states[Len(states)] = "array"
  /\ pc \in {"inObject", "nextKey", "nextColon"} => states # <<>> /\ states[Len(states)] = "object"
=============================================================================
