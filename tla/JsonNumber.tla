----------------------------- MODULE JsonNumber -----------------------------
(***************************************************************************)
(* The numbers of a JSON text, as the machine of lexer::scan_number in     *)
(* engine/json.hpp knows them.                                             *)
(***************************************************************************)
EXTENDS Integers

Digit == 48..57

(* The arcs of the machine, each from a state by a byte to a state.        *)
IntegerArcs ==
  { <<"space", {45}, "minus">>, <<"space", {48}, "zero">>, <<"space", 49..57, "any1">>,
    <<"minus", {48}, "zero">>, <<"minus", 49..57, "any1">>,
    <<"zero", {46}, "decimal1">>, <<"zero", {69, 101}, "exponent">>,
    <<"any1", Digit, "any1">>, <<"any1", {46}, "decimal1">>, <<"any1", {69, 101}, "exponent">> }

FractionArcs ==
  { <<"decimal1", Digit, "decimal2">>,
    <<"decimal2", Digit, "decimal2">>, <<"decimal2", {69, 101}, "exponent">> }

ExponentArcs ==
  { <<"exponent", {43, 45}, "sign">>, <<"exponent", Digit, "any2">>,
    <<"sign", Digit, "any2">>, <<"any2", Digit, "any2">> }

NumberArcs == IntegerArcs \cup FractionArcs \cup ExponentArcs

(* The states a number may end in.                                         *)
NumberEnds == {"zero", "any1", "decimal2", "any2"}
=============================================================================
