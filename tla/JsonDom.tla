------------------------------ MODULE JsonDom ------------------------------
(***************************************************************************)
(* The values of engine/json.hpp: how json_sax_dom_parser builds one from  *)
(* the parser's events, and how basic_json's destructor takes it apart.    *)
(*                                                                         *)
(* The heap maps addresses to basic_json objects.  An array's elements lie *)
(* in the cells of a std::vector, which emplace_back moves to new cells    *)
(* when they are full; an object's lie in the nodes of a std::map, which   *)
(* never move.  The parser keeps pointers to the containers it is in.      *)
(***************************************************************************)
EXTENDS Integers, Sequences, SequencesExt

VARIABLES
  heap,            (* the basic_json objects, by address                    *)
  fresh,           (* the next address                                      *)
  ref_stack,       (* addresses of the containers being filled, outermost first *)
  object_element,  (* where the value of the key read last goes             *)
  stack,           (* destroy: the values that are still to be taken apart  *)
  current_item     (* destroy: the one that is being                        *)

buildVars   == <<heap, fresh, ref_stack, object_element>>
destroyVars == <<stack, current_item>>

-----------------------------------------------------------------------------
ROOT == 0
Null == <<"null">>

(* A basic_json is its type and its value; that of a container, addresses. *)
EmptyOf(type) == <<type, <<>>>>
isContainer(value) == value[1] \in {"array", "object"}
Children(value) == IF isContainer(value) THEN Range(value[2]) ELSE {}

(* Every address under one.                                                *)
Below(address) ==
  LET reached[n \in 0..fresh] ==
        IF n = 0 THEN Children(heap[address])
        ELSE reached[n - 1] \cup UNION {Children(heap[a]) : a \in reached[n - 1]}
  IN reached[fresh]

Freeing(addresses) == Restrict(heap, DOMAIN heap \ addresses)

(* basic_json::operator=: what was there before is destroyed.              *)
Assigned(address, value) == [Freeing(Below(address)) EXCEPT ![address] = value]

(* A fault to seed: the values go to the outermost container.              *)
containerOutermost == Head(ref_stack)

container == ref_stack[Len(ref_stack)]

(* The capacity of a vector doubles when its elements fill it.             *)
Full(cells) == Len(cells) \in {1, 2, 4, 8, 16}

(* Where handle_value puts a value: the root, a new last element, or the   *)
(* element of the last key.                                                *)
slot ==
  IF ref_stack = <<>> THEN ROOT
  ELSE IF heap[container][1] = "array"
       THEN LET cells == heap[container][2]
            IN IF Full(cells) THEN fresh + Len(cells) ELSE fresh
       ELSE object_element

(* emplace_back: a full vector first moves its elements to new cells.      *)
emplace_back(value) ==
  LET cells == heap[container][2]
      moved == [i \in DOMAIN cells |-> IF Full(cells) THEN fresh + i - 1 ELSE cells[i]]
  IN /\ heap' = [a \in (DOMAIN heap \ Range(cells)) \cup Range(moved) \cup {slot} |->
                   CASE a = container      -> <<"array", Append(moved, slot)>>
                     [] a = slot           -> value
                     [] a \in Range(moved) -> heap[cells[CHOOSE i \in DOMAIN cells : moved[i] = a]]
                     [] OTHER              -> heap[a]]
     /\ fresh' = slot + 1

(* A fault to seed: a scalar does not replace the value its key had.       *)
handle_valueFirst(value) ==
  IF ref_stack # <<>> /\ heap[container][1] = "array" THEN emplace_back(value)
  ELSE IF heap[slot] # Null /\ ~isContainer(value) THEN UNCHANGED <<heap, fresh>>
  ELSE heap' = Assigned(slot, value) /\ UNCHANGED fresh

handle_value(value) ==
  IF ref_stack # <<>> /\ heap[container][1] = "array"
  THEN emplace_back(value)
  ELSE heap' = Assigned(slot, value) /\ UNCHANGED fresh

(* start_object and start_array.                                           *)
start(type) == handle_value(EmptyOf(type)) /\ ref_stack' = Append(ref_stack, slot)

(* end_object and end_array.                                               *)
end == ref_stack' = SubSeq(ref_stack, 1, Len(ref_stack) - 1)

(* A new node of the map, with a null value.                               *)
newNode(name) ==
  LET members == heap[container][2]
  IN /\ heap' = [a \in DOMAIN heap \cup {fresh} |->
                   CASE a = container -> <<"object", [m \in DOMAIN members \cup {name} |->
                                                       IF m = name THEN fresh ELSE members[m]]>>
                     [] a = fresh     -> Null
                     [] OTHER         -> heap[a]]
     /\ object_element' = fresh
     /\ fresh' = fresh + 1

(* A fault to seed: a key that is there already is entered once more.      *)
keyDuplicated(name) == newNode(name)

(* key: the element of that name, made with a null value if there is none. *)
key(name) ==
  LET members == heap[container][2]
  IN IF name \in DOMAIN members
     THEN object_element' = members[name] /\ UNCHANGED <<heap, fresh>>
     ELSE newNode(name)

-----------------------------------------------------------------------------
(* json_value::destroy, called on the root: what is in its elements is     *)
(* moved to a stack, and so is what is in theirs as they are taken off it. *)

NoItem == <<"none">>

(* The values in the elements of a container, in order.                    *)
values(value) ==
  IF value[1] = "array" THEN [i \in DOMAIN value[2] |-> heap[value[2][i]]]
  ELSE LET nodes == SetToSeq(Children(value)) IN [i \in DOMAIN nodes |-> heap[nodes[i]]]

(* What they were moved from is null.                                      *)
movedFrom(value) == [a \in DOMAIN heap |-> IF a \in Children(value) THEN Null ELSE heap[a]]

destroy ==
  /\ stack' = values(heap[ROOT])
  /\ heap' = movedFrom(heap[ROOT])
  /\ UNCHANGED <<fresh, ref_stack, object_element, current_item>>

(* A fault to seed: the elements of an object are left in it.              *)
elementsOfArray(value) == IF value[1] = "array" THEN value ELSE Null

elementsToMove(value) == value

(* One turn of the loop: the last value comes off the stack, and its       *)
(* elements go onto it ...                                                 *)
takeItem ==
  /\ current_item = NoItem /\ stack # <<>>
  /\ current_item' = stack[Len(stack)]
  /\ LET moved == elementsToMove(stack[Len(stack)])
     IN /\ stack' = SubSeq(stack, 1, Len(stack) - 1) \o values(moved)
        /\ heap' = movedFrom(moved)
  /\ UNCHANGED <<fresh, ref_stack, object_element>>

(* ... and the emptied value is destroyed.                                 *)
destroyItem ==
  /\ current_item # NoItem
  /\ heap' = Freeing(Children(current_item))
  /\ current_item' = NoItem
  /\ UNCHANGED <<fresh, ref_stack, object_element, stack>>

(* The container that was the root goes last.                              *)
destroyRoot ==
  /\ current_item = NoItem /\ stack = <<>>
  /\ heap' = [Freeing(Children(heap[ROOT])) EXCEPT ![ROOT] = Null]
  /\ UNCHANGED <<fresh, ref_stack, object_element, stack, current_item>>

(* The heap holds one value, in its first so many addresses.               *)
DomInit(cells) ==
  /\ heap = cells /\ fresh = Cardinality(DOMAIN cells)
  /\ ref_stack = <<>> /\ object_element = ROOT
  /\ stack = <<>> /\ current_item = NoItem
=============================================================================
