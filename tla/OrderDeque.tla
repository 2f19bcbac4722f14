----------------------------- MODULE OrderDeque -----------------------------
(***************************************************************************)
(* std::deque<Order> as the book uses it (a price level's queue), with the *)
(* behaviour of libstdc++, the library the CI build links.                 *)
(*                                                                         *)
(* Elements live in numbered slots and an iterator is a slot number        *)
(* together with the map -- the deque's table of nodes -- it was taken     *)
(* under.  What matters to the book, which keeps iterators across calls,   *)
(* is which of them survive an operation:                                  *)
(*   - push_back leaves every element in its slot, but when the slots of   *)
(*     the current map are used up it replaces the map, and iterators      *)
(*     taken under the old one can be read through but not erased at;      *)
(*   - erase shifts the elements on the shorter side of the position by    *)
(*     one slot, so iterators to those elements denote a neighbour.        *)
(* Slots outside begin .. end - 1 keep the last element stored in them.    *)
(***************************************************************************)
EXTENDS Integers, Sequences

CONSTANT
  Regrow  (* the slots whose first use makes push_back replace the map. With the
             32-byte Order of types.h a node holds 16 orders and a new map leaves
             room for 5 nodes, so the smallest one is 80                        *)

ASSUME RegrowAssumption == Regrow \subseteq Nat \ {0, 1}

(* The map of an iterator into a deque that has been destroyed.            *)
Freed == 0

EmptyDeque == [slots |-> <<>>, begin |-> 1, end |-> 1, map |-> 1]

Live(d)    == d.begin .. d.end - 1
IsEmpty(d) == d.begin = d.end
Size(d)    == d.end - d.begin
Front(d)   == d.slots[d.begin]

(* std::prev(d.end()), the iterator to the last element.                   *)
LastIterator(d) == [slot |-> d.end - 1, map |-> d.map]

PushBack(d, order) ==
  [slots |-> IF d.end <= Len(d.slots)
             THEN [d.slots EXCEPT ![d.end] = order]
             ELSE Append(d.slots, order),
   begin |-> d.begin,
   end   |-> d.end + 1,
   map   |-> IF d.end > Len(d.slots) /\ d.end \in Regrow THEN d.map + 1 ELSE d.map]

(* erase at slot pos.  The library compares the position's index with half *)
(* the size, the index as an unsigned number, so a position before begin   *)
(* takes the second branch, and one at or after end moves nothing and      *)
(* pops the last element.                                                  *)
Erase(d, pos) ==
  IF d.begin <= pos /\ pos - d.begin < Size(d) \div 2
  THEN [d EXCEPT !.slots = [i \in DOMAIN d.slots |->
                              IF d.begin < i /\ i <= pos THEN d.slots[i - 1] ELSE d.slots[i]],
                 !.begin = @ + 1]
  ELSE [d EXCEPT !.slots = [i \in DOMAIN d.slots |->
                              IF i >= pos /\ i + 1 < d.end THEN d.slots[i + 1] ELSE d.slots[i]],
                 !.end   = @ - 1]

(* Assigning to the quantity of the order in slot pos.                     *)
Resize(d, pos, quantity) == [d EXCEPT !.slots[pos].quantity = quantity]

(* The slots that reading through an iterator may reach: memory of a       *)
(* destroyed deque may since hold any element of the deque that replaced   *)
(* it.  That it holds one of another deque, or none, is left out: a bound. *)
ReadThrough(d, it) == IF it.map = Freed THEN DOMAIN d.slots ELSE {it.slot}

(* The slots that erasing at an iterator may remove: computing the index   *)
(* of an iterator of another map reads a table that is gone.               *)
EraseAt(d, it) == IF it.map = d.map THEN {it.slot} ELSE DOMAIN d.slots
=============================================================================
