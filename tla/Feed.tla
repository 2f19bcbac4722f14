-------------------------------- MODULE Feed --------------------------------
(***************************************************************************)
(* The events of types.h that drive the book, and the switch with which    *)
(* both of its drivers, book_thread_fn in engine/main.cpp and apply in     *)
(* sim/sim.cpp, hand one to it.                                            *)
(***************************************************************************)
EXTENDS OrderBook

ADD(order)          == [type |-> "ADD", order |-> order]
AMEND(id, quantity) == [type |-> "AMEND", id |-> id, quantity |-> quantity]
CANCEL(id)          == [type |-> "CANCEL", id |-> id]

(* The call an event makes; an ADD then runs until the book is Idle.       *)
dispatch(e) ==
  \/ e.type = "ADD" /\ addOrder(e.order)
  \/ e.type = "AMEND" /\ modifyOrder(e.id, e.quantity)
  \/ e.type = "CANCEL" /\ cancelOrder(e.id)
=============================================================================
