---------------------------- MODULE MCClientBook ----------------------------
(***************************************************************************)
(* ClientBook on a small instance.  Two orders of a level plus one that    *)
(* crosses them, or three of a level, are the shortest paths to everything *)
(* the specification can do; the ids bound the calls to addOrder.          *)
(***************************************************************************)
EXTENDS ClientBook

(* A market order's price is never looked at: one is enough.               *)
MCSubmissions ==
  {o \in [id : OrderID, price : Price, quantity : Quantity \ {0}, side : Side, type : OrderType] :
     o.type = "MARKET" => o.price = CHOOSE p \in Price : TRUE}
=============================================================================
