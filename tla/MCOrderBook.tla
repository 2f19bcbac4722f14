---------------------------- MODULE MCOrderBook ----------------------------
(***************************************************************************)
(* OrderBook with two prices, four order ids that clients may reuse, and  *)
(* quantities 0 to 2: every order of the match, cancel and amend paths.    *)
(***************************************************************************)
EXTENDS OrderBook, TLC

(* A market order's price is never looked at: one is enough.               *)
MCSubmissions ==
  {o \in [id : OrderID, price : Price, quantity : Quantity, side : Side, type : OrderType] :
     o.type = "MARKET" => o.price = CHOOSE p \in Price : TRUE}

(* The ids are only ever compared for equality.                            *)
IdSymmetry == Permutations(OrderID)
=============================================================================
