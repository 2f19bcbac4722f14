---------------------------- MODULE MarketTypes ----------------------------
(***************************************************************************)
(* The value types of engine/types.h that every other module is written    *)
(* in.  A price is an integer number of ticks and a quantity an integer    *)
(* number of shares: the code stores both in a double, but the TCP wire     *)
(* and the flow generator only ever hand it whole quantities, on which the *)
(* additions and subtractions of the book are exact.                       *)
(***************************************************************************)
EXTENDS Integers

CONSTANTS
  Price,     (* the prices callers quote                                   *)
  Quantity,  (* the quantities callers submit, and amend an order to       *)
  OrderID,   (* the order identities callers use                           *)
  NoOrder    (* no call to addOrder is in progress                         *)

-----------------------------------------------------------------------------
Side      == {"BUY", "SELL"}
OrderType == {"MARKET", "LIMIT"}

(* A resting or incoming order; matching brings its quantity down to 0.    *)
Order == [id       : OrderID,
          price    : Price,
          quantity : Nat,
          side     : Side,
          type     : OrderType]

(* One execution of an incoming order (taker) against a resting one.       *)
Trade == [takerId   : OrderID,
          makerId   : OrderID,
          price     : Price,
          quantity  : Nat,
          takerSide : Side]

(* getBBO reports an absent side as price -1 and quantity -1.              *)
Absent == -1

Opposite(side) == IF side = "BUY" THEN "SELL" ELSE "BUY"

(* p comes before q on this side of the book: std::greater orders the      *)
(* bids, std::less the asks.                                               *)
Better(side, p, q) == IF side = "BUY" THEN p > q ELSE p < q

(* The quantities of Quantity are those callers mean; those a frame can    *)
(* carry are the integers (Wire).                                          *)
ASSUME TypesAssumption ==
  /\ Price \subseteq Int
  /\ Quantity \subseteq Nat
  /\ NoOrder \notin Order
=============================================================================
