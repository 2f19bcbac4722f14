--------------------------- MODULE PriceTimeBook ---------------------------
(***************************************************************************)
(* What the matching engine promises (engine/orderbook.h, and the comment  *)
(* "price-time priority" of engine/types.h): a set of resting orders, no   *)
(* levels, no queues and no index.  An incoming order trades against the   *)
(* resting orders of the other side one at a time, best price first and at *)
(* equal price the one that came first, always at the resting order's      *)
(* price; what is left of a limit order joins the set.  A cancel removes   *)
(* exactly the order it names, and an amend changes its quantity without   *)
(* giving up its place.                                                    *)
(*                                                                         *)
(* Clients mint their ids from a counter, so ids are arrival order.        *)
(***************************************************************************)
EXTENDS MarketTypes, Sequences

CONSTANT Submissions  (* the orders clients may submit, a subset of Order   *)

VARIABLES
  resting,   (* the orders on the book                                     *)
  taker,     (* the order being matched, NoOrder between calls             *)
  trades     (* the executions of the most recent call                     *)

vars == <<resting, taker, trades>>

-----------------------------------------------------------------------------
(* a trades before b: better price, or the same price and earlier.         *)
Before(a, b) ==
  \/ Better(a.side, a.price, b.price)
  \/ a.price = b.price /\ a.id < b.id

Contra == {o \in resting : o.side = Opposite(taker.side)}

(* The resting orders an incoming order may trade with at its limit.       *)
Reachable ==
  {o \in Contra : taker.type = "MARKET" \/ ~Better(o.side, taker.price, o.price)}

Smaller(a, b) == IF a < b THEN a ELSE b

-----------------------------------------------------------------------------
Init == resting = {} /\ taker = NoOrder /\ trades = <<>>

Submit(order) ==
  /\ taker = NoOrder
  /\ taker' = order
  /\ trades' = <<>>
  /\ UNCHANGED resting

(* The first order in priority trades as much as both sides have; it       *)
(* leaves the book when nothing of it is left.                             *)
Execute ==
  /\ taker # NoOrder /\ taker.quantity > 0
  /\ \E maker \in Reachable :
       /\ \A other \in Contra \ {maker} : Before(maker, other)
       /\ LET q == Smaller(taker.quantity, maker.quantity)
          IN /\ trades' = Append(trades,
                  [takerId |-> taker.id, makerId |-> maker.id, price |-> maker.price,
                   quantity |-> q, takerSide |-> taker.side])
             /\ taker' = [taker EXCEPT !.quantity = @ - q]
             /\ resting' = (resting \ {maker})
                  \cup (IF maker.quantity = q THEN {}
                        ELSE {[maker EXCEPT !.quantity = @ - q]})

(* Nothing is left to trade, or nobody to trade with.                      *)
Settle ==
  /\ taker # NoOrder
  /\ taker.quantity = 0 \/ Reachable = {}
  /\ taker' = NoOrder
  /\ resting' = IF taker.type = "LIMIT" /\ taker.quantity # 0
                THEN resting \cup {taker} ELSE resting
  /\ UNCHANGED trades

Cancel(id) ==
  /\ taker = NoOrder
  /\ resting' = {o \in resting : o.id # id}
  /\ trades' = <<>>
  /\ UNCHANGED taker

Amend(id, quantity) ==
  /\ taker = NoOrder
  /\ resting' = {IF o.id = id THEN [o EXCEPT !.quantity = quantity] ELSE o : o \in resting}
  /\ trades' = <<>>
  /\ UNCHANGED taker

Next ==
  \/ \E order \in Submissions : Submit(order)
  \/ Execute
  \/ Settle
  \/ \E id \in OrderID : Cancel(id)
  \/ \E id \in OrderID, quantity \in Quantity : Amend(id, quantity)

Spec == Init /\ [][Next]_vars
=============================================================================
