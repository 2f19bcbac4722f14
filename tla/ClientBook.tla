----------------------------- MODULE ClientBook -----------------------------
(***************************************************************************)
(* The book under the clients this repository has.  Every one of them      *)
(* mints order ids from a counter (nextId++ in sim.cpp and in              *)
(* market_maker.h's contract, ascending ids in sample_tcp.py), so no id is *)
(* ever submitted twice.                                                   *)
(*                                                                         *)
(* MintingSpec lets such a client cancel and amend what it likes.          *)
(* CarefulSpec adds the two conditions under which the book's stored       *)
(* iterators stay valid: cancels name an order at an end of its level, or  *)
(* one that is gone, and no level outlives the slots of its first map.     *)
(* Nothing in the repository states these conditions; the difference       *)
(* between the two specifications is what a client must know about the     *)
(* book's implementation to use it safely.                                 *)
(***************************************************************************)
EXTENDS OrderBook, FiniteSetsExt

VARIABLE nextId  (* the next id a client submits                            *)

vars == <<bookVars, nextId>>

ASSUME MintingAssumption == OrderID \subseteq Nat

-----------------------------------------------------------------------------
MintingInit == Init /\ nextId = 1

submit(order) ==
  /\ order.id = nextId
  /\ addOrder(order)
  /\ nextId' = nextId + 1

MintingNext ==
  \/ \E order \in Submissions : Room(order) /\ submit(order)
  \/ Match /\ UNCHANGED nextId
  \/ \E id \in OrderID : cancelOrder(id) /\ UNCHANGED nextId
  \/ \E id \in OrderID, newQuantity \in Quantity :
       modifyOrder(id, newQuantity) /\ UNCHANGED nextId

CarefulNext ==
  \/ \E order \in Submissions : Room(order) /\ KeepsMap(order) /\ submit(order)
  \/ Match /\ UNCHANGED nextId
  \/ \E id \in OrderID : AtAnEnd(id) /\ cancelOrder(id) /\ UNCHANGED nextId
  \/ \E id \in OrderID, newQuantity \in Quantity :
       modifyOrder(id, newQuantity) /\ UNCHANGED nextId

MintingSpec == MintingInit /\ [][MintingNext]_vars

(* A call to addOrder that was entered runs: the engine is single-threaded *)
(* and its loop has no wait in it.                                         *)
CarefulSpec == MintingInit /\ [][CarefulNext]_vars /\ WF_vars(Match /\ UNCHANGED nextId)

-----------------------------------------------------------------------------
OrdersOn(side) ==
  UNION {{book[side][p].orders.slots[i] : i \in Live(book[side][p].orders)} :
           p \in DOMAIN book[side]}

(* getBBO agrees with the orders on the book: the price is the best price  *)
(* of a resting order and the quantity is the sum over the orders at that  *)
(* price, though the code caches both, in the map's order and in the       *)
(* level's running total, and updates the total in four places.            *)
TopOfBookExact ==
  Idle => \A side \in Side :
    LET orders == OrdersOn(side)
        quote  == Quote(side)
        top    == {o \in orders : o.price = quote.price}
    IN IF orders = {} THEN quote = [price |-> Absent, quantity |-> Absent]
       ELSE /\ top # {}
            /\ \A o \in orders : ~Better(side, o.price, quote.price)
            /\ quote.quantity = MapThenSumSet(LAMBDA o : o.quantity, top)

(* For a careful client the book of levels, queues and stored iterators is *)
(* the price-time book: same trades in the same order, same resting        *)
(* orders, and a cancel or amend reaches exactly the order it names.       *)
Promise == INSTANCE PriceTimeBook WITH
  resting <- OrdersOn("BUY") \cup OrdersOn("SELL"),
  taker   <- incoming,
  trades  <- lastTrades

PriceTime == Promise!Spec

(* Every call to addOrder returns, also when amends have left orders of    *)
(* quantity 0 on the book, each of which trades for nothing on the way.    *)
AddReturns == ~Idle ~> Idle
=============================================================================
