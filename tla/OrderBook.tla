----------------------------- MODULE OrderBook -----------------------------
(***************************************************************************)
(* The matching engine (engine/orderbook.h, engine/orderbook.cpp): class   *)
(* OrderBook, called by any client.                                        *)
(*                                                                         *)
(* cancelOrder and modifyOrder are one action each.  addOrder runs a loop, *)
(* and the loop is modelled by its iterations: the action addOrder enters  *)
(* the call (incoming holds its argument), fillResting and fillIncoming    *)
(* are the two branches of the loop body in traversePriceLevel, and        *)
(* restRemainder leaves the loop, prunes the consumed levels and rests     *)
(* what is left.  No other call starts while one is in progress: every     *)
(* client owns its book and calls it from one thread.                      *)
(***************************************************************************)
EXTENDS MarketTypes, OrderDeque, FiniteSets

CONSTANTS
  Submissions,  (* the orders clients may submit, a subset of Order         *)
  MaxSlots      (* bound: the slots in use over the whole book              *)

ASSUME SubmissionsAssumption == Submissions \subseteq {o \in Order : o.quantity \in Quantity}

VARIABLES
  book,        (* bids and asks: for each side, its price levels           *)
  orderMap,    (* order id -> price, side and position of the order        *)
  lastTrades,  (* lastTrades_, the executions of the most recent call      *)
  incoming     (* the order addOrder is matching, NoOrder between calls    *)

bookVars == <<book, orderMap, lastTrades, incoming>>

-----------------------------------------------------------------------------
(* Levels, and maps keyed by price or by order id.                         *)

EmptyLevel == [orders |-> EmptyDeque, quantity |-> 0]

Without(f, keys) == [k \in DOMAIN f \ keys |-> f[k]]
With(f, key, v)  == [k \in DOMAIN f \cup {key} |-> IF k = key THEN v ELSE f[k]]

Idle == incoming = NoOrder

(* The book side an incoming order trades against.                         *)
Contra == Opposite(incoming.side)

(* asks[price] / bids[price]: a missing level is created empty.            *)
LevelAt(side, price) == IF price \in DOMAIN book[side] THEN book[side][price] ELSE EmptyLevel

(* A fault to seed: the side is walked from its worst price.               *)
WorstLive(side, price) ==
  /\ price \in DOMAIN book[side]
  /\ ~IsEmpty(book[side][price].orders)
  /\ \A p \in DOMAIN book[side] :
       ~IsEmpty(book[side][p].orders) => ~Better(side, price, p)

(* The level the loops of match stand at: they walk the side from its best *)
(* price and move on when a level's queue has been emptied.                *)
BestLive(side, price) ==
  /\ price \in DOMAIN book[side]
  /\ ~IsEmpty(book[side][price].orders)
  /\ \A p \in DOMAIN book[side] :
       ~IsEmpty(book[side][p].orders) => ~Better(side, p, price)

(* A fault to seed: the price test of the loops is strict.                 *)
MarketableStrict(order, price) ==
  order.type = "MARKET" \/ Better(Opposite(order.side), price, order.price)

(* The price condition of match: a limit order takes no worse price than   *)
(* its own; for a market order the price does not matter.                  *)
Marketable(order, price) ==
  \/ order.type = "MARKET"
  \/ ~Better(Opposite(order.side), order.price, price)

(* When a level is destroyed, whatever still refers into its queue dangles. *)
Dangle(refs, side, prices) ==
  [id \in DOMAIN refs |->
     IF refs[id].side = side /\ refs[id].price \in prices
     THEN [refs[id] EXCEPT !.iterator.map = Freed] ELSE refs[id]]

-----------------------------------------------------------------------------
Init ==
  /\ book = [side \in Side |-> <<>>]
  /\ orderMap = <<>>
  /\ lastTrades = <<>>
  /\ incoming = NoOrder

(* addOrder(order): the call is entered and lastTrades_ cleared.           *)
addOrder(order) ==
  /\ Idle
  /\ lastTrades' = <<>>
  /\ incoming' = order
  /\ UNCHANGED <<book, orderMap>>

(* Faults to seed: the trade prints at the taker's price, or for all that  *)
(* the resting order had.                                                  *)
FillAtTakerPrice(maker, quantity) ==
  [takerId |-> incoming.id, makerId |-> maker.id, price |-> incoming.price,
   quantity |-> quantity, takerSide |-> incoming.side]

FillWholeMaker(maker, quantity) ==
  [takerId |-> incoming.id, makerId |-> maker.id, price |-> maker.price,
   quantity |-> maker.quantity, takerSide |-> incoming.side]

(* An execution prints at the resting order's price.                       *)
Fill(maker, quantity) ==
  [takerId |-> incoming.id, makerId |-> maker.id, price |-> maker.price,
   quantity |-> quantity, takerSide |-> incoming.side]

(* Faults to seed in the branch that consumes a resting order: it forgets  *)
(* the order's entry in orderMap, or its share of the level's total.       *)
ForgetNothing(id) == orderMap
ConsumeKeepingTotal(level) ==
  [orders |-> Erase(level.orders, level.orders.begin), quantity |-> level.quantity]

(* orderMap.erase(curr->id).                                               *)
Forget(id) == Without(orderMap, {id})

(* The level once its front order has traded in full and left the queue.   *)
Consume(level) ==
  [orders   |-> Erase(level.orders, level.orders.begin),
   quantity |-> level.quantity - Front(level.orders).quantity]

(* The level once its front order has traded q of its quantity.            *)
Reduce(level, q) ==
  [orders   |-> Resize(level.orders, level.orders.begin, Front(level.orders).quantity - q),
   quantity |-> level.quantity - q]

(* traversePriceLevel, else branch: the resting order at the front of the  *)
(* best level is no larger than the incoming one; it trades in full at its *)
(* own price and leaves the queue and orderMap.                            *)
fillResting(price) ==
  /\ ~Idle /\ incoming.quantity > 0
  /\ BestLive(Contra, price) /\ Marketable(incoming, price)
  /\ LET curr == Front(book[Contra][price].orders)
     IN /\ curr.quantity <= incoming.quantity
        /\ lastTrades' = Append(lastTrades, Fill(curr, curr.quantity))
        /\ incoming' = [incoming EXCEPT !.quantity = @ - curr.quantity]
        /\ orderMap' = Forget(curr.id)
        /\ book' = [book EXCEPT ![Contra][price] = Consume(@)]

(* A fault to seed: the branch is taken for any resting order.             *)
fillIncomingUnchecked(price) ==
  /\ ~Idle /\ incoming.quantity > 0
  /\ BestLive(Contra, price) /\ Marketable(incoming, price)
  /\ LET curr == Front(book[Contra][price].orders)
     IN /\ lastTrades' = Append(lastTrades, Fill(curr, incoming.quantity))
        /\ incoming' = [incoming EXCEPT !.quantity = 0]
        /\ book' = [book EXCEPT ![Contra][price] = Reduce(@, incoming.quantity)]
        /\ UNCHANGED orderMap

(* traversePriceLevel, first branch: the resting order is larger than what *)
(* is left of the incoming one, and absorbs it.                            *)
fillIncoming(price) ==
  /\ ~Idle /\ incoming.quantity > 0
  /\ BestLive(Contra, price) /\ Marketable(incoming, price)
  /\ LET curr == Front(book[Contra][price].orders)
     IN /\ curr.quantity > incoming.quantity
        /\ lastTrades' = Append(lastTrades, Fill(curr, incoming.quantity))
        /\ incoming' = [incoming EXCEPT !.quantity = 0]
        /\ book' = [book EXCEPT ![Contra][price] = Reduce(@, incoming.quantity)]
        /\ UNCHANGED orderMap

(* A fault to seed: nothing is pruned.                                     *)
Unpruned(side) == {}

(* pruneEmptyFront: the levels that are empty together with every level    *)
(* before them.                                                            *)
EmptyFront(side) ==
  {p \in DOMAIN book[side] :
     \A q \in DOMAIN book[side] :
       q = p \/ Better(side, q, p) => IsEmpty(book[side][q].orders)}

(* A fault to seed: an exhausted order does not end the loops.             *)
OnlyPriceStops ==
  \A p \in DOMAIN book[Contra] :
    ~IsEmpty(book[Contra][p].orders) => ~Marketable(incoming, p)

(* The loops of match stop when the incoming order is exhausted or the     *)
(* next level with an order in it is not marketable.                       *)
MatchingOver ==
  \/ incoming.quantity <= 0
  \/ \A p \in DOMAIN book[Contra] :
       ~IsEmpty(book[Contra][p].orders) => ~Marketable(incoming, p)

(* The rest of addOrder after the loops: the emptied levels at the front   *)
(* of the other side are dropped, a limit order with quantity left joins   *)
(* the back of its level and is indexed, and the call returns.             *)
restRemainder ==
  LET gone  == EmptyFront(Contra)
      kept  == Without(book[Contra], gone)
      refs  == Dangle(orderMap, Contra, gone)
      level == LevelAt(incoming.side, incoming.price)
      queue == PushBack(level.orders, incoming)
      rests == incoming.type = "LIMIT" /\ incoming.quantity # 0
  IN /\ ~Idle
     /\ MatchingOver
     /\ incoming' = NoOrder
     /\ UNCHANGED lastTrades
     /\ IF rests
        THEN /\ book' = [book EXCEPT
                  ![Contra] = kept,
                  ![incoming.side] = With(@, incoming.price,
                     [orders |-> queue, quantity |-> level.quantity + incoming.quantity])]
             /\ orderMap' = With(refs, incoming.id,
                  [price |-> incoming.price, side |-> incoming.side,
                   iterator |-> LastIterator(queue)])
        ELSE /\ book' = [book EXCEPT ![Contra] = kept]
             /\ orderMap' = refs

-----------------------------------------------------------------------------
(* A level that lost an order to a cancel is dropped when that emptied it. *)
StoreOrDrop(side, price, level) ==
  IF IsEmpty(level.orders)
  THEN [book EXCEPT ![side] = Without(@, {price})]
  ELSE [book EXCEPT ![side][price] = level]

(* cancelOrder(id): an unknown id, or one whose level is gone, changes     *)
(* nothing.  Otherwise the order the stored iterator denotes is taken off  *)
(* the level's total and erased, and id's entry in orderMap is removed.    *)
cancelOrder(id) ==
  /\ Idle
  /\ lastTrades' = <<>>
  /\ UNCHANGED incoming
  /\ IF id \in DOMAIN orderMap /\ orderMap[id].price \in DOMAIN book[orderMap[id].side]
     THEN LET ref   == orderMap[id]
              level == book[ref.side][ref.price]
          IN \E read \in ReadThrough(level.orders, ref.iterator),
                erased \in EraseAt(level.orders, ref.iterator) :
               LET left == [orders   |-> Erase(level.orders, erased),
                            quantity |-> level.quantity - level.orders.slots[read].quantity]
               IN /\ book' = StoreOrDrop(ref.side, ref.price, left)
                  /\ orderMap' = Without(IF IsEmpty(left.orders)
                                         THEN Dangle(orderMap, ref.side, {ref.price})
                                         ELSE orderMap, {id})
     ELSE UNCHANGED <<book, orderMap>>

(* modifyOrder(id, newQuantity): the order keeps its place in the queue;   *)
(* its level's total moves by the difference.  The code takes the side     *)
(* from the order the iterator denotes (orderbook.cpp:94); every order a   *)
(* level has held was rested on the level's side, so that is ref.side for  *)
(* every slot of the level.  What an iterator into a destroyed level may   *)
(* denote is bounded to the slots of the level now at its price; with no   *)
(* level there, the amend fails.                                           *)
modifyOrder(id, newQuantity) ==
  /\ Idle
  /\ lastTrades' = <<>>
  /\ UNCHANGED <<incoming, orderMap>>
  /\ IF id \in DOMAIN orderMap /\ orderMap[id].price \in DOMAIN book[orderMap[id].side]
     THEN LET ref   == orderMap[id]
              level == book[ref.side][ref.price]
          IN \E at \in ReadThrough(level.orders, ref.iterator) :
               book' = [book EXCEPT ![ref.side][ref.price] =
                 [orders   |-> Resize(level.orders, at, newQuantity),
                  quantity |-> level.quantity
                               + (newQuantity - level.orders.slots[at].quantity)]]
     ELSE UNCHANGED book

-----------------------------------------------------------------------------
(* The const queries.                                                      *)

orderExists(id) == id \in DOMAIN orderMap

BestPrice(side) ==
  CHOOSE p \in DOMAIN book[side] : \A q \in DOMAIN book[side] : ~Better(side, q, p)

(* getBBO, one side of it: the first level of the map, or the sentinel.    *)
Quote(side) ==
  IF DOMAIN book[side] = {} THEN [price |-> Absent, quantity |-> Absent]
  ELSE [price |-> BestPrice(side), quantity |-> book[side][BestPrice(side)].quantity]

-----------------------------------------------------------------------------
(* Any client: orders with any identity, also one in use, and cancels and  *)
(* amends of any identity, also one never submitted.                       *)

SlotsInUse ==
  UNION {{<<side, p, i>> : i \in DOMAIN LevelAt(side, p).orders.slots} :
           side \in Side, p \in Price}

(* Bound of the model: when MaxSlots slots exist clients submit only        *)
(* orders that never rest.                                                 *)
Room(order) == order.type = "MARKET" \/ Cardinality(SlotsInUse) < MaxSlots

Match == (\E price \in Price : fillResting(price) \/ fillIncoming(price)) \/ restRemainder

Next ==
  \/ \E order \in Submissions : Room(order) /\ addOrder(order)
  \/ Match
  \/ \E id \in OrderID : cancelOrder(id)
  \/ \E id \in OrderID, newQuantity \in Quantity : modifyOrder(id, newQuantity)

Spec == Init /\ [][Next]_bookVars

-----------------------------------------------------------------------------
(* Types.                                                                  *)

Iterator == [slot : Nat, map : Nat]
OrderRef == [price : Price, side : Side, iterator : Iterator]
Deque    == [slots : Seq(Order), begin : Nat, end : Nat, map : Nat]
Level    == [orders : Deque, quantity : Int]

WellFormed(d) == /\ d.map # Freed
                 /\ 1 <= d.begin /\ d.begin <= d.end /\ d.end <= Len(d.slots) + 1

(* Levels are keyed by price, and the live range of every queue lies       *)
(* within the slots it has used.                                           *)
BookTyped ==
  /\ DOMAIN book = Side
  /\ \A side \in Side :
       /\ DOMAIN book[side] \subseteq Price
       /\ \A p \in DOMAIN book[side] :
            book[side][p] \in Level /\ WellFormed(book[side][p].orders)

(* A stored iterator is a slot its level has used, or its level is gone.   *)
IndexTyped ==
  /\ DOMAIN orderMap \subseteq OrderID
  /\ \A id \in DOMAIN orderMap :
       LET ref == orderMap[id]
       IN /\ ref \in OrderRef
          /\ ref.iterator.map # Freed =>
               /\ ref.price \in DOMAIN book[ref.side]
               /\ ref.iterator.slot \in DOMAIN book[ref.side][ref.price].orders.slots

(* The values of the variables.  Quantities of orders never go negative:   *)
(* an execution is never larger than either side of it.                    *)
TypeOK ==
  /\ BookTyped
  /\ IndexTyped
  /\ lastTrades \in Seq(Trade)
  /\ incoming \in Order \cup {NoOrder}

(* No bid rests at or above an ask, whatever sequence of adds, cancels and *)
(* amends clients issue, and even after a cancel that hit the wrong order: *)
(* a limit order is rested only once everything it crosses has traded.     *)
Uncrossed ==
  \A bid \in DOMAIN book["BUY"], ask \in DOMAIN book["SELL"] : bid < ask

(* The executions of one call walk away from the best price, and none is   *)
(* worse than the incoming order's limit, though the prices are those the  *)
(* resting orders carry and not the key of the level they are queued in.   *)
TradesInPriceOrder ==
  \A i \in DOMAIN lastTrades :
    /\ \A j \in i .. Len(lastTrades) :
         ~Better(Opposite(lastTrades[i].takerSide), lastTrades[j].price, lastTrades[i].price)
    /\ ~Idle => Marketable(incoming, lastTrades[i].price)

(* A level without orders exists only while an order is being matched, on  *)
(* the side it trades against and before every level that has one.  So     *)
(* pruneEmptyFront leaves none behind, and between calls the first level   *)
(* of a side, which getBBO reports, is never an empty husk                 *)
(* (orderbook.h:49).                                                      *)
HusksAtFront ==
  \A side \in Side : \A p \in DOMAIN book[side] :
    IsEmpty(book[side][p].orders) =>
      /\ ~Idle /\ side = Contra
      /\ \A q \in DOMAIN book[side] :
           Better(side, q, p) => IsEmpty(book[side][q].orders)

(* An entry of orderMap leads to the order of that id through an iterator  *)
(* that is still valid.                                                    *)
EntryExact(id) ==
  LET ref == orderMap[id]
  IN /\ ref.price \in DOMAIN book[ref.side]
     /\ ref.iterator.map = book[ref.side][ref.price].orders.map
     /\ ref.iterator.slot \in Live(book[ref.side][ref.price].orders)
     /\ book[ref.side][ref.price].orders.slots[ref.iterator.slot].id = id

(* The order in slot i of a level is the one its id's entry leads to.      *)
Indexed(side, p, i) ==
  LET id == book[side][p].orders.slots[i].id
  IN /\ id \in DOMAIN orderMap
     /\ orderMap[id].side = side /\ orderMap[id].price = p
     /\ orderMap[id].iterator.slot = i

(* What cancelOrder, modifyOrder and getOrder rely on (orderbook.h:32):   *)
(* every entry of orderMap leads to its order and every resting order has  *)
(* an entry.                                                               *)
IndexExact ==
  /\ \A id \in DOMAIN orderMap : EntryExact(id)
  /\ \A side \in Side : \A p \in DOMAIN book[side] :
       \A i \in Live(book[side][p].orders) : Indexed(side, p, i)

(* The calls under which the stored iterators survive.                     *)

(* Pushing onto the order's own level keeps the level's map; the level     *)
(* does not change while the order matches against the other side.         *)
KeepsMap(order) ==
  order.price \in DOMAIN book[order.side] =>
    book[order.side][order.price].orders.end \notin Regrow

(* id is on the book at an end of its level, or not on the book.           *)
AtAnEnd(id) ==
  \A side \in Side : \A p \in DOMAIN book[side] :
    LET queue == book[side][p].orders
    IN \A i \in Live(queue) :
         queue.slots[i].id = id => i = queue.begin \/ i = queue.end - 1
=============================================================================
