-------------------------- MODULE ClientBookProofs --------------------------
(***************************************************************************)
(* The careful client of ClientBook: the book's index stays exact, and the *)
(* book of levels, queues and stored iterators implements the price-time   *)
(* book, step by step.  That argument looks at the book through its index, *)
(* one order for each entry.                                               *)
(***************************************************************************)
EXTENDS ClientBook, OrderBookProofs

-----------------------------------------------------------------------------
(* The invariant of the careful client.  Beside the engine's own it says   *)
(* why the order being matched can be rested: its id is new, and nothing   *)
(* that happens while it is matched touches the level it will join.        *)
Minted == nextId \in Nat /\ \A id \in DOMAIN orderMap : id < nextId

CanRest ==
  ~Idle => /\ incoming.id < nextId /\ incoming.id \notin DOMAIN orderMap
           /\ KeepsMap(incoming)

CInv == IInv /\ IndexExact /\ Minted /\ CanRest

(* The loop touches only the side the order trades against.                *)
LEMMA MatchCanRest ==
  ASSUME TypeOK, Minted, CanRest, ~Idle, UNCHANGED nextId,
         DOMAIN orderMap' \subseteq DOMAIN orderMap,
         book'[incoming.side] = book[incoming.side],
         incoming'.id = incoming.id, incoming'.side = incoming.side,
         incoming'.price = incoming.price
  PROVE  Minted' /\ CanRest'
BY DEF Minted, CanRest, KeepsMap

(* The empty book satisfies the invariant.                                 *)
THEOREM CarefulInitially == MintingInit => CInv
<1> SUFFICES ASSUME MintingInit PROVE CInv
  OBVIOUS
<1>1. /\ DOMAIN orderMap = {} /\ \A side \in Side : DOMAIN book[side] = {}
      /\ Idle /\ nextId = 1
  BY DEF MintingInit, Init, Idle
<1>2. IndexExact /\ Minted /\ CanRest
  BY <1>1 DEF IndexExact, Minted, CanRest
<1> QED
  BY <1>2, Initially DEF MintingInit, CInv

(* Every step of the careful client preserves it.                          *)
THEOREM CarefulInductive == CInv /\ [CarefulNext]_vars => CInv'
<1> SUFFICES ASSUME CInv, [CarefulNext]_vars PROVE CInv'
  OBVIOUS
<1>1. TypeOK /\ HusksAtFront /\ IndexExact /\ Minted /\ CanRest
  BY DEF CInv, IInv
<1>2. [Next]_bookVars
  BY DEF CarefulNext, Next, vars, bookVars, submit
<1>3. IInv'
  BY <1>2, Inductive DEF CInv
<1>4. ASSUME NEW order \in Submissions, KeepsMap(order), submit(order)
      PROVE  IndexExact' /\ Minted' /\ CanRest'
  <2>1. /\ incoming' = order /\ order.id = nextId /\ nextId' = nextId + 1
        /\ UNCHANGED <<book, orderMap>>
    BY <1>4 DEF submit, addOrder
  <2>2. Minted'
    <3>1. DOMAIN orderMap \subseteq Nat /\ nextId \in Nat
      BY <1>1, MintingAssumption DEF TypeOK, IndexTyped, Minted
    <3>2. \A id \in DOMAIN orderMap : id < nextId + 1
      BY <1>1, <3>1 DEF Minted
    <3> QED
      BY <2>1, <3>1, <3>2 DEF Minted
  <2>3. CanRest'
    BY <1>1, <1>4, <2>1 DEF CanRest, Minted, KeepsMap
  <2>4. IndexExact'
    BY <1>1, <2>1, ExactUnchanged
  <2> QED
    BY <2>2, <2>3, <2>4
<1>5. ASSUME NEW price \in Price, fillResting(price), UNCHANGED nextId
      PROVE  IndexExact' /\ Minted' /\ CanRest'
  <2>1. /\ incoming'.id = incoming.id /\ incoming'.side = incoming.side
        /\ incoming'.price = incoming.price /\ ~Idle
    BY <1>1, <1>5, IncomingTyped DEF fillResting, Order
  <2> QED
    BY <1>1, <1>5, <2>1, FillRestingExact, MatchCanRest
<1>6. ASSUME NEW price \in Price, fillIncoming(price), UNCHANGED nextId
      PROVE  IndexExact' /\ Minted' /\ CanRest'
  <2>1. /\ incoming'.id = incoming.id /\ incoming'.side = incoming.side
        /\ incoming'.price = incoming.price /\ ~Idle
    BY <1>1, <1>6, IncomingTyped DEF fillIncoming, Order
  <2> QED
    BY <1>1, <1>6, <2>1, FillIncomingExact, MatchCanRest
<1>7. ASSUME restRemainder, UNCHANGED nextId
      PROVE  IndexExact' /\ Minted' /\ CanRest'
  <2>1. ~Idle /\ Idle'
    BY <1>7 DEF restRemainder, Idle
  <2>2. IndexExact' /\ DOMAIN orderMap' \subseteq DOMAIN orderMap \cup {incoming.id}
    BY <1>1, <1>7, <2>1, RestRemainderExact DEF CanRest
  <2>3. Minted'
    BY <1>1, <1>7, <2>1, <2>2 DEF Minted, CanRest
  <2> QED
    BY <2>1, <2>2, <2>3 DEF CanRest
<1>8. ASSUME NEW id \in OrderID, AtAnEnd(id), cancelOrder(id), UNCHANGED nextId
      PROVE  IndexExact' /\ Minted' /\ CanRest'
  <2>1. Idle'
    BY <1>8 DEF cancelOrder, Idle
  <2> QED
    BY <1>1, <1>8, <2>1, CancelOrderExact DEF Minted, CanRest
<1>9. ASSUME NEW id \in OrderID, NEW newQuantity \in Quantity,
             modifyOrder(id, newQuantity), UNCHANGED nextId
      PROVE  IndexExact' /\ Minted' /\ CanRest'
  <2>1. Idle'
    BY <1>9 DEF modifyOrder, Idle
  <2> QED
    BY <1>1, <1>9, <2>1, ModifyOrderExact DEF Minted, CanRest
<1>10. ASSUME UNCHANGED vars
       PROVE  IndexExact' /\ Minted' /\ CanRest'
  <2>1. Minted' /\ CanRest'
    BY <1>1, <1>10 DEF vars, bookVars, Minted, CanRest, KeepsMap, Idle
  <2>2. IndexExact'
    BY <1>1, <1>10, ExactUnchanged DEF vars, bookVars
  <2> QED
    BY <2>1, <2>2
<1>11. ASSUME Match, UNCHANGED nextId
       PROVE  IndexExact' /\ Minted' /\ CanRest'
  BY <1>5, <1>6, <1>7, <1>11 DEF Match
<1>12. IndexExact' /\ Minted' /\ CanRest'
  BY <1>4, <1>8, <1>9, <1>10, <1>11 DEF CarefulNext
<1> QED
  BY <1>3, <1>12 DEF CInv

(* For a client that mints its ids, cancels only orders at an end of their *)
(* level and lets no level outgrow the slots of its first map, every entry *)
(* of orderMap leads to its order and every resting order has an entry: a  *)
(* cancel or an amend reaches the order it names.                          *)
THEOREM IndexStaysExact == CarefulSpec => []IndexExact
<1>1. MintingInit => CInv
  BY CarefulInitially
<1>2. CInv /\ [CarefulNext]_vars => CInv'
  BY CarefulInductive
<1>3. CInv => IndexExact
  BY DEF CInv
<1> QED
  BY <1>1, <1>2, <1>3, PTL DEF CarefulSpec

-----------------------------------------------------------------------------
(* The order an entry of the index leads to.                               *)
OrderAt(b, refs, id) == b[refs[id].side][refs[id].price].orders.slots[refs[id].iterator.slot]

ById(b, refs) == {OrderAt(b, refs, id) : id \in DOMAIN refs}

(* The orders on the book, as PriceTime sees them.                         *)
Resting == OrdersOn("BUY") \cup OrdersOn("SELL")

(* An entry says of its order what the order says of itself.               *)
Truthful ==
  \A id \in DOMAIN orderMap :
    /\ OrderAt(book, orderMap, id).side = orderMap[id].side
    /\ OrderAt(book, orderMap, id).price = orderMap[id].price

(* Orders of one level stand in the order their ids were minted in.        *)
FirstComeFirst ==
  \A a, b \in DOMAIN orderMap :
    orderMap[a].side = orderMap[b].side /\ orderMap[a].price = orderMap[b].price /\ a < b =>
      orderMap[a].iterator.slot < orderMap[b].iterator.slot

(* The order being matched came after every order on the book.             *)
Newest == ~Idle => \A id \in DOMAIN orderMap : id < incoming.id

Arrivals == Truthful /\ FirstComeFirst /\ Newest

(* The invariant of the refinement.                                        *)
RInv == CInv /\ Arrivals

-----------------------------------------------------------------------------
(* The book by id.                                                         *)

(* The orders on the book are those its index leads to.                    *)
THEOREM RestingById == TypeOK /\ IndexExact => Resting = ById(book, orderMap)
<1> SUFFICES ASSUME TypeOK, IndexExact PROVE Resting = ById(book, orderMap)
  OBVIOUS
<1>1. ASSUME NEW o \in Resting
      PROVE  o \in ById(book, orderMap)
  <2>1. PICK side \in Side : o \in OrdersOn(side)
    BY DEF Resting, Side
  <2>2. PICK p \in DOMAIN book[side] :
          \E i \in Live(book[side][p].orders) : o = book[side][p].orders.slots[i]
    BY <2>1 DEF OrdersOn
  <2>3. PICK i \in Live(book[side][p].orders) : o = book[side][p].orders.slots[i]
    BY <2>2
  <2>4. Indexed(side, p, i)
    BY DEF IndexExact
  <2> QED
    BY <2>3, <2>4 DEF Indexed, ById, OrderAt
<1>2. ASSUME NEW id \in DOMAIN orderMap
      PROVE  OrderAt(book, orderMap, id) \in Resting
  <2> DEFINE side == orderMap[id].side
             p    == orderMap[id].price
             i    == orderMap[id].iterator.slot
  <2>1. side \in Side /\ p \in DOMAIN book[side] /\ i \in Live(book[side][p].orders)
    BY EntryLeads
  <2>2. OrderAt(book, orderMap, id) = book[side][p].orders.slots[i]
    BY DEF OrderAt
  <2> HIDE DEF side, p, i
  <2>3. book[side][p].orders.slots[i] \in OrdersOn(side)
    BY <2>1 DEF OrdersOn
  <2> QED
    BY <2>1, <2>2, <2>3 DEF Resting, Side
<1> QED
  BY <1>1, <1>2 DEF ById

(* And after a step.                                                       *)
THEOREM RestingByIdNext == TypeOK' /\ IndexExact' => Resting' = ById(book', orderMap')
<1>1. (TypeOK /\ IndexExact => Resting = ById(book, orderMap))'
  BY RestingById, PTL
<1> QED
  BY <1>1

(* The order of an entry has its id and its type.                          *)
LEMMA OrderAtTyped ==
  ASSUME TypeOK, IndexExact, NEW id \in DOMAIN orderMap
  PROVE  OrderAt(book, orderMap, id) \in Order /\ OrderAt(book, orderMap, id).id = id
<1> DEFINE ref == orderMap[id]
           d   == book[ref.side][ref.price].orders
<1>1. d \in Deque /\ ref.iterator.slot \in DOMAIN d.slots /\ d.slots[ref.iterator.slot].id = id
  BY EntryLeads
<1>2. d.slots[ref.iterator.slot] \in Order
  BY <1>1, SlotTyped DEF WellFormed, Deque
<1> QED
  BY <1>1, <1>2 DEF OrderAt

(* If id is on this level, it keeps its slot when level is stored there.   *)
SlotKept(id, side, price, level) ==
  orderMap[id].side = side /\ orderMap[id].price = price =>
    level.orders.slots[orderMap[id].iterator.slot]
      = book[side][price].orders.slots[orderMap[id].iterator.slot]

(* A step that keeps an entry and its slot keeps its order.                *)
LEMMA OtherLevel ==
  ASSUME TypeOK, IndexExact, NEW side \in Side, NEW price \in DOMAIN book[side], NEW level,
         book' = [book EXCEPT ![side][price] = level],
         NEW id \in DOMAIN orderMap, orderMap'[id] = orderMap[id],
         SlotKept(id, side, price, level)
  PROVE  OrderAt(book', orderMap', id) = OrderAt(book, orderMap, id)
<1> DEFINE s == orderMap[id].side
           p == orderMap[id].price
           i == orderMap[id].iterator.slot
<1>1. s \in Side /\ p \in DOMAIN book[s] /\ DOMAIN book = Side
  BY EntryLeads DEF TypeOK, BookTyped
<1>2. /\ OrderAt(book, orderMap, id) = book[s][p].orders.slots[i]
      /\ OrderAt(book', orderMap', id) = book'[s][p].orders.slots[i]
  BY DEF OrderAt
<1>3. s = side /\ p = price => level.orders.slots[i] = book[side][price].orders.slots[i]
  BY DEF SlotKept
<1> HIDE DEF s, p, i
<1>4. CASE s = side /\ p = price
  BY <1>1, <1>2, <1>3, <1>4
<1>5. CASE ~(s = side /\ p = price)
  <2>1. book'[s][p] = book[s][p]
    BY <1>1, <1>5
  <2> QED
    BY <1>2, <2>1
<1> QED
  BY <1>4, <1>5

(* The order at the front of a level, by id.                               *)
LEMMA FrontById ==
  ASSUME TypeOK, IndexExact, NEW side \in Side, NEW price \in DOMAIN book[side],
         ~IsEmpty(book[side][price].orders)
  PROVE  LET d    == book[side][price].orders
             curr == Front(d)
         IN /\ d \in Deque /\ WellFormed(d) /\ d.begin \in Live(d) /\ d.begin \in DOMAIN d.slots
            /\ curr = d.slots[d.begin] /\ curr \in Order
            /\ curr.id \in DOMAIN orderMap
            /\ orderMap[curr.id].side = side /\ orderMap[curr.id].price = price
            /\ orderMap[curr.id].iterator.slot = d.begin
            /\ OrderAt(book, orderMap, curr.id) = curr
<1> DEFINE d    == book[side][price].orders
           curr == Front(d)
<1>1. d \in Deque /\ WellFormed(d)
  BY DEF TypeOK, BookTyped, Level
<1>2. d.begin \in Live(d) /\ d.begin \in DOMAIN d.slots /\ curr = d.slots[d.begin] /\ curr \in Order
  BY <1>1, FrontTyped DEF Live, Front, IsEmpty, WellFormed, Deque
<1>3. Indexed(side, price, d.begin)
  BY <1>2 DEF IndexExact
<1>4. /\ curr.id \in DOMAIN orderMap
      /\ orderMap[curr.id].side = side /\ orderMap[curr.id].price = price
      /\ orderMap[curr.id].iterator.slot = d.begin
  BY <1>2, <1>3 DEF Indexed
<1>5. OrderAt(book, orderMap, curr.id) = curr
  BY <1>2, <1>4 DEF OrderAt
<1> QED
  BY <1>1, <1>2, <1>4, <1>5

(* Ids on the book are numbers, and tell the orders apart.                 *)
LEMMA IdsTyped ==
  ASSUME TypeOK
  PROVE  DOMAIN orderMap \subseteq Nat /\ DOMAIN orderMap \subseteq OrderID
BY MintingAssumption DEF TypeOK, IndexTyped

-----------------------------------------------------------------------------
(* The operations, by id.                                                  *)

(* These orders stay on the book, where and as they are.                   *)
Keeps(ids) ==
  \A id \in ids : /\ id \in DOMAIN orderMap' /\ orderMap'[id] = orderMap[id]
                  /\ OrderAt(book', orderMap', id) = OrderAt(book, orderMap, id)

(* What a call to traversePriceLevel stands at.                            *)
LEMMA Traversed ==
  ASSUME TypeOK, ~Idle, NEW price \in Price, BestLive(Contra, price)
  PROVE  /\ incoming \in Order /\ Contra \in Side /\ price \in DOMAIN book[Contra]
         /\ DOMAIN book = Side /\ ~IsEmpty(book[Contra][price].orders)
BY IncomingTyped DEF BestLive, TypeOK, BookTyped

(* traversePriceLevel, else branch: the front order leaves, no other moves. *)
LEMMA FillRestingById ==
  ASSUME TypeOK, IndexExact, NEW price \in Price, fillResting(price)
  PROVE  /\ DOMAIN orderMap' = DOMAIN orderMap \ {Front(book[Contra][price].orders).id}
         /\ Keeps(DOMAIN orderMap')
<1> DEFINE level == book[Contra][price]
           d     == level.orders
           curr  == Front(d)
           left  == Consume(level)
<1>1. /\ Contra \in Side /\ price \in DOMAIN book[Contra] /\ ~IsEmpty(d) /\ DOMAIN book = Side
  BY Traversed DEF fillResting
<1>2. /\ orderMap' = Without(orderMap, {curr.id})
      /\ book' = [book EXCEPT ![Contra][price] = left]
  BY <1>1 DEF fillResting, Forget
<1>3. /\ DOMAIN orderMap' = DOMAIN orderMap \ {curr.id}
      /\ \A id \in DOMAIN orderMap' : orderMap'[id] = orderMap[id]
  BY <1>2 DEF Without
<1>4. d \in Deque /\ WellFormed(d) /\ d.begin \in Live(d)
  BY <1>1, FrontById
<1>5. left.orders = Erase(d, d.begin)
  BY DEF Consume
<1>6. \A i \in Live(d) : left.orders.slots[i] = d.slots[i]
  BY <1>4, <1>5, EraseAtAnEnd
<1> HIDE DEF left
<1>7. ASSUME NEW id \in DOMAIN orderMap'
      PROVE  OrderAt(book', orderMap', id) = OrderAt(book, orderMap, id)
  <2>1. id \in DOMAIN orderMap /\ orderMap'[id] = orderMap[id]
    BY <1>3
  <2>2. ASSUME orderMap[id].side = Contra, orderMap[id].price = price
        PROVE  orderMap[id].iterator.slot \in Live(d)
    BY <2>1, <2>2, EntryLeads
  <2>3. SlotKept(id, Contra, price, left)
    BY <1>6, <2>2 DEF SlotKept
  <2> QED
    BY <1>1, <1>2, <2>1, <2>3, OtherLevel
<1> QED
  BY <1>3, <1>7 DEF Keeps

(* Resizing one slot changes one order's quantity.                         *)
LEMMA ResizeSlots ==
  ASSUME NEW d \in Deque, NEW pos \in DOMAIN d.slots, NEW q
  PROVE  /\ Resize(d, pos, q).slots[pos] = [d.slots[pos] EXCEPT !.quantity = q]
         /\ \A i \in DOMAIN d.slots : i # pos => Resize(d, pos, q).slots[i] = d.slots[i]
BY DEF Resize, Deque

(* The level of id is stored again with the order of id resized to q.      *)
Resized(id, q, side, price, level) ==
  /\ orderMap[id].side = side /\ orderMap[id].price = price
  /\ level.orders = Resize(book[side][price].orders, orderMap[id].iterator.slot, q)
  /\ book' = [book EXCEPT ![side][price] = level]
  /\ orderMap' = orderMap

(* So on the book it changes one order and keeps the others.               *)
LEMMA ResizeById ==
  ASSUME TypeOK, IndexExact, NEW side \in Side, NEW price \in DOMAIN book[side],
         NEW id \in DOMAIN orderMap, NEW q, NEW level, Resized(id, q, side, price, level)
  PROVE  /\ Keeps(DOMAIN orderMap \ {id})
         /\ OrderAt(book', orderMap', id) = [OrderAt(book, orderMap, id) EXCEPT !.quantity = q]
<1> DEFINE pos == orderMap[id].iterator.slot
           d   == book[side][price].orders
<1>0. /\ orderMap[id].side = side /\ orderMap[id].price = price
      /\ level.orders = Resize(d, pos, q)
      /\ book' = [book EXCEPT ![side][price] = level]
      /\ orderMap' = orderMap
  BY DEF Resized
<1>1. DOMAIN book = Side /\ d \in Deque /\ pos \in DOMAIN d.slots /\ d.slots[pos].id = id
  BY <1>0, EntryLeads DEF TypeOK, BookTyped
<1>2. /\ OrderAt(book', orderMap', id) = book'[side][price].orders.slots[pos]
      /\ OrderAt(book, orderMap, id) = d.slots[pos]
  BY <1>0 DEF OrderAt
<1> HIDE DEF pos
<1>3. /\ level.orders.slots[pos] = [d.slots[pos] EXCEPT !.quantity = q]
      /\ \A i \in DOMAIN d.slots : i # pos => level.orders.slots[i] = d.slots[i]
  BY <1>0, <1>1, ResizeSlots DEF pos
<1>4. book'[side][price] = level
  BY <1>0, <1>1
<1>5. OrderAt(book', orderMap', id) = [OrderAt(book, orderMap, id) EXCEPT !.quantity = q]
  BY <1>2, <1>3, <1>4
<1>6. ASSUME NEW other \in DOMAIN orderMap, other # id
      PROVE  OrderAt(book', orderMap', other) = OrderAt(book, orderMap, other)
  <2> DEFINE at == orderMap[other].iterator.slot
  <2>1. ASSUME orderMap[other].side = side, orderMap[other].price = price
        PROVE  at \in DOMAIN d.slots /\ d.slots[at].id = other
    BY <2>1, EntryLeads
  <2>2. SlotKept(other, side, price, level)
    BY <1>1, <1>3, <1>6, <2>1 DEF SlotKept
  <2>3. orderMap'[other] = orderMap[other]
    BY <1>0
  <2> QED
    BY <1>0, <2>2, <2>3, OtherLevel
<1> QED
  BY <1>0, <1>5, <1>6 DEF Keeps

(* traversePriceLevel, first branch: the front order loses what it traded. *)
LEMMA FillIncomingById ==
  ASSUME TypeOK, IndexExact, NEW price \in Price, fillIncoming(price)
  PROVE  LET curr == Front(book[Contra][price].orders)
         IN /\ orderMap' = orderMap
            /\ Keeps(DOMAIN orderMap \ {curr.id})
            /\ OrderAt(book', orderMap', curr.id)
                 = [curr EXCEPT !.quantity = curr.quantity - incoming.quantity]
<1> DEFINE level == book[Contra][price]
           curr  == Front(level.orders)
           left  == Reduce(level, incoming.quantity)
<1>1. /\ Contra \in Side /\ price \in DOMAIN book[Contra] /\ ~IsEmpty(level.orders)
      /\ DOMAIN book = Side
  BY Traversed DEF fillIncoming
<1>2. orderMap' = orderMap /\ book' = [book EXCEPT ![Contra][price] = left]
  BY <1>1 DEF fillIncoming
<1>3. /\ curr.id \in DOMAIN orderMap
      /\ orderMap[curr.id].side = Contra /\ orderMap[curr.id].price = price
      /\ orderMap[curr.id].iterator.slot = level.orders.begin
      /\ OrderAt(book, orderMap, curr.id) = curr
  BY <1>1, FrontById
<1> DEFINE q == curr.quantity - incoming.quantity
<1>4. left.orders = Resize(level.orders, level.orders.begin, q)
  BY DEF Reduce
<1> DEFINE id == curr.id
<1> HIDE DEF left, q, curr
<1>5. id \in DOMAIN orderMap /\ Resized(id, q, Contra, price, left)
  BY <1>2, <1>3, <1>4 DEF Resized
<1> HIDE DEF id
<1>6. /\ Keeps(DOMAIN orderMap \ {id})
      /\ OrderAt(book', orderMap', id) = [OrderAt(book, orderMap, id) EXCEPT !.quantity = q]
  BY <1>1, <1>5, ResizeById
<1>7. OrderAt(book', orderMap', id) = [curr EXCEPT !.quantity = q]
  BY <1>3, <1>6 DEF id
<1> QED
  BY <1>2, <1>6, <1>7 DEF q, curr, id

(* modifyOrder changes the quantity of the order it names.                 *)
LEMMA ModifyOrderById ==
  ASSUME TypeOK, IndexExact, NEW id \in OrderID, NEW newQuantity \in Quantity,
         modifyOrder(id, newQuantity)
  PROVE  /\ orderMap' = orderMap
         /\ Keeps(DOMAIN orderMap \ {id})
         /\ id \in DOMAIN orderMap =>
              OrderAt(book', orderMap', id)
                = [OrderAt(book, orderMap, id) EXCEPT !.quantity = newQuantity]
<1> DEFINE ref   == orderMap[id]
           level == book[ref.side][ref.price]
           pos   == ref.iterator.slot
<1>1. orderMap' = orderMap
  BY DEF modifyOrder
<1>2. CASE id \notin DOMAIN orderMap
  <2>1. book' = book
    BY <1>2 DEF modifyOrder
  <2> QED
    BY <1>1, <1>2, <2>1 DEF Keeps
<1>3. CASE id \in DOMAIN orderMap
  <2> DEFINE amended == [orders   |-> Resize(level.orders, pos, newQuantity),
                         quantity |-> level.quantity
                                      + (newQuantity - level.orders.slots[pos].quantity)]
  <2>1. /\ ref.side \in Side /\ ref.price \in DOMAIN book[ref.side]
        /\ ReadThrough(level.orders, ref.iterator) = {pos}
    BY <1>3, EntryLeads
  <2>2. book' = [book EXCEPT ![ref.side][ref.price] = amended]
    BY <1>3, <2>1 DEF modifyOrder
  <2>3. Resized(id, newQuantity, ref.side, ref.price, amended)
    BY <1>1, <2>2 DEF Resized
  <2> HIDE DEF amended
  <2> QED
    BY <1>1, <1>3, <2>1, <2>3, ResizeById
<1> QED
  BY <1>2, <1>3

(* An emptied level has no entry in the index.                             *)
LEMMA NothingInGone ==
  ASSUME TypeOK, IndexExact, NEW side \in Side, NEW id \in DOMAIN orderMap, orderMap[id].side = side
  PROVE  orderMap[id].price \notin EmptyFront(side)
<1> DEFINE p == orderMap[id].price
           d == book[side][p].orders
<1>1. SUFFICES ASSUME p \in EmptyFront(side) PROVE FALSE
  OBVIOUS
<1>2. p \in DOMAIN book[side] /\ IsEmpty(d)
  BY <1>1 DEF EmptyFront
<1>3. d \in Deque /\ QueueExact(side, p, d, orderMap)
  BY EntryLeads
<1> QED
  BY <1>2, <1>3, NothingInEmpty

(* The remainder joins its level behind everything that rests there.       *)
Joins(id) ==
  /\ DOMAIN orderMap' = DOMAIN orderMap \cup {id}
  /\ orderMap'[id].side = incoming.side /\ orderMap'[id].price = incoming.price
  /\ OrderAt(book', orderMap', id) = incoming
  /\ \A other \in DOMAIN orderMap :
       orderMap[other].side = incoming.side /\ orderMap[other].price = incoming.price =>
         orderMap[other].iterator.slot < orderMap'[id].iterator.slot

(* The rest of addOrder: no order moves, and a remainder joins its level.  *)
LEMMA RestRemainderById ==
  ASSUME TypeOK, IndexExact, restRemainder, incoming.id \notin DOMAIN orderMap, KeepsMap(incoming)
  PROVE  /\ Keeps(DOMAIN orderMap)
         /\ IF incoming.type = "LIMIT" /\ incoming.quantity # 0
            THEN Joins(incoming.id) ELSE DOMAIN orderMap' = DOMAIN orderMap
<1> DEFINE gone  == EmptyFront(Contra)
           kept  == Without(book[Contra], gone)
           refs  == Dangle(orderMap, Contra, gone)
           side  == incoming.side
           price == incoming.price
           level == LevelAt(side, price)
           queue == PushBack(level.orders, incoming)
           added == [orders |-> queue, quantity |-> level.quantity + incoming.quantity]
           entry == [price |-> price, side |-> side, iterator |-> LastIterator(queue)]
<1>1. /\ incoming \in Order /\ Contra \in Side /\ Contra # side /\ side \in Side
      /\ DOMAIN book = Side
  BY IncomingTyped DEF restRemainder, Order, TypeOK, BookTyped
<1>2. \A id \in DOMAIN orderMap : orderMap[id].side = Contra => orderMap[id].price \notin gone
  BY <1>1, NothingInGone
<1>3. /\ DOMAIN refs = DOMAIN orderMap
      /\ \A id \in DOMAIN orderMap : refs[id] = orderMap[id]
  BY <1>2 DEF Dangle
<1> HIDE DEF gone
<1>4. \A p \in DOMAIN book[Contra] : p \notin gone => kept[p] = book[Contra][p]
  BY DEF Without
<1> HIDE DEF refs, kept
<1>5. ASSUME NEW id \in DOMAIN orderMap
      PROVE  /\ orderMap[id].side \in Side
             /\ orderMap[id].price \in DOMAIN book[orderMap[id].side]
             /\ orderMap[id].side # Contra => orderMap[id].side = side
  BY <1>1, EntryLeads DEF Side
<1>6. CASE incoming.type = "LIMIT" /\ incoming.quantity # 0
  <2>1. /\ book' = [book EXCEPT ![Contra] = kept, ![side] = With(@, price, added)]
        /\ orderMap' = With(refs, incoming.id, entry)
    BY <1>6 DEF restRemainder, kept, refs, gone
  <2>2. /\ level.orders \in Deque /\ WellFormed(level.orders) /\ level.orders.end \notin Regrow
    <3>1. CASE price \in DOMAIN book[side]
      <4>1. level = book[side][price] /\ level \in Level /\ WellFormed(level.orders)
        BY <1>1, <3>1 DEF LevelAt, TypeOK, BookTyped
      <4> QED
        BY <3>1, <4>1 DEF Level, KeepsMap
    <3>2. CASE price \notin DOMAIN book[side]
      <4>1. level.orders = EmptyDeque /\ EmptyDeque.end \notin Regrow
        BY <3>2, RegrowAssumption DEF LevelAt, EmptyLevel, EmptyDeque
      <4> QED
        BY <4>1, EmptyDequeTyped
    <3> QED
      BY <3>1, <3>2
  <2>3. /\ \A i \in Live(level.orders) : queue.slots[i] = level.orders.slots[i]
        /\ queue.slots[level.orders.end] = incoming
        /\ LastIterator(queue) = [slot |-> level.orders.end, map |-> level.orders.map]
    BY <2>2, PushBackInMap
  <2>4. /\ DOMAIN orderMap' = DOMAIN orderMap \cup {incoming.id}
        /\ orderMap'[incoming.id] = entry
        /\ \A id \in DOMAIN orderMap : orderMap'[id] = orderMap[id]
    BY <1>3, <2>1 DEF With
  <2>5. entry.side = side /\ entry.price = price /\ entry.iterator.slot = level.orders.end
    BY <2>3
  <2> HIDE DEF entry
  <2>6. /\ book'[Contra] = kept /\ book'[side] = With(book[side], price, added)
    BY <1>1, <2>1
  <2>7. /\ book'[side][price] = added /\ added.orders = queue
        /\ \A p \in DOMAIN book[side] : p # price => book'[side][p] = book[side][p]
    BY <2>6 DEF With
  <2> HIDE DEF added, queue
  <2>8. OrderAt(book', orderMap', incoming.id) = incoming
    BY <2>3, <2>4, <2>5, <2>7 DEF OrderAt
  <2>9. ASSUME NEW id \in DOMAIN orderMap,
               orderMap[id].side = side, orderMap[id].price = price
        PROVE  /\ level = book[side][price]
               /\ orderMap[id].iterator.slot \in Live(level.orders)
    BY <2>9, EntryLeads DEF LevelAt
  <2> HIDE DEF level
  <2>10. ASSUME NEW id \in DOMAIN orderMap
         PROVE  OrderAt(book', orderMap', id) = OrderAt(book, orderMap, id)
    <3> DEFINE p == orderMap[id].price
               i == orderMap[id].iterator.slot
    <3>1. OrderAt(book', orderMap', id) = book'[orderMap[id].side][p].orders.slots[i]
      BY <2>4 DEF OrderAt
    <3>2. OrderAt(book, orderMap, id) = book[orderMap[id].side][p].orders.slots[i]
      BY DEF OrderAt
    <3> HIDE DEF p, i
    <3>3. CASE orderMap[id].side = Contra
      <4>1. book'[Contra][p] = book[Contra][p]
        BY <1>2, <1>4, <1>5, <2>6, <3>3 DEF p
      <4> QED
        BY <3>1, <3>2, <3>3, <4>1
    <3>4. CASE orderMap[id].side = side /\ p # price
      <4>1. book'[side][p] = book[side][p]
        BY <1>5, <2>7, <3>4 DEF p
      <4> QED
        BY <3>1, <3>2, <3>4, <4>1
    <3>5. CASE orderMap[id].side = side /\ p = price
      <4>1. level = book[side][price] /\ i \in Live(level.orders)
        BY <2>9, <3>5 DEF p, i
      <4> QED
        BY <2>3, <2>7, <3>1, <3>2, <3>5, <4>1
    <3> QED
      BY <1>5, <3>3, <3>4, <3>5
  <2>11. ASSUME NEW id \in DOMAIN orderMap,
                orderMap[id].side = side, orderMap[id].price = price
         PROVE  orderMap[id].iterator.slot < orderMap'[incoming.id].iterator.slot
    <3>1. orderMap[id].iterator.slot \in Live(level.orders)
      BY <2>9, <2>11
    <3> QED
      BY <2>2, <2>4, <2>5, <3>1 DEF Live, Deque
  <2>12. Keeps(DOMAIN orderMap)
    BY <2>4, <2>10 DEF Keeps
  <2>13. Joins(incoming.id)
    BY <2>4, <2>5, <2>8, <2>11 DEF Joins
  <2> QED
    BY <1>6, <2>12, <2>13
<1>7. CASE ~(incoming.type = "LIMIT" /\ incoming.quantity # 0)
  <2>1. book' = [book EXCEPT ![Contra] = kept] /\ orderMap' = refs
    BY <1>7 DEF restRemainder, kept, refs, gone
  <2>2. ASSUME NEW id \in DOMAIN orderMap
        PROVE  book'[orderMap[id].side][orderMap[id].price]
                 = book[orderMap[id].side][orderMap[id].price]
    <3>1. CASE orderMap[id].side = Contra
      BY <1>1, <1>2, <1>4, <1>5, <2>1, <3>1
    <3>2. CASE orderMap[id].side # Contra
      BY <1>1, <1>5, <2>1, <3>2
    <3> QED
      BY <3>1, <3>2
  <2>3. ASSUME NEW id \in DOMAIN orderMap
        PROVE  OrderAt(book', orderMap', id) = OrderAt(book, orderMap, id)
    BY <1>3, <2>1, <2>2 DEF OrderAt
  <2> QED
    BY <1>3, <1>7, <2>1, <2>3 DEF Keeps
<1> QED
  BY <1>6, <1>7

(* cancelOrder takes the order it names off the book, and moves no other.  *)
LEMMA CancelOrderById ==
  ASSUME TypeOK, IndexExact, NEW id \in OrderID, AtAnEnd(id), cancelOrder(id)
  PROVE  DOMAIN orderMap' = DOMAIN orderMap \ {id} /\ Keeps(DOMAIN orderMap')
<1> DEFINE ref   == orderMap[id]
           level == book[ref.side][ref.price]
<1>1. CASE id \notin DOMAIN orderMap
  <2>1. book' = book /\ orderMap' = orderMap
    BY <1>1 DEF cancelOrder
  <2> QED
    BY <1>1, <2>1 DEF Keeps
<1>2. CASE id \in DOMAIN orderMap
  <2> DEFINE pos  == ref.iterator.slot
             left == [orders   |-> Erase(level.orders, pos),
                      quantity |-> level.quantity - level.orders.slots[pos].quantity]
  <2>1. /\ ref.side \in Side /\ ref.price \in DOMAIN book[ref.side]
        /\ level.orders \in Deque /\ WellFormed(level.orders)
        /\ pos \in Live(level.orders) /\ level.orders.slots[pos].id = id
        /\ ReadThrough(level.orders, ref.iterator) = {pos}
        /\ EraseAt(level.orders, ref.iterator) = {pos}
    BY <1>2, EntryLeads
  <2>2. DOMAIN book = Side
    BY DEF TypeOK, BookTyped
  <2>3. pos = level.orders.begin \/ pos = level.orders.end - 1
    BY <2>1 DEF AtAnEnd
  <2>4. /\ book' = StoreOrDrop(ref.side, ref.price, left)
        /\ orderMap' = Without(IF IsEmpty(left.orders)
                               THEN Dangle(orderMap, ref.side, {ref.price})
                               ELSE orderMap, {id})
    BY <1>2, <2>1 DEF cancelOrder
  <2>5. /\ Live(left.orders) = Live(level.orders) \ {pos}
        /\ \A i \in Live(level.orders) : left.orders.slots[i] = level.orders.slots[i]
    BY <2>1, <2>3, EraseAtAnEnd
  <2>6. left.orders \in Deque
    <3>1. ~IsEmpty(level.orders) /\ pos \in DOMAIN level.orders.slots
      BY <1>2, <2>1, EntryLeads, LiveNonEmpty
    <3> QED
      BY <2>1, <3>1, EraseTyped
  <2> HIDE DEF left
  <2>7. ASSUME NEW other \in DOMAIN orderMap \ {id},
               orderMap[other].side = ref.side, orderMap[other].price = ref.price
        PROVE  orderMap[other].iterator.slot \in Live(left.orders)
    <3>1. /\ orderMap[other].iterator.slot \in Live(level.orders)
          /\ level.orders.slots[orderMap[other].iterator.slot].id = other
      BY <2>7, EntryLeads
    <3> QED
      BY <2>1, <2>5, <3>1
  <2>8. CASE ~IsEmpty(left.orders)
    <3>1. book' = [book EXCEPT ![ref.side][ref.price] = left] /\ orderMap' = Without(orderMap, {id})
      BY <2>4, <2>8 DEF StoreOrDrop
    <3>2. /\ DOMAIN orderMap' = DOMAIN orderMap \ {id}
          /\ \A i \in DOMAIN orderMap' : orderMap'[i] = orderMap[i]
      BY <3>1 DEF Without
    <3>3. ASSUME NEW other \in DOMAIN orderMap'
          PROVE  OrderAt(book', orderMap', other) = OrderAt(book, orderMap, other)
      <4>1. other \in DOMAIN orderMap \ {id} /\ orderMap'[other] = orderMap[other]
        BY <3>2
      <4>2. SlotKept(other, ref.side, ref.price, left)
        BY <2>5, <2>7, <4>1 DEF SlotKept
      <4> QED
        BY <2>1, <3>1, <4>1, <4>2, OtherLevel
    <3> QED
      BY <3>2, <3>3 DEF Keeps
  <2>9. CASE IsEmpty(left.orders)
    <3>1. /\ book' = [book EXCEPT ![ref.side] = Without(@, {ref.price})]
          /\ orderMap' = Without(Dangle(orderMap, ref.side, {ref.price}), {id})
      BY <2>4, <2>9 DEF StoreOrDrop
    <3>2. \A i \in DOMAIN orderMap \ {id} : ~(orderMap[i].side = ref.side /\ orderMap[i].price = ref.price)
      BY <2>6, <2>7, <2>9, LiveNonEmpty
    <3>3. /\ DOMAIN orderMap' = DOMAIN orderMap \ {id}
          /\ \A i \in DOMAIN orderMap' : orderMap'[i] = orderMap[i]
      BY <3>1, <3>2 DEF Without, Dangle
    <3>4. /\ \A s \in Side : s # ref.side => book'[s] = book[s]
          /\ \A p \in DOMAIN book[ref.side] : p # ref.price => book'[ref.side][p] = book[ref.side][p]
      BY <2>1, <2>2, <3>1 DEF Without
    <3>5. ASSUME NEW other \in DOMAIN orderMap'
          PROVE  OrderAt(book', orderMap', other) = OrderAt(book, orderMap, other)
      <4>1. other \in DOMAIN orderMap \ {id} /\ orderMap'[other] = orderMap[other]
        BY <3>3
      <4>2. orderMap[other].side \in Side /\ orderMap[other].price \in DOMAIN book[orderMap[other].side]
        BY <4>1, EntryLeads
      <4>3. book'[orderMap[other].side][orderMap[other].price]
              = book[orderMap[other].side][orderMap[other].price]
        BY <3>2, <3>4, <4>1, <4>2
      <4> QED
        BY <4>1, <4>3 DEF OrderAt
    <3> QED
      BY <3>3, <3>5 DEF Keeps
  <2> QED
    BY <2>8, <2>9
<1> QED
  BY <1>1, <1>2

-----------------------------------------------------------------------------
(* The invariant.                                                          *)

(* An operation that moves no order it leaves keeps what the index says of *)
(* the orders.                                                             *)
LEMMA ArrivalsKept ==
  ASSUME Arrivals, DOMAIN orderMap' \subseteq DOMAIN orderMap,
         \A id \in DOMAIN orderMap' :
           /\ orderMap'[id] = orderMap[id]
           /\ OrderAt(book', orderMap', id).side = OrderAt(book, orderMap, id).side
           /\ OrderAt(book', orderMap', id).price = OrderAt(book, orderMap, id).price,
         Idle' \/ (~Idle /\ incoming'.id = incoming.id)
  PROVE  Arrivals'
<1>1. Truthful'
  BY DEF Arrivals, Truthful
<1>2. FirstComeFirst'
  BY DEF Arrivals, FirstComeFirst
<1>3. Newest'
  BY DEF Arrivals, Newest
<1> QED
  BY <1>1, <1>2, <1>3 DEF Arrivals

(* An order keeps its side and price when its quantity changes.            *)
LEMMA AmendedOrder ==
  ASSUME NEW o \in Order, NEW q
  PROVE  LET r == [o EXCEPT !.quantity = q]
         IN r.side = o.side /\ r.price = o.price /\ r.id = o.id
BY DEF Order

(* The remainder is the newest of its level and stands last in it.         *)
LEMMA ArrivalsJoined ==
  ASSUME TypeOK, Arrivals, ~Idle, Idle', Keeps(DOMAIN orderMap), Joins(incoming.id),
         incoming.id \notin DOMAIN orderMap
  PROVE  Arrivals'
<1> DEFINE new == incoming.id
<1>1. new \in Nat /\ DOMAIN orderMap \subseteq Nat
  BY IncomingTyped, IdsTyped, MintingAssumption DEF Order
<1>2. \A id \in DOMAIN orderMap : id < new
  BY DEF Arrivals, Newest
<1>3. /\ DOMAIN orderMap' = DOMAIN orderMap \cup {new}
      /\ orderMap'[new].side = incoming.side /\ orderMap'[new].price = incoming.price
      /\ OrderAt(book', orderMap', new) = incoming
      /\ \A other \in DOMAIN orderMap :
           orderMap[other].side = incoming.side /\ orderMap[other].price = incoming.price =>
             orderMap[other].iterator.slot < orderMap'[new].iterator.slot
  BY DEF Joins
<1>4. \A id \in DOMAIN orderMap :
        /\ orderMap'[id] = orderMap[id]
        /\ OrderAt(book', orderMap', id) = OrderAt(book, orderMap, id)
  BY DEF Keeps
<1> HIDE DEF new
<1>5. Truthful'
  BY <1>3, <1>4 DEF Arrivals, Truthful
<1>6. ASSUME NEW a \in DOMAIN orderMap', NEW b \in DOMAIN orderMap',
             orderMap'[a].side = orderMap'[b].side, orderMap'[a].price = orderMap'[b].price, a < b
      PROVE  orderMap'[a].iterator.slot < orderMap'[b].iterator.slot
  <2>1. CASE a = new
    BY <1>1, <1>2, <1>3, <1>6, <2>1
  <2>2. CASE a \in DOMAIN orderMap /\ b = new
    BY <1>3, <1>4, <1>6, <2>2
  <2>3. CASE a \in DOMAIN orderMap /\ b \in DOMAIN orderMap
    BY <1>4, <1>6, <2>3 DEF Arrivals, FirstComeFirst
  <2> QED
    BY <1>3, <2>1, <2>2, <2>3
<1>7. FirstComeFirst'
  BY <1>6 DEF FirstComeFirst
<1>8. Newest'
  BY DEF Newest
<1> QED
  BY <1>5, <1>7, <1>8 DEF Arrivals

-----------------------------------------------------------------------------
(* The steps of the price-time book.                                       *)

(* The types it is written in are the engine's.                            *)
LEMMA SameTypes ==
  /\ \A side, p, q : Promise!Better(side, p, q) <=> Better(side, p, q)
  /\ \A side : Promise!Opposite(side) = Opposite(side)
BY DEF Better, Opposite, Promise!Better, Promise!Opposite

(* The order of an entry, and the side and level it rests on.              *)
LEMMA EntryOrder ==
  ASSUME TypeOK, IndexExact, Arrivals, NEW id \in DOMAIN orderMap
  PROVE  LET o == OrderAt(book, orderMap, id)
         IN /\ o \in Resting /\ o \in Order /\ o.id = id
            /\ o.side = orderMap[id].side /\ o.price = orderMap[id].price
<1>1. OrderAt(book, orderMap, id) \in Resting
  BY RestingById DEF ById
<1> QED
  BY <1>1, OrderAtTyped DEF Arrivals, Truthful

(* The front of the best level is the first in priority of all the orders  *)
(* it competes with.                                                       *)
LEMMA FrontFirst ==
  ASSUME TypeOK, IndexExact, Arrivals, ~Idle, NEW price \in Price,
         BestLive(Contra, price), Marketable(incoming, price)
  PROVE  LET curr == Front(book[Contra][price].orders)
         IN /\ curr \in Promise!Reachable
            /\ \A other \in Promise!Contra \ {curr} : Promise!Before(curr, other)
<1> DEFINE d    == book[Contra][price].orders
           curr == Front(d)
<1>1. /\ incoming \in Order /\ Contra \in Side /\ price \in DOMAIN book[Contra]
      /\ DOMAIN book = Side /\ ~IsEmpty(d)
  BY Traversed
<1>2. /\ d \in Deque /\ WellFormed(d)
      /\ curr.id \in DOMAIN orderMap
      /\ orderMap[curr.id].side = Contra /\ orderMap[curr.id].price = price
      /\ orderMap[curr.id].iterator.slot = d.begin
      /\ OrderAt(book, orderMap, curr.id) = curr
  BY <1>1, FrontById
<1> HIDE DEF curr
<1>3. curr \in Resting /\ curr.side = Contra /\ curr.price = price
  BY <1>2, EntryOrder
<1>4. Promise!Contra = {o \in Resting : o.side = Contra}
  BY SameTypes DEF Promise!Contra, Contra, Resting
<1>5. curr \in Promise!Reachable
  <2>1. incoming.type = "MARKET" \/ ~Better(Contra, incoming.price, price)
    BY DEF Marketable, Contra
  <2> QED
    BY <1>3, <1>4, <2>1, SameTypes DEF Promise!Reachable
<1>6. ASSUME NEW other \in Promise!Contra, other # curr
      PROVE  Better(curr.side, curr.price, other.price)
             \/ (curr.price = other.price /\ curr.id < other.id)
  <2>1. PICK id \in DOMAIN orderMap : other = OrderAt(book, orderMap, id)
    BY <1>4, RestingById DEF ById
  <2>2. /\ other.id = id /\ other.side = Contra
        /\ orderMap[id].side = Contra /\ orderMap[id].price = other.price
    BY <1>4, <2>1, EntryOrder
  <2> DEFINE p == other.price
             i == orderMap[id].iterator.slot
  <2>3. p \in DOMAIN book[Contra] /\ book[Contra][p].orders \in Deque /\ i \in Live(book[Contra][p].orders)
    BY <2>2, EntryLeads
  <2>4. ~IsEmpty(book[Contra][p].orders)
    BY <2>3, LiveNonEmpty
  <2>5. ~Better(Contra, p, price)
    BY <2>3, <2>4 DEF BestLive
  <2>6. p \in Int /\ price \in Int
    BY <1>1, <2>3, TypesAssumption DEF TypeOK, BookTyped
  <2>7. id # curr.id
    BY <1>2, <1>6, <2>1
  <2>8. CASE p = price
    <3>1. i \in Int /\ d.begin <= i /\ d.begin \in Nat
      BY <1>2, <2>3, <2>8 DEF Live, Deque
    <3>2. ~(id < curr.id)
      BY <1>2, <2>2, <2>8, <3>1 DEF Arrivals, FirstComeFirst
    <3>3. id \in Nat /\ curr.id \in Nat
      BY <1>2, IdsTyped
    <3>4. curr.id < id
      BY <2>7, <3>2, <3>3
    <3> QED
      BY <1>3, <2>2, <2>8, <3>4
  <2>9. CASE p # price
    <3>1. Better(Contra, price, p)
      BY <2>5, <2>6, <2>9 DEF Better
    <3> QED
      BY <1>3, <3>1
  <2> QED
    BY <2>8, <2>9
<1>7. \A other \in Promise!Contra \ {curr} : Promise!Before(curr, other)
  BY <1>6, SameTypes DEF Promise!Before
<1> QED
  BY <1>5, <1>7 DEF curr

(* The ids tell the orders on the book apart.                              *)
LEMMA ByIdWithout ==
  ASSUME TypeOK, IndexExact, NEW id \in DOMAIN orderMap
  PROVE  Resting \ {OrderAt(book, orderMap, id)}
           = {OrderAt(book, orderMap, other) : other \in DOMAIN orderMap \ {id}}
<1>1. Resting = {OrderAt(book, orderMap, other) : other \in DOMAIN orderMap}
  BY RestingById DEF ById
<1>2. \A other \in DOMAIN orderMap : OrderAt(book, orderMap, other).id = other
  BY OrderAtTyped
<1> QED
  BY <1>1, <1>2

(* What an operation makes of the set of orders, by what it does by id.    *)
LEMMA RestingAfter ==
  ASSUME NEW ids, Keeps(ids), TypeOK', IndexExact', ids \subseteq DOMAIN orderMap'
  PROVE  Resting' = {OrderAt(book, orderMap, id) : id \in ids}
                      \cup {OrderAt(book', orderMap', id) : id \in DOMAIN orderMap' \ ids}
<1>1. Resting' = {OrderAt(book', orderMap', id) : id \in DOMAIN orderMap'}
  BY RestingByIdNext DEF ById
<1>2. \A id \in ids : OrderAt(book', orderMap', id) = OrderAt(book, orderMap, id)
  BY DEF Keeps
<1> QED
  BY <1>1, <1>2

(* traversePriceLevel, else branch: one order leaves the book.             *)
LEMMA RestingConsumed ==
  ASSUME TypeOK, IndexExact, TypeOK', IndexExact', NEW price \in Price, fillResting(price)
  PROVE  Resting' = Resting \ {Front(book[Contra][price].orders)}
<1> DEFINE curr == Front(book[Contra][price].orders)
           m    == curr.id
<1>1. Contra \in Side /\ price \in DOMAIN book[Contra] /\ ~IsEmpty(book[Contra][price].orders)
  BY Traversed DEF fillResting
<1>2. m \in DOMAIN orderMap /\ OrderAt(book, orderMap, m) = curr
  BY <1>1, FrontById
<1>3. DOMAIN orderMap' = DOMAIN orderMap \ {m} /\ Keeps(DOMAIN orderMap')
  BY FillRestingById
<1> HIDE DEF curr, m
<1>4. Resting' = {OrderAt(book, orderMap, id) : id \in DOMAIN orderMap'}
  BY <1>3, RestingAfter
<1>5. Resting' = Resting \ {curr}
  BY <1>2, <1>3, <1>4, ByIdWithout
<1> QED
  BY <1>5 DEF curr

(* fillResting is an execution that takes the resting order off the book.  *)
LEMMA RestingExecutes ==
  ASSUME TypeOK, IndexExact, Arrivals, TypeOK', IndexExact',
         NEW price \in Price, fillResting(price)
  PROVE  Promise!Execute /\ Arrivals'
<1> DEFINE curr == Front(book[Contra][price].orders)
           m    == curr.id
<1>1. /\ ~Idle /\ incoming.quantity > 0 /\ BestLive(Contra, price) /\ Marketable(incoming, price)
      /\ curr.quantity <= incoming.quantity
      /\ lastTrades' = Append(lastTrades, Fill(curr, curr.quantity))
      /\ incoming' = [incoming EXCEPT !.quantity = @ - curr.quantity]
  BY DEF fillResting
<1>2. incoming \in Order /\ Contra \in Side /\ price \in DOMAIN book[Contra]
      /\ ~IsEmpty(book[Contra][price].orders)
  BY <1>1, Traversed
<1>3. /\ curr \in Promise!Reachable
      /\ \A other \in Promise!Contra \ {curr} : Promise!Before(curr, other)
  BY <1>1, FrontFirst
<1>4. m \in DOMAIN orderMap /\ curr \in Order /\ OrderAt(book, orderMap, m) = curr
  BY <1>2, FrontById
<1>5. DOMAIN orderMap' = DOMAIN orderMap \ {m} /\ Keeps(DOMAIN orderMap')
  BY FillRestingById
<1> HIDE DEF curr, m
<1>6. Resting' = Resting \ {curr}
  BY RestingConsumed DEF curr
<1>7. curr.quantity \in Nat /\ incoming.quantity \in Nat
  BY <1>2, <1>4 DEF Order
<1>8. Promise!Smaller(incoming.quantity, curr.quantity) = curr.quantity
  BY <1>1, <1>7 DEF Promise!Smaller
<1>9. Promise!Execute
  <2> DEFINE q == Promise!Smaller(incoming.quantity, curr.quantity)
  <2>1. q = curr.quantity
    BY <1>8
  <2>2. lastTrades' = Append(lastTrades,
          [takerId |-> incoming.id, makerId |-> curr.id, price |-> curr.price,
           quantity |-> q, takerSide |-> incoming.side])
    BY <1>1, <2>1 DEF Fill
  <2>3. incoming' = [incoming EXCEPT !.quantity = @ - q]
    BY <1>1, <2>1
  <2>4. Resting' = (Resting \ {curr})
          \cup (IF curr.quantity = q THEN {} ELSE {[curr EXCEPT !.quantity = @ - q]})
    BY <1>6, <2>1
  <2>5. incoming # NoOrder /\ incoming.quantity > 0
    BY <1>1 DEF Idle
  <2> QED
    BY <1>3, <2>2, <2>3, <2>4, <2>5 DEF Promise!Execute, Resting
<1>10. Arrivals'
  <2>1. incoming'.id = incoming.id
    BY <1>1, <1>2 DEF Order
  <2> QED
    BY <1>1, <1>5, <2>1, ArrivalsKept DEF Keeps
<1> QED
  BY <1>9, <1>10

(* One order is changed where it stands.                                   *)
LEMMA RestingAmended ==
  ASSUME TypeOK, IndexExact, TypeOK', IndexExact', NEW id \in DOMAIN orderMap,
         orderMap' = orderMap, Keeps(DOMAIN orderMap \ {id})
  PROVE  Resting' = (Resting \ {OrderAt(book, orderMap, id)}) \cup {OrderAt(book', orderMap', id)}
<1> DEFINE ids == DOMAIN orderMap \ {id}
<1>1. ids \subseteq DOMAIN orderMap' /\ DOMAIN orderMap' \ ids = {id}
  OBVIOUS
<1> HIDE DEF ids
<1>2. Resting' = {OrderAt(book, orderMap, other) : other \in ids}
                   \cup {OrderAt(book', orderMap', other) : other \in DOMAIN orderMap' \ ids}
  BY <1>1, RestingAfter DEF ids
<1>3. Resting' = {OrderAt(book, orderMap, other) : other \in ids} \cup {OrderAt(book', orderMap', id)}
  BY <1>1, <1>2
<1> QED
  BY <1>3, ByIdWithout DEF ids

(* traversePriceLevel, first branch: one order has traded in part.         *)
LEMMA RestingReduced ==
  ASSUME TypeOK, IndexExact, TypeOK', IndexExact', NEW price \in Price, fillIncoming(price)
  PROVE  LET curr == Front(book[Contra][price].orders)
         IN Resting' = (Resting \ {curr})
              \cup {[curr EXCEPT !.quantity = curr.quantity - incoming.quantity]}
<1> DEFINE curr == Front(book[Contra][price].orders)
           m    == curr.id
           left == [curr EXCEPT !.quantity = curr.quantity - incoming.quantity]
<1>1. Contra \in Side /\ price \in DOMAIN book[Contra] /\ ~IsEmpty(book[Contra][price].orders)
  BY Traversed DEF fillIncoming
<1>2. m \in DOMAIN orderMap /\ OrderAt(book, orderMap, m) = curr
  BY <1>1, FrontById
<1>3. orderMap' = orderMap /\ Keeps(DOMAIN orderMap \ {m}) /\ OrderAt(book', orderMap', m) = left
  BY FillIncomingById
<1> HIDE DEF curr, m, left
<1>4. Resting' = (Resting \ {curr}) \cup {left}
  BY <1>2, <1>3, RestingAmended
<1> QED
  BY <1>4 DEF curr, left

(* fillIncoming is one that leaves the resting order what did not trade.   *)
LEMMA IncomingExecutes ==
  ASSUME TypeOK, IndexExact, Arrivals, TypeOK', IndexExact',
         NEW price \in Price, fillIncoming(price)
  PROVE  Promise!Execute /\ Arrivals'
<1> DEFINE curr == Front(book[Contra][price].orders)
           m    == curr.id
           left == [curr EXCEPT !.quantity = curr.quantity - incoming.quantity]
<1>1. /\ ~Idle /\ incoming.quantity > 0 /\ BestLive(Contra, price) /\ Marketable(incoming, price)
      /\ curr.quantity > incoming.quantity
      /\ lastTrades' = Append(lastTrades, Fill(curr, incoming.quantity))
      /\ incoming' = [incoming EXCEPT !.quantity = 0]
  BY DEF fillIncoming
<1>2. incoming \in Order /\ Contra \in Side /\ price \in DOMAIN book[Contra]
      /\ ~IsEmpty(book[Contra][price].orders)
  BY <1>1, Traversed
<1>3. /\ curr \in Promise!Reachable
      /\ \A other \in Promise!Contra \ {curr} : Promise!Before(curr, other)
  BY <1>1, FrontFirst
<1>4. m \in DOMAIN orderMap /\ curr \in Order /\ OrderAt(book, orderMap, m) = curr
  BY <1>2, FrontById
<1>5. /\ orderMap' = orderMap /\ Keeps(DOMAIN orderMap \ {m})
      /\ OrderAt(book', orderMap', m) = left
  BY FillIncomingById
<1>6. left.side = curr.side /\ left.price = curr.price
  BY <1>4, AmendedOrder
<1> HIDE DEF curr, m
<1>7. Resting' = (Resting \ {curr}) \cup {left}
  BY RestingReduced DEF curr
<1>8. curr.quantity \in Nat /\ incoming.quantity \in Nat
  BY <1>2, <1>4 DEF Order
<1>9. Promise!Smaller(incoming.quantity, curr.quantity) = incoming.quantity
  BY <1>1, <1>8 DEF Promise!Smaller
<1>10. Promise!Execute
  <2> DEFINE q == Promise!Smaller(incoming.quantity, curr.quantity)
  <2>1. q = incoming.quantity
    BY <1>9
  <2>2. lastTrades' = Append(lastTrades,
          [takerId |-> incoming.id, makerId |-> curr.id, price |-> curr.price,
           quantity |-> q, takerSide |-> incoming.side])
    BY <1>1, <2>1 DEF Fill
  <2>3. incoming' = [incoming EXCEPT !.quantity = @ - q]
    BY <1>1, <1>2, <1>8, <2>1 DEF Order
  <2>4. curr.quantity # q
    BY <1>1, <1>8, <2>1
  <2>5. left = [curr EXCEPT !.quantity = @ - q]
    BY <2>1
  <2>6. Resting' = (Resting \ {curr})
          \cup (IF curr.quantity = q THEN {} ELSE {[curr EXCEPT !.quantity = @ - q]})
    BY <1>7, <2>4, <2>5
  <2>7. incoming # NoOrder /\ incoming.quantity > 0
    BY <1>1 DEF Idle
  <2> QED
    BY <1>3, <2>2, <2>3, <2>6, <2>7 DEF Promise!Execute, Resting
<1>11. Arrivals'
  <2>1. incoming'.id = incoming.id
    BY <1>1, <1>2 DEF Order
  <2>2. ASSUME NEW id \in DOMAIN orderMap'
        PROVE  /\ orderMap'[id] = orderMap[id]
               /\ OrderAt(book', orderMap', id).side = OrderAt(book, orderMap, id).side
               /\ OrderAt(book', orderMap', id).price = OrderAt(book, orderMap, id).price
    <3>1. CASE id = m
      BY <1>4, <1>5, <1>6, <3>1
    <3>2. CASE id # m
      BY <1>5, <3>2 DEF Keeps
    <3> QED
      BY <3>1, <3>2
  <2> QED
    BY <1>1, <1>5, <2>1, <2>2, ArrivalsKept
<1> QED
  BY <1>10, <1>11

(* When the loops of match are over, no order on the book can be reached.  *)
LEMMA NothingReachable ==
  ASSUME TypeOK, IndexExact, Arrivals, ~Idle, MatchingOver, incoming.quantity # 0
  PROVE  Promise!Reachable = {}
<1>1. incoming \in Order /\ incoming.quantity \in Nat
  BY IncomingTyped DEF Order
<1>2. \A p \in DOMAIN book[Contra] :
        ~IsEmpty(book[Contra][p].orders) => ~Marketable(incoming, p)
  BY <1>1 DEF MatchingOver
<1>3. Promise!Contra = {o \in Resting : o.side = Contra}
  BY SameTypes DEF Promise!Contra, Contra, Resting
<1>4. ASSUME NEW o \in Promise!Contra
      PROVE  ~(incoming.type = "MARKET" \/ ~Better(o.side, incoming.price, o.price))
  <2>1. PICK id \in DOMAIN orderMap : o = OrderAt(book, orderMap, id)
    BY <1>3, RestingById DEF ById
  <2>2. o.side = Contra /\ orderMap[id].side = Contra /\ orderMap[id].price = o.price
    BY <1>3, <2>1, EntryOrder
  <2> DEFINE p == o.price
             d == book[Contra][p].orders
  <2>3. p \in DOMAIN book[Contra] /\ d \in Deque /\ orderMap[id].iterator.slot \in Live(d)
    BY <2>2, EntryLeads
  <2>4. ~IsEmpty(d)
    BY <2>3, LiveNonEmpty
  <2>5. ~Marketable(incoming, p)
    BY <1>2, <2>3, <2>4
  <2> QED
    BY <2>2, <2>5 DEF Marketable, Contra
<1> QED
  BY <1>4, SameTypes DEF Promise!Reachable

(* The rest of addOrder: the order joins the book, or none does.           *)
LEMMA RestingSettled ==
  ASSUME TypeOK, IndexExact, CanRest, TypeOK', IndexExact', restRemainder
  PROVE  Resting' = IF incoming.type = "LIMIT" /\ incoming.quantity # 0
                    THEN Resting \cup {incoming} ELSE Resting
<1> DEFINE ids == DOMAIN orderMap
<1>1. incoming.id \notin DOMAIN orderMap /\ KeepsMap(incoming)
  BY DEF CanRest, restRemainder
<1>2. /\ Keeps(DOMAIN orderMap)
      /\ IF incoming.type = "LIMIT" /\ incoming.quantity # 0
         THEN Joins(incoming.id) ELSE DOMAIN orderMap' = DOMAIN orderMap
  BY <1>1, RestRemainderById
<1>3. Resting = {OrderAt(book, orderMap, id) : id \in DOMAIN orderMap}
  BY RestingById DEF ById
<1>4. ids \subseteq DOMAIN orderMap'
  BY <1>2 DEF Joins
<1> HIDE DEF ids
<1>5. Resting' = {OrderAt(book, orderMap, id) : id \in ids}
                   \cup {OrderAt(book', orderMap', id) : id \in DOMAIN orderMap' \ ids}
  BY <1>2, <1>4, RestingAfter DEF ids
<1>6. CASE incoming.type = "LIMIT" /\ incoming.quantity # 0
  <2>1. DOMAIN orderMap' \ ids = {incoming.id} /\ OrderAt(book', orderMap', incoming.id) = incoming
    BY <1>1, <1>2, <1>6 DEF Joins, ids
  <2>2. Resting' = Resting \cup {incoming}
    BY <1>3, <1>5, <2>1 DEF ids
  <2> QED
    BY <1>6, <2>2
<1>7. CASE ~(incoming.type = "LIMIT" /\ incoming.quantity # 0)
  <2>1. DOMAIN orderMap' = DOMAIN orderMap
    BY <1>2, <1>7
  <2>2. Resting' = Resting
    BY <1>3, <1>5, <2>1 DEF ids
  <2> QED
    BY <1>7, <2>2
<1> QED
  BY <1>6, <1>7

(* restRemainder settles the call.                                         *)
LEMMA RemainderSettles ==
  ASSUME TypeOK, IndexExact, Arrivals, CanRest, TypeOK', IndexExact', restRemainder
  PROVE  Promise!Settle /\ Arrivals'
<1>1. /\ ~Idle /\ MatchingOver /\ incoming' = NoOrder /\ lastTrades' = lastTrades
  BY DEF restRemainder
<1>2. incoming \in Order /\ incoming.quantity \in Nat
  BY <1>1, IncomingTyped DEF Order
<1>3. incoming.id \notin DOMAIN orderMap /\ KeepsMap(incoming)
  BY <1>1 DEF CanRest
<1>4. /\ Keeps(DOMAIN orderMap)
      /\ IF incoming.type = "LIMIT" /\ incoming.quantity # 0
         THEN Joins(incoming.id) ELSE DOMAIN orderMap' = DOMAIN orderMap
  BY <1>3, RestRemainderById
<1>5. incoming.quantity = 0 \/ Promise!Reachable = {}
  BY <1>1, NothingReachable
<1>6. Idle'
  BY <1>1 DEF Idle
<1>7. Arrivals'
  <2>1. CASE incoming.type = "LIMIT" /\ incoming.quantity # 0
    BY <1>1, <1>3, <1>4, <1>6, <2>1, ArrivalsJoined
  <2>2. CASE ~(incoming.type = "LIMIT" /\ incoming.quantity # 0)
    BY <1>4, <1>6, <2>2, ArrivalsKept DEF Keeps
  <2> QED
    BY <2>1, <2>2
<1>8. Resting' = IF incoming.type = "LIMIT" /\ incoming.quantity # 0
                 THEN Resting \cup {incoming} ELSE Resting
  BY RestingSettled
<1> QED
  BY <1>1, <1>5, <1>7, <1>8 DEF Promise!Settle, Resting, Idle

(* cancelOrder: the order of that id leaves the book.                      *)
LEMMA RestingCancelled ==
  ASSUME TypeOK, IndexExact, TypeOK', IndexExact',
         NEW id \in OrderID, AtAnEnd(id), cancelOrder(id)
  PROVE  Resting' = {o \in Resting : o.id # id}
<1>1. DOMAIN orderMap' = DOMAIN orderMap \ {id} /\ Keeps(DOMAIN orderMap')
  BY CancelOrderById
<1>2. Resting' = {OrderAt(book, orderMap, other) : other \in DOMAIN orderMap'}
  BY <1>1, RestingAfter
<1>3. Resting = {OrderAt(book, orderMap, other) : other \in DOMAIN orderMap}
  BY RestingById DEF ById
<1>4. \A other \in DOMAIN orderMap : OrderAt(book, orderMap, other).id = other
  BY OrderAtTyped
<1> QED
  BY <1>1, <1>2, <1>3, <1>4

(* cancelOrder takes exactly the order it names.                           *)
LEMMA CancelCancels ==
  ASSUME TypeOK, IndexExact, Arrivals, TypeOK', IndexExact',
         NEW id \in OrderID, AtAnEnd(id), cancelOrder(id)
  PROVE  Promise!Cancel(id) /\ Arrivals'
<1>1. Idle /\ lastTrades' = <<>> /\ incoming' = incoming
  BY DEF cancelOrder
<1>2. DOMAIN orderMap' = DOMAIN orderMap \ {id} /\ Keeps(DOMAIN orderMap')
  BY CancelOrderById
<1>3. Resting' = {o \in Resting : o.id # id}
  BY RestingCancelled
<1>4. Arrivals'
  <2>1. Idle'
    BY <1>1 DEF Idle
  <2> QED
    BY <1>2, <2>1, ArrivalsKept DEF Keeps
<1> QED
  BY <1>1, <1>3, <1>4 DEF Promise!Cancel, Resting, Idle

(* modifyOrder amends exactly the order it names, in its place.            *)
LEMMA ModifyAmends ==
  ASSUME TypeOK, IndexExact, Arrivals, TypeOK', IndexExact',
         NEW id \in OrderID, NEW newQuantity \in Quantity, modifyOrder(id, newQuantity)
  PROVE  Promise!Amend(id, newQuantity) /\ Arrivals'
<1> DEFINE amended(o) == IF o.id = id THEN [o EXCEPT !.quantity = newQuantity] ELSE o
<1>1. Idle /\ lastTrades' = <<>> /\ incoming' = incoming
  BY DEF modifyOrder
<1>2. /\ orderMap' = orderMap /\ Keeps(DOMAIN orderMap \ {id})
      /\ id \in DOMAIN orderMap =>
           OrderAt(book', orderMap', id) = [OrderAt(book, orderMap, id) EXCEPT !.quantity = newQuantity]
  BY ModifyOrderById
<1>3. \A other \in DOMAIN orderMap :
        OrderAt(book, orderMap, other) \in Order /\ OrderAt(book, orderMap, other).id = other
  BY OrderAtTyped
<1>4. \A other \in DOMAIN orderMap :
        OrderAt(book', orderMap', other) = amended(OrderAt(book, orderMap, other))
  BY <1>2, <1>3 DEF Keeps
<1>5. Resting' = {amended(o) : o \in Resting}
  <2>1. Resting' = {OrderAt(book', orderMap', other) : other \in DOMAIN orderMap}
    BY <1>2, RestingByIdNext DEF ById
  <2>2. Resting = {OrderAt(book, orderMap, other) : other \in DOMAIN orderMap}
    BY RestingById DEF ById
  <2> HIDE DEF amended
  <2> QED
    BY <1>4, <2>1, <2>2
<1>6. Arrivals'
  <2>1. \A other \in DOMAIN orderMap :
          /\ amended(OrderAt(book, orderMap, other)).side = OrderAt(book, orderMap, other).side
          /\ amended(OrderAt(book, orderMap, other)).price = OrderAt(book, orderMap, other).price
    BY <1>3, AmendedOrder
  <2>2. Idle'
    BY <1>1 DEF Idle
  <2> HIDE DEF amended
  <2> QED
    BY <1>2, <1>4, <2>1, <2>2, ArrivalsKept
<1> QED
  BY <1>1, <1>5, <1>6 DEF Promise!Amend, Resting, Idle

(* Nothing on the book changes.                                            *)
LEMMA RestingUnchanged ==
  ASSUME UNCHANGED book
  PROVE  Resting' = Resting
BY DEF Resting, OrdersOn

(* addOrder is entered: the new order is the newest.                       *)
LEMMA AddSubmits ==
  ASSUME Arrivals, Minted, NEW order \in Submissions, submit(order)
  PROVE  Promise!Submit(order) /\ Arrivals'
<1>1. /\ Idle /\ lastTrades' = <<>> /\ incoming' = order /\ order.id = nextId
      /\ UNCHANGED <<book, orderMap>>
  BY DEF submit, addOrder
<1>2. Resting' = Resting
  BY <1>1, RestingUnchanged
<1>3. Newest'
  BY <1>1 DEF Newest, Minted
<1>4. Truthful' /\ FirstComeFirst'
  BY <1>1 DEF Arrivals, Truthful, FirstComeFirst, OrderAt
<1> QED
  BY <1>1, <1>2, <1>3, <1>4 DEF Promise!Submit, Resting, Arrivals, Idle

(* No step changes anything.                                               *)
LEMMA StutterStutters ==
  ASSUME Arrivals, UNCHANGED vars
  PROVE  UNCHANGED Promise!vars /\ Arrivals'
<1>1. UNCHANGED <<book, orderMap, lastTrades, incoming>>
  BY DEF vars, bookVars
<1>2. Resting' = Resting
  BY <1>1, RestingUnchanged
<1>3. Arrivals'
  BY <1>1 DEF Arrivals, Truthful, FirstComeFirst, Newest, OrderAt, Idle
<1> QED
  BY <1>1, <1>2, <1>3 DEF Promise!vars, Resting

-----------------------------------------------------------------------------
(* The refinement.                                                         *)

(* The empty book is the empty set of orders.                              *)
THEOREM PromiseInitially == MintingInit => RInv /\ Promise!Init
<1> SUFFICES ASSUME MintingInit PROVE RInv /\ Promise!Init
  OBVIOUS
<1>1. /\ DOMAIN orderMap = {} /\ \A side \in Side : DOMAIN book[side] = {}
      /\ Idle /\ lastTrades = <<>>
  BY DEF MintingInit, Init, Idle
<1>2. Arrivals
  BY <1>1 DEF Arrivals, Truthful, FirstComeFirst, Newest
<1>3. Resting = {}
  BY <1>1 DEF Resting, OrdersOn, Side
<1> QED
  BY <1>1, <1>2, <1>3, CarefulInitially DEF RInv, Promise!Init, Resting, Idle

(* Every step of the careful client is a step of the price-time book.      *)
THEOREM PromiseKept == RInv /\ [CarefulNext]_vars => RInv' /\ [Promise!Next]_(Promise!vars)
<1> SUFFICES ASSUME RInv, [CarefulNext]_vars PROVE RInv' /\ [Promise!Next]_(Promise!vars)
  OBVIOUS
<1>1. /\ CInv /\ Arrivals /\ CInv' /\ TypeOK /\ IndexExact /\ Minted /\ CanRest
      /\ TypeOK' /\ IndexExact'
  BY CarefulInductive DEF RInv, CInv, IInv
<1>2. ASSUME NEW order \in Submissions, submit(order)
      PROVE  Promise!Next /\ Arrivals'
  BY <1>1, <1>2, AddSubmits DEF Promise!Next
<1>3. ASSUME NEW price \in Price, fillResting(price)
      PROVE  Promise!Next /\ Arrivals'
  BY <1>1, <1>3, RestingExecutes DEF Promise!Next
<1>4. ASSUME NEW price \in Price, fillIncoming(price)
      PROVE  Promise!Next /\ Arrivals'
  BY <1>1, <1>4, IncomingExecutes DEF Promise!Next
<1>5. CASE restRemainder
  <2>1. Promise!Next /\ Arrivals'
    BY <1>1, <1>5, RemainderSettles DEF Promise!Next
  <2> QED
    BY <1>1, <2>1 DEF RInv
<1>6. ASSUME NEW id \in OrderID, AtAnEnd(id), cancelOrder(id)
      PROVE  Promise!Next /\ Arrivals'
  BY <1>1, <1>6, CancelCancels DEF Promise!Next
<1>7. ASSUME NEW id \in OrderID, NEW newQuantity \in Quantity, modifyOrder(id, newQuantity)
      PROVE  Promise!Next /\ Arrivals'
  BY <1>1, <1>7, ModifyAmends DEF Promise!Next
<1>8. CASE UNCHANGED vars
  BY <1>1, <1>8, StutterStutters DEF RInv
<1>9. CASE CarefulNext
  <2>1. (Promise!Next /\ Arrivals') \/ restRemainder
    BY <1>2, <1>3, <1>4, <1>6, <1>7, <1>9 DEF CarefulNext, Match
  <2> QED
    BY <1>1, <1>5, <2>1 DEF RInv
<1> QED
  BY <1>8, <1>9

(* For a client that mints its ids, cancels only orders at an end of their *)
(* level and lets no level outgrow the slots of its first map, the book of *)
(* levels, queues and stored iterators implements the price-time book:     *)
(* every execution goes to the resting order of the best price that came   *)
(* first, at its price and for what both sides have, and a cancel or amend *)
(* changes the order it names and no other (orderbook.cpp:26, :83, :168).  *)
THEOREM BookImplementsPriceTime == CarefulSpec => PriceTime
<1>1. MintingInit => RInv /\ Promise!Init
  BY PromiseInitially
<1>2. RInv /\ [CarefulNext]_vars => RInv' /\ [Promise!Next]_(Promise!vars)
  BY PromiseKept
<1> QED
  BY <1>1, <1>2, PTL DEF CarefulSpec, PriceTime, Promise!Spec

-----------------------------------------------------------------------------
(* What getBBO reports.                                                    *)

OnLevel(S, side, p) == {o \in S : o.side = side /\ o.price = p}

FiniteBook == IsFiniteSet(Resting) /\ \A side \in Side : IsFiniteSet(DOMAIN book[side])

(* What order x adds to the total of a level.                              *)
Share(x, side, p) == IF x.side = side /\ x.price = p THEN x.quantity ELSE 0

(* The total of the orders of S on a level.                                *)
LevelTotal(S, side, p) == Total(OnLevel(S, side, p))

(* The running total of a level is the total of the orders in it.          *)
LevelTotals ==
  \A side \in Side : \A p \in DOMAIN book[side] :
    book[side][p].quantity = LevelTotal(Resting, side, p)

(* Ids tell the orders on the book apart, and orders have quantities.      *)
LEMMA RestingTyped ==
  ASSUME TypeOK, IndexExact
  PROVE  /\ Resting \in SUBSET Order
         /\ \A o \in Resting : o.id \in DOMAIN orderMap /\ o = OrderAt(book, orderMap, o.id)
<1>1. Resting = {OrderAt(book, orderMap, id) : id \in DOMAIN orderMap}
  BY RestingById DEF ById
<1>2. \A id \in DOMAIN orderMap :
        OrderAt(book, orderMap, id) \in Order /\ OrderAt(book, orderMap, id).id = id
  BY OrderAtTyped
<1> QED
  BY <1>1, <1>2

(* Taking an order out takes its share off the total.                      *)
LEMMA TotalWithout ==
  ASSUME NEW S \in SUBSET Order, IsFiniteSet(S), NEW x \in S, NEW side, NEW p
  PROVE  /\ LevelTotal(S, side, p) \in Int /\ Share(x, side, p) \in Int
         /\ LevelTotal(S \ {x}, side, p) = LevelTotal(S, side, p) - Share(x, side, p)
<1> DEFINE T == OnLevel(S, side, p)
<1>1. T \in SUBSET S /\ \A o \in T : o.quantity \in Int
  BY DEF OnLevel, Order
<1>2. IsFiniteSet(T)
  BY <1>1, FS_Subset
<1>3. Total(T) \in Int /\ \A o \in T : Total(T) = o.quantity + Total(T \ {o})
  <2> HIDE DEF T
  <2> QED
    BY <1>1, <1>2, TotalProperties
<1>4. x.quantity \in Int
  BY DEF Order
<1>5. CASE x.side = side /\ x.price = p
  <2>1. x \in T /\ OnLevel(S \ {x}, side, p) = T \ {x}
    BY <1>5 DEF OnLevel
  <2>2. IsFiniteSet(T \ {x}) /\ \A o \in T \ {x} : o.quantity \in Int
    BY <1>1, <1>2, FS_RemoveElement
  <2>3. Total(T \ {x}) \in Int
    <3> DEFINE rest == T \ {x}
    <3> HIDE DEF rest
    <3>1. IsFiniteSet(rest) /\ \A o \in rest : o.quantity \in Int
      BY <2>2 DEF rest
    <3>2. Total(rest) \in Int
      BY <3>1, TotalProperties
    <3> QED
      BY <3>2 DEF rest
  <2>4. Share(x, side, p) = x.quantity
    BY <1>5 DEF Share
  <2>5. Total(T) = x.quantity + Total(T \ {x})
    BY <1>3, <2>1
  <2>6. LevelTotal(S, side, p) = Total(T) /\ LevelTotal(S \ {x}, side, p) = Total(T \ {x})
    BY <2>1 DEF LevelTotal
  <2> HIDE DEF T
  <2> QED
    BY <1>3, <1>4, <2>3, <2>4, <2>5, <2>6
<1>6. CASE ~(x.side = side /\ x.price = p)
  <2>1. OnLevel(S \ {x}, side, p) = T
    BY <1>6 DEF OnLevel
  <2>2. Share(x, side, p) = 0
    BY <1>6 DEF Share
  <2>3. LevelTotal(S, side, p) = Total(T) /\ LevelTotal(S \ {x}, side, p) = Total(T)
    BY <2>1 DEF LevelTotal
  <2> HIDE DEF T
  <2> QED
    BY <1>3, <2>2, <2>3
<1> QED
  BY <1>5, <1>6

(* Adding one adds it.                                                     *)
LEMMA TotalWith ==
  ASSUME NEW S \in SUBSET Order, IsFiniteSet(S), NEW x \in Order, x \notin S, NEW side, NEW p
  PROVE  /\ LevelTotal(S, side, p) \in Int /\ Share(x, side, p) \in Int
         /\ LevelTotal(S \cup {x}, side, p) = LevelTotal(S, side, p) + Share(x, side, p)
<1> DEFINE both == S \cup {x}
<1>1. both \in SUBSET Order /\ IsFiniteSet(both) /\ x \in both /\ both \ {x} = S
  BY FS_AddElement
<1> HIDE DEF both
<1>2. /\ LevelTotal(both, side, p) \in Int /\ Share(x, side, p) \in Int
      /\ LevelTotal(both \ {x}, side, p) = LevelTotal(both, side, p) - Share(x, side, p)
  BY <1>1, TotalWithout
<1>3. LevelTotal(S, side, p) = LevelTotal(both, side, p) - Share(x, side, p)
  BY <1>1, <1>2
<1>4. LevelTotal(both, side, p) = LevelTotal(S, side, p) + Share(x, side, p)
  BY <1>2, <1>3
<1> QED
  BY <1>2, <1>3, <1>4 DEF both

(* Resizing an order moves the total of its level by the difference.       *)
LEMMA TotalAmended ==
  ASSUME NEW S \in SUBSET Order, IsFiniteSet(S), NEW x \in S, NEW y \in Order, y \notin S \ {x},
         y.side = x.side, y.price = x.price, NEW side, NEW p
  PROVE  /\ LevelTotal(S, side, p) \in Int
         /\ LevelTotal((S \ {x}) \cup {y}, side, p)
              = LevelTotal(S, side, p) + (IF x.side = side /\ x.price = p
                                          THEN y.quantity - x.quantity ELSE 0)
<1> DEFINE rest == S \ {x}
<1>1. rest \in SUBSET Order /\ IsFiniteSet(rest) /\ y \notin rest
  BY FS_RemoveElement
<1>2. /\ LevelTotal(S, side, p) \in Int /\ Share(x, side, p) \in Int
      /\ LevelTotal(rest, side, p) = LevelTotal(S, side, p) - Share(x, side, p)
  BY TotalWithout
<1> HIDE DEF rest
<1>3. /\ Share(y, side, p) \in Int
      /\ LevelTotal(rest \cup {y}, side, p) = LevelTotal(rest, side, p) + Share(y, side, p)
  BY <1>1, TotalWith
<1>4. x.quantity \in Int /\ y.quantity \in Int
  BY DEF Order
<1>5. LevelTotal(rest \cup {y}, side, p)
        = LevelTotal(S, side, p) + (IF x.side = side /\ x.price = p
                                    THEN y.quantity - x.quantity ELSE 0)
  BY <1>2, <1>3, <1>4 DEF Share
<1> QED
  BY <1>2, <1>5 DEF rest

(* On the book, the order of an entry: what a level keeps of it.           *)
LEMMA OnTheBook ==
  ASSUME TypeOK, IndexExact, Arrivals, NEW id \in DOMAIN orderMap
  PROVE  LET o == OrderAt(book, orderMap, id)
         IN /\ o \in Resting /\ o \in Order /\ o.quantity \in Nat
            /\ o.side = orderMap[id].side /\ o.price = orderMap[id].price
            /\ {other \in Resting : other.id # id} = Resting \ {o}
            /\ \A y \in Order : y.id = id => y \notin Resting \ {o}
<1> DEFINE o == OrderAt(book, orderMap, id)
<1>1. o \in Resting /\ o \in Order /\ o.id = id /\ o.side = orderMap[id].side /\ o.price = orderMap[id].price
  BY EntryOrder
<1>2. \A other \in Resting : other = OrderAt(book, orderMap, other.id)
  BY RestingTyped
<1>3. o.quantity \in Nat
  BY <1>1 DEF Order
<1> QED
  BY <1>1, <1>2, <1>3

(* No order rests on a level that does not exist.                          *)
LEMMA NoLevelNoOrders ==
  ASSUME TypeOK, IndexExact, Arrivals, NEW side, NEW p, p \notin DOMAIN book[side]
  PROVE  LevelTotal(Resting, side, p) = 0
<1>1. ASSUME NEW o \in Resting, o.side = side, o.price = p
      PROVE  FALSE
  <2>1. PICK id \in DOMAIN orderMap : o = OrderAt(book, orderMap, id)
    BY RestingById DEF ById
  <2>2. orderMap[id].side = side /\ orderMap[id].price = p
    BY <1>1, <2>1, EntryOrder
  <2> QED
    BY <2>2, EntryLeads
<1>2. OnLevel(Resting, side, p) = {}
  BY <1>1 DEF OnLevel
<1>3. IsFiniteSet({}) /\ \A o \in {} : o.quantity \in Int
  BY FS_EmptySet
<1>4. Total({}) = 0
  BY <1>3, TotalProperties
<1> QED
  BY <1>2, <1>4 DEF LevelTotal

(* A step that stores one level whose total moves by delta, as the total   *)
(* of the orders on that level does and no other.                          *)
Moved(side, price, level, delta) ==
  /\ book' = [book EXCEPT ![side][price] = level]
  /\ level.quantity = book[side][price].quantity + delta
  /\ \A s \in Side, p \in Price :
       /\ LevelTotal(Resting, s, p) \in Int
       /\ LevelTotal(Resting', s, p)
            = LevelTotal(Resting, s, p) + (IF s = side /\ p = price THEN delta ELSE 0)

LEMMA MovedTotals ==
  ASSUME TypeOK, LevelTotals, NEW side \in Side, NEW price \in DOMAIN book[side],
         NEW level, NEW delta \in Int, Moved(side, price, level, delta)
  PROVE  LevelTotals' /\ \A s \in Side : DOMAIN book'[s] = DOMAIN book[s]
<1>1. DOMAIN book = Side /\ \A s \in Side : DOMAIN book[s] \subseteq Price
  BY DEF TypeOK, BookTyped
<1>2. book' = [book EXCEPT ![side][price] = level]
  BY DEF Moved
<1>3. \A s \in Side : DOMAIN book'[s] = DOMAIN book[s]
  BY <1>1, <1>2
<1>4. ASSUME NEW s \in Side, NEW p \in DOMAIN book'[s]
      PROVE  book'[s][p].quantity = LevelTotal(Resting', s, p)
  <2>1. p \in DOMAIN book[s] /\ p \in Price
    BY <1>1, <1>3
  <2>2. /\ LevelTotal(Resting, s, p) \in Int
        /\ LevelTotal(Resting', s, p)
            = LevelTotal(Resting, s, p) + (IF s = side /\ p = price THEN delta ELSE 0)
    BY <2>1 DEF Moved
  <2>3. book[s][p].quantity = LevelTotal(Resting, s, p)
    BY <2>1 DEF LevelTotals
  <2>4. CASE s = side /\ p = price
    <3>1. book'[s][p].quantity = book[s][p].quantity + delta
      BY <1>1, <1>2, <2>1, <2>4 DEF Moved
    <3> QED
      BY <2>2, <2>3, <2>4, <3>1
  <2>5. CASE ~(s = side /\ p = price)
    <3>1. book'[s][p] = book[s][p]
      BY <1>1, <1>2, <2>1, <2>5
    <3> QED
      BY <2>2, <2>3, <2>5, <3>1
  <2> QED
    BY <2>4, <2>5
<1> QED
  BY <1>3, <1>4 DEF LevelTotals

(* traversePriceLevel, else branch.                                        *)
LEMMA FillRestingTotals ==
  ASSUME TypeOK, IndexExact, Arrivals, FiniteBook, LevelTotals, TypeOK', IndexExact',
         NEW price \in Price, fillResting(price)
  PROVE  FiniteBook' /\ LevelTotals'
<1> DEFINE level == book[Contra][price]
           curr  == Front(level.orders)
           left  == Consume(level)
           id    == curr.id
           delta == 0 - curr.quantity
<1>1. /\ Contra \in Side /\ price \in DOMAIN book[Contra] /\ ~IsEmpty(level.orders)
  BY Traversed DEF fillResting
<1>2. /\ id \in DOMAIN orderMap /\ orderMap[id].side = Contra /\ orderMap[id].price = price
      /\ OrderAt(book, orderMap, id) = curr
  BY <1>1, FrontById
<1>3. Resting' = Resting \ {curr} /\ book' = [book EXCEPT ![Contra][price] = left]
  BY <1>1, RestingConsumed DEF fillResting
<1>4. left.quantity = level.quantity - curr.quantity /\ level.quantity \in Int
  BY <1>1 DEF Consume, TypeOK, BookTyped, Level
<1> HIDE DEF id
<1>5. curr \in Resting /\ curr.side = Contra /\ curr.price = price /\ curr.quantity \in Nat
  BY <1>2, OnTheBook
<1>6. Resting \in SUBSET Order /\ IsFiniteSet(Resting)
  BY RestingTyped DEF FiniteBook
<1> HIDE DEF curr, left, level
<1>7. \A s, p : /\ LevelTotal(Resting, s, p) \in Int /\ Share(curr, s, p) \in Int
                /\ LevelTotal(Resting \ {curr}, s, p) = LevelTotal(Resting, s, p) - Share(curr, s, p)
  BY <1>5, <1>6, TotalWithout
<1>8. \A s, p : Share(curr, s, p) = IF s = Contra /\ p = price THEN curr.quantity ELSE 0
  BY <1>5 DEF Share
<1>9. delta \in Int /\ left.quantity = level.quantity + delta
  BY <1>4, <1>5
<1>10. ASSUME NEW s, NEW p
       PROVE  LevelTotal(Resting', s, p)
                = LevelTotal(Resting, s, p) + (IF s = Contra /\ p = price THEN delta ELSE 0)
  <2>1. /\ LevelTotal(Resting, s, p) \in Int
        /\ LevelTotal(Resting', s, p)
             = LevelTotal(Resting, s, p) - (IF s = Contra /\ p = price THEN curr.quantity ELSE 0)
    BY <1>3, <1>7, <1>8
  <2> QED
    BY <1>5, <2>1
<1> HIDE DEF delta
<1>11. Moved(Contra, price, left, delta)
  BY <1>3, <1>7, <1>9, <1>10 DEF Moved, level
<1>12. LevelTotals' /\ \A s \in Side : DOMAIN book'[s] = DOMAIN book[s]
  BY <1>1, <1>9, <1>11, MovedTotals
<1>13. IsFiniteSet(Resting')
  BY <1>3, <1>6, FS_RemoveElement
<1> QED
  BY <1>12, <1>13 DEF FiniteBook

(* One order is given quantity q where it stands, and its level's total    *)
(* the difference.                                                         *)
Amends(id, q, side, price, level) ==
  /\ orderMap[id].side = side /\ orderMap[id].price = price
  /\ Resting' = (Resting \ {OrderAt(book, orderMap, id)})
                  \cup {[OrderAt(book, orderMap, id) EXCEPT !.quantity = q]}
  /\ book' = [book EXCEPT ![side][price] = level]
  /\ level.quantity = book[side][price].quantity + (q - OrderAt(book, orderMap, id).quantity)

LEMMA AmendsTotals ==
  ASSUME TypeOK, IndexExact, Arrivals, FiniteBook, LevelTotals,
         NEW side \in Side, NEW price \in DOMAIN book[side],
         NEW id \in DOMAIN orderMap, NEW q \in Nat, NEW level, Amends(id, q, side, price, level)
  PROVE  FiniteBook' /\ LevelTotals'
<1> DEFINE o     == OrderAt(book, orderMap, id)
           new   == [o EXCEPT !.quantity = q]
           delta == q - o.quantity
<1>1. /\ o \in Resting /\ o \in Order /\ o.quantity \in Nat /\ o.side = side /\ o.price = price
      /\ \A y \in Order : y.id = id => y \notin Resting \ {o}
  BY OnTheBook DEF Amends
<1>2. /\ Resting' = (Resting \ {o}) \cup {new}
      /\ book' = [book EXCEPT ![side][price] = level]
      /\ level.quantity = book[side][price].quantity + delta
  BY DEF Amends
<1>3. Resting \in SUBSET Order /\ IsFiniteSet(Resting)
  BY RestingTyped DEF FiniteBook
<1>4. o.id = id
  BY OrderAtTyped
<1> HIDE DEF o
<1>5. new \in Order /\ new.side = side /\ new.price = price /\ new.quantity = q /\ new.id = id
  BY <1>1, <1>4 DEF Order
<1>6. new \notin Resting \ {o}
  BY <1>1, <1>5
<1> HIDE DEF new
<1>7. \A s, p : /\ LevelTotal(Resting, s, p) \in Int
                /\ LevelTotal((Resting \ {o}) \cup {new}, s, p)
                     = LevelTotal(Resting, s, p) + (IF o.side = s /\ o.price = p
                                                    THEN new.quantity - o.quantity ELSE 0)
  BY <1>1, <1>3, <1>5, <1>6, TotalAmended
<1>8. \A s, p : LevelTotal(Resting', s, p)
                  = LevelTotal(Resting, s, p) + (IF s = side /\ p = price THEN delta ELSE 0)
  BY <1>1, <1>2, <1>5, <1>7
<1>9. delta \in Int
  BY <1>1
<1> HIDE DEF delta
<1>10. Moved(side, price, level, delta)
  BY <1>2, <1>7, <1>8 DEF Moved
<1>11. LevelTotals' /\ \A s \in Side : DOMAIN book'[s] = DOMAIN book[s]
  BY <1>9, <1>10, MovedTotals
<1>12. IsFiniteSet(Resting')
  <2>1. IsFiniteSet(Resting \ {o})
    BY <1>3, FS_RemoveElement
  <2> DEFINE rest == Resting \ {o}
  <2> HIDE DEF rest
  <2>2. IsFiniteSet(rest \cup {new})
    BY <2>1, FS_AddElement DEF rest
  <2> QED
    BY <1>2, <2>2 DEF rest
<1> QED
  BY <1>11, <1>12 DEF FiniteBook

(* traversePriceLevel, first branch.                                       *)
LEMMA FillIncomingTotals ==
  ASSUME TypeOK, IndexExact, Arrivals, FiniteBook, LevelTotals, TypeOK', IndexExact',
         NEW price \in Price, fillIncoming(price)
  PROVE  FiniteBook' /\ LevelTotals'
<1> DEFINE level == book[Contra][price]
           curr  == Front(level.orders)
           left  == Reduce(level, incoming.quantity)
           id    == curr.id
           q     == curr.quantity - incoming.quantity
<1>1. /\ Contra \in Side /\ price \in DOMAIN book[Contra] /\ ~IsEmpty(level.orders)
      /\ incoming \in Order
  BY Traversed DEF fillIncoming
<1>2. /\ id \in DOMAIN orderMap /\ orderMap[id].side = Contra /\ orderMap[id].price = price
      /\ OrderAt(book, orderMap, id) = curr /\ curr \in Order
  BY <1>1, FrontById
<1>3. /\ Resting' = (Resting \ {curr}) \cup {[curr EXCEPT !.quantity = q]}
      /\ book' = [book EXCEPT ![Contra][price] = left]
      /\ curr.quantity > incoming.quantity
  BY <1>1, RestingReduced DEF fillIncoming
<1>4. curr.quantity \in Nat /\ incoming.quantity \in Nat
  BY <1>1, <1>2 DEF Order
<1>5. left.quantity = level.quantity - incoming.quantity /\ level.quantity \in Int
  BY <1>1 DEF Reduce, TypeOK, BookTyped, Level
<1> HIDE DEF left, level, curr, id
<1>6. q \in Nat /\ left.quantity = level.quantity + (q - curr.quantity)
  BY <1>3, <1>4, <1>5
<1> HIDE DEF q
<1>7. Amends(id, q, Contra, price, left)
  BY <1>2, <1>3, <1>6 DEF Amends, level
<1> QED
  BY <1>1, <1>2, <1>6, <1>7, AmendsTotals

(* modifyOrder.                                                            *)
LEMMA ModifyOrderTotals ==
  ASSUME TypeOK, IndexExact, Arrivals, FiniteBook, LevelTotals, TypeOK', IndexExact',
         NEW id \in OrderID, NEW newQuantity \in Quantity, modifyOrder(id, newQuantity)
  PROVE  FiniteBook' /\ LevelTotals'
<1>1. CASE id \notin DOMAIN orderMap
  <2>1. book' = book
    BY <1>1 DEF modifyOrder
  <2> QED
    BY <2>1, RestingUnchanged DEF FiniteBook, LevelTotals
<1>2. CASE id \in DOMAIN orderMap
  <2> DEFINE side    == orderMap[id].side
             price   == orderMap[id].price
             level   == book[side][price]
             pos     == orderMap[id].iterator.slot
             amended == [orders   |-> Resize(level.orders, pos, newQuantity),
                         quantity |-> level.quantity
                                      + (newQuantity - level.orders.slots[pos].quantity)]
  <2>1. /\ side \in Side /\ price \in DOMAIN book[side]
        /\ ReadThrough(level.orders, orderMap[id].iterator) = {pos}
    BY <1>2, EntryLeads
  <2>2. DOMAIN book = Side
    BY DEF TypeOK, BookTyped
  <2>3. book' = [book EXCEPT ![side][price] = amended]
    BY <1>2, <2>1, <2>2 DEF modifyOrder
  <2>4. OrderAt(book, orderMap, id) = level.orders.slots[pos]
    BY DEF OrderAt
  <2>5. /\ orderMap' = orderMap /\ Keeps(DOMAIN orderMap \ {id})
        /\ OrderAt(book', orderMap', id) = [OrderAt(book, orderMap, id) EXCEPT !.quantity = newQuantity]
    BY <1>2, ModifyOrderById
  <2>6. Resting' = (Resting \ {OrderAt(book, orderMap, id)})
                     \cup {[OrderAt(book, orderMap, id) EXCEPT !.quantity = newQuantity]}
    BY <1>2, <2>5, RestingAmended
  <2>7. amended.quantity = level.quantity + (newQuantity - OrderAt(book, orderMap, id).quantity)
    BY <2>4
  <2> HIDE DEF amended
  <2>8. Amends(id, newQuantity, side, price, amended)
    BY <2>3, <2>6, <2>7 DEF Amends
  <2>9. newQuantity \in Nat
    BY TypesAssumption
  <2> HIDE DEF side, price
  <2> QED
    BY <1>2, <2>1, <2>8, <2>9, AmendsTotals
<1> QED
  BY <1>1, <1>2

(* cancelOrder takes the order's quantity off its level, or the level off  *)
(* the book.                                                               *)
LEMMA CancelOrderTotals ==
  ASSUME TypeOK, IndexExact, Arrivals, FiniteBook, LevelTotals, TypeOK', IndexExact',
         NEW id \in OrderID, AtAnEnd(id), cancelOrder(id)
  PROVE  FiniteBook' /\ LevelTotals'
<1>1. CASE id \notin DOMAIN orderMap
  <2>1. book' = book
    BY <1>1 DEF cancelOrder
  <2> QED
    BY <2>1, RestingUnchanged DEF FiniteBook, LevelTotals
<1>2. CASE id \in DOMAIN orderMap
  <2> DEFINE side  == orderMap[id].side
             price == orderMap[id].price
             level == book[side][price]
             pos   == orderMap[id].iterator.slot
             o     == OrderAt(book, orderMap, id)
             left  == [orders   |-> Erase(level.orders, pos),
                       quantity |-> level.quantity - level.orders.slots[pos].quantity]
             delta == 0 - o.quantity
  <2>1. /\ side \in Side /\ price \in DOMAIN book[side]
        /\ ReadThrough(level.orders, orderMap[id].iterator) = {pos}
        /\ EraseAt(level.orders, orderMap[id].iterator) = {pos}
    BY <1>2, EntryLeads
  <2>2. DOMAIN book = Side /\ level.quantity \in Int /\ \A s \in Side : DOMAIN book[s] \subseteq Price
    BY <2>1 DEF TypeOK, BookTyped, Level
  <2>3. book' = StoreOrDrop(side, price, left)
    BY <1>2, <2>1 DEF cancelOrder
  <2>4. /\ o \in Resting /\ o.quantity \in Nat /\ o.side = side /\ o.price = price
        /\ {other \in Resting : other.id # id} = Resting \ {o}
    BY <1>2, OnTheBook
  <2>5. Resting' = Resting \ {o}
    BY <2>4, RestingCancelled
  <2>6. Resting \in SUBSET Order /\ IsFiniteSet(Resting)
    BY RestingTyped DEF FiniteBook
  <2>7. left.quantity = level.quantity - o.quantity
    BY DEF OrderAt
  <2> HIDE DEF o, left, level, side, price
  <2>8. delta \in Int /\ left.quantity = level.quantity + delta
    BY <2>2, <2>4, <2>7
  <2>9. ASSUME NEW s, NEW p
        PROVE  /\ LevelTotal(Resting, s, p) \in Int
               /\ LevelTotal(Resting', s, p)
                    = LevelTotal(Resting, s, p) + (IF s = side /\ p = price THEN delta ELSE 0)
    <3>1. /\ LevelTotal(Resting, s, p) \in Int
          /\ LevelTotal(Resting', s, p) = LevelTotal(Resting, s, p) - Share(o, s, p)
      BY <2>4, <2>5, <2>6, TotalWithout
    <3>2. Share(o, s, p) = IF s = side /\ p = price THEN o.quantity ELSE 0
      BY <2>4 DEF Share
    <3> QED
      BY <2>4, <3>1, <3>2
  <2> HIDE DEF delta
  <2>10. IsFiniteSet(Resting')
    BY <2>5, <2>6, FS_RemoveElement
  <2>11. CASE ~IsEmpty(left.orders)
    <3>1. Moved(side, price, left, delta)
      BY <2>3, <2>8, <2>9, <2>11 DEF Moved, StoreOrDrop, level
    <3>2. LevelTotals' /\ \A s \in Side : DOMAIN book'[s] = DOMAIN book[s]
      BY <2>1, <2>8, <3>1, MovedTotals
    <3> QED
      BY <2>10, <3>2 DEF FiniteBook
  <2>12. CASE IsEmpty(left.orders)
    <3>1. book' = [book EXCEPT ![side] = Without(@, {price})]
      BY <2>3, <2>12 DEF StoreOrDrop
    <3>2. ASSUME NEW s \in Side
          PROVE  /\ DOMAIN book'[s] \subseteq DOMAIN book[s]
                 /\ \A p \in DOMAIN book'[s] :
                      book'[s][p] = book[s][p] /\ ~(s = side /\ p = price)
      BY <2>1, <2>2, <3>1 DEF Without
    <3>3. ASSUME NEW s \in Side, NEW p \in DOMAIN book'[s]
          PROVE  book'[s][p].quantity = LevelTotal(Resting', s, p)
      <4>1. LevelTotal(Resting, s, p) \in Int /\ LevelTotal(Resting', s, p) = LevelTotal(Resting, s, p) + 0
        BY <2>9, <3>2
      <4>2. p \in DOMAIN book[s] /\ book'[s][p] = book[s][p]
        BY <3>2
      <4>3. book[s][p].quantity = LevelTotal(Resting, s, p)
        BY <4>2 DEF LevelTotals
      <4> QED
        BY <4>1, <4>2, <4>3
    <3>4. \A s \in Side : IsFiniteSet(DOMAIN book'[s])
      BY <3>2, FS_Subset DEF FiniteBook
    <3> QED
      BY <2>10, <3>3, <3>4 DEF FiniteBook, LevelTotals
  <2> QED
    BY <2>11, <2>12
<1> QED
  BY <1>1, <1>2

(* The rest of addOrder adds the order's quantity to its level.            *)
LEMMA RestRemainderTotals ==
  ASSUME TypeOK, IndexExact, Arrivals, CanRest, FiniteBook, LevelTotals, TypeOK', IndexExact',
         restRemainder
  PROVE  FiniteBook' /\ LevelTotals'
<1> DEFINE side  == incoming.side
           price == incoming.price
           kept  == Without(book[Contra], EmptyFront(Contra))
           level == LevelAt(side, price)
           added == [orders   |-> PushBack(level.orders, incoming),
                     quantity |-> level.quantity + incoming.quantity]
<1>1. /\ incoming \in Order /\ Contra \in Side /\ Contra # side /\ side \in Side
      /\ incoming.quantity \in Nat /\ DOMAIN book = Side
      /\ \A s \in Side : s = Contra \/ s = side
  BY IncomingTyped DEF restRemainder, Order, TypeOK, BookTyped, Side
<1>2. Resting \in SUBSET Order /\ IsFiniteSet(Resting) /\ incoming \notin Resting
  BY RestingTyped DEF FiniteBook, CanRest, restRemainder
<1>3. DOMAIN kept \subseteq DOMAIN book[Contra] /\ \A p \in DOMAIN kept : kept[p] = book[Contra][p]
  BY DEF Without
<1>4. CASE incoming.type = "LIMIT" /\ incoming.quantity # 0
  <2>1. book' = [book EXCEPT ![Contra] = kept, ![side] = With(@, price, added)]
    BY <1>4 DEF restRemainder
  <2>2. Resting' = Resting \cup {incoming}
    BY <1>4, RestingSettled
  <2>3. added.quantity = level.quantity + incoming.quantity
    OBVIOUS
  <2>4. level.quantity = LevelTotal(Resting, side, price)
    <3>1. CASE price \in DOMAIN book[side]
      BY <1>1, <3>1 DEF LevelAt, LevelTotals
    <3>2. CASE price \notin DOMAIN book[side]
      <4>1. level.quantity = 0
        BY <3>2 DEF LevelAt, EmptyLevel
      <4> HIDE DEF level, side, price
      <4>2. LevelTotal(Resting, side, price) = 0
        BY <3>2, NoLevelNoOrders
      <4> QED
        BY <4>1, <4>2
    <3> QED
      BY <3>1, <3>2
  <2> HIDE DEF kept, added, level
  <2>5. book'[Contra] = kept /\ book'[side] = With(book[side], price, added)
    BY <1>1, <2>1
  <2>6. /\ DOMAIN book'[side] = DOMAIN book[side] \cup {price}
        /\ book'[side][price] = added
        /\ \A p \in DOMAIN book[side] : p # price => book'[side][p] = book[side][p]
    BY <2>5 DEF With
  <2>7. ASSUME NEW s, NEW p
        PROVE  /\ LevelTotal(Resting, s, p) \in Int
               /\ LevelTotal(Resting', s, p)
                    = LevelTotal(Resting, s, p)
                        + (IF s = side /\ p = price THEN incoming.quantity ELSE 0)
    <3>1. /\ LevelTotal(Resting, s, p) \in Int
          /\ LevelTotal(Resting', s, p) = LevelTotal(Resting, s, p) + Share(incoming, s, p)
      BY <1>1, <1>2, <2>2, TotalWith
    <3> QED
      BY <3>1 DEF Share
  <2> HIDE DEF side, price
  <2>8. ASSUME NEW p \in DOMAIN book'[Contra]
        PROVE  book'[Contra][p].quantity = LevelTotal(Resting', Contra, p)
    <3>1. p \in DOMAIN book[Contra] /\ book'[Contra][p] = book[Contra][p]
      BY <1>3, <2>5
    <3>2. book[Contra][p].quantity = LevelTotal(Resting, Contra, p)
      BY <1>1, <3>1 DEF LevelTotals
    <3>3. LevelTotal(Resting, Contra, p) \in Int /\ LevelTotal(Resting', Contra, p) = LevelTotal(Resting, Contra, p) + 0
      BY <1>1, <2>7
    <3> QED
      BY <3>1, <3>2, <3>3
  <2>9. ASSUME NEW p \in DOMAIN book'[side]
        PROVE  book'[side][p].quantity = LevelTotal(Resting', side, p)
    <3>1. CASE p = price
      <4>1. LevelTotal(Resting', side, price) = LevelTotal(Resting, side, price) + incoming.quantity
        BY <2>7
      <4> QED
        BY <2>3, <2>4, <2>6, <3>1, <4>1
    <3>2. CASE p # price
      <4>1. p \in DOMAIN book[side] /\ book'[side][p] = book[side][p]
        BY <2>6, <3>2
      <4>2. book[side][p].quantity = LevelTotal(Resting, side, p)
        BY <1>1, <4>1 DEF LevelTotals
      <4>3. LevelTotal(Resting, side, p) \in Int /\ LevelTotal(Resting', side, p) = LevelTotal(Resting, side, p) + 0
        BY <2>7, <3>2
      <4> QED
        BY <4>1, <4>2, <4>3
    <3> QED
      BY <3>1, <3>2
  <2>10. LevelTotals'
    BY <1>1, <2>8, <2>9 DEF LevelTotals
  <2>11. IsFiniteSet(Resting')
    BY <1>2, <2>2, FS_AddElement
  <2>12. IsFiniteSet(DOMAIN book'[Contra])
    BY <1>1, <1>3, <2>5, FS_Subset DEF FiniteBook
  <2>13. IsFiniteSet(DOMAIN book'[side])
    <3> DEFINE prices == DOMAIN book[side]
    <3>1. IsFiniteSet(prices)
      BY <1>1 DEF FiniteBook
    <3> HIDE DEF prices
    <3>2. IsFiniteSet(prices \cup {price})
      BY <3>1, FS_AddElement
    <3> QED
      BY <2>6, <3>2 DEF prices
  <2> QED
    BY <1>1, <2>10, <2>11, <2>12, <2>13 DEF FiniteBook
<1>5. CASE ~(incoming.type = "LIMIT" /\ incoming.quantity # 0)
  <2>1. book' = [book EXCEPT ![Contra] = kept]
    BY <1>5 DEF restRemainder
  <2>2. Resting' = Resting
    BY <1>5, RestingSettled
  <2> HIDE DEF kept
  <2>3. book'[Contra] = kept /\ book'[side] = book[side]
    BY <1>1, <2>1
  <2>4. ASSUME NEW s \in Side
        PROVE  /\ DOMAIN book'[s] \subseteq DOMAIN book[s]
               /\ \A p \in DOMAIN book'[s] : book'[s][p] = book[s][p]
    BY <1>1, <1>3, <2>3
  <2>5. LevelTotals'
    BY <2>2, <2>4 DEF LevelTotals
  <2>6. \A s \in Side : IsFiniteSet(DOMAIN book'[s])
    BY <2>4, FS_Subset DEF FiniteBook
  <2> QED
    BY <2>2, <2>5, <2>6 DEF FiniteBook
<1> QED
  BY <1>4, <1>5

(* The invariant of what getBBO reports.                                   *)
TInv == RInv /\ FiniteBook /\ LevelTotals

(* The empty book satisfies it.                                            *)
THEOREM TotalsInitially == MintingInit => TInv
<1> SUFFICES ASSUME MintingInit PROVE TInv
  OBVIOUS
<1>1. \A side \in Side : DOMAIN book[side] = {}
  BY DEF MintingInit, Init
<1>2. Resting = {}
  BY <1>1 DEF Resting, OrdersOn, Side
<1>3. FiniteBook /\ LevelTotals
  BY <1>1, <1>2, FS_EmptySet DEF FiniteBook, LevelTotals
<1> QED
  BY <1>3, PromiseInitially DEF TInv

(* Every step of the careful client preserves it.                          *)
THEOREM TotalsInductive == TInv /\ [CarefulNext]_vars => TInv'
<1> SUFFICES ASSUME TInv, [CarefulNext]_vars PROVE TInv'
  OBVIOUS
<1>1. /\ RInv /\ RInv' /\ TypeOK /\ IndexExact /\ Arrivals /\ CanRest /\ FiniteBook /\ LevelTotals
      /\ TypeOK' /\ IndexExact'
  BY PromiseKept DEF TInv, RInv, CInv, IInv
<1>2. ASSUME book' = book
      PROVE  FiniteBook' /\ LevelTotals'
  BY <1>1, <1>2, RestingUnchanged DEF FiniteBook, LevelTotals
<1>3. ASSUME NEW order \in Submissions, submit(order)
      PROVE  FiniteBook' /\ LevelTotals'
  BY <1>2, <1>3 DEF submit, addOrder
<1>4. ASSUME Match
      PROVE  FiniteBook' /\ LevelTotals'
  <2>1. ASSUME NEW price \in Price, fillResting(price)
        PROVE  FiniteBook' /\ LevelTotals'
    BY <1>1, <2>1, FillRestingTotals
  <2>2. ASSUME NEW price \in Price, fillIncoming(price)
        PROVE  FiniteBook' /\ LevelTotals'
    BY <1>1, <2>2, FillIncomingTotals
  <2>3. ASSUME restRemainder
        PROVE  FiniteBook' /\ LevelTotals'
    BY <1>1, <2>3, RestRemainderTotals
  <2> QED
    BY <1>4, <2>1, <2>2, <2>3 DEF Match
<1>5. ASSUME NEW id \in OrderID, AtAnEnd(id), cancelOrder(id)
      PROVE  FiniteBook' /\ LevelTotals'
  BY <1>1, <1>5, CancelOrderTotals
<1>6. ASSUME NEW id \in OrderID, NEW newQuantity \in Quantity, modifyOrder(id, newQuantity)
      PROVE  FiniteBook' /\ LevelTotals'
  BY <1>1, <1>6, ModifyOrderTotals
<1>7. FiniteBook' /\ LevelTotals'
  BY <1>2, <1>3, <1>4, <1>5, <1>6 DEF CarefulNext, vars, bookVars
<1> QED
  BY <1>1, <1>7 DEF TInv

(* The order in a live slot of a level is on its side of the book.         *)
LEMMA InOrders ==
  ASSUME NEW side, NEW p \in DOMAIN book[side], NEW i \in Live(book[side][p].orders)
  PROVE  book[side][p].orders.slots[i] \in OrdersOn(side)
BY DEF OrdersOn

(* Between calls the invariant says what getBBO reports.                   *)
LEMMA TotalsExact ==
  ASSUME TInv, Idle
  PROVE  TopOfBookExact
<1>1. /\ TypeOK /\ IndexExact /\ HusksAtFront /\ Arrivals /\ FiniteBook /\ LevelTotals
  BY DEF TInv, RInv, CInv, IInv
<1> SUFFICES ASSUME NEW side \in Side
             PROVE  LET orders == OrdersOn(side)
                        quote  == Quote(side)
                        top    == {o \in orders : o.price = quote.price}
                    IN IF orders = {} THEN quote = [price |-> Absent, quantity |-> Absent]
                       ELSE /\ top # {}
                            /\ \A o \in orders : ~Better(side, o.price, quote.price)
                            /\ quote.quantity = Total(top)
  BY DEF TopOfBookExact, Total
<1> DEFINE orders == OrdersOn(side)
           quote  == Quote(side)
           top    == {o \in orders : o.price = quote.price}
<1>2. ASSUME NEW o \in Resting
      PROVE  /\ o.side \in Side /\ o.price \in DOMAIN book[o.side]
             /\ o \in OrdersOn(o.side) /\ \A s \in Side : o \in OrdersOn(s) => s = o.side
  <2>1. PICK id \in DOMAIN orderMap : o = OrderAt(book, orderMap, id)
    BY <1>1, RestingById DEF ById
  <2>2. o.side = orderMap[id].side /\ o.price = orderMap[id].price /\ o.id = id
    BY <1>1, <2>1, EntryOrder
  <2>3. o.side \in Side /\ o.price \in DOMAIN book[o.side]
    BY <1>1, <2>2, EntryLeads
  <2>4. orderMap[id].iterator.slot \in Live(book[o.side][o.price].orders)
    BY <1>1, <2>2, EntryLeads
  <2>5. o \in OrdersOn(o.side)
    <3> DEFINE s == o.side
               q == o.price
               i == orderMap[id].iterator.slot
    <3>1. q \in DOMAIN book[s] /\ i \in Live(book[s][q].orders) /\ o = book[s][q].orders.slots[i]
      BY <2>1, <2>2, <2>3, <2>4 DEF OrderAt
    <3> HIDE DEF s, q, i
    <3>2. book[s][q].orders.slots[i] \in OrdersOn(s)
      BY <3>1, InOrders
    <3> QED
      BY <3>1, <3>2 DEF s
  <2>6. ASSUME NEW s \in Side, o \in OrdersOn(s)
        PROVE  s = o.side
    <3>1. PICK p \in DOMAIN book[s] : \E i \in Live(book[s][p].orders) : o = book[s][p].orders.slots[i]
      BY <2>6 DEF OrdersOn
    <3>2. PICK i \in Live(book[s][p].orders) : o = book[s][p].orders.slots[i]
      BY <3>1
    <3>3. Indexed(s, p, i)
      BY <1>1 DEF IndexExact
    <3> QED
      BY <2>2, <3>2, <3>3 DEF Indexed
  <2> QED
    BY <2>3, <2>5, <2>6
<1>3. ASSUME NEW o \in orders
      PROVE  o \in Resting /\ o.side = side /\ o.price \in DOMAIN book[side]
  BY <1>2 DEF Resting, Side
<1>4. ASSUME NEW p \in DOMAIN book[side]
      PROVE  \E o \in orders : o.price = p
  <2> DEFINE d == book[side][p].orders
  <2>1. ~IsEmpty(d)
    BY <1>1 DEF HusksAtFront
  <2>2. /\ d \in Deque /\ d.begin \in Live(d) /\ Front(d) = d.slots[d.begin]
        /\ Front(d).id \in DOMAIN orderMap /\ orderMap[Front(d).id].price = p
        /\ OrderAt(book, orderMap, Front(d).id) = Front(d)
    BY <1>1, <2>1, FrontById
  <2>3. Front(d) \in orders
    <3> DEFINE i == d.begin
    <3>1. i \in Live(book[side][p].orders) /\ Front(d) = book[side][p].orders.slots[i]
      BY <2>2
    <3> HIDE DEF i, d
    <3>2. book[side][p].orders.slots[i] \in OrdersOn(side)
      BY <3>1, InOrders
    <3> QED
      BY <3>1, <3>2
  <2>4. Front(d).price = p
    <3> DEFINE id == Front(d).id
    <3>1. id \in DOMAIN orderMap /\ orderMap[id].price = p /\ OrderAt(book, orderMap, id).price = Front(d).price
      BY <2>2
    <3> HIDE DEF id
    <3> QED
      BY <1>1, <3>1, EntryOrder
  <2> QED
    BY <2>3, <2>4
<1>5. CASE DOMAIN book[side] = {}
  <2>1. orders = {}
    BY <1>3, <1>5
  <2> QED
    BY <1>5, <2>1 DEF Quote
<1>6. CASE DOMAIN book[side] # {}
  <2> DEFINE best == BestPrice(side)
  <2>1. best \in DOMAIN book[side] /\ \A p \in DOMAIN book[side] : ~Better(side, p, best)
    BY <1>1, <1>6, BestPriceIs DEF FiniteBook
  <2>2. quote.price = best /\ quote.quantity = book[side][best].quantity
    BY <1>6 DEF Quote
  <2> HIDE DEF best, quote
  <2>3. PICK o \in orders : o.price = best
    BY <1>4, <2>1
  <2>4. top # {} /\ orders # {}
    BY <2>2, <2>3
  <2>5. \A x \in orders : ~Better(side, x.price, quote.price)
    BY <1>3, <2>1, <2>2
  <2>6. top = OnLevel(Resting, side, best)
    BY <1>2, <1>3, <2>2 DEF OnLevel
  <2>7. quote.quantity = Total(top)
    BY <1>1, <2>1, <2>2, <2>6 DEF LevelTotals, LevelTotal
  <2> QED
    BY <2>4, <2>5, <2>7 DEF quote
<1> QED
  BY <1>5, <1>6

(* For the careful client getBBO reports the best price a resting order    *)
(* has and the sum of the orders there, although the code caches the price *)
(* in the order of the map and the sum in a total that it moves in five    *)
(* places (orderbook.cpp:26, :83, :168; orderbook.h:49).                   *)
THEOREM TopOfBookStaysExact == CarefulSpec => []TopOfBookExact
<1>1. MintingInit => TInv
  BY TotalsInitially
<1>2. TInv /\ [CarefulNext]_vars => TInv'
  BY TotalsInductive
<1>3. TInv => TopOfBookExact
  <2>1. ~Idle => TopOfBookExact
    BY DEF TopOfBookExact
  <2> QED
    BY <2>1, TotalsExact
<1> QED
  BY <1>1, <1>2, <1>3, PTL DEF CarefulSpec
=============================================================================
