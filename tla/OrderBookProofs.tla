-------------------------- MODULE OrderBookProofs --------------------------
(***************************************************************************)
(* Proofs about OrderBook for any client and every value of the constants. *)
(***************************************************************************)
EXTENDS OrderBook, FoldProofs, TLAPS

-----------------------------------------------------------------------------
(* The queue of a level.                                                   *)

(* A fresh queue is well formed.                                           *)
LEMMA EmptyDequeTyped == EmptyDeque \in Deque /\ WellFormed(EmptyDeque)
BY DEF EmptyDeque, Deque, WellFormed, Freed

(* push_back keeps every used slot and leaves the queue non-empty.         *)
LEMMA PushBackTyped ==
  ASSUME NEW d \in Deque, WellFormed(d), NEW o \in Order
  PROVE  /\ PushBack(d, o) \in Deque
         /\ WellFormed(PushBack(d, o))
         /\ ~IsEmpty(PushBack(d, o))
         /\ DOMAIN d.slots \subseteq DOMAIN PushBack(d, o).slots
         /\ LastIterator(PushBack(d, o)) \in Iterator
         /\ LastIterator(PushBack(d, o)).slot \in DOMAIN PushBack(d, o).slots
BY DEF PushBack, Deque, WellFormed, IsEmpty, LastIterator, Iterator, Freed

(* erase removes one element, wherever it is told to, and no slot.         *)
LEMMA EraseTyped ==
  ASSUME NEW d \in Deque, WellFormed(d), ~IsEmpty(d), NEW pos \in DOMAIN d.slots
  PROVE  /\ Erase(d, pos) \in Deque
         /\ WellFormed(Erase(d, pos))
         /\ DOMAIN Erase(d, pos).slots = DOMAIN d.slots
         /\ Erase(d, pos).map = d.map
         /\ Erase(d, pos).end - Erase(d, pos).begin = d.end - d.begin - 1
<1> DEFINE n      == Len(d.slots)
           first  == [i \in DOMAIN d.slots |->
                        IF d.begin < i /\ i <= pos THEN d.slots[i - 1] ELSE d.slots[i]]
           second == [i \in DOMAIN d.slots |->
                        IF i >= pos /\ i + 1 < d.end THEN d.slots[i + 1] ELSE d.slots[i]]
<1>1. /\ n \in Nat /\ DOMAIN d.slots = 1..n /\ \A i \in 1..n : d.slots[i] \in Order
      /\ d.begin \in Nat /\ d.end \in Nat /\ d.map \in Nat /\ d.map # Freed
      /\ 1 <= d.begin /\ d.begin < d.end /\ d.end <= n + 1
  BY DEF Deque, WellFormed, IsEmpty
<1>2. first \in Seq(Order) /\ Len(first) = n /\ DOMAIN first = 1..n
  <2>1. first \in [1..n -> Order]
    BY <1>1
  <2> QED
    BY <2>1, <1>1
<1>3. second \in Seq(Order) /\ Len(second) = n /\ DOMAIN second = 1..n
  <2>1. second \in [1..n -> Order]
    BY <1>1
  <2> QED
    BY <2>1, <1>1
<1> HIDE DEF first, second, n
<1>4. CASE d.begin <= pos /\ pos - d.begin < Size(d) \div 2
  <2>1. Erase(d, pos) = [slots |-> first, begin |-> d.begin + 1, end |-> d.end, map |-> d.map]
    BY <1>4 DEF Erase, first, Deque
  <2> QED
    BY <2>1, <1>1, <1>2 DEF Deque, WellFormed
<1>5. CASE ~(d.begin <= pos /\ pos - d.begin < Size(d) \div 2)
  <2>1. Erase(d, pos) = [slots |-> second, begin |-> d.begin, end |-> d.end - 1, map |-> d.map]
    BY <1>5 DEF Erase, second, Deque
  <2> QED
    BY <2>1, <1>1, <1>3 DEF Deque, WellFormed
<1> QED
  BY <1>4, <1>5

(* Every slot holds an order.                                              *)
LEMMA SlotTyped ==
  ASSUME NEW d \in Deque, NEW i \in DOMAIN d.slots
  PROVE  d.slots[i] \in Order /\ d.slots[i].quantity \in Nat
<1>1. d.slots[i] \in Order
  BY DEF Deque
<1> QED
  BY <1>1 DEF Order

(* The front of a non-empty queue is an order in a used slot.              *)
LEMMA FrontTyped ==
  ASSUME NEW d \in Deque, WellFormed(d), ~IsEmpty(d)
  PROVE  d.begin \in DOMAIN d.slots /\ Front(d) \in Order
BY DEF Deque, WellFormed, IsEmpty, Front

-----------------------------------------------------------------------------
(* The book with one level stored.                                         *)

(* Opposite swaps the two sides.                                           *)
LEMMA SideOpposite == \A side \in Side : Opposite(side) \in Side /\ Opposite(side) # side
BY DEF Side, Opposite

(* While addOrder runs, the order in hand and the side it trades against.  *)
LEMMA IncomingTyped ==
  ASSUME TypeOK, ~Idle
  PROVE  incoming \in Order /\ incoming # NoOrder /\ Contra \in Side /\ Contra # incoming.side
BY SideOpposite DEF TypeOK, Idle, Contra, Order

(* Storing a typed level keeps the book typed and touches no other level.  *)
LEMMA StoreLevel ==
  ASSUME BookTyped, NEW side \in Side, NEW price \in DOMAIN book[side],
         NEW level \in Level, WellFormed(level.orders),
         book' = [book EXCEPT ![side][price] = level]
  PROVE  /\ BookTyped'
         /\ \A s \in Side : DOMAIN book'[s] = DOMAIN book[s]
         /\ \A s \in Side : \A p \in DOMAIN book[s] :
              book'[s][p] = IF s = side /\ p = price THEN level ELSE book[s][p]
<1>1. \A s \in Side : DOMAIN book'[s] = DOMAIN book[s]
  BY DEF BookTyped
<1>2. \A s \in Side : \A p \in DOMAIN book[s] :
         book'[s][p] = IF s = side /\ p = price THEN level ELSE book[s][p]
  BY DEF BookTyped
<1>3. DOMAIN book' = Side
  BY DEF BookTyped
<1> QED
  BY <1>1, <1>2, <1>3 DEF BookTyped

(* Storing a level that has the slots of the old one keeps every stored    *)
(* iterator within the slots of its level.                                 *)
LEMMA StoreLevelIndex ==
  ASSUME BookTyped, IndexTyped, NEW side \in Side, NEW price \in DOMAIN book[side],
         NEW level \in Level, WellFormed(level.orders),
         DOMAIN level.orders.slots = DOMAIN book[side][price].orders.slots,
         book' = [book EXCEPT ![side][price] = level],
         DOMAIN orderMap' \subseteq DOMAIN orderMap,
         \A id \in DOMAIN orderMap' : orderMap'[id] = orderMap[id]
  PROVE  IndexTyped'
BY StoreLevel DEF IndexTyped, OrderRef

-----------------------------------------------------------------------------
(* What the loop of addOrder does to the level it stands at.               *)

(* The level after its front order traded in full.                         *)
LEMMA ConsumeTyped ==
  ASSUME NEW level \in Level, WellFormed(level.orders), ~IsEmpty(level.orders)
  PROVE  /\ Consume(level) \in Level
         /\ WellFormed(Consume(level).orders)
         /\ DOMAIN Consume(level).orders.slots = DOMAIN level.orders.slots
<1>1. level.orders \in Deque /\ level.quantity \in Int
  BY DEF Level
<1>2. level.orders.begin \in DOMAIN level.orders.slots /\ Front(level.orders) \in Order
  BY <1>1, FrontTyped
<1>3. /\ Erase(level.orders, level.orders.begin) \in Deque
      /\ WellFormed(Erase(level.orders, level.orders.begin))
      /\ DOMAIN Erase(level.orders, level.orders.begin).slots = DOMAIN level.orders.slots
  BY <1>1, <1>2, EraseTyped
<1>4. level.quantity - Front(level.orders).quantity \in Int
  BY <1>1, <1>2 DEF Order
<1> QED
  BY <1>3, <1>4 DEF Consume, Level

(* A slot's order may be given any new quantity.                           *)
LEMMA ResizeTyped ==
  ASSUME NEW d \in Deque, WellFormed(d), NEW i \in DOMAIN d.slots, NEW q \in Nat
  PROVE  /\ Resize(d, i, q) \in Deque
         /\ WellFormed(Resize(d, i, q))
         /\ DOMAIN Resize(d, i, q).slots = DOMAIN d.slots
         /\ Resize(d, i, q).begin = d.begin
         /\ Resize(d, i, q).end = d.end
<1> DEFINE o == [d.slots[i] EXCEPT !.quantity = q]
<1>1. d.slots \in Seq(Order) /\ d.slots[i] \in Order
  BY DEF Deque
<1>2. o \in Order
  BY <1>1 DEF Order
<1>3. Resize(d, i, q) = [d EXCEPT !.slots[i] = o]
  BY DEF Resize
<1> HIDE DEF o
<1>4. Resize(d, i, q) =
        [slots |-> [d.slots EXCEPT ![i] = o], begin |-> d.begin, end |-> d.end, map |-> d.map]
  BY <1>3 DEF Deque
<1>5. /\ [d.slots EXCEPT ![i] = o] \in Seq(Order)
      /\ Len([d.slots EXCEPT ![i] = o]) = Len(d.slots)
      /\ DOMAIN [d.slots EXCEPT ![i] = o] = DOMAIN d.slots
  BY <1>1, <1>2
<1> QED
  BY <1>4, <1>5 DEF Deque, WellFormed

(* The level after its front order traded in part: the order stays.        *)
LEMMA ReduceTyped ==
  ASSUME NEW level \in Level, WellFormed(level.orders), ~IsEmpty(level.orders),
         NEW q \in Nat, q <= Front(level.orders).quantity
  PROVE  /\ Reduce(level, q) \in Level
         /\ WellFormed(Reduce(level, q).orders)
         /\ DOMAIN Reduce(level, q).orders.slots = DOMAIN level.orders.slots
         /\ ~IsEmpty(Reduce(level, q).orders)
<1>1. level.orders \in Deque /\ level.quantity \in Int
  BY DEF Level
<1>2. level.orders.begin \in DOMAIN level.orders.slots /\ Front(level.orders) \in Order
  BY <1>1, FrontTyped
<1>3. Front(level.orders).quantity - q \in Nat
  BY <1>2 DEF Order
<1> QED
  BY <1>1, <1>2, <1>3, ResizeTyped DEF Reduce, Level, IsEmpty

-----------------------------------------------------------------------------
(* The two branches of the loop keep the state typed: an execution is for  *)
(* the smaller of the two quantities, so neither goes below zero.          *)

(* What the loop records is a trade.                                       *)
LEMMA FillTyped ==
  ASSUME incoming \in Order, NEW maker \in Order, NEW q \in Nat
  PROVE  Fill(maker, q) \in Trade
BY DEF Fill, Trade, Order

(* traversePriceLevel, else branch.                                        *)
LEMMA FillRestingTyped ==
  ASSUME TypeOK, NEW price \in Price, fillResting(price)
  PROVE  TypeOK' /\ incoming' \in Order /\ incoming'.side = incoming.side
<1> DEFINE level == book[Contra][price]
           curr  == Front(level.orders)
<1>1. incoming \in Order /\ incoming # NoOrder /\ Contra \in Side
  BY IncomingTyped DEF fillResting
<1>2. /\ price \in DOMAIN book[Contra] /\ level \in Level
      /\ WellFormed(level.orders) /\ ~IsEmpty(level.orders)
  BY <1>1 DEF fillResting, BestLive, TypeOK, BookTyped
<1>3. curr \in Order
  BY <1>2, FrontTyped DEF Level
<1>4. /\ Consume(level) \in Level /\ WellFormed(Consume(level).orders)
      /\ DOMAIN Consume(level).orders.slots = DOMAIN level.orders.slots
  BY <1>2, ConsumeTyped
<1>5. /\ curr.quantity <= incoming.quantity
      /\ lastTrades' = Append(lastTrades, Fill(curr, curr.quantity))
      /\ incoming' = [incoming EXCEPT !.quantity = @ - curr.quantity]
      /\ orderMap' = Forget(curr.id)
      /\ book' = [book EXCEPT ![Contra][price] = Consume(level)]
  BY <1>1, <1>2 DEF fillResting, TypeOK, BookTyped
<1>6. BookTyped'
  BY <1>1, <1>2, <1>4, <1>5, StoreLevel DEF TypeOK
<1>7. IndexTyped'
  BY <1>1, <1>2, <1>4, <1>5, StoreLevelIndex DEF TypeOK, Forget, Without
<1>8. lastTrades' \in Seq(Trade)
  BY <1>1, <1>3, <1>5, FillTyped DEF TypeOK, Order
<1>9. incoming' \in Order /\ incoming'.side = incoming.side
  BY <1>1, <1>3, <1>5 DEF Order
<1> QED
  BY <1>6, <1>7, <1>8, <1>9 DEF TypeOK

(* traversePriceLevel, first branch.                                       *)
LEMMA FillIncomingTyped ==
  ASSUME TypeOK, NEW price \in Price, fillIncoming(price)
  PROVE  TypeOK' /\ incoming' \in Order /\ incoming'.side = incoming.side
<1> DEFINE level == book[Contra][price]
           curr  == Front(level.orders)
<1>1. incoming \in Order /\ incoming # NoOrder /\ Contra \in Side
  BY IncomingTyped DEF fillIncoming
<1>2. /\ price \in DOMAIN book[Contra] /\ level \in Level
      /\ WellFormed(level.orders) /\ ~IsEmpty(level.orders)
  BY <1>1 DEF fillIncoming, BestLive, TypeOK, BookTyped
<1>3. curr \in Order
  BY <1>2, FrontTyped DEF Level
<1>4. /\ curr.quantity > incoming.quantity
      /\ lastTrades' = Append(lastTrades, Fill(curr, incoming.quantity))
      /\ incoming' = [incoming EXCEPT !.quantity = 0]
      /\ book' = [book EXCEPT ![Contra][price] = Reduce(level, incoming.quantity)]
      /\ orderMap' = orderMap
  BY <1>1, <1>2 DEF fillIncoming, TypeOK, BookTyped
<1>5. /\ Reduce(level, incoming.quantity) \in Level
      /\ WellFormed(Reduce(level, incoming.quantity).orders)
      /\ DOMAIN Reduce(level, incoming.quantity).orders.slots = DOMAIN level.orders.slots
  BY <1>1, <1>2, <1>3, <1>4, ReduceTyped DEF Order
<1>6. BookTyped'
  BY <1>1, <1>2, <1>4, <1>5, StoreLevel DEF TypeOK
<1>7. IndexTyped'
  BY <1>1, <1>2, <1>4, <1>5, StoreLevelIndex DEF TypeOK
<1>8. lastTrades' \in Seq(Trade)
  BY <1>1, <1>3, <1>4, FillTyped DEF TypeOK, Order
<1>9. incoming' \in Order /\ incoming'.side = incoming.side
  BY <1>1, <1>4 DEF Order
<1> QED
  BY <1>6, <1>7, <1>8, <1>9 DEF TypeOK

-----------------------------------------------------------------------------
(* Dropping levels.                                                        *)

(* The references into a dropped level dangle, the others are untouched.   *)
LEMMA DangleTyped ==
  ASSUME IndexTyped, NEW side \in Side, NEW prices
  PROVE  LET refs == Dangle(orderMap, side, prices)
         IN /\ DOMAIN refs = DOMAIN orderMap
            /\ \A id \in DOMAIN orderMap :
                 /\ refs[id] \in OrderRef
                 /\ refs[id].price = orderMap[id].price /\ refs[id].side = orderMap[id].side
                 /\ orderMap[id].side = side /\ orderMap[id].price \in prices
                      => refs[id].iterator.map = Freed
                 /\ ~(orderMap[id].side = side /\ orderMap[id].price \in prices)
                      => refs[id] = orderMap[id]
<1> DEFINE refs == Dangle(orderMap, side, prices)
<1>1. SUFFICES ASSUME NEW id \in DOMAIN orderMap,
                      orderMap[id].side = side, orderMap[id].price \in prices
               PROVE  /\ refs[id] \in OrderRef
                      /\ refs[id].price = orderMap[id].price /\ refs[id].side = orderMap[id].side
                      /\ refs[id].iterator.map = Freed
  BY DEF Dangle, IndexTyped
<1> DEFINE ref == orderMap[id]
           it  == [ref.iterator EXCEPT !.map = Freed]
<1>2. ref \in OrderRef
  BY DEF IndexTyped
<1>3. it = [slot |-> ref.iterator.slot, map |-> Freed] /\ it \in Iterator
  BY <1>2 DEF OrderRef, Iterator, Freed
<1>4. refs[id] = [ref EXCEPT !.iterator = it]
  BY <1>1 DEF Dangle
<1> HIDE DEF it, refs
<1>5. [ref EXCEPT !.iterator = it] =
        [price |-> ref.price, side |-> ref.side, iterator |-> it]
  BY <1>2 DEF OrderRef
<1> QED
  BY <1>2, <1>3, <1>4, <1>5 DEF OrderRef

(* addOrder has left the loop: levels in front of the other side are       *)
(* dropped, and the order may join its own side.                           *)
LEMMA RestRemainderTyped ==
  ASSUME TypeOK, restRemainder
  PROVE  TypeOK'
<1> DEFINE gone  == EmptyFront(Contra)
           kept  == Without(book[Contra], gone)
           refs  == Dangle(orderMap, Contra, gone)
           level == LevelAt(incoming.side, incoming.price)
           queue == PushBack(level.orders, incoming)
           rests == incoming.type = "LIMIT" /\ incoming.quantity # 0
           added == [orders |-> queue, quantity |-> level.quantity + incoming.quantity]
           ref   == [price |-> incoming.price, side |-> incoming.side,
                     iterator |-> LastIterator(queue)]
<1>1. /\ incoming \in Order /\ incoming # NoOrder /\ Contra \in Side
      /\ Contra # incoming.side /\ incoming.side \in Side /\ incoming.price \in Price
      /\ incoming.quantity \in Nat /\ incoming.id \in OrderID
  BY IncomingTyped DEF restRemainder, Order
<1>2. lastTrades' \in Seq(Trade) /\ incoming' \in Order \cup {NoOrder}
  BY DEF restRemainder, TypeOK
<1>3. /\ DOMAIN refs = DOMAIN orderMap
      /\ \A id \in DOMAIN orderMap :
           /\ refs[id] \in OrderRef
           /\ refs[id].price = orderMap[id].price /\ refs[id].side = orderMap[id].side
           /\ orderMap[id].side = Contra /\ orderMap[id].price \in gone
                => refs[id].iterator.map = Freed
           /\ ~(orderMap[id].side = Contra /\ orderMap[id].price \in gone)
                => refs[id] = orderMap[id]
  BY <1>1, DangleTyped DEF TypeOK
<1>4. /\ DOMAIN kept = DOMAIN book[Contra] \ gone
      /\ \A p \in DOMAIN kept : kept[p] = book[Contra][p]
  BY DEF Without
<1>5. CASE rests
  <2>1. /\ book' = [book EXCEPT ![Contra] = kept,
                     ![incoming.side] = With(@, incoming.price, added)]
        /\ orderMap' = With(refs, incoming.id, ref)
    BY <1>5 DEF restRemainder
  <2>2. level \in Level /\ WellFormed(level.orders)
    BY <1>1, EmptyDequeTyped DEF LevelAt, EmptyLevel, Level, TypeOK, BookTyped
  <2>3. /\ queue \in Deque /\ WellFormed(queue) /\ added \in Level
        /\ DOMAIN level.orders.slots \subseteq DOMAIN queue.slots
        /\ ref \in OrderRef /\ ref.iterator.slot \in DOMAIN queue.slots
    BY <1>1, <2>2, PushBackTyped DEF Level, OrderRef
  <2> HIDE DEF gone, kept, refs, queue, added, ref, level
  <2>4. DOMAIN book' = Side
    BY <2>1 DEF TypeOK, BookTyped
  <2>5. book'[Contra] = kept /\ book'[incoming.side] = With(book[incoming.side], incoming.price, added)
    BY <1>1, <2>1 DEF TypeOK, BookTyped
  <2>6. \A side \in Side : side = Contra \/ side = incoming.side
    BY <1>1 DEF Side
  <2>7. /\ DOMAIN book'[incoming.side] = DOMAIN book[incoming.side] \cup {incoming.price}
        /\ book'[incoming.side][incoming.price] = added
        /\ \A p \in DOMAIN book[incoming.side] :
             p # incoming.price => book'[incoming.side][p] = book[incoming.side][p]
    BY <2>5 DEF With
  <2>8. BookTyped'
    <3>1. ASSUME NEW p \in DOMAIN book'[Contra]
          PROVE  p \in Price /\ book'[Contra][p] \in Level /\ WellFormed(book'[Contra][p].orders)
      BY <1>1, <1>4, <2>5 DEF TypeOK, BookTyped
    <3>2. ASSUME NEW p \in DOMAIN book'[incoming.side]
          PROVE  /\ p \in Price /\ book'[incoming.side][p] \in Level
                 /\ WellFormed(book'[incoming.side][p].orders)
      BY <1>1, <2>3, <2>7 DEF TypeOK, BookTyped, added
    <3> QED
      BY <2>4, <2>6, <3>1, <3>2 DEF BookTyped
  <2>9. IndexTyped'
    <3>1. /\ DOMAIN orderMap' = DOMAIN orderMap \cup {incoming.id}
          /\ orderMap'[incoming.id] = ref
          /\ \A id \in DOMAIN orderMap : id # incoming.id => orderMap'[id] = refs[id]
      BY <1>3, <2>1 DEF With
    <3>2. ASSUME NEW id \in DOMAIN orderMap, id # incoming.id, refs[id].iterator.map # Freed
          PROVE  /\ refs[id].price \in DOMAIN book'[refs[id].side]
                 /\ refs[id].iterator.slot \in DOMAIN book'[refs[id].side][refs[id].price].orders.slots
      <4>1. /\ refs[id] = orderMap[id] /\ refs[id].side \in Side
            /\ ~(refs[id].side = Contra /\ refs[id].price \in gone)
        BY <1>3, <3>2 DEF OrderRef
      <4>2. /\ refs[id].price \in DOMAIN book[refs[id].side]
            /\ refs[id].iterator.slot \in DOMAIN book[refs[id].side][refs[id].price].orders.slots
        BY <3>2, <4>1 DEF TypeOK, IndexTyped
      <4>3. CASE refs[id].side = Contra
        BY <1>4, <2>5, <4>1, <4>2, <4>3
      <4>4. CASE refs[id].side = incoming.side /\ refs[id].price # incoming.price
        BY <2>7, <4>2, <4>4
      <4>5. CASE refs[id].side = incoming.side /\ refs[id].price = incoming.price
        <5>1. level = book[incoming.side][incoming.price]
          BY <4>2, <4>5 DEF level, LevelAt
        <5> QED
          BY <2>3, <2>7, <4>2, <4>5, <5>1 DEF added
      <4> QED
        BY <2>6, <4>1, <4>3, <4>4, <4>5
    <3>3. /\ ref.price \in DOMAIN book'[ref.side]
          /\ ref.iterator.slot \in DOMAIN book'[ref.side][ref.price].orders.slots
      BY <2>3, <2>7 DEF added, ref
    <3> QED
      BY <1>1, <1>3, <2>3, <3>1, <3>2, <3>3 DEF IndexTyped, TypeOK
  <2> QED
    BY <1>2, <2>8, <2>9 DEF TypeOK
<1>6. CASE ~rests
  <2>1. book' = [book EXCEPT ![Contra] = kept] /\ orderMap' = refs
    BY <1>6 DEF restRemainder
  <2> HIDE DEF gone, kept, refs
  <2>2. BookTyped'
    BY <1>1, <1>4, <2>1 DEF TypeOK, BookTyped
  <2>3. IndexTyped'
    <3>1. ASSUME NEW id \in DOMAIN orderMap, refs[id].iterator.map # Freed
          PROVE  /\ refs[id].price \in DOMAIN book'[refs[id].side]
                 /\ refs[id].iterator.slot \in DOMAIN book'[refs[id].side][refs[id].price].orders.slots
      <4>1. /\ refs[id] = orderMap[id] /\ refs[id].side \in Side
            /\ ~(refs[id].side = Contra /\ refs[id].price \in gone)
        BY <1>3, <3>1 DEF OrderRef
      <4>2. /\ refs[id].price \in DOMAIN book[refs[id].side]
            /\ refs[id].iterator.slot \in DOMAIN book[refs[id].side][refs[id].price].orders.slots
        BY <3>1, <4>1 DEF TypeOK, IndexTyped
      <4> QED
        BY <1>1, <1>4, <2>1, <4>1, <4>2 DEF TypeOK, BookTyped
    <3> QED
      BY <1>3, <2>1, <3>1 DEF IndexTyped, TypeOK
  <2> QED
    BY <1>2, <2>2, <2>3 DEF TypeOK
<1> QED
  BY <1>5, <1>6

-----------------------------------------------------------------------------
(* The calls that do not loop.                                             *)

(* Entering addOrder.                                                      *)
LEMMA AddOrderTyped ==
  ASSUME TypeOK, NEW order \in Submissions, addOrder(order)
  PROVE  TypeOK'
BY SubmissionsAssumption DEF addOrder, TypeOK, BookTyped, IndexTyped

(* cancelOrder erases within a level that holds an order, whichever order  *)
(* that is.                                                                *)
LEMMA CancelOrderTyped ==
  ASSUME TypeOK, HusksAtFront, NEW id \in OrderID, cancelOrder(id)
  PROVE  TypeOK'
<1> DEFINE ref   == orderMap[id]
           level == book[ref.side][ref.price]
           found == id \in DOMAIN orderMap /\ ref.price \in DOMAIN book[ref.side]
<1>1. lastTrades' \in Seq(Trade) /\ incoming' \in Order \cup {NoOrder}
  BY DEF cancelOrder, TypeOK
<1>2. CASE ~found
  BY <1>1, <1>2 DEF cancelOrder, TypeOK, BookTyped, IndexTyped
<1>3. CASE found
  <2>1. /\ ref \in OrderRef /\ ref.side \in Side /\ ref.price \in DOMAIN book[ref.side]
        /\ level \in Level /\ WellFormed(level.orders) /\ ~IsEmpty(level.orders)
        /\ level.orders \in Deque /\ level.quantity \in Int
    BY <1>3 DEF TypeOK, IndexTyped, BookTyped, OrderRef, HusksAtFront, cancelOrder, Level
  <2>2. ref.iterator.map # Freed => ref.iterator.slot \in DOMAIN level.orders.slots
    BY <1>3 DEF TypeOK, IndexTyped
  <2>3. PICK read \in ReadThrough(level.orders, ref.iterator),
             erased \in EraseAt(level.orders, ref.iterator) :
          LET left == [orders   |-> Erase(level.orders, erased),
                       quantity |-> level.quantity - level.orders.slots[read].quantity]
          IN /\ book' = StoreOrDrop(ref.side, ref.price, left)
             /\ orderMap' = Without(IF IsEmpty(left.orders)
                                    THEN Dangle(orderMap, ref.side, {ref.price})
                                    ELSE orderMap, {id})
    BY <1>3 DEF cancelOrder
  <2> DEFINE left == [orders   |-> Erase(level.orders, erased),
                      quantity |-> level.quantity - level.orders.slots[read].quantity]
             refs == Dangle(orderMap, ref.side, {ref.price})
  <2>4. read \in DOMAIN level.orders.slots /\ erased \in DOMAIN level.orders.slots
    BY <2>1, <2>2, <2>3 DEF ReadThrough, EraseAt, WellFormed
  <2>5. level.quantity - level.orders.slots[read].quantity \in Int
    BY <2>1, <2>4, SlotTyped
  <2>6. /\ left \in Level /\ WellFormed(left.orders)
        /\ DOMAIN left.orders.slots = DOMAIN level.orders.slots
    BY <2>1, <2>4, <2>5, EraseTyped DEF Level
  <2> HIDE DEF left
  <2>7. CASE ~IsEmpty(left.orders)
    <3>1. /\ book' = [book EXCEPT ![ref.side][ref.price] = left]
          /\ orderMap' = Without(orderMap, {id})
      BY <2>3, <2>7 DEF StoreOrDrop, left
    <3>2. BookTyped'
      BY <2>1, <2>6, <3>1, StoreLevel DEF TypeOK
    <3>3. IndexTyped'
      BY <2>1, <2>6, <3>1, StoreLevelIndex DEF TypeOK, Without
    <3> QED
      BY <1>1, <3>2, <3>3 DEF TypeOK
  <2>8. CASE IsEmpty(left.orders)
    <3>1. /\ book' = [book EXCEPT ![ref.side] = Without(@, {ref.price})]
          /\ orderMap' = Without(refs, {id})
      BY <2>3, <2>8 DEF StoreOrDrop, left
    <3>2. /\ DOMAIN refs = DOMAIN orderMap
          /\ \A i \in DOMAIN orderMap :
               /\ refs[i] \in OrderRef
               /\ refs[i].price = orderMap[i].price /\ refs[i].side = orderMap[i].side
               /\ orderMap[i].side = ref.side /\ orderMap[i].price = ref.price
                    => refs[i].iterator.map = Freed
               /\ ~(orderMap[i].side = ref.side /\ orderMap[i].price = ref.price)
                    => refs[i] = orderMap[i]
      BY <2>1, DangleTyped DEF TypeOK
    <3> HIDE DEF refs
    <3>3. BookTyped'
      BY <2>1, <3>1 DEF TypeOK, BookTyped, Without
    <3>4. /\ DOMAIN book'[ref.side] = DOMAIN book[ref.side] \ {ref.price}
          /\ \A side \in Side : side # ref.side => book'[side] = book[side]
          /\ \A p \in DOMAIN book'[ref.side] : book'[ref.side][p] = book[ref.side][p]
      BY <2>1, <3>1 DEF TypeOK, BookTyped, Without
    <3>5. ASSUME NEW i \in DOMAIN orderMap, refs[i].iterator.map # Freed
          PROVE  /\ refs[i].price \in DOMAIN book'[refs[i].side]
                 /\ refs[i].iterator.slot \in DOMAIN book'[refs[i].side][refs[i].price].orders.slots
      <4>1. /\ refs[i] = orderMap[i] /\ refs[i].side \in Side
            /\ ~(refs[i].side = ref.side /\ refs[i].price = ref.price)
        BY <3>2, <3>5 DEF OrderRef
      <4>2. /\ refs[i].price \in DOMAIN book[refs[i].side]
            /\ refs[i].iterator.slot \in DOMAIN book[refs[i].side][refs[i].price].orders.slots
        BY <3>5, <4>1 DEF TypeOK, IndexTyped
      <4> QED
        BY <3>4, <4>1, <4>2
    <3>6. IndexTyped'
      BY <3>1, <3>2, <3>5 DEF IndexTyped, TypeOK, Without
    <3> QED
      BY <1>1, <3>3, <3>6 DEF TypeOK
  <2> QED
    BY <2>7, <2>8
<1> QED
  BY <1>2, <1>3

(* modifyOrder writes a used slot of the level, whichever order is there.  *)
LEMMA ModifyOrderTyped ==
  ASSUME TypeOK, HusksAtFront, NEW id \in OrderID, NEW newQuantity \in Nat,
         modifyOrder(id, newQuantity)
  PROVE  TypeOK'
<1> DEFINE ref   == orderMap[id]
           level == book[ref.side][ref.price]
           found == id \in DOMAIN orderMap /\ ref.price \in DOMAIN book[ref.side]
<1>1. /\ lastTrades' \in Seq(Trade) /\ incoming' \in Order \cup {NoOrder}
      /\ orderMap' = orderMap
  BY DEF modifyOrder, TypeOK
<1>2. CASE ~found
  BY <1>1, <1>2 DEF modifyOrder, TypeOK, BookTyped, IndexTyped
<1>3. CASE found
  <2>1. /\ ref \in OrderRef /\ ref.side \in Side /\ ref.price \in DOMAIN book[ref.side]
        /\ level \in Level /\ WellFormed(level.orders)
        /\ level.orders \in Deque /\ level.quantity \in Int
    BY <1>3 DEF TypeOK, IndexTyped, BookTyped, OrderRef, Level
  <2>2. ref.iterator.map # Freed => ref.iterator.slot \in DOMAIN level.orders.slots
    BY <1>3 DEF TypeOK, IndexTyped
  <2>3. PICK at \in ReadThrough(level.orders, ref.iterator) :
          book' = [book EXCEPT ![ref.side][ref.price] =
                    [orders   |-> Resize(level.orders, at, newQuantity),
                     quantity |-> level.quantity
                                  + (newQuantity - level.orders.slots[at].quantity)]]
    BY <1>3, <2>1 DEF modifyOrder, TypeOK, BookTyped
  <2> DEFINE amended == [orders   |-> Resize(level.orders, at, newQuantity),
                         quantity |-> level.quantity
                                      + (newQuantity - level.orders.slots[at].quantity)]
  <2>4. at \in DOMAIN level.orders.slots
    BY <2>1, <2>2, <2>3 DEF ReadThrough
  <2>5. newQuantity \in Nat /\ level.quantity + (newQuantity - level.orders.slots[at].quantity) \in Int
    BY <2>1, <2>4, SlotTyped, TypesAssumption
  <2>6. /\ amended \in Level /\ WellFormed(amended.orders)
        /\ DOMAIN amended.orders.slots = DOMAIN level.orders.slots
    BY <2>1, <2>4, <2>5, ResizeTyped DEF Level
  <2> HIDE DEF amended
  <2>7. book' = [book EXCEPT ![ref.side][ref.price] = amended]
    BY <2>3 DEF amended
  <2>8. BookTyped'
    BY <2>1, <2>6, <2>7, StoreLevel DEF TypeOK
  <2>9. IndexTyped'
    BY <1>1, <2>1, <2>6, <2>7, StoreLevelIndex DEF TypeOK
  <2> QED
    BY <1>1, <2>8, <2>9 DEF TypeOK
<1> QED
  BY <1>2, <1>3

-----------------------------------------------------------------------------
(* Emptied levels.                                                         *)

(* The branch that consumes a resting order may empty the level it stands  *)
(* at, and every level before that one is empty already.                   *)
LEMMA FillRestingHusks ==
  ASSUME TypeOK, HusksAtFront, NEW price \in Price, fillResting(price)
  PROVE  HusksAtFront'
<1> DEFINE level == book[Contra][price]
           left  == Consume(level)
<1>1. incoming \in Order /\ incoming # NoOrder /\ Contra \in Side
  BY IncomingTyped DEF fillResting
<1>2. /\ price \in DOMAIN book[Contra] /\ level \in Level
      /\ WellFormed(level.orders) /\ ~IsEmpty(level.orders)
      /\ \A q \in DOMAIN book[Contra] :
           ~IsEmpty(book[Contra][q].orders) => ~Better(Contra, q, price)
  BY <1>1 DEF fillResting, BestLive, TypeOK, BookTyped
<1>3. book' = [book EXCEPT ![Contra][price] = left]
  BY <1>1, <1>2 DEF fillResting, TypeOK, BookTyped
<1>4. left \in Level /\ WellFormed(left.orders)
  BY <1>2, ConsumeTyped
<1> HIDE DEF left
<1>5. /\ \A s \in Side : DOMAIN book'[s] = DOMAIN book[s]
      /\ \A s \in Side : \A p \in DOMAIN book[s] :
           book'[s][p] = IF s = Contra /\ p = price THEN left ELSE book[s][p]
  <2>1. \A s \in Side : DOMAIN book'[s] = DOMAIN book[s]
    BY <1>1, <1>2, <1>3 DEF TypeOK, BookTyped
  <2>2. \A s \in Side : \A p \in DOMAIN book[s] :
          book'[s][p] = IF s = Contra /\ p = price THEN left ELSE book[s][p]
    BY <1>1, <1>2, <1>3 DEF TypeOK, BookTyped
  <2> QED
    BY <2>1, <2>2
<1>6. incoming'.side = incoming.side /\ incoming' \in Order
  BY FillRestingTyped
<1>7. Contra' = Contra /\ ~Idle'
  BY <1>6, TypesAssumption DEF Contra, Idle
<1>8. SUFFICES ASSUME NEW side \in Side, NEW p \in DOMAIN book[side],
                      IsEmpty(book'[side][p].orders)
               PROVE  /\ side = Contra
                      /\ \A q \in DOMAIN book[side] :
                           Better(side, q, p) => IsEmpty(book'[side][q].orders)
  BY <1>5, <1>7 DEF HusksAtFront
<1>9. CASE side = Contra /\ p = price
  BY <1>2, <1>5, <1>9 DEF Better
<1>10. CASE ~(side = Contra /\ p = price)
  <2>1. IsEmpty(book[side][p].orders)
    BY <1>5, <1>8, <1>10
  <2>2. side = Contra /\ \A q \in DOMAIN book[side] :
          Better(side, q, p) => IsEmpty(book[side][q].orders)
    BY <2>1 DEF HusksAtFront
  <2> QED
    BY <1>2, <1>5, <2>2
<1> QED
  BY <1>9, <1>10

(* The branch that fills the incoming order empties nothing.               *)
LEMMA FillIncomingHusks ==
  ASSUME TypeOK, HusksAtFront, NEW price \in Price, fillIncoming(price)
  PROVE  HusksAtFront'
<1> DEFINE level == book[Contra][price]
           left  == Reduce(level, incoming.quantity)
<1>1. incoming \in Order /\ incoming # NoOrder /\ Contra \in Side
  BY IncomingTyped DEF fillIncoming
<1>2. /\ price \in DOMAIN book[Contra] /\ level \in Level
      /\ WellFormed(level.orders) /\ ~IsEmpty(level.orders)
  BY <1>1 DEF fillIncoming, BestLive, TypeOK, BookTyped
<1>3. /\ Front(level.orders).quantity > incoming.quantity
      /\ book' = [book EXCEPT ![Contra][price] = left]
  BY <1>1, <1>2 DEF fillIncoming, TypeOK, BookTyped
<1>4. Front(level.orders) \in Order
  BY <1>2, FrontTyped DEF Level
<1>5. left \in Level /\ WellFormed(left.orders) /\ ~IsEmpty(left.orders)
  BY <1>1, <1>2, <1>3, <1>4, ReduceTyped DEF Order
<1> HIDE DEF left
<1>6. /\ \A s \in Side : DOMAIN book'[s] = DOMAIN book[s]
      /\ \A s \in Side : \A p \in DOMAIN book[s] :
           book'[s][p] = IF s = Contra /\ p = price THEN left ELSE book[s][p]
  <2>1. \A s \in Side : DOMAIN book'[s] = DOMAIN book[s]
    BY <1>1, <1>2, <1>3 DEF TypeOK, BookTyped
  <2>2. \A s \in Side : \A p \in DOMAIN book[s] :
          book'[s][p] = IF s = Contra /\ p = price THEN left ELSE book[s][p]
    BY <1>1, <1>2, <1>3 DEF TypeOK, BookTyped
  <2> QED
    BY <2>1, <2>2
<1>7. incoming'.side = incoming.side /\ incoming' \in Order
  BY FillIncomingTyped
<1>8. Contra' = Contra /\ ~Idle'
  BY <1>7, TypesAssumption DEF Contra, Idle
<1>9. ASSUME NEW side \in Side, NEW p \in DOMAIN book[side]
      PROVE  IsEmpty(book'[side][p].orders) <=> IsEmpty(book[side][p].orders)
  BY <1>2, <1>5, <1>6
<1> QED
  BY <1>6, <1>8, <1>9 DEF HusksAtFront

(* When the loops are done every level of the other side that survives     *)
(* pruneEmptyFront has an order in it.                                     *)
LEMMA KeptLive ==
  ASSUME TypeOK, HusksAtFront, ~Idle,
         NEW p \in DOMAIN Without(book[Contra], EmptyFront(Contra))
  PROVE  /\ p \in DOMAIN book[Contra] /\ ~IsEmpty(book[Contra][p].orders)
         /\ Without(book[Contra], EmptyFront(Contra))[p] = book[Contra][p]
<1>1. Contra \in Side
  BY IncomingTyped
<1>2. /\ p \in DOMAIN book[Contra] \ EmptyFront(Contra)
      /\ Without(book[Contra], EmptyFront(Contra))[p] = book[Contra][p]
  BY DEF Without
<1>3. PICK q \in DOMAIN book[Contra] :
        (q = p \/ Better(Contra, q, p)) /\ ~IsEmpty(book[Contra][q].orders)
  BY <1>2 DEF EmptyFront
<1> QED
  BY <1>1, <1>2, <1>3 DEF HusksAtFront

(* How addOrder leaves the two sides.                                      *)
LEMMA RestRemainderBook ==
  ASSUME TypeOK, restRemainder
  PROVE  /\ DOMAIN book' = Side
         /\ book'[Contra] = Without(book[Contra], EmptyFront(Contra))
         /\ \/ book'[incoming.side] = book[incoming.side]
            \/ /\ incoming.type = "LIMIT" /\ incoming.quantity # 0
               /\ DOMAIN book'[incoming.side] = DOMAIN book[incoming.side] \cup {incoming.price}
               /\ ~IsEmpty(book'[incoming.side][incoming.price].orders)
               /\ \A p \in DOMAIN book[incoming.side] :
                    p # incoming.price => book'[incoming.side][p] = book[incoming.side][p]
<1> DEFINE kept  == Without(book[Contra], EmptyFront(Contra))
           level == LevelAt(incoming.side, incoming.price)
           queue == PushBack(level.orders, incoming)
           added == [orders |-> queue, quantity |-> level.quantity + incoming.quantity]
<1>1. /\ incoming \in Order /\ Contra \in Side /\ Contra # incoming.side
      /\ incoming.side \in Side
  BY IncomingTyped DEF restRemainder, Order
<1>2. CASE incoming.type = "LIMIT" /\ incoming.quantity # 0
  <2>1. book' = [book EXCEPT ![Contra] = kept,
                             ![incoming.side] = With(@, incoming.price, added)]
    BY <1>2 DEF restRemainder
  <2>2. level \in Level /\ WellFormed(level.orders)
    BY <1>1, EmptyDequeTyped DEF LevelAt, EmptyLevel, Level, TypeOK, BookTyped
  <2>3. ~IsEmpty(added.orders)
    BY <1>1, <2>2, PushBackTyped DEF Level
  <2> HIDE DEF kept, added
  <2>4. /\ DOMAIN book' = Side /\ book'[Contra] = kept
        /\ book'[incoming.side] = With(book[incoming.side], incoming.price, added)
    BY <1>1, <2>1 DEF TypeOK, BookTyped
  <2> QED
    BY <1>2, <2>3, <2>4 DEF With, kept
<1>3. CASE ~(incoming.type = "LIMIT" /\ incoming.quantity # 0)
  <2>1. book' = [book EXCEPT ![Contra] = kept]
    BY <1>3 DEF restRemainder
  <2> QED
    BY <1>1, <2>1 DEF TypeOK, BookTyped
<1> QED
  BY <1>2, <1>3

(* When addOrder returns no level is empty.                                *)
LEMMA RestRemainderHusks ==
  ASSUME TypeOK, HusksAtFront, restRemainder
  PROVE  HusksAtFront'
<1>1. ~Idle /\ Contra \in Side /\ \A side \in Side : side = Contra \/ side = incoming.side
  BY IncomingTyped DEF restRemainder, Side, Order
<1>2. ASSUME NEW p \in DOMAIN book'[Contra]
      PROVE  ~IsEmpty(book'[Contra][p].orders)
  BY <1>1, <1>2, RestRemainderBook, KeptLive
<1>3. ASSUME NEW p \in DOMAIN book'[incoming.side]
      PROVE  ~IsEmpty(book'[incoming.side][p].orders)
  <2>1. incoming.side \in Side /\ incoming.side # Contra
    BY <1>1, IncomingTyped DEF Order
  <2> QED
    BY <1>3, <2>1, RestRemainderBook DEF HusksAtFront
<1> QED
  BY <1>1, <1>2, <1>3 DEF HusksAtFront

(* A cancel drops the level it empties, and an amend moves no order.       *)
LEMMA CancelOrderHusks ==
  ASSUME TypeOK, HusksAtFront, NEW id \in OrderID, cancelOrder(id)
  PROVE  HusksAtFront' /\ \A side \in Side : DOMAIN book'[side] \subseteq DOMAIN book[side]
<1> DEFINE ref   == orderMap[id]
           level == book[ref.side][ref.price]
           found == id \in DOMAIN orderMap /\ ref.price \in DOMAIN book[ref.side]
<1>1. \A side \in Side : \A p \in DOMAIN book[side] : ~IsEmpty(book[side][p].orders)
  BY DEF HusksAtFront, cancelOrder
<1>2. CASE ~found
  BY <1>1, <1>2 DEF cancelOrder, HusksAtFront
<1>3. CASE found
  <2>1. ref.side \in Side /\ ref.price \in DOMAIN book[ref.side]
    BY <1>3 DEF TypeOK, IndexTyped, OrderRef
  <2>2. PICK left : book' = StoreOrDrop(ref.side, ref.price, left)
    BY <1>3 DEF cancelOrder
  <2>3. CASE IsEmpty(left.orders)
    <3>1. book' = [book EXCEPT ![ref.side] = Without(@, {ref.price})]
      BY <2>2, <2>3 DEF StoreOrDrop
    <3> QED
      BY <1>1, <2>1, <3>1 DEF TypeOK, BookTyped, Without, HusksAtFront
  <2>4. CASE ~IsEmpty(left.orders)
    <3>1. book' = [book EXCEPT ![ref.side][ref.price] = left]
      BY <2>2, <2>4 DEF StoreOrDrop
    <3> QED
      BY <1>1, <2>1, <2>4, <3>1 DEF TypeOK, BookTyped, HusksAtFront
  <2> QED
    BY <2>3, <2>4
<1> QED
  BY <1>2, <1>3

(* An amend changes no level's live range.                                 *)
LEMMA ModifyOrderHusks ==
  ASSUME TypeOK, HusksAtFront, NEW id \in OrderID, NEW newQuantity \in Nat,
         modifyOrder(id, newQuantity)
  PROVE  HusksAtFront' /\ \A side \in Side : DOMAIN book'[side] = DOMAIN book[side]
<1> DEFINE ref   == orderMap[id]
           level == book[ref.side][ref.price]
           found == id \in DOMAIN orderMap /\ ref.price \in DOMAIN book[ref.side]
<1>1. \A side \in Side : \A p \in DOMAIN book[side] : ~IsEmpty(book[side][p].orders)
  BY DEF HusksAtFront, modifyOrder
<1>2. CASE ~found
  BY <1>1, <1>2 DEF modifyOrder, HusksAtFront
<1>3. CASE found
  <2>1. /\ ref.side \in Side /\ ref.price \in DOMAIN book[ref.side]
        /\ level.orders \in Deque /\ WellFormed(level.orders)
        /\ ref.iterator.map # Freed => ref.iterator.slot \in DOMAIN level.orders.slots
    BY <1>3 DEF TypeOK, IndexTyped, BookTyped, OrderRef, Level
  <2>2. PICK at \in ReadThrough(level.orders, ref.iterator) :
          book' = [book EXCEPT ![ref.side][ref.price] =
                    [orders   |-> Resize(level.orders, at, newQuantity),
                     quantity |-> level.quantity
                                  + (newQuantity - level.orders.slots[at].quantity)]]
    BY <1>3, <2>1 DEF modifyOrder, TypeOK, BookTyped
  <2>3. at \in DOMAIN level.orders.slots /\ newQuantity \in Nat
    BY <2>1, <2>2, TypesAssumption DEF ReadThrough
  <2>4. ~IsEmpty(Resize(level.orders, at, newQuantity))
    BY <1>1, <2>1, <2>3, ResizeTyped DEF IsEmpty
  <2> QED
    BY <1>1, <2>1, <2>2, <2>4 DEF TypeOK, BookTyped, HusksAtFront
<1> QED
  BY <1>2, <1>3

-----------------------------------------------------------------------------
(* The crossing test.                                                      *)

(* What may be rested is worse than every surviving level it could trade   *)
(* with, and the surviving levels are a subset of the old ones.            *)
LEMMA RestRemainderUncrossed ==
  ASSUME TypeOK, HusksAtFront, Uncrossed, restRemainder
  PROVE  Uncrossed'
<1>1. /\ incoming \in Order /\ Contra \in Side /\ Contra # incoming.side
      /\ incoming.side \in Side /\ incoming.price \in Price
  BY IncomingTyped DEF restRemainder, Order
<1>2. ASSUME NEW p \in DOMAIN book'[Contra]
      PROVE  /\ p \in DOMAIN book[Contra]
             /\ incoming.type = "LIMIT" /\ incoming.quantity # 0 => ~Marketable(incoming, p)
  <2>1. p \in DOMAIN book[Contra] /\ ~IsEmpty(book[Contra][p].orders)
    BY <1>2, RestRemainderBook, KeptLive DEF restRemainder
  <2>2. MatchingOver
    BY DEF restRemainder
  <2>3. incoming.quantity <= 0 => incoming.quantity = 0
    BY <1>1 DEF Order
  <2> QED
    BY <2>1, <2>2, <2>3 DEF MatchingOver
<1>3. Price \subseteq Int /\ \A side \in Side : DOMAIN book[side] \subseteq Price
  BY TypesAssumption DEF TypeOK, BookTyped
<1>4. CASE incoming.side = "BUY"
  <2>1. Contra = "SELL"
    BY <1>4 DEF Contra, Opposite
  <2>2. ASSUME NEW bid \in DOMAIN book'["BUY"], NEW ask \in DOMAIN book'["SELL"]
        PROVE  bid < ask
    <3>1. ask \in DOMAIN book["SELL"]
      BY <1>2, <2>1, <2>2
    <3>2. CASE bid \in DOMAIN book["BUY"]
      BY <3>1, <3>2 DEF Uncrossed
    <3>3. CASE bid \notin DOMAIN book["BUY"]
      <4>1. bid = incoming.price /\ incoming.type = "LIMIT" /\ incoming.quantity # 0
        BY <1>4, <2>2, <3>3, RestRemainderBook
      <4>2. ~Marketable(incoming, ask)
        BY <1>2, <2>1, <2>2, <4>1
      <4> QED
        BY <1>4, <4>1, <4>2 DEF Marketable, Better, Opposite
    <3> QED
      BY <3>2, <3>3
  <2> QED
    BY <2>2 DEF Uncrossed
<1>5. CASE incoming.side = "SELL"
  <2>1. Contra = "BUY"
    BY <1>5 DEF Contra, Opposite
  <2>2. ASSUME NEW bid \in DOMAIN book'["BUY"], NEW ask \in DOMAIN book'["SELL"]
        PROVE  bid < ask
    <3>1. bid \in DOMAIN book["BUY"]
      BY <1>2, <2>1, <2>2
    <3>2. CASE ask \in DOMAIN book["SELL"]
      BY <3>1, <3>2 DEF Uncrossed
    <3>3. CASE ask \notin DOMAIN book["SELL"]
      <4>1. ask = incoming.price /\ incoming.type = "LIMIT" /\ incoming.quantity # 0
        BY <1>5, <2>2, <3>3, RestRemainderBook
      <4>2. ~Marketable(incoming, bid)
        BY <1>2, <2>1, <2>2, <4>1
      <4> QED
        BY <1>5, <4>1, <4>2 DEF Marketable, Better, Opposite
    <3> QED
      BY <3>2, <3>3
  <2> QED
    BY <2>2 DEF Uncrossed
<1> QED
  BY <1>1, <1>4, <1>5 DEF Side

(* The loop changes no level's price.                                      *)
LEMMA FillUncrossed ==
  ASSUME TypeOK, Uncrossed, NEW price \in Price, fillResting(price) \/ fillIncoming(price)
  PROVE  Uncrossed'
<1>1. \A side \in Side : DOMAIN book'[side] = DOMAIN book[side]
  BY DEF fillResting, fillIncoming, TypeOK, BookTyped
<1> QED
  BY <1>1 DEF Uncrossed, Side

(* A finite, non-empty set of prices has a best one.                       *)
LEMMA BestPriceIs ==
  ASSUME TypeOK, NEW side \in Side, IsFiniteSet(DOMAIN book[side]),
         DOMAIN book[side] # {}
  PROVE  /\ BestPrice(side) \in DOMAIN book[side]
         /\ \A p \in DOMAIN book[side] : ~Better(side, p, BestPrice(side))
<1> DEFINE prices == DOMAIN book[side]
<1>1. prices \in SUBSET Int /\ IsFiniteSet(prices) /\ prices # {}
  BY TypesAssumption DEF TypeOK, BookTyped
<1> HIDE DEF prices
<1>2. (\E m \in prices : \A n \in prices : m <= n) /\ (\E m \in prices : \A n \in prices : n <= m)
  BY <1>1, Extremes
<1>3. \E p \in prices : \A q \in prices : ~Better(side, q, p)
  <2>1. CASE side = "BUY"
    <3>1. PICK m \in prices : \A n \in prices : n <= m
      BY <1>2
    <3>2. \A n \in prices : ~(n > m)
      BY <1>1, <3>1
    <3> QED
      BY <2>1, <3>2 DEF Better
  <2>2. CASE side # "BUY"
    <3>1. PICK m \in prices : \A n \in prices : m <= n
      BY <1>2
    <3>2. \A n \in prices : ~(n < m)
      BY <1>1, <3>1
    <3> QED
      BY <2>2, <3>2 DEF Better
  <2> QED
    BY <2>1, <2>2
<1> QED
  BY <1>3 DEF BestPrice, prices

-----------------------------------------------------------------------------
(* The inductive invariant.  None of the parts is inductive alone: the     *)
(* erase of a cancel is typed because its level holds an order, and the    *)
(* resting order does not cross because the levels that survive the prune  *)
(* are those whose orders the loop has refused.                            *)
IInv == TypeOK /\ HusksAtFront /\ Uncrossed

(* The empty book satisfies the invariant.                                 *)
THEOREM Initially == Init => IInv
<1> SUFFICES ASSUME Init PROVE IInv
  OBVIOUS
<1>1. DOMAIN book = Side /\ \A side \in Side : DOMAIN book[side] = {}
  BY DEF Init
<1>2. BookTyped /\ HusksAtFront /\ Uncrossed
  BY <1>1 DEF BookTyped, HusksAtFront, Uncrossed, Side
<1>3. IndexTyped
  BY DEF Init, IndexTyped
<1>4. lastTrades \in Seq(Trade) /\ incoming \in Order \cup {NoOrder}
  BY DEF Init
<1> QED
  BY <1>2, <1>3, <1>4 DEF IInv, TypeOK

(* Every step of every call preserves it.                                  *)
THEOREM Inductive == IInv /\ [Next]_bookVars => IInv'
<1> SUFFICES ASSUME IInv, [Next]_bookVars PROVE IInv'
  OBVIOUS
<1>1. ASSUME NEW order \in Submissions, addOrder(order)
      PROVE  IInv'
  <2>1. TypeOK'
    BY <1>1, AddOrderTyped DEF IInv
  <2>2. HusksAtFront' /\ Uncrossed'
    BY <1>1 DEF addOrder, IInv, HusksAtFront, Uncrossed
  <2> QED
    BY <2>1, <2>2 DEF IInv
<1>2. ASSUME NEW price \in Price, fillResting(price)
      PROVE  IInv'
  BY <1>2, FillRestingTyped, FillRestingHusks, FillUncrossed DEF IInv
<1>3. ASSUME NEW price \in Price, fillIncoming(price)
      PROVE  IInv'
  BY <1>3, FillIncomingTyped, FillIncomingHusks, FillUncrossed DEF IInv
<1>4. ASSUME restRemainder
      PROVE  IInv'
  BY <1>4, RestRemainderTyped, RestRemainderHusks, RestRemainderUncrossed DEF IInv
<1>5. ASSUME NEW id \in OrderID, cancelOrder(id)
      PROVE  IInv'
  <2>1. TypeOK' /\ HusksAtFront'
    BY <1>5, CancelOrderTyped, CancelOrderHusks DEF IInv
  <2>2. Uncrossed'
    BY <1>5, CancelOrderHusks DEF IInv, Uncrossed, Side
  <2> QED
    BY <2>1, <2>2 DEF IInv
<1>6. ASSUME NEW id \in OrderID, NEW newQuantity \in Quantity, modifyOrder(id, newQuantity)
      PROVE  IInv'
  <2>0. newQuantity \in Nat
    BY TypesAssumption
  <2>1. TypeOK' /\ HusksAtFront'
    BY <1>6, <2>0, ModifyOrderTyped, ModifyOrderHusks DEF IInv
  <2>2. Uncrossed'
    BY <1>6, <2>0, ModifyOrderHusks DEF IInv, Uncrossed, Side
  <2> QED
    BY <2>1, <2>2 DEF IInv
<1>7. CASE UNCHANGED bookVars
  BY <1>7 DEF bookVars, IInv, TypeOK, BookTyped, IndexTyped, HusksAtFront, Uncrossed, Idle, Contra
<1> QED
  BY <1>1, <1>2, <1>3, <1>4, <1>5, <1>6, <1>7 DEF Next, Match

(* So it holds of every reachable state.                                   *)
THEOREM Invariance == Spec => []IInv
<1>1. Init => IInv
  BY Initially
<1>2. IInv /\ [Next]_bookVars => IInv'
  BY Inductive
<1> QED
  BY <1>1, <1>2, PTL DEF Spec

-----------------------------------------------------------------------------
(* The variables of the book keep their types under every sequence of      *)
(* calls, also when a stored iterator denotes the wrong order.             *)
THEOREM TypeCorrect == Spec => []TypeOK
<1>1. IInv => TypeOK
  BY DEF IInv
<1> QED
  BY <1>1, Invariance, PTL

(* Whatever clients call, no bid is left at or above an ask.               *)
THEOREM NeverCrossed == Spec => []Uncrossed
<1>1. IInv => Uncrossed
  BY DEF IInv
<1> QED
  BY <1>1, Invariance, PTL

(* Whatever clients call, the level getBBO reports holds an order.         *)
THEOREM HusksStayInFront == Spec => []HusksAtFront
<1>1. IInv => HusksAtFront
  BY DEF IInv
<1> QED
  BY <1>1, Invariance, PTL

-----------------------------------------------------------------------------
(* The executions of a call walk away from the best price, which rests on  *)
(* the invariant and on the orders of a level having the level's price,    *)
(* which a misdirected cancel or amend does not change.                    *)

(* The orders of a level carry the price the level is keyed by.            *)
Keyed(level, price) ==
  \A i \in DOMAIN level.orders.slots : level.orders.slots[i].price = price

AllKeyed == \A side \in Side : \A p \in DOMAIN book[side] : Keyed(book[side][p], p)

(* The trades of a call are ordered by price.                              *)
Ordered(trades) ==
  \A i \in DOMAIN trades : \A j \in i .. Len(trades) :
    ~Better(Opposite(trades[i].takerSide), trades[j].price, trades[i].price)

(* What a trade of the call in progress has left behind: no level that     *)
(* holds an order is better than it.                                       *)
Behind(trade) ==
  /\ trade.takerSide = incoming.side
  /\ Marketable(incoming, trade.price)
  /\ \A q \in DOMAIN book[Contra] :
       ~IsEmpty(book[Contra][q].orders) => ~Better(Contra, q, trade.price)

AllBehind == ~Idle => \A i \in DOMAIN lastTrades : Behind(lastTrades[i])

(* The inductive invariant.                                                *)
PInv == IInv /\ AllKeyed /\ Ordered(lastTrades) /\ AllBehind

-----------------------------------------------------------------------------
(* No operation on a queue makes up an order.                              *)

(* erase only moves orders within the slots.                               *)
LEMMA EraseMoves ==
  ASSUME NEW d \in Deque, WellFormed(d), ~IsEmpty(d), NEW pos \in DOMAIN d.slots,
         NEW i \in DOMAIN Erase(d, pos).slots
  PROVE  \E j \in DOMAIN d.slots : Erase(d, pos).slots[i] = d.slots[j]
<1>1. /\ Len(d.slots) \in Nat /\ DOMAIN d.slots = 1..Len(d.slots)
      /\ d.begin \in Nat /\ d.end \in Nat
      /\ 1 <= d.begin /\ d.begin < d.end /\ d.end <= Len(d.slots) + 1
  BY DEF Deque, WellFormed, IsEmpty
<1>2. DOMAIN Erase(d, pos).slots = DOMAIN d.slots
  BY EraseTyped
<1>3. CASE d.begin <= pos /\ pos - d.begin < Size(d) \div 2
  <2>1. Erase(d, pos).slots[i] = IF d.begin < i /\ i <= pos THEN d.slots[i - 1] ELSE d.slots[i]
    BY <1>2, <1>3 DEF Erase, Deque
  <2>2. d.begin < i => i - 1 \in DOMAIN d.slots
    BY <1>1, <1>2
  <2> QED
    BY <1>2, <2>1, <2>2
<1>4. CASE ~(d.begin <= pos /\ pos - d.begin < Size(d) \div 2)
  <2>1. Erase(d, pos).slots[i] = IF i >= pos /\ i + 1 < d.end THEN d.slots[i + 1] ELSE d.slots[i]
    BY <1>2, <1>4 DEF Erase, Deque
  <2>2. i + 1 < d.end => i + 1 \in DOMAIN d.slots
    BY <1>1, <1>2
  <2> QED
    BY <1>2, <2>1, <2>2
<1> QED
  BY <1>3, <1>4

(* Nor does it change the price the level's orders carry.                  *)
LEMMA EraseKeyed ==
  ASSUME NEW level \in Level, WellFormed(level.orders), ~IsEmpty(level.orders),
         NEW pos \in DOMAIN level.orders.slots, NEW price, Keyed(level, price), NEW quantity
  PROVE  Keyed([orders |-> Erase(level.orders, pos), quantity |-> quantity], price)
BY EraseMoves DEF Keyed, Level

(* Assigning a quantity does not.                                          *)
LEMMA ResizeKeyed ==
  ASSUME NEW level \in Level, WellFormed(level.orders), NEW pos \in DOMAIN level.orders.slots,
         NEW q \in Nat, NEW price, Keyed(level, price), NEW quantity
  PROVE  Keyed([orders |-> Resize(level.orders, pos, q), quantity |-> quantity], price)
<1> DEFINE d == level.orders
           o == [d.slots[pos] EXCEPT !.quantity = q]
<1>1. d \in Deque /\ d.slots \in Seq(Order) /\ d.slots[pos] \in Order
  BY DEF Level, Deque
<1>2. Resize(d, pos, q).slots = [d.slots EXCEPT ![pos] = o]
  BY <1>1 DEF Resize, Deque
<1>3. o.price = d.slots[pos].price
  BY <1>1 DEF Order
<1> HIDE DEF o
<1>4. \A i \in DOMAIN d.slots : [d.slots EXCEPT ![pos] = o][i].price = d.slots[i].price
  BY <1>1, <1>3
<1> QED
  BY <1>1, <1>2, <1>4 DEF Keyed

(* push_back keeps the level keyed when the order has its price.           *)
LEMMA PushBackKeyed ==
  ASSUME NEW level \in Level, WellFormed(level.orders), NEW order \in Order,
         Keyed(level, order.price), NEW quantity
  PROVE  Keyed([orders |-> PushBack(level.orders, order), quantity |-> quantity], order.price)
<1> DEFINE d == level.orders
<1>1. d \in Deque /\ d.slots \in Seq(Order) /\ Len(d.slots) \in Nat /\ d.end \in Nat
  BY DEF Level, Deque
<1>2. CASE d.end <= Len(d.slots)
  BY <1>1, <1>2 DEF PushBack, Keyed
<1>3. CASE ~(d.end <= Len(d.slots))
  <2>1. PushBack(d, order).slots = Append(d.slots, order)
    BY <1>3 DEF PushBack
  <2>2. \A i \in 1..(Len(d.slots) + 1) :
          Append(d.slots, order)[i] = IF i = Len(d.slots) + 1 THEN order ELSE d.slots[i]
    BY <1>1
  <2>3. \A i \in 1..(Len(d.slots) + 1) : i = Len(d.slots) + 1 \/ i \in DOMAIN d.slots
    BY <1>1
  <2>4. DOMAIN Append(d.slots, order) = 1..(Len(d.slots) + 1)
    BY <1>1
  <2>5. \A i \in 1..(Len(d.slots) + 1) : Append(d.slots, order)[i].price = order.price
    BY <2>2, <2>3 DEF Keyed
  <2> QED
    BY <2>1, <2>4, <2>5 DEF Keyed
<1> QED
  BY <1>2, <1>3

-----------------------------------------------------------------------------
(* The loop of addOrder: the level it stands at, and the trade it prints.  *)

(* One execution of either branch: at the best level that holds an order,  *)
(* at that level's price, and emptying no level that held none.            *)
Step(price) ==
  /\ ~Idle /\ incoming \in Order /\ Contra \in Side
  /\ BestLive(Contra, price) /\ Marketable(incoming, price) /\ price \in Int
  /\ \E maker, q : /\ maker.price = price
                   /\ lastTrades' = Append(lastTrades, Fill(maker, q))
  /\ incoming' \in Order /\ incoming'.side = incoming.side
  /\ incoming'.type = incoming.type /\ incoming'.price = incoming.price
  /\ DOMAIN book'[Contra] = DOMAIN book[Contra]
  /\ \A q \in DOMAIN book[Contra] :
       IsEmpty(book[Contra][q].orders) => IsEmpty(book'[Contra][q].orders)

(* traversePriceLevel, else branch.                                        *)
LEMMA FillRestingStep ==
  ASSUME PInv, NEW price \in Price, fillResting(price)
  PROVE  Step(price) /\ AllKeyed'
<1> DEFINE level == book[Contra][price]
           curr  == Front(level.orders)
           left  == Consume(level)
<1>1. TypeOK /\ incoming \in Order /\ incoming # NoOrder /\ Contra \in Side /\ price \in Int
  BY IncomingTyped, TypesAssumption DEF fillResting, PInv, IInv
<1>2. /\ price \in DOMAIN book[Contra] /\ level \in Level
      /\ WellFormed(level.orders) /\ ~IsEmpty(level.orders)
  BY <1>1 DEF fillResting, BestLive, TypeOK, BookTyped
<1>3. /\ lastTrades' = Append(lastTrades, Fill(curr, curr.quantity))
      /\ incoming' = [incoming EXCEPT !.quantity = @ - curr.quantity]
      /\ book' = [book EXCEPT ![Contra][price] = left]
  BY <1>1, <1>2 DEF fillResting, TypeOK, BookTyped
<1>4. left \in Level /\ WellFormed(left.orders)
  BY <1>2, ConsumeTyped
<1>5. level.orders.begin \in DOMAIN level.orders.slots
  BY <1>2, FrontTyped DEF Level
<1>6. curr.price = price
  BY <1>1, <1>2, <1>5 DEF PInv, AllKeyed, Keyed, Front
<1>7. Keyed(left, price)
  BY <1>1, <1>2, <1>5, EraseKeyed DEF PInv, AllKeyed, Consume
<1> HIDE DEF left
<1>8. /\ \A s \in Side : DOMAIN book'[s] = DOMAIN book[s]
      /\ \A s \in Side : \A p \in DOMAIN book[s] :
           book'[s][p] = IF s = Contra /\ p = price THEN left ELSE book[s][p]
  <2>1. \A s \in Side : DOMAIN book'[s] = DOMAIN book[s]
    BY <1>1, <1>2, <1>3 DEF TypeOK, BookTyped
  <2>2. \A s \in Side : \A p \in DOMAIN book[s] :
          book'[s][p] = IF s = Contra /\ p = price THEN left ELSE book[s][p]
    BY <1>1, <1>2, <1>3 DEF TypeOK, BookTyped
  <2> QED
    BY <2>1, <2>2
<1>9. AllKeyed'
  BY <1>7, <1>8 DEF PInv, AllKeyed
<1>10. incoming' \in Order /\ incoming'.side = incoming.side
  BY <1>1, FillRestingTyped
<1>11. incoming'.type = incoming.type /\ incoming'.price = incoming.price
  BY <1>1, <1>3 DEF Order
<1>12. \E maker, q : maker.price = price /\ lastTrades' = Append(lastTrades, Fill(maker, q))
  BY <1>3, <1>6
<1>13. /\ DOMAIN book'[Contra] = DOMAIN book[Contra]
       /\ \A q \in DOMAIN book[Contra] :
            IsEmpty(book[Contra][q].orders) => IsEmpty(book'[Contra][q].orders)
  BY <1>1, <1>2, <1>8
<1>14. ~Idle /\ BestLive(Contra, price) /\ Marketable(incoming, price)
  BY DEF fillResting
<1> QED
  BY <1>1, <1>9, <1>10, <1>11, <1>12, <1>13, <1>14 DEF Step

(* traversePriceLevel, first branch.                                       *)
LEMMA FillIncomingStep ==
  ASSUME PInv, NEW price \in Price, fillIncoming(price)
  PROVE  Step(price) /\ AllKeyed'
<1> DEFINE level == book[Contra][price]
           curr  == Front(level.orders)
           left  == Reduce(level, incoming.quantity)
<1>1. TypeOK /\ incoming \in Order /\ incoming # NoOrder /\ Contra \in Side /\ price \in Int
  BY IncomingTyped, TypesAssumption DEF fillIncoming, PInv, IInv
<1>2. /\ price \in DOMAIN book[Contra] /\ level \in Level
      /\ WellFormed(level.orders) /\ ~IsEmpty(level.orders)
  BY <1>1 DEF fillIncoming, BestLive, TypeOK, BookTyped
<1>3. /\ curr.quantity > incoming.quantity
      /\ lastTrades' = Append(lastTrades, Fill(curr, incoming.quantity))
      /\ incoming' = [incoming EXCEPT !.quantity = 0]
      /\ book' = [book EXCEPT ![Contra][price] = left]
  BY <1>1, <1>2 DEF fillIncoming, TypeOK, BookTyped
<1>4. level.orders.begin \in DOMAIN level.orders.slots /\ curr \in Order
  BY <1>2, FrontTyped DEF Level
<1>5. left \in Level /\ WellFormed(left.orders)
  BY <1>1, <1>2, <1>3, <1>4, ReduceTyped DEF Order
<1>6. curr.price = price
  BY <1>1, <1>2, <1>4 DEF PInv, AllKeyed, Keyed, Front
<1>7. curr.quantity - incoming.quantity \in Nat
  BY <1>1, <1>3, <1>4 DEF Order
<1>8. Keyed(left, price)
  BY <1>1, <1>2, <1>4, <1>7, ResizeKeyed DEF PInv, AllKeyed, Reduce
<1> HIDE DEF left
<1>9. /\ \A s \in Side : DOMAIN book'[s] = DOMAIN book[s]
      /\ \A s \in Side : \A p \in DOMAIN book[s] :
           book'[s][p] = IF s = Contra /\ p = price THEN left ELSE book[s][p]
  <2>1. \A s \in Side : DOMAIN book'[s] = DOMAIN book[s]
    BY <1>1, <1>2, <1>3 DEF TypeOK, BookTyped
  <2>2. \A s \in Side : \A p \in DOMAIN book[s] :
          book'[s][p] = IF s = Contra /\ p = price THEN left ELSE book[s][p]
    BY <1>1, <1>2, <1>3 DEF TypeOK, BookTyped
  <2> QED
    BY <2>1, <2>2
<1>10. AllKeyed'
  BY <1>8, <1>9 DEF PInv, AllKeyed
<1>11. incoming' \in Order /\ incoming'.side = incoming.side
  BY <1>1, FillIncomingTyped
<1>12. incoming'.type = incoming.type /\ incoming'.price = incoming.price
  BY <1>1, <1>3 DEF Order
<1>13. \E maker, q : maker.price = price /\ lastTrades' = Append(lastTrades, Fill(maker, q))
  BY <1>3, <1>6
<1>14. /\ DOMAIN book'[Contra] = DOMAIN book[Contra]
       /\ \A q \in DOMAIN book[Contra] :
            IsEmpty(book[Contra][q].orders) => IsEmpty(book'[Contra][q].orders)
  BY <1>1, <1>2, <1>9
<1>15. ~Idle /\ BestLive(Contra, price) /\ Marketable(incoming, price)
  BY DEF fillIncoming
<1> QED
  BY <1>1, <1>10, <1>11, <1>12, <1>13, <1>14, <1>15 DEF Step

(* A trade at the best price joins trades that left no better level.       *)
LEMMA StepOrdered ==
  ASSUME PInv, NEW price \in Price, Step(price)
  PROVE  Ordered(lastTrades') /\ AllBehind'
<1>1. PICK maker, q : maker.price = price /\ lastTrades' = Append(lastTrades, Fill(maker, q))
  BY DEF Step
<1> DEFINE trade == Fill(maker, q)
           n     == Len(lastTrades)
<1>2. trade.price = price /\ trade.takerSide = incoming.side
  BY <1>1 DEF Fill
<1>3. lastTrades \in Seq(Trade) /\ n \in Nat /\ DOMAIN lastTrades = 1..n
  BY DEF PInv, IInv, TypeOK
<1> HIDE DEF trade
<1>4. /\ Len(lastTrades') = n + 1 /\ DOMAIN lastTrades' = 1..(n + 1)
      /\ lastTrades'[n + 1] = trade
      /\ \A i \in 1..n : lastTrades'[i] = lastTrades[i]
  BY <1>1, <1>3 DEF trade
<1>5. \A i \in 1..n : Behind(lastTrades[i])
  BY <1>3 DEF PInv, AllBehind, Step
<1>6. Contra' = Contra /\ ~Idle'
  BY TypesAssumption DEF Step, Contra, Idle
<1>7. Ordered(lastTrades')
  <2> SUFFICES ASSUME NEW i \in 1..(n + 1), NEW j \in i..(n + 1)
               PROVE  ~Better(Opposite(lastTrades'[i].takerSide),
                              lastTrades'[j].price, lastTrades'[i].price)
    BY <1>4 DEF Ordered
  <2>1. CASE i \in 1..n /\ j \in i..n
    BY <1>3, <1>4, <2>1 DEF PInv, Ordered
  <2>2. CASE i \in 1..n /\ j = n + 1
    <3>1. lastTrades'[i] = lastTrades[i] /\ Behind(lastTrades[i])
      BY <1>4, <1>5, <2>2
    <3>2. price \in DOMAIN book[Contra] /\ ~IsEmpty(book[Contra][price].orders)
      BY DEF Step, BestLive
    <3> QED
      BY <1>2, <1>4, <2>2, <3>1, <3>2 DEF Behind, Contra
  <2>3. CASE i = n + 1 /\ j = n + 1
    <3>1. ~Better(Contra, price, price)
      BY DEF Step, Better
    <3> QED
      BY <1>2, <1>4, <2>3, <3>1 DEF Contra
  <2> QED
    BY <1>3, <2>1, <2>2, <2>3
<1>8. ASSUME NEW t, t.takerSide = incoming.side, Marketable(incoming, t.price),
             \A r \in DOMAIN book[Contra] :
               ~IsEmpty(book[Contra][r].orders) => ~Better(Contra, r, t.price)
      PROVE  /\ t.takerSide = incoming'.side /\ Marketable(incoming', t.price)
             /\ \A r \in DOMAIN book'[Contra'] :
                  ~IsEmpty(book'[Contra'][r].orders) => ~Better(Contra', r, t.price)
  <2>1. Marketable(incoming', t.price)
    BY <1>8 DEF Step, Marketable
  <2> QED
    BY <1>6, <1>8, <2>1 DEF Step
<1>9. ASSUME NEW i \in 1..(n + 1) PROVE Behind(lastTrades[i])'
  <2>1. CASE i \in 1..n
    <3>1. lastTrades'[i] = lastTrades[i]
      BY <1>4, <2>1
    <3> QED
      BY <1>5, <1>8, <2>1, <3>1 DEF Behind
  <2>2. CASE i = n + 1
    <3>1. \A r \in DOMAIN book[Contra] :
            ~IsEmpty(book[Contra][r].orders) => ~Better(Contra, r, trade.price)
      BY <1>2 DEF Step, BestLive
    <3>2. Marketable(incoming, trade.price)
      BY <1>2 DEF Step
    <3> QED
      BY <1>2, <1>4, <1>8, <2>2, <3>1, <3>2 DEF Behind
  <2> QED
    BY <1>3, <2>1, <2>2
<1> QED
  BY <1>4, <1>7, <1>9 DEF AllBehind

-----------------------------------------------------------------------------
(* The other steps keep the levels keyed.                                  *)

(* What is rested joins the level of its own price.                        *)
LEMMA RestRemainderKeyed ==
  ASSUME PInv, restRemainder
  PROVE  AllKeyed'
<1> DEFINE kept  == Without(book[Contra], EmptyFront(Contra))
           level == LevelAt(incoming.side, incoming.price)
           queue == PushBack(level.orders, incoming)
           added == [orders |-> queue, quantity |-> level.quantity + incoming.quantity]
<1>1. /\ TypeOK /\ incoming \in Order /\ Contra \in Side /\ Contra # incoming.side
      /\ incoming.side \in Side
  BY IncomingTyped DEF restRemainder, Order, PInv, IInv
<1>2. \A side \in Side : side = Contra \/ side = incoming.side
  BY <1>1 DEF Side
<1>3. \A p \in DOMAIN kept : p \in DOMAIN book[Contra] /\ kept[p] = book[Contra][p]
  BY DEF Without
<1>4. CASE incoming.type = "LIMIT" /\ incoming.quantity # 0
  <2>1. book' = [book EXCEPT ![Contra] = kept,
                             ![incoming.side] = With(@, incoming.price, added)]
    BY <1>4 DEF restRemainder
  <2>2. level \in Level /\ WellFormed(level.orders)
    BY <1>1, EmptyDequeTyped DEF LevelAt, EmptyLevel, Level, TypeOK, BookTyped
  <2>3. Keyed(level, incoming.price)
    BY <1>1 DEF LevelAt, EmptyLevel, EmptyDeque, Keyed, PInv, AllKeyed
  <2>4. Keyed(added, incoming.price)
    BY <1>1, <2>2, <2>3, PushBackKeyed
  <2> HIDE DEF kept, added
  <2>5. book'[Contra] = kept /\ book'[incoming.side] = With(book[incoming.side], incoming.price, added)
    BY <1>1, <2>1 DEF TypeOK, BookTyped
  <2>6. \A p \in DOMAIN book'[Contra] : Keyed(book'[Contra][p], p)
    BY <1>1, <1>3, <2>5 DEF PInv, AllKeyed
  <2>7. \A p \in DOMAIN book'[incoming.side] : Keyed(book'[incoming.side][p], p)
    BY <1>1, <2>4, <2>5 DEF PInv, AllKeyed, With
  <2> QED
    BY <1>2, <2>6, <2>7 DEF AllKeyed
<1>5. CASE ~(incoming.type = "LIMIT" /\ incoming.quantity # 0)
  <2>1. book' = [book EXCEPT ![Contra] = kept]
    BY <1>5 DEF restRemainder
  <2> HIDE DEF kept
  <2>2. book'[Contra] = kept /\ book'[incoming.side] = book[incoming.side]
    BY <1>1, <2>1 DEF TypeOK, BookTyped
  <2> QED
    BY <1>1, <1>2, <1>3, <2>2 DEF PInv, AllKeyed
<1> QED
  BY <1>4, <1>5

(* A cancel takes an order off a level, not always the one it was asked to. *)
LEMMA CancelOrderKeyed ==
  ASSUME PInv, NEW id \in OrderID, cancelOrder(id)
  PROVE  AllKeyed'
<1> DEFINE ref   == orderMap[id]
           level == book[ref.side][ref.price]
           found == id \in DOMAIN orderMap /\ ref.price \in DOMAIN book[ref.side]
<1>1. TypeOK /\ HusksAtFront /\ AllKeyed
  BY DEF PInv, IInv
<1>2. CASE ~found
  BY <1>1, <1>2 DEF cancelOrder, AllKeyed
<1>3. CASE found
  <2>1. /\ ref.side \in Side /\ ref.price \in DOMAIN book[ref.side]
        /\ level \in Level /\ WellFormed(level.orders) /\ ~IsEmpty(level.orders)
        /\ level.orders \in Deque
    BY <1>1, <1>3 DEF TypeOK, IndexTyped, BookTyped, OrderRef, HusksAtFront, cancelOrder, Level
  <2>2. ref.iterator.map # Freed => ref.iterator.slot \in DOMAIN level.orders.slots
    BY <1>1, <1>3 DEF TypeOK, IndexTyped
  <2>3. PICK erased, quantity :
          /\ erased \in EraseAt(level.orders, ref.iterator)
          /\ book' = StoreOrDrop(ref.side, ref.price,
                                 [orders |-> Erase(level.orders, erased), quantity |-> quantity])
    BY <1>3 DEF cancelOrder
  <2> DEFINE left == [orders |-> Erase(level.orders, erased), quantity |-> quantity]
  <2>4. erased \in DOMAIN level.orders.slots
    BY <2>1, <2>2, <2>3 DEF EraseAt, WellFormed
  <2>5. Keyed(level, ref.price)
    BY <1>1, <2>1 DEF AllKeyed
  <2>6. Keyed(left, ref.price)
    BY <2>1, <2>4, <2>5, EraseKeyed
  <2>7. book' = StoreOrDrop(ref.side, ref.price, left)
    BY <2>3
  <2> HIDE DEF left
  <2>8. CASE IsEmpty(left.orders)
    <3>1. book' = [book EXCEPT ![ref.side] = Without(@, {ref.price})]
      BY <2>7, <2>8 DEF StoreOrDrop
    <3> QED
      BY <1>1, <2>1, <3>1 DEF TypeOK, BookTyped, Without, AllKeyed
  <2>9. CASE ~IsEmpty(left.orders)
    <3>1. book' = [book EXCEPT ![ref.side][ref.price] = left]
      BY <2>7, <2>9 DEF StoreOrDrop
    <3> QED
      BY <1>1, <2>1, <2>6, <3>1 DEF TypeOK, BookTyped, AllKeyed
  <2> QED
    BY <2>8, <2>9
<1> QED
  BY <1>2, <1>3

(* An amend moves no order and reprices none.                              *)
LEMMA ModifyOrderKeyed ==
  ASSUME PInv, NEW id \in OrderID, NEW newQuantity \in Quantity, modifyOrder(id, newQuantity)
  PROVE  AllKeyed'
<1> DEFINE ref   == orderMap[id]
           level == book[ref.side][ref.price]
           found == id \in DOMAIN orderMap /\ ref.price \in DOMAIN book[ref.side]
<1>1. TypeOK /\ HusksAtFront /\ AllKeyed
  BY DEF PInv, IInv
<1>2. CASE ~found
  BY <1>1, <1>2 DEF modifyOrder, AllKeyed
<1>3. CASE found
  <2>1. /\ ref.side \in Side /\ ref.price \in DOMAIN book[ref.side]
        /\ level \in Level /\ WellFormed(level.orders) /\ level.orders \in Deque
        /\ ref.iterator.map # Freed => ref.iterator.slot \in DOMAIN level.orders.slots
    BY <1>1, <1>3 DEF TypeOK, IndexTyped, BookTyped, OrderRef, Level
  <2>2. PICK at, quantity :
          /\ at \in ReadThrough(level.orders, ref.iterator)
          /\ book' = [book EXCEPT ![ref.side][ref.price] =
                       [orders |-> Resize(level.orders, at, newQuantity), quantity |-> quantity]]
    BY <1>1, <1>3, <2>1 DEF modifyOrder, TypeOK, BookTyped
  <2> DEFINE amended == [orders |-> Resize(level.orders, at, newQuantity), quantity |-> quantity]
  <2>3. at \in DOMAIN level.orders.slots /\ newQuantity \in Nat
    BY <2>1, <2>2, TypesAssumption DEF ReadThrough
  <2>4. Keyed(level, ref.price)
    BY <1>1, <2>1 DEF AllKeyed
  <2>5. Keyed(amended, ref.price)
    BY <2>1, <2>3, <2>4, ResizeKeyed
  <2>6. book' = [book EXCEPT ![ref.side][ref.price] = amended]
    BY <2>2
  <2> HIDE DEF amended
  <2> QED
    BY <1>1, <2>1, <2>5, <2>6 DEF TypeOK, BookTyped, AllKeyed
<1> QED
  BY <1>2, <1>3

-----------------------------------------------------------------------------
(* The empty book satisfies the invariant.                                 *)
LEMMA PriceInitially == Init => PInv
<1> SUFFICES ASSUME Init PROVE PInv
  OBVIOUS
<1>1. IInv
  BY Initially
<1>2. AllKeyed
  BY DEF Init, AllKeyed
<1>3. Ordered(lastTrades) /\ AllBehind
  BY DEF Init, Ordered, AllBehind, Idle
<1> QED
  BY <1>1, <1>2, <1>3 DEF PInv

(* Every step of every call preserves it.                                  *)
LEMMA PriceInductive == PInv /\ [Next]_bookVars => PInv'
<1> SUFFICES ASSUME PInv, [Next]_bookVars PROVE PInv'
  OBVIOUS
<1>0. IInv'
  BY Inductive DEF PInv
<1>1. ASSUME NEW order \in Submissions, addOrder(order)
      PROVE  PInv'
  <2>1. Ordered(lastTrades') /\ AllBehind'
    BY <1>1 DEF addOrder, Ordered, AllBehind
  <2>2. AllKeyed'
    BY <1>1 DEF addOrder, AllKeyed, PInv
  <2> QED
    BY <1>0, <2>1, <2>2 DEF PInv
<1>2. ASSUME NEW price \in Price, fillResting(price)
      PROVE  PInv'
  BY <1>0, <1>2, FillRestingStep, StepOrdered DEF PInv
<1>3. ASSUME NEW price \in Price, fillIncoming(price)
      PROVE  PInv'
  BY <1>0, <1>3, FillIncomingStep, StepOrdered DEF PInv
<1>4. ASSUME restRemainder
      PROVE  PInv'
  <2>1. Ordered(lastTrades') /\ AllBehind'
    BY <1>4 DEF restRemainder, AllBehind, Idle, PInv
  <2> QED
    BY <1>0, <1>4, <2>1, RestRemainderKeyed DEF PInv
<1>5. ASSUME NEW id \in OrderID, cancelOrder(id)
      PROVE  PInv'
  <2>1. Ordered(lastTrades') /\ AllBehind'
    BY <1>5 DEF cancelOrder, Ordered, AllBehind
  <2> QED
    BY <1>0, <1>5, <2>1, CancelOrderKeyed DEF PInv
<1>6. ASSUME NEW id \in OrderID, NEW newQuantity \in Quantity, modifyOrder(id, newQuantity)
      PROVE  PInv'
  <2>1. Ordered(lastTrades') /\ AllBehind'
    BY <1>6 DEF modifyOrder, Ordered, AllBehind
  <2> QED
    BY <1>0, <1>6, <2>1, ModifyOrderKeyed DEF PInv
<1>7. CASE UNCHANGED bookVars
  <2>1. AllBehind'
    BY <1>7 DEF bookVars, PInv, AllBehind, Behind, Idle, Contra
  <2> QED
    BY <1>0, <1>7, <2>1 DEF bookVars, PInv, AllKeyed
<1> QED
  BY <1>1, <1>2, <1>3, <1>4, <1>5, <1>6, <1>7 DEF Next, Match

(* Whatever clients call, the executions of one call walk away from the    *)
(* best price and none is worse than the incoming order's limit            *)
(* (traversePriceLevel and the loops of match, orderbook.cpp).             *)
THEOREM PricesWalkAway == Spec => []TradesInPriceOrder
<1>1. PInv => TradesInPriceOrder
  BY DEF PInv, Ordered, AllBehind, Behind, TradesInPriceOrder
<1> QED
  BY <1>1, PriceInitially, PriceInductive, PTL DEF Spec

-----------------------------------------------------------------------------
(* Exactness, one level at a time.                                         *)

(* The queue of one level and the entries of the index for that level      *)
(* lead to each other.                                                     *)
QueueExact(side, p, d, refs) ==
  /\ \A i \in Live(d) :
       LET id == d.slots[i].id
       IN /\ id \in DOMAIN refs
          /\ refs[id].side = side /\ refs[id].price = p
          /\ refs[id].iterator.slot = i
  /\ \A id \in DOMAIN refs :
       refs[id].side = side /\ refs[id].price = p =>
         /\ refs[id].iterator.map = d.map
         /\ refs[id].iterator.slot \in Live(d)
         /\ d.slots[refs[id].iterator.slot].id = id

(* Every entry belongs to a level, and every level is exact.               *)
LevelsExact(b, refs) ==
  /\ \A id \in DOMAIN refs :
       refs[id].side \in Side /\ refs[id].price \in DOMAIN b[refs[id].side]
  /\ \A side \in Side : \A p \in DOMAIN b[side] :
       QueueExact(side, p, b[side][p].orders, refs)

(* The two ways to say that the index is exact agree.                      *)
LEMMA ByLevel ==
  ASSUME IndexTyped, IndexExact
  PROVE  LevelsExact(book, orderMap)
<1>1. ASSUME NEW id \in DOMAIN orderMap
      PROVE  orderMap[id].side \in Side /\ orderMap[id].price \in DOMAIN book[orderMap[id].side]
  BY DEF IndexTyped, IndexExact, EntryExact, OrderRef
<1>2. ASSUME NEW side \in Side, NEW p \in DOMAIN book[side]
      PROVE  QueueExact(side, p, book[side][p].orders, orderMap)
  <2>1. \A i \in Live(book[side][p].orders) : Indexed(side, p, i)
    BY DEF IndexExact
  <2>2. \A id \in DOMAIN orderMap : EntryExact(id)
    BY DEF IndexExact
  <2> QED
    BY <2>1, <2>2 DEF QueueExact, EntryExact, Indexed
<1> QED
  BY <1>1, <1>2 DEF LevelsExact

(* And after a step.                                                       *)
LEMMA ByLevelNext ==
  ASSUME LevelsExact(book', orderMap')
  PROVE  IndexExact'
<1>1. ASSUME NEW id \in DOMAIN orderMap'
      PROVE  EntryExact(id)'
  BY DEF LevelsExact, QueueExact, EntryExact
<1>2. ASSUME NEW side \in Side, NEW p \in DOMAIN book'[side],
             NEW i \in Live(book'[side][p].orders)
      PROVE  Indexed(side, p, i)'
  BY DEF LevelsExact, QueueExact, Indexed
<1> QED
  BY <1>1, <1>2 DEF IndexExact

(* A step that leaves book and index alone leaves them exact.              *)
LEMMA ExactUnchanged ==
  ASSUME IndexExact, UNCHANGED <<book, orderMap>>
  PROVE  IndexExact'
<1>1. ASSUME NEW id \in DOMAIN orderMap'
      PROVE  EntryExact(id)'
  <2>1. EntryExact(id)
    BY DEF IndexExact
  <2> QED
    BY <2>1 DEF EntryExact
<1>2. ASSUME NEW side \in Side, NEW p \in DOMAIN book'[side],
             NEW i \in Live(book'[side][p].orders)
      PROVE  Indexed(side, p, i)'
  <2>1. Indexed(side, p, i)
    BY DEF IndexExact
  <2> QED
    BY <2>1 DEF Indexed
<1> QED
  BY <1>1, <1>2 DEF IndexExact

(* A level keeps its exactness when the index changes for others only.     *)
LEMMA OtherEntries ==
  ASSUME NEW side, NEW p, NEW d, NEW refs, NEW refs2,
         QueueExact(side, p, d, refs),
         \A id \in DOMAIN refs2 : refs2[id].side = side /\ refs2[id].price = p =>
           id \in DOMAIN refs /\ refs2[id] = refs[id],
         \A id \in DOMAIN refs : refs[id].side = side /\ refs[id].price = p =>
           id \in DOMAIN refs2 /\ refs2[id] = refs[id]
  PROVE  QueueExact(side, p, d, refs2)
BY DEF QueueExact

(* Nothing refers to a level without orders.                               *)
LEMMA NothingInEmpty ==
  ASSUME NEW side, NEW p, NEW d \in Deque, NEW refs,
         QueueExact(side, p, d, refs), IsEmpty(d)
  PROVE  \A id \in DOMAIN refs : ~(refs[id].side = side /\ refs[id].price = p)
<1>1. Live(d) = {}
  BY DEF Live, IsEmpty, Deque
<1> QED
  BY <1>1 DEF QueueExact

(* A queue with a live slot is not empty.                                  *)
LEMMA LiveNonEmpty ==
  ASSUME NEW d \in Deque, NEW i \in Live(d)
  PROVE  ~IsEmpty(d)
BY DEF Live, IsEmpty, Deque

-----------------------------------------------------------------------------
(* What the operations do to one exact level.                              *)

(* An erase at an end of the queue moves no other order.                   *)
LEMMA EraseAtAnEnd ==
  ASSUME NEW d \in Deque, WellFormed(d), NEW pos \in Live(d),
         pos = d.begin \/ pos = d.end - 1
  PROVE  /\ Erase(d, pos).map = d.map
         /\ Live(Erase(d, pos)) = Live(d) \ {pos}
         /\ \A i \in Live(d) : Erase(d, pos).slots[i] = d.slots[i]
<1>1. /\ d.begin \in Nat /\ d.end \in Nat /\ pos \in Int
      /\ d.begin <= pos /\ pos <= d.end - 1
      /\ 1 <= d.begin /\ d.end <= Len(d.slots) + 1 /\ DOMAIN d.slots = 1..Len(d.slots)
      /\ Len(d.slots) \in Nat
  BY DEF Deque, WellFormed, Live
<1>2. Live(d) \subseteq DOMAIN d.slots
  BY <1>1 DEF Live
<1>3. CASE d.begin <= pos /\ pos - d.begin < Size(d) \div 2
  <2>1. pos = d.begin
    BY <1>1, <1>3 DEF Size
  <2>2. Erase(d, pos) = [d EXCEPT
          !.slots = [i \in DOMAIN d.slots |->
                      IF d.begin < i /\ i <= pos THEN d.slots[i - 1] ELSE d.slots[i]],
          !.begin = @ + 1]
    BY <1>3 DEF Erase
  <2>3. /\ Erase(d, pos).map = d.map /\ Erase(d, pos).begin = d.begin + 1
        /\ Erase(d, pos).end = d.end
        /\ Erase(d, pos).slots = [i \in DOMAIN d.slots |->
                      IF d.begin < i /\ i <= pos THEN d.slots[i - 1] ELSE d.slots[i]]
    BY <2>2 DEF Deque
  <2>4. \A i \in Live(d) : Erase(d, pos).slots[i] = d.slots[i]
    BY <1>1, <1>2, <2>1, <2>3 DEF Live
  <2>5. Live(Erase(d, pos)) = Live(d) \ {pos}
    BY <1>1, <2>1, <2>3 DEF Live
  <2> QED
    BY <2>3, <2>4, <2>5
<1>4. CASE ~(d.begin <= pos /\ pos - d.begin < Size(d) \div 2)
  <2>1. pos = d.end - 1
    BY <1>1, <1>4 DEF Size
  <2>2. Erase(d, pos) = [d EXCEPT
          !.slots = [i \in DOMAIN d.slots |->
                      IF i >= pos /\ i + 1 < d.end THEN d.slots[i + 1] ELSE d.slots[i]],
          !.end   = @ - 1]
    BY <1>4 DEF Erase
  <2>3. /\ Erase(d, pos).map = d.map /\ Erase(d, pos).begin = d.begin
        /\ Erase(d, pos).end = d.end - 1
        /\ Erase(d, pos).slots = [i \in DOMAIN d.slots |->
                      IF i >= pos /\ i + 1 < d.end THEN d.slots[i + 1] ELSE d.slots[i]]
    BY <2>2 DEF Deque
  <2>4. ASSUME NEW i \in Live(d)
        PROVE  Erase(d, pos).slots[i] = d.slots[i]
    <3>1. ~(i >= pos /\ i + 1 < d.end)
      BY <1>1, <2>1 DEF Live
    <3> QED
      BY <1>2, <2>3, <3>1
  <2>5. Live(Erase(d, pos)) = Live(d) \ {pos}
    BY <1>1, <2>1, <2>3 DEF Live
  <2> QED
    BY <2>3, <2>4, <2>5
<1> QED
  BY <1>3, <1>4

(* So erasing it and forgetting its id leaves the level exact.             *)
LEMMA EraseExact ==
  ASSUME NEW side, NEW p, NEW d \in Deque, WellFormed(d), NEW refs,
         QueueExact(side, p, d, refs),
         NEW pos \in Live(d), pos = d.begin \/ pos = d.end - 1
  PROVE  QueueExact(side, p, Erase(d, pos), Without(refs, {d.slots[pos].id}))
<1> DEFINE e     == Erase(d, pos)
           refs2 == Without(refs, {d.slots[pos].id})
<1>1. /\ e.map = d.map /\ Live(e) = Live(d) \ {pos}
      /\ \A i \in Live(d) : e.slots[i] = d.slots[i]
  BY EraseAtAnEnd
<1>2. /\ DOMAIN refs2 = DOMAIN refs \ {d.slots[pos].id}
      /\ \A id \in DOMAIN refs2 : refs2[id] = refs[id]
  BY DEF Without
<1> HIDE DEF e, refs2
<1>3. ASSUME NEW i \in Live(e)
      PROVE  /\ e.slots[i].id \in DOMAIN refs2
             /\ refs2[e.slots[i].id].side = side /\ refs2[e.slots[i].id].price = p
             /\ refs2[e.slots[i].id].iterator.slot = i
  <2>1. i \in Live(d) /\ i # pos /\ e.slots[i] = d.slots[i]
    BY <1>1
  <2>2. refs[d.slots[pos].id].iterator.slot = pos
    BY DEF QueueExact
  <2> QED
    BY <1>2, <2>1, <2>2 DEF QueueExact
<1>4. ASSUME NEW id \in DOMAIN refs2, refs2[id].side = side, refs2[id].price = p
      PROVE  /\ refs2[id].iterator.map = e.map
             /\ refs2[id].iterator.slot \in Live(e)
             /\ e.slots[refs2[id].iterator.slot].id = id
  BY <1>1, <1>2, <1>4 DEF QueueExact
<1>5. QueueExact(side, p, e, refs2)
  BY <1>3, <1>4 DEF QueueExact
<1> QED
  BY <1>5 DEF e, refs2

(* An order keeps its id and its place when its quantity changes.          *)
LEMMA ResizeExact ==
  ASSUME NEW side, NEW p, NEW d \in Deque, WellFormed(d), NEW refs,
         QueueExact(side, p, d, refs),
         NEW pos \in DOMAIN d.slots, NEW q \in Nat
  PROVE  QueueExact(side, p, Resize(d, pos, q), refs)
<1> DEFINE r == Resize(d, pos, q)
<1>1. r.begin = d.begin /\ r.end = d.end /\ r.map = d.map
  BY ResizeTyped DEF Resize, Deque
<1>2. \A i \in DOMAIN d.slots : r.slots[i].id = d.slots[i].id
  <2>1. r.slots = [d.slots EXCEPT ![pos] = [@ EXCEPT !.quantity = q]]
    BY DEF Resize, Deque
  <2>2. \A i \in DOMAIN d.slots : d.slots[i] \in Order
    BY DEF Deque
  <2> QED
    BY <2>1, <2>2 DEF Order
<1>3. Live(r) = Live(d) /\ Live(d) \subseteq DOMAIN d.slots
  BY <1>1 DEF Live, Deque, WellFormed
<1> HIDE DEF r
<1>4. QueueExact(side, p, r, refs)
  BY <1>1, <1>2, <1>3 DEF QueueExact
<1> QED
  BY <1>4 DEF r

(* push_back, while the map lasts, only adds the new order's slot.         *)
LEMMA PushBackInMap ==
  ASSUME NEW d \in Deque, WellFormed(d), d.end \notin Regrow, NEW o
  PROVE  /\ PushBack(d, o).map = d.map
         /\ Live(PushBack(d, o)) = Live(d) \cup {d.end}
         /\ d.end \notin Live(d)
         /\ PushBack(d, o).slots[d.end] = o
         /\ \A i \in Live(d) : PushBack(d, o).slots[i] = d.slots[i]
         /\ LastIterator(PushBack(d, o)) = [slot |-> d.end, map |-> d.map]
<1>1. /\ d.begin \in Nat /\ d.end \in Nat /\ d.begin <= d.end
      /\ 1 <= d.begin /\ d.end <= Len(d.slots) + 1 /\ DOMAIN d.slots = 1..Len(d.slots)
      /\ Len(d.slots) \in Nat
  BY DEF Deque, WellFormed
<1>2. /\ PushBack(d, o).map = d.map /\ PushBack(d, o).begin = d.begin
      /\ PushBack(d, o).end = d.end + 1
  BY DEF PushBack
<1>3. Live(PushBack(d, o)) = Live(d) \cup {d.end} /\ d.end \notin Live(d)
  BY <1>1, <1>2 DEF Live
<1>4. /\ PushBack(d, o).slots[d.end] = o
      /\ \A i \in Live(d) : PushBack(d, o).slots[i] = d.slots[i]
  <2>1. CASE d.end <= Len(d.slots)
    BY <1>1, <2>1 DEF PushBack, Live
  <2>2. CASE ~(d.end <= Len(d.slots))
    <3>1. PushBack(d, o).slots = Append(d.slots, o) /\ d.end = Len(d.slots) + 1
      BY <1>1, <2>2 DEF PushBack
    <3>2. d.slots \in Seq(Order)
      BY DEF Deque
    <3> QED
      BY <1>1, <3>1, <3>2 DEF Live
  <2> QED
    BY <2>1, <2>2
<1>5. LastIterator(PushBack(d, o)) = [slot |-> d.end, map |-> d.map]
  BY <1>1, <1>2 DEF LastIterator
<1> QED
  BY <1>2, <1>3, <1>4, <1>5

(* So resting an order under a fresh id leaves its level exact.            *)
LEMMA PushBackExact ==
  ASSUME NEW side, NEW p, NEW d \in Deque, WellFormed(d), d.end \notin Regrow, NEW refs,
         QueueExact(side, p, d, refs),
         NEW o, o.id \notin DOMAIN refs
  PROVE  QueueExact(side, p, PushBack(d, o),
           With(refs, o.id, [price |-> p, side |-> side,
                             iterator |-> LastIterator(PushBack(d, o))]))
<1> DEFINE e     == PushBack(d, o)
           entry == [price |-> p, side |-> side, iterator |-> LastIterator(e)]
           refs2 == With(refs, o.id, entry)
<1>1. /\ e.map = d.map /\ Live(e) = Live(d) \cup {d.end} /\ d.end \notin Live(d)
      /\ e.slots[d.end] = o /\ \A i \in Live(d) : e.slots[i] = d.slots[i]
      /\ LastIterator(e) = [slot |-> d.end, map |-> d.map]
  BY PushBackInMap
<1>2. /\ entry.price = p /\ entry.side = side
      /\ entry.iterator.slot = d.end /\ entry.iterator.map = e.map
  BY <1>1
<1> HIDE DEF entry
<1>3. /\ DOMAIN refs2 = DOMAIN refs \cup {o.id} /\ refs2[o.id] = entry
      /\ \A id \in DOMAIN refs : refs2[id] = refs[id]
  BY DEF With
<1> HIDE DEF e, refs2
<1>4. ASSUME NEW i \in Live(e)
      PROVE  /\ e.slots[i].id \in DOMAIN refs2
             /\ refs2[e.slots[i].id].side = side /\ refs2[e.slots[i].id].price = p
             /\ refs2[e.slots[i].id].iterator.slot = i
  BY <1>1, <1>2, <1>3 DEF QueueExact
<1>5. ASSUME NEW id \in DOMAIN refs2, refs2[id].side = side, refs2[id].price = p
      PROVE  /\ refs2[id].iterator.map = e.map
             /\ refs2[id].iterator.slot \in Live(e)
             /\ e.slots[refs2[id].iterator.slot].id = id
  BY <1>1, <1>2, <1>3, <1>5 DEF QueueExact
<1>6. QueueExact(side, p, e, refs2)
  BY <1>4, <1>5 DEF QueueExact
<1> QED
  BY <1>6 DEF e, entry, refs2

-----------------------------------------------------------------------------
(* The whole book, when one level or one side of it changes.               *)

(* The index has at most lost entries of one level.                        *)
SameBut(refs, refs2, side, price) ==
  /\ DOMAIN refs2 \subseteq DOMAIN refs
  /\ \A id \in DOMAIN refs2 : refs2[id] = refs[id]
  /\ \A id \in DOMAIN refs :
       id \in DOMAIN refs2 \/ (refs[id].side = side /\ refs[id].price = price)

(* One level is replaced, and only entries of that level are removed.      *)
LEMMA StoreExact ==
  ASSUME NEW b, NEW b2, NEW refs, NEW refs2, LevelsExact(b, refs), DOMAIN b = Side,
         NEW side \in Side, NEW price \in DOMAIN b[side], NEW level,
         b2 = [b EXCEPT ![side][price] = level],
         QueueExact(side, price, level.orders, refs2),
         SameBut(refs, refs2, side, price)
  PROVE  LevelsExact(b2, refs2)
<1>0. /\ \A s \in Side : DOMAIN b2[s] = DOMAIN b[s]
      /\ \A s \in Side : \A p \in DOMAIN b[s] :
           b2[s][p] = IF s = side /\ p = price THEN level ELSE b[s][p]
  OBVIOUS
<1>1. ASSUME NEW id \in DOMAIN refs2
      PROVE  refs2[id].side \in Side /\ refs2[id].price \in DOMAIN b2[refs2[id].side]
  BY <1>0 DEF LevelsExact, SameBut
<1>2. ASSUME NEW s \in Side, NEW p \in DOMAIN b2[s], s # side \/ p # price
      PROVE  QueueExact(s, p, b2[s][p].orders, refs2)
  <2>1. p \in DOMAIN b[s] /\ QueueExact(s, p, b[s][p].orders, refs) /\ b2[s][p] = b[s][p]
    BY <1>0, <1>2 DEF LevelsExact
  <2>2. \A id \in DOMAIN refs : refs[id].side = s /\ refs[id].price = p =>
          id \in DOMAIN refs2 /\ refs2[id] = refs[id]
    BY <1>2 DEF SameBut
  <2>3. \A id \in DOMAIN refs2 : refs2[id].side = s /\ refs2[id].price = p =>
          id \in DOMAIN refs /\ refs2[id] = refs[id]
    BY DEF SameBut
  <2>4. QueueExact(s, p, b[s][p].orders, refs2)
    BY <2>1, <2>2, <2>3, OtherEntries
  <2> QED
    BY <2>1, <2>4
<1> QED
  BY <1>0, <1>1, <1>2 DEF LevelsExact

(* Levels of b, and the entries that belonged to them, are gone.           *)
Dropped(b, b2, refs, refs2) ==
  /\ \A s \in Side : \A p \in DOMAIN b2[s] : p \in DOMAIN b[s] /\ b2[s][p] = b[s][p]
  /\ \A id \in DOMAIN refs2 : /\ id \in DOMAIN refs /\ refs2[id] = refs[id]
                              /\ refs[id].price \in DOMAIN b2[refs[id].side]
  /\ \A id \in DOMAIN refs :
       id \in DOMAIN refs2 \/ refs[id].price \notin DOMAIN b2[refs[id].side]

(* Dropping levels leaves the others exact.                                *)
LEMMA DropExact ==
  ASSUME NEW b, NEW b2, NEW refs, NEW refs2, LevelsExact(b, refs),
         Dropped(b, b2, refs, refs2)
  PROVE  LevelsExact(b2, refs2)
<1>1. ASSUME NEW id \in DOMAIN refs2
      PROVE  refs2[id].side \in Side /\ refs2[id].price \in DOMAIN b2[refs2[id].side]
  BY DEF LevelsExact, Dropped
<1>2. ASSUME NEW s \in Side, NEW p \in DOMAIN b2[s]
      PROVE  QueueExact(s, p, b2[s][p].orders, refs2)
  <2>1. p \in DOMAIN b[s] /\ QueueExact(s, p, b[s][p].orders, refs) /\ b2[s][p] = b[s][p]
    BY <1>2 DEF LevelsExact, Dropped
  <2>2. \A id \in DOMAIN refs : refs[id].side = s /\ refs[id].price = p =>
          id \in DOMAIN refs2 /\ refs2[id] = refs[id]
    BY <1>2 DEF Dropped
  <2>3. \A id \in DOMAIN refs2 : refs2[id].side = s /\ refs2[id].price = p =>
          id \in DOMAIN refs /\ refs2[id] = refs[id]
    BY DEF Dropped
  <2>4. QueueExact(s, p, b[s][p].orders, refs2)
    BY <2>1, <2>2, <2>3, OtherEntries
  <2> QED
    BY <2>1, <2>4
<1> QED
  BY <1>1, <1>2 DEF LevelsExact

(* A level of b is added or replaced, and the index gains one entry of it. *)
Added(b, b2, refs, refs2, id, side, price) ==
  /\ \A s \in Side : DOMAIN b2[s] = DOMAIN b[s] \cup (IF s = side THEN {price} ELSE {})
  /\ \A s \in Side : \A p \in DOMAIN b[s] :
       s # side \/ p # price => b2[s][p] = b[s][p]
  /\ DOMAIN refs2 = DOMAIN refs \cup {id}
  /\ \A i \in DOMAIN refs : refs2[i] = refs[i]
  /\ refs2[id].side = side /\ refs2[id].price = price

(* Adding to a level leaves the others exact.                              *)
LEMMA AddExact ==
  ASSUME NEW b, NEW b2, NEW refs, NEW refs2, LevelsExact(b, refs),
         NEW side \in Side, NEW price, NEW id, id \notin DOMAIN refs,
         QueueExact(side, price, b2[side][price].orders, refs2),
         Added(b, b2, refs, refs2, id, side, price)
  PROVE  LevelsExact(b2, refs2)
<1>1. ASSUME NEW i \in DOMAIN refs2
      PROVE  refs2[i].side \in Side /\ refs2[i].price \in DOMAIN b2[refs2[i].side]
  <2>1. CASE i = id
    BY <2>1 DEF Added
  <2>2. CASE i \in DOMAIN refs
    BY <2>2 DEF LevelsExact, Added
  <2> QED
    BY <2>1, <2>2 DEF Added
<1>2. ASSUME NEW s \in Side, NEW p \in DOMAIN b2[s], s # side \/ p # price
      PROVE  QueueExact(s, p, b2[s][p].orders, refs2)
  <2>1. p \in DOMAIN b[s] /\ QueueExact(s, p, b[s][p].orders, refs) /\ b2[s][p] = b[s][p]
    BY <1>2 DEF LevelsExact, Added
  <2>2. \A i \in DOMAIN refs : refs[i].side = s /\ refs[i].price = p =>
          i \in DOMAIN refs2 /\ refs2[i] = refs[i]
    BY <1>2 DEF Added
  <2>3. \A i \in DOMAIN refs2 : refs2[i].side = s /\ refs2[i].price = p =>
          i \in DOMAIN refs /\ refs2[i] = refs[i]
    BY <1>2 DEF Added
  <2>4. QueueExact(s, p, b[s][p].orders, refs2)
    BY <2>1, <2>2, <2>3, OtherEntries
  <2> QED
    BY <2>1, <2>4
<1> QED
  BY <1>1, <1>2 DEF LevelsExact

-----------------------------------------------------------------------------
(* The operations.                                                         *)

(* traversePriceLevel, else branch: the front order leaves its level and   *)
(* the index together.                                                     *)
LEMMA FillRestingExact ==
  ASSUME TypeOK, IndexExact, NEW price \in Price, fillResting(price)
  PROVE  /\ IndexExact'
         /\ DOMAIN orderMap' \subseteq DOMAIN orderMap
         /\ book'[incoming.side] = book[incoming.side]
<1> DEFINE level == book[Contra][price]
           curr  == Front(level.orders)
           left  == Consume(level)
<1>1. incoming \in Order /\ Contra \in Side /\ Contra # incoming.side /\ incoming.side \in Side
  BY IncomingTyped DEF fillResting, Order
<1>2. /\ price \in DOMAIN book[Contra] /\ level \in Level /\ level.orders \in Deque
      /\ WellFormed(level.orders) /\ ~IsEmpty(level.orders)
  BY <1>1 DEF fillResting, BestLive, TypeOK, BookTyped, Level
<1>3. orderMap' = Without(orderMap, {curr.id})
  BY DEF fillResting, Forget
<1>6. book' = [book EXCEPT ![Contra][price] = left]
  BY <1>1, <1>2 DEF fillResting, TypeOK, BookTyped
<1>4. LevelsExact(book, orderMap) /\ QueueExact(Contra, price, level.orders, orderMap)
  BY <1>1, <1>2, ByLevel DEF TypeOK, LevelsExact
<1>5. level.orders.begin \in Live(level.orders) /\ curr = level.orders.slots[level.orders.begin]
  BY <1>2 DEF Live, Front, IsEmpty, WellFormed, Deque
<1>8. left.orders = Erase(level.orders, level.orders.begin)
  BY DEF Consume
<1>9. QueueExact(Contra, price, left.orders, orderMap')
  BY <1>2, <1>3, <1>4, <1>5, <1>8, EraseExact
<1>10. /\ DOMAIN orderMap' = DOMAIN orderMap \ {curr.id}
       /\ \A id \in DOMAIN orderMap' : orderMap'[id] = orderMap[id]
  BY <1>3 DEF Without
<1> HIDE DEF curr
<1>11. orderMap[curr.id].side = Contra /\ orderMap[curr.id].price = price
  BY <1>4, <1>5 DEF QueueExact
<1>12. DOMAIN book = Side
  BY DEF TypeOK, BookTyped
<1>13. book'[incoming.side] = book[incoming.side]
  BY <1>1, <1>6, <1>12
<1>14. SameBut(orderMap, orderMap', Contra, price)
  BY <1>10, <1>11 DEF SameBut
<1>15. Contra \in Side /\ price \in DOMAIN book[Contra] /\ LevelsExact(book, orderMap)
  BY <1>1, <1>2, <1>4
<1> HIDE DEF level, left
<1>16. LevelsExact(book', orderMap')
  BY <1>6, <1>9, <1>12, <1>14, <1>15, StoreExact
<1> QED
  BY <1>10, <1>13, <1>16, ByLevelNext

(* traversePriceLevel, first branch: the front order stays where it is.    *)
LEMMA FillIncomingExact ==
  ASSUME TypeOK, IndexExact, NEW price \in Price, fillIncoming(price)
  PROVE  /\ IndexExact'
         /\ orderMap' = orderMap
         /\ book'[incoming.side] = book[incoming.side]
<1> DEFINE level == book[Contra][price]
           left  == Reduce(level, incoming.quantity)
<1>1. incoming \in Order /\ Contra \in Side /\ Contra # incoming.side /\ incoming.side \in Side
  BY IncomingTyped DEF fillIncoming, Order
<1>2. /\ price \in DOMAIN book[Contra] /\ level \in Level /\ level.orders \in Deque
      /\ WellFormed(level.orders) /\ ~IsEmpty(level.orders)
  BY <1>1 DEF fillIncoming, BestLive, TypeOK, BookTyped, Level
<1>3. /\ orderMap' = orderMap
      /\ book' = [book EXCEPT ![Contra][price] = left]
      /\ Front(level.orders).quantity > incoming.quantity
  BY <1>1, <1>2 DEF fillIncoming, TypeOK, BookTyped
<1>4. LevelsExact(book, orderMap) /\ QueueExact(Contra, price, level.orders, orderMap)
  BY <1>1, <1>2, ByLevel DEF TypeOK, LevelsExact
<1>5. /\ level.orders.begin \in DOMAIN level.orders.slots
      /\ Front(level.orders) \in Order /\ incoming.quantity \in Nat
  BY <1>1, <1>2, FrontTyped DEF Order
<1>6. Front(level.orders).quantity - incoming.quantity \in Nat
  BY <1>3, <1>5 DEF Order
<1>8. QueueExact(Contra, price, left.orders, orderMap')
  BY <1>2, <1>3, <1>4, <1>5, <1>6, ResizeExact DEF Reduce
<1>9. DOMAIN book = Side
  BY DEF TypeOK, BookTyped
<1>10. book'[incoming.side] = book[incoming.side]
  BY <1>1, <1>3, <1>9
<1> HIDE DEF left, level
<1>11. SameBut(orderMap, orderMap', Contra, price)
  BY <1>3 DEF SameBut
<1>12. LevelsExact(book', orderMap')
  BY <1>1, <1>2, <1>3, <1>4, <1>8, <1>9, <1>11, StoreExact
<1> QED
  BY <1>3, <1>10, <1>12, ByLevelNext

(* The rest of addOrder: the levels it drops are empty and nothing refers  *)
(* to them, and the order that rests has a fresh id and a level with room. *)
LEMMA RestRemainderExact ==
  ASSUME TypeOK, HusksAtFront, IndexExact, restRemainder,
         incoming.id \notin DOMAIN orderMap,
         incoming.type = "LIMIT" /\ incoming.quantity # 0 => KeepsMap(incoming)
  PROVE  IndexExact' /\ DOMAIN orderMap' \subseteq DOMAIN orderMap \cup {incoming.id}
<1> DEFINE gone  == EmptyFront(Contra)
           kept  == Without(book[Contra], gone)
           refs  == Dangle(orderMap, Contra, gone)
           side  == incoming.side
           price == incoming.price
           level == LevelAt(side, price)
           queue == PushBack(level.orders, incoming)
           added == [orders |-> queue, quantity |-> level.quantity + incoming.quantity]
           entry == [price |-> price, side |-> side, iterator |-> LastIterator(queue)]
           mid   == [book EXCEPT ![Contra] = kept]
<1>1. /\ incoming \in Order /\ Contra \in Side /\ Contra # side /\ side \in Side
      /\ DOMAIN book = Side
  BY IncomingTyped DEF restRemainder, Order, TypeOK, BookTyped
<1>2. LevelsExact(book, orderMap)
  BY ByLevel DEF TypeOK
<1>3. ASSUME NEW id \in DOMAIN orderMap
      PROVE  ~(orderMap[id].side = Contra /\ orderMap[id].price \in gone)
  <2>1. SUFFICES ASSUME orderMap[id].side = Contra, orderMap[id].price \in gone
                 PROVE  FALSE
    OBVIOUS
  <2> DEFINE p == orderMap[id].price
             d == book[Contra][p].orders
  <2>2. p \in DOMAIN book[Contra] /\ IsEmpty(d)
    BY <2>1 DEF EmptyFront
  <2>3. d \in Deque /\ QueueExact(Contra, p, d, orderMap)
    BY <1>1, <1>2, <2>2 DEF LevelsExact, TypeOK, BookTyped, Level
  <2> QED
    BY <2>1, <2>2, <2>3, NothingInEmpty
<1>4. /\ DOMAIN refs = DOMAIN orderMap
      /\ \A id \in DOMAIN orderMap : refs[id] = orderMap[id]
  BY <1>3 DEF Dangle
<1> HIDE DEF gone
<1>5. /\ DOMAIN mid = Side /\ mid[Contra] = kept
      /\ \A s \in Side : s # Contra => mid[s] = book[s]
  BY <1>1
<1>6. DOMAIN kept = DOMAIN book[Contra] \ gone /\ \A p \in DOMAIN kept : kept[p] = book[Contra][p]
  BY DEF Without
<1> HIDE DEF refs, kept, mid
<1>7. LevelsExact(mid, refs)
  <2>1. \A s \in Side : \A p \in DOMAIN mid[s] : p \in DOMAIN book[s] /\ mid[s][p] = book[s][p]
    BY <1>5, <1>6
  <2>2. ASSUME NEW id \in DOMAIN orderMap
        PROVE  orderMap[id].price \in DOMAIN mid[orderMap[id].side]
    <3>1. orderMap[id].side \in Side /\ orderMap[id].price \in DOMAIN book[orderMap[id].side]
      BY <1>2 DEF LevelsExact
    <3> QED
      BY <1>3, <1>5, <1>6, <3>1
  <2>3. Dropped(book, mid, orderMap, refs)
    BY <1>4, <2>1, <2>2 DEF Dropped
  <2> QED
    BY <1>2, <2>3, DropExact
<1>8. CASE incoming.type = "LIMIT" /\ incoming.quantity # 0
  <2>1. /\ book' = [book EXCEPT ![Contra] = kept, ![side] = With(@, price, added)]
        /\ orderMap' = With(refs, incoming.id, entry)
    BY <1>8 DEF restRemainder, kept, refs, gone
  <2>2. /\ level.orders \in Deque /\ WellFormed(level.orders) /\ level.orders.end \notin Regrow
        /\ QueueExact(side, price, level.orders, refs)
    <3>1. CASE price \in DOMAIN book[side]
      <4>1. level = book[side][price] /\ level \in Level /\ WellFormed(level.orders)
        BY <1>1, <3>1 DEF LevelAt, TypeOK, BookTyped
      <4>2. QueueExact(side, price, mid[side][price].orders, refs) /\ mid[side] = book[side]
        BY <1>1, <1>5, <1>7, <3>1 DEF LevelsExact
      <4> QED
        BY <1>8, <3>1, <4>1, <4>2 DEF Level, KeepsMap
    <3>2. CASE price \notin DOMAIN book[side]
      <4>1. level.orders = EmptyDeque
        BY <3>2 DEF LevelAt, EmptyLevel
      <4>2. EmptyDeque.end \notin Regrow /\ Live(EmptyDeque) = {}
        BY RegrowAssumption DEF EmptyDeque, Live
      <4>3. \A id \in DOMAIN refs : ~(refs[id].side = side /\ refs[id].price = price)
        BY <1>2, <1>4, <3>2 DEF LevelsExact
      <4>4. QueueExact(side, price, EmptyDeque, refs)
        BY <4>2, <4>3 DEF QueueExact
      <4> QED
        BY <4>1, <4>2, <4>4, EmptyDequeTyped
    <3> QED
      BY <3>1, <3>2
  <2> HIDE DEF level
  <2>3. QueueExact(side, price, queue, orderMap')
    BY <1>4, <2>1, <2>2, PushBackExact
  <2>4. entry.side = side /\ entry.price = price /\ added.orders = queue
    OBVIOUS
  <2> HIDE DEF entry, added, queue
  <2>5. /\ DOMAIN orderMap' = DOMAIN refs \cup {incoming.id}
        /\ orderMap'[incoming.id] = entry
        /\ \A id \in DOMAIN refs : orderMap'[id] = refs[id]
    BY <1>4, <2>1 DEF With
  <2>6. /\ DOMAIN book' = Side /\ book'[Contra] = kept
        /\ \A s \in Side : s # Contra => s = side
        /\ book'[side] = With(book[side], price, added)
    BY <1>1, <2>1 DEF Side
  <2>7. /\ DOMAIN book'[side] = DOMAIN book[side] \cup {price}
        /\ book'[side][price] = added
        /\ \A p \in DOMAIN book[side] : p # price => book'[side][p] = book[side][p]
    BY <2>6 DEF With
  <2>8. \A s \in Side : DOMAIN book'[s] = DOMAIN mid[s] \cup (IF s = side THEN {price} ELSE {})
    BY <1>1, <1>5, <2>6, <2>7
  <2>9. \A s \in Side : \A p \in DOMAIN mid[s] : s # side \/ p # price => book'[s][p] = mid[s][p]
    BY <1>1, <1>5, <2>6, <2>7
  <2>10. Added(mid, book', refs, orderMap', incoming.id, side, price)
    BY <2>4, <2>5, <2>8, <2>9 DEF Added
  <2>11. QueueExact(side, price, book'[side][price].orders, orderMap')
    BY <2>3, <2>4, <2>7
  <2>12. LevelsExact(book', orderMap')
    BY <1>1, <1>4, <1>7, <2>10, <2>11, AddExact
  <2> QED
    BY <1>4, <2>5, <2>12, ByLevelNext
<1>9. CASE ~(incoming.type = "LIMIT" /\ incoming.quantity # 0)
  <2>1. book' = mid /\ orderMap' = refs
    BY <1>9 DEF restRemainder, mid, kept, refs, gone
  <2> QED
    BY <1>4, <1>7, <2>1, ByLevelNext
<1> QED
  BY <1>8, <1>9

(* What an entry of an exact index leads to.                               *)
LEMMA EntryLeads ==
  ASSUME TypeOK, IndexExact, NEW id \in DOMAIN orderMap
  PROVE  LET ref == orderMap[id]
             d   == book[ref.side][ref.price].orders
         IN /\ ref.side \in Side /\ ref.price \in DOMAIN book[ref.side]
            /\ book[ref.side][ref.price] \in Level
            /\ d \in Deque /\ WellFormed(d)
            /\ ref.iterator.slot \in Live(d) /\ d.slots[ref.iterator.slot].id = id
            /\ ref.iterator.slot \in DOMAIN d.slots
            /\ ReadThrough(d, ref.iterator) = {ref.iterator.slot}
            /\ EraseAt(d, ref.iterator) = {ref.iterator.slot}
            /\ QueueExact(ref.side, ref.price, d, orderMap)
<1> DEFINE ref == orderMap[id]
           d   == book[ref.side][ref.price].orders
<1>1. LevelsExact(book, orderMap)
  BY ByLevel DEF TypeOK
<1>2. ref.side \in Side /\ ref.price \in DOMAIN book[ref.side]
  BY <1>1 DEF LevelsExact
<1>3. book[ref.side][ref.price] \in Level /\ d \in Deque /\ WellFormed(d)
  BY <1>2 DEF TypeOK, BookTyped, Level
<1>4. QueueExact(ref.side, ref.price, d, orderMap)
  BY <1>1, <1>2 DEF LevelsExact
<1> HIDE DEF d
<1>5. /\ ref.iterator.map = d.map /\ ref.iterator.slot \in Live(d)
      /\ d.slots[ref.iterator.slot].id = id
  BY <1>4 DEF QueueExact
<1>6. ref.iterator.slot \in DOMAIN d.slots
  BY <1>3, <1>5 DEF Live, Deque, WellFormed
<1>7. ReadThrough(d, ref.iterator) = {ref.iterator.slot} /\ EraseAt(d, ref.iterator) = {ref.iterator.slot}
  BY <1>3, <1>5 DEF ReadThrough, EraseAt, WellFormed
<1> QED
  BY <1>2, <1>3, <1>4, <1>5, <1>6, <1>7 DEF d

(* modifyOrder writes the order it names, which keeps its place.           *)
LEMMA ModifyOrderExact ==
  ASSUME TypeOK, IndexExact, NEW id \in OrderID, NEW newQuantity \in Quantity,
         modifyOrder(id, newQuantity)
  PROVE  IndexExact' /\ orderMap' = orderMap
<1> DEFINE ref   == orderMap[id]
           level == book[ref.side][ref.price]
<1>1. orderMap' = orderMap
  BY DEF modifyOrder
<1>2. CASE id \notin DOMAIN orderMap
  <2>1. book' = book
    BY <1>2 DEF modifyOrder
  <2> QED
    BY <1>1, <2>1, ExactUnchanged
<1>3. CASE id \in DOMAIN orderMap
  <2> DEFINE pos     == ref.iterator.slot
             amended == [orders   |-> Resize(level.orders, pos, newQuantity),
                         quantity |-> level.quantity
                                      + (newQuantity - level.orders.slots[pos].quantity)]
  <2>1. /\ ref.side \in Side /\ ref.price \in DOMAIN book[ref.side]
        /\ level.orders \in Deque /\ WellFormed(level.orders)
        /\ pos \in DOMAIN level.orders.slots
        /\ ReadThrough(level.orders, ref.iterator) = {pos}
        /\ QueueExact(ref.side, ref.price, level.orders, orderMap)
    BY <1>3, EntryLeads
  <2>2. DOMAIN book = Side
    BY DEF TypeOK, BookTyped
  <2>3. book' = [book EXCEPT ![ref.side][ref.price] = amended]
    BY <1>3, <2>1, <2>2 DEF modifyOrder
  <2>4. newQuantity \in Nat
    BY TypesAssumption
  <2>5. QueueExact(ref.side, ref.price, amended.orders, orderMap')
    BY <1>1, <2>1, <2>4, ResizeExact
  <2>6. SameBut(orderMap, orderMap', ref.side, ref.price)
    BY <1>1 DEF SameBut
  <2>7. LevelsExact(book, orderMap)
    BY ByLevel DEF TypeOK
  <2> HIDE DEF amended, level
  <2>8. LevelsExact(book', orderMap')
    BY <2>1, <2>2, <2>3, <2>5, <2>6, <2>7, StoreExact
  <2> QED
    BY <1>1, <2>8, ByLevelNext
<1> QED
  BY <1>2, <1>3

(* cancelOrder erases the order it names, at an end of its queue.          *)
LEMMA CancelOrderExact ==
  ASSUME TypeOK, IndexExact, NEW id \in OrderID, AtAnEnd(id), cancelOrder(id)
  PROVE  IndexExact' /\ DOMAIN orderMap' \subseteq DOMAIN orderMap
<1> DEFINE ref   == orderMap[id]
           level == book[ref.side][ref.price]
<1>1. CASE id \notin DOMAIN orderMap
  <2>1. book' = book /\ orderMap' = orderMap
    BY <1>1 DEF cancelOrder
  <2> QED
    BY <2>1, ExactUnchanged
<1>2. CASE id \in DOMAIN orderMap
  <2> DEFINE pos  == ref.iterator.slot
             left == [orders   |-> Erase(level.orders, pos),
                      quantity |-> level.quantity - level.orders.slots[pos].quantity]
             refs == Without(orderMap, {id})
  <2>1. /\ ref.side \in Side /\ ref.price \in DOMAIN book[ref.side]
        /\ level.orders \in Deque /\ WellFormed(level.orders)
        /\ pos \in Live(level.orders) /\ pos \in DOMAIN level.orders.slots
        /\ level.orders.slots[pos].id = id
        /\ ReadThrough(level.orders, ref.iterator) = {pos}
        /\ EraseAt(level.orders, ref.iterator) = {pos}
        /\ QueueExact(ref.side, ref.price, level.orders, orderMap)
    BY <1>2, EntryLeads
  <2>2. DOMAIN book = Side
    BY DEF TypeOK, BookTyped
  <2>3. LevelsExact(book, orderMap)
    BY ByLevel DEF TypeOK
  <2>4. pos = level.orders.begin \/ pos = level.orders.end - 1
    BY <2>1 DEF AtAnEnd
  <2>5. /\ book' = StoreOrDrop(ref.side, ref.price, left)
        /\ orderMap' = Without(IF IsEmpty(left.orders)
                               THEN Dangle(orderMap, ref.side, {ref.price})
                               ELSE orderMap, {id})
    BY <1>2, <2>1 DEF cancelOrder
  <2>6. QueueExact(ref.side, ref.price, left.orders, refs)
    <3>1. QueueExact(ref.side, ref.price, Erase(level.orders, pos),
                     Without(orderMap, {level.orders.slots[pos].id}))
      BY <2>1, <2>4, EraseExact
    <3> QED
      BY <2>1, <3>1
  <2>7. DOMAIN refs = DOMAIN orderMap \ {id} /\ \A i \in DOMAIN refs : refs[i] = orderMap[i]
    BY DEF Without
  <2>8. left.orders \in Deque
    <3>1. ~IsEmpty(level.orders)
      BY <2>1, LiveNonEmpty
    <3> QED
      BY <2>1, <3>1, EraseTyped
  <2> HIDE DEF left, level, refs
  <2>9. CASE ~IsEmpty(left.orders)
    <3>1. book' = [book EXCEPT ![ref.side][ref.price] = left] /\ orderMap' = refs
      BY <2>5, <2>9 DEF StoreOrDrop, refs
    <3>2. SameBut(orderMap, refs, ref.side, ref.price)
      BY <2>7 DEF SameBut
    <3>3. LevelsExact(book', orderMap')
      BY <2>1, <2>2, <2>3, <2>6, <3>1, <3>2, StoreExact
    <3> QED
      BY <2>7, <3>1, <3>3, ByLevelNext
  <2>10. CASE IsEmpty(left.orders)
    <3>1. /\ book' = [book EXCEPT ![ref.side] = Without(@, {ref.price})]
          /\ orderMap' = Without(Dangle(orderMap, ref.side, {ref.price}), {id})
      BY <2>5, <2>10 DEF StoreOrDrop
    <3>2. \A i \in DOMAIN refs : ~(refs[i].side = ref.side /\ refs[i].price = ref.price)
      BY <2>6, <2>8, <2>10, NothingInEmpty
    <3>3. DOMAIN orderMap' = DOMAIN refs /\ \A i \in DOMAIN refs : orderMap'[i] = refs[i]
      BY <2>7, <3>1, <3>2 DEF Without, Dangle
    <3>4. /\ \A s \in Side : s # ref.side => book'[s] = book[s]
          /\ DOMAIN book'[ref.side] = DOMAIN book[ref.side] \ {ref.price}
          /\ \A p \in DOMAIN book'[ref.side] : book'[ref.side][p] = book[ref.side][p]
      BY <2>1, <2>2, <3>1 DEF Without
    <3>5. \A s \in Side : \A p \in DOMAIN book'[s] : p \in DOMAIN book[s] /\ book'[s][p] = book[s][p]
      BY <3>4
    <3>6. ASSUME NEW i \in DOMAIN orderMap'
          PROVE  /\ i \in DOMAIN orderMap /\ orderMap'[i] = orderMap[i]
                 /\ orderMap[i].price \in DOMAIN book'[orderMap[i].side]
      <4>1. i \in DOMAIN orderMap /\ i \in DOMAIN refs /\ orderMap'[i] = orderMap[i] /\ refs[i] = orderMap[i]
        BY <2>7, <3>3
      <4>2. orderMap[i].side \in Side /\ orderMap[i].price \in DOMAIN book[orderMap[i].side]
        BY <2>3, <4>1 DEF LevelsExact
      <4> QED
        BY <3>2, <3>4, <4>1, <4>2
    <3>7. \A i \in DOMAIN orderMap :
            i \in DOMAIN orderMap' \/ orderMap[i].price \notin DOMAIN book'[orderMap[i].side]
      BY <2>7, <3>3, <3>4
    <3>8. Dropped(book, book', orderMap, orderMap')
      BY <3>5, <3>6, <3>7 DEF Dropped
    <3>9. LevelsExact(book', orderMap')
      BY <2>3, <3>8, DropExact
    <3> QED
      BY <2>7, <3>3, <3>9, ByLevelNext
  <2> QED
    BY <2>9, <2>10
<1> QED
  BY <1>1, <1>2

-----------------------------------------------------------------------------
(* A call of addOrder never gets stuck and never goes on for ever, whatever *)
(* the book: the loop of match has an iteration to make or is over, and     *)
(* every iteration leaves less to do.                                       *)

(* The map of a side has finitely many prices.                             *)
PricesFinite == \A side \in Side : IsFiniteSet(DOMAIN book[side])

EInv == IInv /\ PricesFinite

(* All that the loop needs of the book and of the order in hand, whatever  *)
(* the orders O that the queues hold and the sign of their quantities.     *)
Queue(O) == [slots : Seq(O), begin : Nat, end : Nat, map : Nat]

Queues(O) ==
  /\ DOMAIN book = Side /\ PricesFinite
  /\ \A side \in Side :
       /\ DOMAIN book[side] \subseteq Price
       /\ \A p \in DOMAIN book[side] :
            book[side][p].orders \in Queue(O) /\ WellFormed(book[side][p].orders)

HandTyped ==
  /\ incoming.side \in Side /\ incoming.price \in Int /\ incoming.quantity \in Int
  /\ Contra \in Side

(* An order's quantity is natural for the clients of OrderBook.            *)
LEMMA TypedQueues ==
  ASSUME EInv
  PROVE  Queues(Order) /\ (~Idle => HandTyped)
<1>1. TypeOK /\ PricesFinite
  BY DEF EInv, IInv
<1>2. Queues(Order)
  BY <1>1 DEF TypeOK, BookTyped, Level, Deque, Queues, Queue
<1>3. ~Idle => HandTyped
  <2> SUFFICES ASSUME ~Idle PROVE HandTyped
    OBVIOUS
  <2>1. incoming \in Order /\ Contra \in Side
    BY <1>1, IncomingTyped
  <2>2. incoming.side \in Side /\ incoming.price \in Int /\ incoming.quantity \in Int
    <3>1. incoming.side \in Side /\ incoming.price \in Price /\ incoming.quantity \in Nat
      BY <2>1 DEF Order
    <3>2. incoming.quantity \in Int
      BY <3>1
    <3>3. incoming.price \in Int
      BY <3>1, TypesAssumption
    <3> QED
      BY <3>1, <3>2, <3>3
  <2> QED
    BY <2>1, <2>2 DEF HandTyped
<1> QED
  BY <1>2, <1>3

(* What is left to do: the orders resting on the side the order in hand    *)
(* trades against, and the order itself while it has quantity.             *)
WaitingAt(price) == {price} \X Live(book[Contra][price].orders)
Waiting == UNION {WaitingAt(price) : price \in DOMAIN book[Contra]}
ToDo == Cardinality(Waiting) + (IF incoming.quantity > 0 THEN 1 ELSE 0)

(* An iteration of match returns from the call or leaves less to do.  Each *)
(* takes an order off the book or exhausts the incoming one, also when     *)
(* what it takes off has quantity 0 after an amend.                        *)
LessToDo == Idle' \/ (ToDo \in Nat /\ ToDo' \in Nat /\ ToDo' < ToDo)
MatchingShrinks == [][Match => LessToDo]_bookVars

(* While a call is in progress the loops are over, or they stand at a      *)
(* level, the best that holds an order, whose first order trades.          *)
NeverStuck ==
  ~Idle => \/ MatchingOver
           \/ /\ incoming.quantity > 0
              /\ \E price \in Price : BestLive(Contra, price) /\ Marketable(incoming, price)

(* A side with orders has a best level that holds one.                     *)
LEMMA BestLiveExists ==
  ASSUME NEW O, Queues(O), HandTyped,
         NEW p \in DOMAIN book[Contra], ~IsEmpty(book[Contra][p].orders)
  PROVE  \E price \in Price : BestLive(Contra, price)
<1> DEFINE live == {q \in DOMAIN book[Contra] : ~IsEmpty(book[Contra][q].orders)}
<1>1. Contra \in Side /\ DOMAIN book[Contra] \subseteq Price /\ IsFiniteSet(DOMAIN book[Contra])
  BY DEF Queues, HandTyped, PricesFinite
<1>2. live \in SUBSET Int /\ IsFiniteSet(live) /\ live # {}
  <2>1. IsFiniteSet(live)
    BY <1>1, FS_Subset
  <2> QED
    BY <1>1, <2>1, TypesAssumption
<1>3. \A q : q \in live <=> q \in DOMAIN book[Contra] /\ ~IsEmpty(book[Contra][q].orders)
  OBVIOUS
<1> HIDE DEF live
<1>4. (\E m \in live : \A n \in live : m <= n) /\ (\E m \in live : \A n \in live : n <= m)
  BY <1>2, Extremes
<1>5. \E m \in live : \A n \in live : ~Better(Contra, n, m)
  <2>1. CASE Contra = "BUY"
    <3>1. PICK m \in live : \A n \in live : n <= m
      BY <1>4
    <3>2. \A n \in live : ~(n > m)
      BY <1>2, <3>1
    <3> QED
      BY <2>1, <3>2 DEF Better
  <2>2. CASE Contra # "BUY"
    <3>1. PICK m \in live : \A n \in live : m <= n
      BY <1>4
    <3>2. \A n \in live : ~(n < m)
      BY <1>2, <3>1
    <3> QED
      BY <2>2, <3>2 DEF Better
  <2> QED
    BY <2>1, <2>2
<1> QED
  BY <1>1, <1>3, <1>5 DEF BestLive

(* What is marketable at a price is marketable at a better one.            *)
LEMMA MarketableBetter ==
  ASSUME NEW order, order.price \in Int, NEW p \in Int, NEW q \in Int,
         Marketable(order, p), ~Better(Opposite(order.side), p, q)
  PROVE  Marketable(order, q)
<1>1. CASE Opposite(order.side) = "BUY"
  BY <1>1 DEF Marketable, Better
<1>2. CASE Opposite(order.side) # "BUY"
  BY <1>2 DEF Marketable, Better
<1> QED
  BY <1>1, <1>2

LEMMA GoesOn ==
  ASSUME NEW O, Queues(O), ~Idle => HandTyped
  PROVE  NeverStuck
<1> SUFFICES ASSUME ~Idle, ~MatchingOver
             PROVE  /\ incoming.quantity > 0
                    /\ \E price \in Price : BestLive(Contra, price) /\ Marketable(incoming, price)
  BY DEF NeverStuck
<1>1. HandTyped
  OBVIOUS
<1>2. incoming.quantity > 0
  BY <1>1 DEF MatchingOver, HandTyped
<1>3. PICK p \in DOMAIN book[Contra] : ~IsEmpty(book[Contra][p].orders) /\ Marketable(incoming, p)
  BY DEF MatchingOver
<1>4. PICK price \in Price : BestLive(Contra, price)
  BY <1>1, <1>3, BestLiveExists
<1>5. p \in Int /\ price \in Int /\ incoming.price \in Int /\ ~Better(Contra, p, price)
  BY <1>1, <1>3, <1>4, TypesAssumption DEF BestLive, Queues, HandTyped
<1>6. Marketable(incoming, price)
  BY <1>3, <1>5, MarketableBetter DEF Contra
<1> QED
  BY <1>2, <1>4, <1>6

(* Finitely many orders wait.                                              *)
LEMMA WaitingFinite ==
  ASSUME NEW O, Queues(O), HandTyped
  PROVE  IsFiniteSet(Waiting) /\ Cardinality(Waiting) \in Nat
<1> DEFINE prices == DOMAIN book[Contra]
           at == [price \in prices |-> WaitingAt(price)]
<1>1. Contra \in Side /\ IsFiniteSet(prices)
  BY DEF Queues, HandTyped, PricesFinite
<1>2. ASSUME NEW price \in prices
      PROVE  IsFiniteSet(WaitingAt(price))
  <2>1. book[Contra][price].orders \in Queue(O)
    BY <1>1 DEF Queues
  <2>2. IsFiniteSet(Live(book[Contra][price].orders))
    <3>1. book[Contra][price].orders.begin \in Int /\ book[Contra][price].orders.end - 1 \in Int
      BY <2>1 DEF Queue
    <3> QED
      BY <3>1, FS_Interval DEF Live
  <2> QED
    BY <2>2, FS_Singleton, FS_Product DEF WaitingAt
<1>3. \A price \in prices : IsFiniteSet(at[price]) /\ at[price] = WaitingAt(price)
  BY <1>2
<1>4. {at[price] : price \in prices} = {WaitingAt(price) : price \in prices}
  BY <1>3
<1> HIDE DEF at
<1>5. IsFiniteSet(UNION {at[price] : price \in prices})
  BY <1>1, <1>3, UnionsFinite
<1>6. IsFiniteSet(Waiting)
  BY <1>4, <1>5 DEF Waiting
<1> QED
  BY <1>6, FS_CardinalityType

(* An execution that leaves every other level alone takes off what it      *)
(* takes off its own.                                                      *)
LEMMA WaitingAfter ==
  ASSUME NEW price \in DOMAIN book[Contra], NEW taken, NEW level,
         Contra' = Contra, DOMAIN book'[Contra] = DOMAIN book[Contra],
         \A p \in DOMAIN book[Contra] :
           book'[Contra][p] = IF p = price THEN level ELSE book[Contra][p],
         Live(level.orders) = Live(book[Contra][price].orders) \ taken
  PROVE  Waiting' = Waiting \ ({price} \X taken)
<1>1. \A p \in DOMAIN book[Contra] :
        WaitingAt(p)' = IF p = price THEN {price} \X (Live(book[Contra][price].orders) \ taken)
                                     ELSE WaitingAt(p)
  BY DEF WaitingAt
<1>2. Waiting' = UNION {WaitingAt(p)' : p \in DOMAIN book[Contra]}
  BY DEF Waiting
<1>3. ASSUME NEW x
      PROVE  x \in Waiting' <=> x \in Waiting \ ({price} \X taken)
  <2>1. x \in Waiting' <=> \E p \in DOMAIN book[Contra] : x \in WaitingAt(p)'
    BY <1>2
  <2>2. x \in Waiting <=> \E p \in DOMAIN book[Contra] : x \in WaitingAt(p)
    BY DEF Waiting
  <2>3. \A p \in DOMAIN book[Contra] :
          x \in WaitingAt(p)' <=> x \in WaitingAt(p) /\ x \notin {price} \X taken
    BY <1>1 DEF WaitingAt
  <2> QED
    BY <2>1, <2>2, <2>3
<1> QED
  BY <1>3

(* erase at the front takes the front slot out of the live range.          *)
LEMMA ConsumeTakesFront ==
  ASSUME NEW O, NEW level, level.orders \in Queue(O), WellFormed(level.orders),
         ~IsEmpty(level.orders)
  PROVE  /\ level.orders.begin \in Live(level.orders)
         /\ Live(Consume(level).orders) = Live(level.orders) \ {level.orders.begin}
<1> DEFINE d == level.orders
<1>1. /\ d \in Queue(O) /\ d.begin \in Nat /\ d.end \in Nat /\ d.begin < d.end
      /\ Consume(level).orders = Erase(d, d.begin)
  BY DEF Queue, WellFormed, IsEmpty, Consume
<1> HIDE DEF d
<1>2. CASE d.begin - d.begin < Size(d) \div 2
  <2>1. Erase(d, d.begin).begin = d.begin + 1 /\ Erase(d, d.begin).end = d.end
    BY <1>1, <1>2 DEF Erase, Queue
  <2> QED
    BY <1>1, <2>1 DEF Live, d
<1>3. CASE ~(d.begin - d.begin < Size(d) \div 2)
  <2>1. Erase(d, d.begin).begin = d.begin /\ Erase(d, d.begin).end = d.end - 1
    BY <1>1, <1>3 DEF Erase, Queue
  <2>2. d.end = d.begin + 1
    BY <1>1, <1>3 DEF Size
  <2> QED
    BY <1>1, <2>1, <2>2 DEF Live, d
<1> QED
  BY <1>2, <1>3

(* One iteration, of an order that stays on its side: a level changes.     *)
Iterates(O, price, level) ==
  /\ Queues(O) /\ HandTyped /\ incoming.quantity > 0
  /\ price \in DOMAIN book[Contra] /\ ~IsEmpty(book[Contra][price].orders)
  /\ incoming'.side = incoming.side
  /\ book' = [book EXCEPT ![Contra][price] = level]

LEMMA Iterated ==
  ASSUME NEW O, NEW price, NEW level, Iterates(O, price, level)
  PROVE  /\ Contra' = Contra /\ DOMAIN book'[Contra] = DOMAIN book[Contra]
         /\ \A p \in DOMAIN book[Contra] :
              book'[Contra][p] = IF p = price THEN level ELSE book[Contra][p]
<1>1. Contra' = Contra
  BY DEF Iterates, Contra
<1> QED
  BY <1>1 DEF Iterates, Queues, HandTyped

(* traversePriceLevel, else branch: one order fewer waits.                 *)
LEMMA FillRestingShrinks ==
  ASSUME NEW O, NEW price, Iterates(O, price, Consume(book[Contra][price]))
  PROVE  LessToDo
<1> DEFINE level == book[Contra][price]
           taken == {level.orders.begin}
           left  == Consume(level)
<1>1. /\ Queues(O) /\ HandTyped /\ incoming.quantity > 0 /\ price \in DOMAIN book[Contra]
      /\ level.orders \in Queue(O) /\ WellFormed(level.orders) /\ ~IsEmpty(level.orders)
  BY DEF Iterates, Queues, HandTyped
<1>2. /\ level.orders.begin \in Live(level.orders)
      /\ Live(left.orders) = Live(level.orders) \ taken
  BY <1>1, ConsumeTakesFront
<1>3. Waiting' = Waiting \ ({price} \X taken)
  <2>1. Iterates(O, price, left)
    OBVIOUS
  <2> HIDE DEF taken, left
  <2>2. /\ Contra' = Contra /\ DOMAIN book'[Contra] = DOMAIN book[Contra]
        /\ \A p \in DOMAIN book[Contra] :
             book'[Contra][p] = IF p = price THEN left ELSE book[Contra][p]
    BY <2>1, Iterated
  <2> QED
    BY <1>1, <1>2, <2>2, WaitingAfter
<1>4. <<price, level.orders.begin>> \in Waiting
  BY <1>1, <1>2 DEF Waiting, WaitingAt
<1>5. {price} \X taken = {<<price, level.orders.begin>>}
  OBVIOUS
<1>6. IsFiniteSet(Waiting) /\ Cardinality(Waiting) \in Nat
  BY <1>1, WaitingFinite
<1>7. Cardinality(Waiting') = Cardinality(Waiting) - 1 /\ Cardinality(Waiting') \in Nat
  <2>1. /\ Cardinality(Waiting \ {<<price, level.orders.begin>>}) = Cardinality(Waiting) - 1
        /\ IsFiniteSet(Waiting \ {<<price, level.orders.begin>>})
    BY <1>4, <1>6, FS_RemoveElement
  <2> QED
    BY <1>3, <1>5, <2>1, FS_CardinalityType
<1> QED
  BY <1>1, <1>6, <1>7 DEF LessToDo, ToDo

(* First branch: as many wait, and the incoming order is exhausted.        *)
LEMMA FillIncomingShrinks ==
  ASSUME NEW O, NEW price, NEW q, Iterates(O, price, Reduce(book[Contra][price], q)),
         incoming'.quantity = 0
  PROVE  LessToDo
<1> DEFINE level == book[Contra][price]
           left  == Reduce(level, q)
           none  == {}
<1>1. /\ Queues(O) /\ HandTyped /\ incoming.quantity > 0 /\ price \in DOMAIN book[Contra]
      /\ level.orders \in Queue(O)
  BY DEF Iterates, Queues, HandTyped
<1>2. left.orders.begin = level.orders.begin /\ left.orders.end = level.orders.end
  BY <1>1 DEF Reduce, Resize, Queue
<1>3. {price} \X none = {}
  OBVIOUS
<1>4. Iterates(O, price, left)
  OBVIOUS
<1> HIDE DEF left
<1>5. Live(left.orders) = Live(level.orders) \ none
  BY <1>2 DEF Live
<1> HIDE DEF none
<1>6. Waiting' = Waiting
  <2>1. /\ Contra' = Contra /\ DOMAIN book'[Contra] = DOMAIN book[Contra]
        /\ \A p \in DOMAIN book[Contra] :
             book'[Contra][p] = IF p = price THEN left ELSE book[Contra][p]
    BY <1>4, Iterated
  <2>2. Waiting' = Waiting \ ({price} \X none)
    BY <1>1, <1>5, <2>1, WaitingAfter
  <2> QED
    BY <1>3, <2>2
<1>7. Cardinality(Waiting) \in Nat
  BY <1>1, WaitingFinite
<1> QED
  BY <1>1, <1>6, <1>7 DEF LessToDo, ToDo

(* An iteration of the loop, or its end.                                   *)
LEMMA MatchShrinks ==
  ASSUME NEW O, Queues(O), ~Idle => HandTyped, Match,
         incoming' = NoOrder \/ incoming'.side = incoming.side,
         \A q : incoming' = [incoming EXCEPT !.quantity = q] => incoming'.quantity = q
  PROVE  LessToDo
<1>1. CASE restRemainder
  BY <1>1 DEF restRemainder, Idle, LessToDo
<1>2. ASSUME NEW price \in Price, fillResting(price) \/ fillIncoming(price), ~Idle'
      PROVE  LessToDo
  <2>1. /\ ~Idle /\ HandTyped /\ incoming.quantity > 0 /\ price \in DOMAIN book[Contra]
        /\ ~IsEmpty(book[Contra][price].orders) /\ incoming'.side = incoming.side
    BY <1>2 DEF fillResting, fillIncoming, BestLive, Idle
  <2>2. CASE fillResting(price)
    <3>1. book' = [book EXCEPT ![Contra][price] = Consume(book[Contra][price])]
      BY <2>1, <2>2 DEF fillResting, Queues, HandTyped
    <3>2. Iterates(O, price, Consume(book[Contra][price]))
      BY <2>1, <3>1 DEF Iterates
    <3> QED
      BY <3>2, FillRestingShrinks
  <2>3. CASE fillIncoming(price)
    <3>1. /\ book' = [book EXCEPT ![Contra][price] = Reduce(book[Contra][price], incoming.quantity)]
          /\ incoming' = [incoming EXCEPT !.quantity = 0]
      BY <2>1, <2>3 DEF fillIncoming, Queues, HandTyped
    <3>2. Iterates(O, price, Reduce(book[Contra][price], incoming.quantity)) /\ incoming'.quantity = 0
      BY <2>1, <3>1 DEF Iterates
    <3> QED
      BY <3>2, FillIncomingShrinks
  <2> QED
    BY <1>2, <2>2, <2>3
<1> QED
  BY <1>1, <1>2 DEF Match, LessToDo

(* What rests adds at most one price.                                      *)
LEMMA PricesLeft ==
  ASSUME PricesFinite, HandTyped, DOMAIN book'[Contra] \subseteq DOMAIN book[Contra],
         \/ DOMAIN book'[incoming.side] = DOMAIN book[incoming.side]
         \/ DOMAIN book'[incoming.side] = DOMAIN book[incoming.side] \cup {incoming.price}
  PROVE  PricesFinite'
<1>1. \A side \in Side : side = Contra \/ side = incoming.side
  BY DEF HandTyped, Contra, Opposite, Side
<1>2. IsFiniteSet(DOMAIN book'[Contra])
  BY FS_Subset DEF PricesFinite, HandTyped
<1>3. IsFiniteSet(DOMAIN book'[incoming.side])
  BY FS_AddElement DEF PricesFinite, HandTyped
<1> QED
  BY <1>1, <1>2, <1>3 DEF PricesFinite

LEMMA MatchFinite ==
  ASSUME EInv, Match
  PROVE  PricesFinite'
<1>0. TypeOK /\ PricesFinite
  BY DEF EInv, IInv
<1>1. ASSUME NEW price \in Price, fillResting(price) \/ fillIncoming(price)
      PROVE  PricesFinite'
  <2>1. \A side \in Side : DOMAIN book'[side] = DOMAIN book[side]
    BY <1>0, <1>1 DEF fillResting, fillIncoming, TypeOK, BookTyped
  <2> QED
    BY <1>0, <2>1 DEF PricesFinite
<1>2. ASSUME restRemainder
      PROVE  PricesFinite'
  <2>1. HandTyped
    BY <1>2, TypedQueues DEF restRemainder
  <2>2. DOMAIN book'[Contra] \subseteq DOMAIN book[Contra]
    BY <1>0, <1>2, RestRemainderBook DEF Without
  <2>3. \/ DOMAIN book'[incoming.side] = DOMAIN book[incoming.side]
        \/ DOMAIN book'[incoming.side] = DOMAIN book[incoming.side] \cup {incoming.price}
    BY <1>0, <1>2, RestRemainderBook
  <2> QED
    BY <1>0, <2>1, <2>2, <2>3, PricesLeft
<1> QED
  BY <1>1, <1>2 DEF Match

(* An order is an order of its side, whatever is left of it.               *)
LEMMA OrderInHand ==
  ASSUME EInv, Match
  PROVE  /\ incoming' = NoOrder \/ incoming'.side = incoming.side
         /\ \A q : incoming' = [incoming EXCEPT !.quantity = q] => incoming'.quantity = q
<1>1. incoming \in Order
  BY IncomingTyped DEF EInv, IInv, Match, fillResting, fillIncoming, restRemainder
<1>2. incoming' = NoOrder \/ \E q : incoming' = [incoming EXCEPT !.quantity = q]
  BY DEF Match, fillResting, fillIncoming, restRemainder
<1> QED
  BY <1>1, <1>2 DEF Order

LEMMA ShrinksInvariance == Spec => []EInv
<1>1. Init => EInv
  <2>1. Init => PricesFinite
    BY FS_EmptySet DEF Init, PricesFinite
  <2> QED
    BY <2>1, Initially DEF EInv
<1>2. EInv /\ [Next]_bookVars => EInv'
  <2> SUFFICES ASSUME EInv, [Next]_bookVars PROVE EInv'
    OBVIOUS
  <2>1. IInv /\ PricesFinite /\ TypeOK /\ HusksAtFront /\ IInv'
    BY Inductive DEF EInv, IInv
  <2>2. ASSUME NEW order \in Submissions, addOrder(order)
        PROVE  PricesFinite'
    BY <2>1, <2>2 DEF addOrder, PricesFinite
  <2>3. CASE Match
    BY <2>1, <2>3, MatchFinite DEF EInv
  <2>4. ASSUME NEW id \in OrderID, cancelOrder(id)
        PROVE  PricesFinite'
    <3>1. \A side \in Side : DOMAIN book'[side] \subseteq DOMAIN book[side]
      BY <2>1, <2>4, CancelOrderHusks
    <3> QED
      BY <2>1, <3>1, FS_Subset DEF PricesFinite
  <2>5. ASSUME NEW id \in OrderID, NEW newQuantity \in Quantity, modifyOrder(id, newQuantity)
        PROVE  PricesFinite'
    <3>1. \A side \in Side : DOMAIN book'[side] = DOMAIN book[side]
      BY <2>1, <2>5, ModifyOrderHusks, TypesAssumption
    <3> QED
      BY <2>1, <3>1 DEF PricesFinite
  <2>6. CASE UNCHANGED bookVars
    BY <2>1, <2>6 DEF bookVars, PricesFinite, EInv
  <2> QED
    BY <2>1, <2>2, <2>3, <2>4, <2>5, <2>6 DEF EInv, Next
<1> QED
  BY <1>1, <1>2, PTL DEF Spec

(* Whatever clients call, the loops of match never stop short: an order    *)
(* that is not done with has an iteration to make.                         *)
THEOREM MatchGoesOn == Spec => []NeverStuck
<1>1. EInv => NeverStuck
  BY TypedQueues, GoesOn
<1> QED
  BY <1>1, ShrinksInvariance, PTL

(* And no call to addOrder loops for ever, because every iteration of its  *)
(* loops leaves less to do.                                                *)
THEOREM CallsEnd == Spec => MatchingShrinks
<1>1. EInv /\ [Next]_bookVars => [Match => LessToDo]_bookVars
  BY TypedQueues, OrderInHand, MatchShrinks
<1> QED
  BY <1>1, ShrinksInvariance, PTL DEF Spec, MatchingShrinks
=============================================================================
