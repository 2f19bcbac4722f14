---------------------------- MODULE EngineProofs ----------------------------
(***************************************************************************)
(* Proofs about Engine for every set of sessions, every capacity of the    *)
(* ring and every interleaving of the three threads: what the book thread  *)
(* has applied, what is on its way to it and what was discarded partition  *)
(* the frames read, in order; and, whatever a frame asks of the book, what *)
(* the book's calls then keep.                                             *)
(***************************************************************************)
EXTENDS Engine, OrderBookProofs, FoldProofs, SequenceTheorems, TLAPS

-----------------------------------------------------------------------------
(* The way of a frame: through the ring, the book thread's hands, the book. *)

Hand == IF bookPc = "dispatch" THEN <<current>> ELSE <<>>
Path == applied \o (Hand \o ring)

(* The values of the variables a frame's number passes through.            *)
WayTyped ==
  /\ received \in Nat /\ current \in Nat
  /\ ring \in Seq(Nat) /\ applied \in Seq(Nat)

(* What holds of a path, the frames discarded and the number read.         *)
Partition(path, lost, count) ==
  /\ \A i, j \in DOMAIN path : i < j => path[i] < path[j]
  /\ \A i \in DOMAIN path : path[i] \in 1..count /\ path[i] \notin lost
  /\ lost \subseteq 1..count
  /\ \A n \in 1..count : n \notin lost => \E i \in DOMAIN path : path[i] = n

(* The invariant: NothingLostOrReordered and, so that the next frame       *)
(* extends it, that no number above received is on the path or lost.       *)
WayInv == WayTyped /\ Partition(Path, discarded, received)

-----------------------------------------------------------------------------
(* A path is a sequence of numbers.                                        *)
LEMMA PathTyped ==
  ASSUME WayTyped
  PROVE  Hand \in Seq(Nat) /\ Hand \o ring \in Seq(Nat) /\ Path \in Seq(Nat)
<1>1. Hand \in Seq(Nat)
  BY DEF WayTyped, Hand
<1>2. Hand \o ring \in Seq(Nat)
  BY <1>1, ConcatProperties DEF WayTyped
<1> QED
  BY <1>1, <1>2, ConcatProperties DEF WayTyped, Path

(* A frame that is read and pushed is the last of the path.                *)
LEMMA PartitionAppend ==
  ASSUME NEW path \in Seq(Nat), NEW lost, NEW count \in Nat, Partition(path, lost, count)
  PROVE  Partition(Append(path, count + 1), lost, count + 1)
<1> DEFINE longer == Append(path, count + 1)
<1>1. /\ DOMAIN path = 1..Len(path) /\ Len(path) \in Nat
      /\ DOMAIN longer = 1..(Len(path) + 1)
      /\ longer[Len(path) + 1] = count + 1
      /\ \A i \in 1..Len(path) : longer[i] = path[i]
  BY AppendProperties
<1> HIDE DEF longer
<1>2. \A i \in 1..(Len(path) + 1) : i \in 1..Len(path) \/ i = Len(path) + 1
  BY <1>1
<1>3. \A i \in 1..Len(path) : path[i] \in 1..count /\ path[i] \notin lost
  BY <1>1 DEF Partition
<1>4. \A i, j \in 1..(Len(path) + 1) : i < j => longer[i] < longer[j]
  <2> SUFFICES ASSUME NEW i \in 1..(Len(path) + 1), NEW j \in 1..(Len(path) + 1), i < j
               PROVE  longer[i] < longer[j]
    OBVIOUS
  <2>1. i \in 1..Len(path) /\ longer[i] = path[i] /\ path[i] \in 1..count
    BY <1>1, <1>3
  <2>2. CASE j \in 1..Len(path)
    BY <1>1, <2>1, <2>2 DEF Partition
  <2>3. CASE j = Len(path) + 1
    BY <1>1, <2>1, <2>3
  <2> QED
    BY <1>2, <2>2, <2>3
<1>5. \A i \in 1..(Len(path) + 1) : longer[i] \in 1..(count + 1) /\ longer[i] \notin lost
  BY <1>1, <1>2, <1>3 DEF Partition
<1>6. \A n \in 1..(count + 1) : n \notin lost => \E i \in DOMAIN longer : longer[i] = n
  <2> SUFFICES ASSUME NEW n \in 1..(count + 1), n \notin lost
               PROVE  \E i \in DOMAIN longer : longer[i] = n
    OBVIOUS
  <2>1. CASE n \in 1..count
    <3>1. PICK i \in DOMAIN path : path[i] = n
      BY <2>1 DEF Partition
    <3> QED
      BY <3>1, <1>1
  <2>2. CASE n = count + 1
    BY <2>2, <1>1
  <2> QED
    BY <2>1, <2>2
<1> QED
  BY <1>1, <1>4, <1>5, <1>6 DEF Partition, longer

(* A frame that is read and discarded joins the lost.                      *)
LEMMA PartitionDiscard ==
  ASSUME NEW path \in Seq(Nat), NEW lost, NEW count \in Nat, Partition(path, lost, count)
  PROVE  Partition(path, lost \cup {count + 1}, count + 1)
<1>1. \A n \in 1..(count + 1) : n \in 1..count \/ n = count + 1
  OBVIOUS
<1>2. \A i \in DOMAIN path : path[i] \in 1..(count + 1) /\ path[i] \notin lost \cup {count + 1}
  BY DEF Partition
<1>3. \A n \in 1..(count + 1) :
        n \notin lost \cup {count + 1} => \E i \in DOMAIN path : path[i] = n
  BY <1>1 DEF Partition
<1> QED
  BY <1>2, <1>3 DEF Partition

-----------------------------------------------------------------------------
(* The threads' steps.                                                     *)

(* A step that moves no frame.                                             *)
LEMMA WayStays ==
  ASSUME WayInv, UNCHANGED <<received, current, ring, applied, discarded>>, Hand' = Hand
  PROVE  WayInv'
BY DEF WayInv, WayTyped, Path

(* push puts the frame just read at the end of the path, or discards it.   *)
LEMMA Pushed ==
  ASSUME WayInv, received' = received + 1, UNCHANGED <<bookPc, current, applied>>,
         \/ ring' = Append(ring, received + 1) /\ UNCHANGED discarded
         \/ discarded' = discarded \cup {received + 1} /\ UNCHANGED ring
  PROVE  WayInv'
<1>1. WayTyped'
  <2>1. received + 1 \in Nat /\ ring \in Seq(Nat)
    BY DEF WayInv, WayTyped
  <2>2. Append(ring, received + 1) \in Seq(Nat)
    BY <2>1, AppendProperties
  <2> QED
    BY <2>1, <2>2 DEF WayInv, WayTyped
<1>2. Hand' = Hand /\ Hand \in Seq(Nat) /\ Path \in Seq(Nat) /\ Hand \o ring \in Seq(Nat)
  BY PathTyped DEF WayInv, Hand
<1>3. ASSUME ring' = Append(ring, received + 1), UNCHANGED discarded
      PROVE  Partition(Path', discarded', received')
  <2> DEFINE last == <<received + 1>>
  <2>0. /\ ring \in Seq(Nat) /\ applied \in Seq(Nat) /\ last \in Seq(Nat)
        /\ received + 1 \in Nat
    BY DEF WayInv, WayTyped
  <2>1. ring' = ring \o last
    BY <1>3, <2>0, AppendIsConcat
  <2>2. Hand \o (ring \o last) = (Hand \o ring) \o last
    BY <1>2, <2>0, ConcatAssociative
  <2>3. applied \o ((Hand \o ring) \o last) = Path \o last
    BY <1>2, <2>0, ConcatAssociative DEF Path
  <2>4. Path' = Path \o last
    BY <1>2, <2>1, <2>2, <2>3 DEF Path
  <2>5. Path' = Append(Path, received + 1)
    BY <1>2, <2>0, <2>4, AppendIsConcat
  <2> QED
    BY <1>2, <1>3, <2>5, PartitionAppend DEF WayInv, WayTyped
<1>4. ASSUME discarded' = discarded \cup {received + 1}, UNCHANGED ring
      PROVE  Partition(Path', discarded', received')
  <2>1. Path' = Path
    BY <1>2, <1>4 DEF Path
  <2> QED
    BY <1>2, <1>4, <2>1, PartitionDiscard DEF WayInv, WayTyped
<1> QED
  BY <1>1, <1>3, <1>4 DEF WayInv

(* pop takes the head of the ring in hand.                                 *)
LEMMA Popped ==
  ASSUME WayInv, pop, UNCHANGED <<received, discarded>>
  PROVE  WayInv'
<1>1. ring \in Seq(Nat) /\ ring # <<>> /\ applied \in Seq(Nat)
  BY DEF WayInv, WayTyped, pop
<1>2. ring' \in Seq(Nat) /\ current' \in Nat /\ ring = <<current'>> \o ring'
  <2>1. Head(ring) \in Nat /\ Tail(ring) \in Seq(Nat) /\ ring = <<Head(ring)>> \o Tail(ring)
    BY <1>1, HeadTailProperties
  <2> QED
    BY <2>1 DEF pop
<1>3. Hand = <<>> /\ Hand' = <<current'>>
  BY DEF pop, Hand
<1>4. Path' = Path
  <2>1. Hand \o ring = ring
    BY <1>1, <1>3, ConcatEmptySeq
  <2> QED
    BY <1>2, <1>3, <2>1 DEF Path, pop
<1> QED
  BY <1>2, <1>4 DEF WayInv, WayTyped, pop

(* The call of the book moves the frame from the thread's hand to the book. *)
LEMMA Called ==
  ASSUME WayInv, NEW event, callBook(event), UNCHANGED <<received, discarded>>
  PROVE  WayInv'
<1>1. ring \in Seq(Nat) /\ applied \in Seq(Nat) /\ current \in Nat /\ <<current>> \in Seq(Nat)
  BY DEF WayInv, WayTyped
<1>2. Hand = <<current>> /\ Hand' = <<>>
  BY DEF callBook, Hand
<1>3. applied' = applied \o <<current>> /\ applied' \in Seq(Nat)
  BY <1>1, AppendIsConcat, AppendProperties DEF callBook
<1>4. ring' = ring /\ current' = current
  BY DEF callBook
<1>5. Hand' \o ring' = ring
  BY <1>1, <1>2, <1>4, ConcatEmptySeq
<1>6. (applied \o <<current>>) \o ring = applied \o (<<current>> \o ring)
  BY <1>1, ConcatAssociative
<1>7. Path' = Path
  BY <1>2, <1>3, <1>5, <1>6 DEF Path
<1> QED
  BY <1>1, <1>3, <1>4, <1>7 DEF WayInv, WayTyped

-----------------------------------------------------------------------------
(* The invariant holds at the start: nothing was read.                     *)
THEOREM WayInitially == EngineInit => WayInv
<1> SUFFICES ASSUME EngineInit PROVE WayInv
  OBVIOUS
<1>1. Hand = <<>> /\ ring = <<>> /\ applied = <<>>
  BY DEF EngineInit, Hand
<1>2. Path = <<>>
  BY <1>1 DEF Path
<1>3. WayTyped
  BY DEF EngineInit, WayTyped
<1> QED
  BY <1>2, <1>3 DEF EngineInit, WayInv, Partition

(* No step of a thread, of the sender or of the signal breaks it.          *)
THEOREM WayInductive == WayInv /\ [EngineNext]_vars => WayInv'
<1> SUFFICES ASSUME WayInv, [EngineNext]_vars PROVE WayInv'
  OBVIOUS
<1> USE DEF threadVars, netVars, historyVars
<1>1. CASE netThread
  <2>1. UNCHANGED <<bookPc, current, applied>> /\ Hand' = Hand
    BY <1>1 DEF netThread, Hand
  <2>2. CASE bodyRead
    BY <2>1, <2>2, Pushed DEF bodyRead, push
  <2>3. CASE connecting \/ headerRead \/ signalled \/ netReturns
    <3>1. UNCHANGED <<received, ring, discarded>>
      BY <2>3 DEF connecting, headerRead, signalled, netReturns
    <3> QED
      BY <2>1, <3>1, WayStays
  <2> QED
    BY <1>1, <2>2, <2>3 DEF netThread
<1>2. CASE readFailed /\ UNCHANGED <<bookVars, threadVars, mainPc, script>>
  BY <1>2, WayStays DEF readFailed, Hand
<1>3. CASE bookThread
  <2>0. UNCHANGED <<received, discarded>>
    BY <1>3 DEF bookThread
  <2> DEFINE event == parsed(script[current])
  <2>1. CASE poll
    BY <2>0, <2>1, WayStays DEF poll, Hand
  <2>2. CASE popNothing
    BY <2>0, <2>2, WayStays DEF popNothing, Hand
  <2>3. CASE pop
    BY <2>0, <2>3, Popped
  <2>4. CASE callBook(event)
    <3> HIDE DEF event
    <3> QED
      BY <2>0, <2>4, Called
  <2>5. CASE matching
    BY <2>0, <2>5, WayStays DEF matching, Hand
  <2>6. CASE print
    BY <2>0, <2>6, WayStays DEF print, Hand
  <2> QED
    BY <1>3, <2>1, <2>2, <2>3, <2>4, <2>5, <2>6 DEF bookThread, threadStep
<1>4. CASE mainThread
  BY <1>4, WayStays DEF mainThread, Hand
<1>5. CASE interrupt
  BY <1>5, WayStays DEF interrupt, Hand
<1>6. CASE finished \/ UNCHANGED vars
  <2>1. UNCHANGED <<received, current, ring, applied, discarded, bookPc>>
    BY <1>6 DEF finished, vars
  <2> QED
    BY <2>1, WayStays DEF Hand
<1> QED
  BY <1>1, <1>2, <1>3, <1>4, <1>5, <1>6 DEF EngineNext

(* Every frame read is at exactly one place and the book sees the frames   *)
(* in the order they were sent, whatever the sessions, the capacity and    *)
(* the interleaving of the network thread with the book thread are         *)
(* (main.cpp's ring between tcp_reader.cpp's push and book_thread_fn).     *)
THEOREM NothingLost == EngineSpec => []NothingLostOrReordered
<1>1. EngineInit => WayInv
  BY WayInitially
<1>2. WayInv => NothingLostOrReordered
  <2> SUFFICES ASSUME WayInv PROVE NothingLostOrReordered
    OBVIOUS
  <2>1. applied \o InFlight = Path
    BY DEF Path, Hand, InFlight
  <2>2. {Path[i] : i \in DOMAIN Path} \cup discarded = 1..received
    BY DEF WayInv, Partition
  <2> QED
    BY <2>1, <2>2 DEF NothingLostOrReordered, WayInv, Partition
<1> QED
  BY <1>1, <1>2, WayInductive, PTL DEF EngineSpec

-----------------------------------------------------------------------------
(* The book under the calls of a feed.  OrderBookProofs takes an order's   *)
(* quantity to be natural and its type to be one of OrderType; a frame     *)
(* obliges neither, and what follows needs neither.                        *)

(* Queues of whatever orders a frame can ask for.                          *)
WireDeque == [slots : Seq(WireOrder), begin : Nat, end : Nat, map : Nat]

WireLevel(level) == level.orders \in WireDeque /\ WellFormed(level.orders)

BookShaped(b) ==
  /\ DOMAIN b = Side
  /\ \A side \in Side :
       /\ DOMAIN b[side] \subseteq Price
       /\ \A p \in DOMAIN b[side] : WireLevel(b[side][p])

(* The trades of orders of any quantity.                                   *)
WireTrade == [takerId   : OrderID,
              makerId   : OrderID,
              price     : Price,
              quantity  : Int,
              takerSide : Side]

WireTyped ==
  /\ BookShaped(book)
  /\ lastTrades \in Seq(WireTrade)
  /\ \A id \in DOMAIN orderMap : orderMap[id].side \in Side
  /\ incoming \in WireOrder \cup {NoOrder}

(* An order that joins a queue.                                            *)
LEMMA WirePushBack ==
  ASSUME NEW d \in WireDeque, WellFormed(d), NEW o \in WireOrder
  PROVE  PushBack(d, o) \in WireDeque /\ WellFormed(PushBack(d, o)) /\ ~IsEmpty(PushBack(d, o))
<1>1. /\ d.slots \in Seq(WireOrder) /\ d.begin \in Nat /\ d.end \in Nat /\ d.map \in Nat
      /\ d.map # 0 /\ 1 <= d.begin /\ d.begin <= d.end /\ d.end <= Len(d.slots) + 1
  BY DEF WireDeque, WellFormed, Freed
<1> DEFINE stored   == [d.slots EXCEPT ![d.end] = o]
           appended == Append(d.slots, o)
<1>2. d.end <= Len(d.slots) => stored \in Seq(WireOrder) /\ Len(stored) = Len(d.slots)
  BY <1>1
<1>3. appended \in Seq(WireOrder) /\ Len(appended) = Len(d.slots) + 1
  BY <1>1, AppendProperties
<1>4. PushBack(d, o).slots = IF d.end <= Len(d.slots) THEN stored ELSE appended
  BY DEF PushBack
<1> HIDE DEF stored, appended
<1>5. /\ PushBack(d, o).slots \in Seq(WireOrder)
      /\ d.end + 1 <= Len(PushBack(d, o).slots) + 1
  BY <1>1, <1>2, <1>3, <1>4
<1>6. PushBack(d, o).map \in Nat /\ PushBack(d, o).map # 0
  BY <1>1 DEF PushBack
<1> QED
  BY <1>1, <1>5, <1>6 DEF PushBack, WireDeque, WellFormed, IsEmpty, Freed

(* An erase, wherever it is asked for, shortens the queue by one.          *)
LEMMA WireErase ==
  ASSUME NEW d \in WireDeque, WellFormed(d), ~IsEmpty(d), NEW pos
  PROVE  Erase(d, pos) \in WireDeque /\ WellFormed(Erase(d, pos))
<1>1. /\ d.slots \in [1..Len(d.slots) -> WireOrder] /\ Len(d.slots) \in Nat
      /\ d.begin \in Nat /\ d.end \in Nat /\ d.map \in Nat
      /\ d.map # 0 /\ 1 <= d.begin /\ d.begin < d.end /\ d.end <= Len(d.slots) + 1
  BY DEF WireDeque, WellFormed, Freed, IsEmpty
<1> DEFINE n      == Len(d.slots)
           first  == [i \in DOMAIN d.slots |->
                        IF d.begin < i /\ i <= pos THEN d.slots[i - 1] ELSE d.slots[i]]
           second == [i \in DOMAIN d.slots |->
                        IF i >= pos /\ i + 1 < d.end THEN d.slots[i + 1] ELSE d.slots[i]]
<1>2. first \in [1..n -> WireOrder]
  <2>1. ASSUME NEW i \in 1..n, d.begin < i
        PROVE  i - 1 \in 1..n
    BY <1>1, <2>1
  <2> QED
    BY <1>1, <2>1
<1>3. second \in [1..n -> WireOrder]
  <2>1. ASSUME NEW i \in 1..n, i + 1 < d.end
        PROVE  i + 1 \in 1..n
    BY <1>1, <2>1
  <2> QED
    BY <1>1, <2>1
<1>4. /\ \A s \in [1..n -> WireOrder] : s \in Seq(WireOrder) /\ Len(s) = n
      /\ n \in Nat
  BY <1>1
<1>5. \/ Erase(d, pos) = [slots |-> first, begin |-> d.begin + 1, end |-> d.end, map |-> d.map]
      \/ Erase(d, pos) = [slots |-> second, begin |-> d.begin, end |-> d.end - 1, map |-> d.map]
  BY DEF Erase, WireDeque
<1> HIDE DEF first, second, n
<1>6. first \in Seq(WireOrder) /\ Len(first) = n /\ second \in Seq(WireOrder) /\ Len(second) = n
  BY <1>2, <1>3, <1>4
<1>7. d.end - 1 \in Nat /\ d.begin + 1 \in Nat /\ n = Len(d.slots)
  BY <1>1 DEF n
<1> QED
  BY <1>1, <1>5, <1>6, <1>7 DEF WireDeque, WellFormed, Freed

(* Writing a quantity, wherever that is asked for, moves no order.         *)
LEMMA WireResize ==
  ASSUME NEW d \in WireDeque, WellFormed(d), NEW pos, NEW q \in Int
  PROVE  /\ Resize(d, pos, q) \in WireDeque /\ WellFormed(Resize(d, pos, q))
         /\ IsEmpty(Resize(d, pos, q)) <=> IsEmpty(d)
<1>1. d.slots \in Seq(WireOrder)
  BY DEF WireDeque
<1> DEFINE slots == [d.slots EXCEPT ![pos] = [@ EXCEPT !.quantity = q]]
<1>2. slots \in Seq(WireOrder) /\ Len(slots) = Len(d.slots)
  <2>1. \A o \in WireOrder : [o EXCEPT !.quantity = q] \in WireOrder
    BY DEF WireOrder
  <2>2. d.slots \in [1..Len(d.slots) -> WireOrder] /\ Len(d.slots) \in Nat
    BY <1>1
  <2>3. slots \in [1..Len(d.slots) -> WireOrder]
    BY <2>1, <2>2
  <2>4. \A n \in Nat : \A s \in [1..n -> WireOrder] : s \in Seq(WireOrder) /\ Len(s) = n
    OBVIOUS
  <2> HIDE DEF slots
  <2> QED
    BY <2>2, <2>3, <2>4
<1>3. Resize(d, pos, q) = [d EXCEPT !.slots = slots]
  BY DEF Resize, WireDeque
<1> HIDE DEF slots
<1> QED
  BY <1>2, <1>3 DEF WireDeque, WellFormed, IsEmpty

(* A level is stored in place of another.                                  *)
Stores(side, price, level) ==
  /\ BookShaped(book) /\ side \in Side /\ price \in DOMAIN book[side] /\ WireLevel(level)
  /\ book' = [book EXCEPT ![side][price] = level]

LEMMA WireStore ==
  ASSUME NEW side, NEW price, NEW level, Stores(side, price, level)
  PROVE  /\ BookShaped(book')
         /\ \A s \in Side : DOMAIN book'[s] = DOMAIN book[s]
         /\ \A s \in Side : \A p \in DOMAIN book[s] :
              book'[s][p] = IF s = side /\ p = price THEN level ELSE book[s][p]
<1> USE DEF Stores
<1>1. DOMAIN book' = Side /\ \A s \in Side : DOMAIN book'[s] = DOMAIN book[s]
  BY DEF BookShaped
<1>2. \A s \in Side : \A p \in DOMAIN book[s] :
        book'[s][p] = IF s = side /\ p = price THEN level ELSE book[s][p]
  BY DEF BookShaped
<1> QED
  BY <1>1, <1>2 DEF BookShaped

(* The order in hand and the side it trades against.                       *)
LEMMA WireIncoming ==
  ASSUME WireTyped, ~Idle
  PROVE  /\ incoming \in WireOrder /\ incoming.quantity \in Int /\ incoming.price \in Price
         /\ incoming.side \in Side /\ Contra \in Side /\ Contra # incoming.side
BY SideOpposite DEF WireTyped, Idle, Contra, WireOrder

(* The level the loop of addOrder stands at.                               *)
LEMMA WireFront ==
  ASSUME WireTyped, ~Idle, NEW price, BestLive(Contra, price)
  PROVE  LET level == book[Contra][price]
         IN /\ price \in DOMAIN book[Contra] /\ ~IsEmpty(level.orders)
            /\ level.orders \in WireDeque /\ WellFormed(level.orders)
            /\ Front(level.orders) \in WireOrder /\ Front(level.orders).quantity \in Int
<1> DEFINE level == book[Contra][price]
<1>1. /\ price \in DOMAIN book[Contra] /\ ~IsEmpty(level.orders)
      /\ level.orders \in WireDeque /\ WellFormed(level.orders)
  BY WireIncoming DEF BestLive, WireTyped, BookShaped, WireLevel
<1> HIDE DEF level
<1>2. Front(level.orders) \in WireOrder
  <2>1. level.orders.begin \in 1..Len(level.orders.slots) /\ level.orders.slots \in Seq(WireOrder)
    BY <1>1 DEF WireDeque, WellFormed, IsEmpty
  <2> QED
    BY <2>1 DEF Front
<1>3. Front(level.orders).quantity \in Int
  BY <1>2 DEF WireOrder
<1> QED
  BY <1>1, <1>2, <1>3 DEF level

(* What one execution does to the order in hand and to the trades.         *)
Executes(trade) ==
  /\ lastTrades' = Append(lastTrades, trade) /\ trade \in WireTrade
  /\ incoming' \in WireOrder /\ ~Idle' /\ incoming'.quantity >= 0
  /\ incoming'.quantity = incoming.quantity - trade.quantity
  /\ incoming'.side = incoming.side /\ incoming'.type = incoming.type

LEMMA WireFill ==
  ASSUME WireTyped, NEW price, fillResting(price) \/ fillIncoming(price)
  PROVE  /\ \E trade : Executes(trade)
         /\ \E left : WireLevel(left) /\ book' = [book EXCEPT ![Contra][price] = left]
         /\ ~Idle /\ BestLive(Contra, price) /\ DOMAIN orderMap' \subseteq DOMAIN orderMap
         /\ \A id \in DOMAIN orderMap' : orderMap'[id] = orderMap[id]
<1> DEFINE level == book[Contra][price]
           curr  == Front(level.orders)
<1>1. ~Idle /\ BestLive(Contra, price) /\ incoming.quantity > 0
  BY DEF fillResting, fillIncoming
<1>2. incoming \in WireOrder /\ incoming.quantity \in Int
  BY <1>1, WireIncoming
<1>3. /\ ~IsEmpty(level.orders) /\ level.orders \in WireDeque /\ WellFormed(level.orders)
      /\ curr \in WireOrder /\ curr.quantity \in Int
      /\ Contra \in Side /\ price \in DOMAIN book[Contra]
  BY <1>1, WireFront, WireIncoming
<1>4. ASSUME NEW q \in Int, NEW trade \in WireTrade, q >= 0, trade.quantity = incoming.quantity - q,
             lastTrades' = Append(lastTrades, trade), incoming' = [incoming EXCEPT !.quantity = q]
      PROVE  Executes(trade)
  <2>1. incoming' \in WireOrder /\ incoming'.quantity = q
    BY <1>2, <1>4 DEF WireOrder
  <2>2. ~Idle'
    BY <2>1, WireAssumption DEF Idle
  <2>3. incoming'.side = incoming.side /\ incoming'.type = incoming.type
    BY <1>4
  <2>4. trade.quantity \in Int /\ q = incoming.quantity - trade.quantity
    BY <1>2, <1>4 DEF WireTrade
  <2> QED
    BY <1>4, <2>1, <2>2, <2>3, <2>4 DEF Executes
<1>5. CASE fillResting(price)
  <2> DEFINE rest  == incoming.quantity - curr.quantity
             trade == Fill(curr, curr.quantity)
  <2>1. /\ rest \in Int /\ rest >= 0 /\ trade.quantity = incoming.quantity - rest
        /\ lastTrades' = Append(lastTrades, trade)
        /\ incoming' = [incoming EXCEPT !.quantity = rest]
    BY <1>2, <1>3, <1>5 DEF fillResting, Fill
  <2>2. Executes(trade)
    <3>1. trade \in WireTrade
      BY <1>2, <1>3 DEF Fill, WireTrade, WireOrder
    <3> HIDE DEF rest, trade
    <3> QED
      BY <1>4, <2>1, <3>1
  <2>3. book' = [book EXCEPT ![Contra][price] = Consume(level)]
    BY <1>5 DEF fillResting
  <2>4. WireLevel(Consume(level))
    BY <1>3, WireErase DEF Consume, WireLevel
  <2>5. orderMap' = Forget(curr.id)
    BY <1>5 DEF fillResting
  <2> QED
    BY <1>1, <2>2, <2>3, <2>4, <2>5 DEF Forget, Without
<1>6. CASE fillIncoming(price)
  <2> DEFINE trade == Fill(curr, incoming.quantity)
             left  == Reduce(level, incoming.quantity)
             zero  == 0
  <2>1. /\ trade.quantity = incoming.quantity - zero /\ zero \in Int /\ zero >= 0
        /\ lastTrades' = Append(lastTrades, trade)
        /\ incoming' = [incoming EXCEPT !.quantity = zero]
    BY <1>2, <1>6 DEF fillIncoming, Fill
  <2>2. Executes(trade)
    <3>1. trade \in WireTrade
      BY <1>2, <1>3 DEF Fill, WireTrade, WireOrder
    <3> HIDE DEF trade, zero
    <3> QED
      BY <1>4, <2>1, <3>1
  <2>3. book' = [book EXCEPT ![Contra][price] = left]
    BY <1>6 DEF fillIncoming
  <2>4. WireLevel(left)
    <3> DEFINE q == curr.quantity - incoming.quantity
    <3>1. q \in Int
      BY <1>2, <1>3
    <3>2. left.orders = Resize(level.orders, level.orders.begin, q)
      BY DEF Reduce
    <3> HIDE DEF q, left
    <3> QED
      BY <1>3, <3>1, <3>2, WireResize DEF WireLevel
  <2>5. UNCHANGED orderMap
    BY <1>6 DEF fillIncoming
  <2> QED
    BY <1>1, <2>2, <2>3, <2>4, <2>5
<1> QED
  BY <1>5, <1>6

(* The step keeps the book's shape, and only the level it stands at may    *)
(* have become empty.                                                      *)
LEMMA WireFillKeeps ==
  ASSUME WireTyped, HusksAtFront, NEW price, fillResting(price) \/ fillIncoming(price)
  PROVE  /\ WireTyped' /\ HusksAtFront'
         /\ \A side \in Side : DOMAIN book'[side] = DOMAIN book[side]
<1>1. PICK trade : Executes(trade)
  BY WireFill
<1>2. PICK left : WireLevel(left) /\ book' = [book EXCEPT ![Contra][price] = left]
  BY WireFill
<1>3. ~Idle /\ BestLive(Contra, price)
  BY WireFill
<1>4. Contra \in Side /\ price \in DOMAIN book[Contra] /\ ~IsEmpty(book[Contra][price].orders)
  BY <1>3, WireFront, WireIncoming
<1>5. /\ BookShaped(book')
      /\ \A s \in Side : DOMAIN book'[s] = DOMAIN book[s]
      /\ \A s \in Side : \A p \in DOMAIN book[s] :
           book'[s][p] = IF s = Contra /\ p = price THEN left ELSE book[s][p]
  <2> DEFINE contra == Contra
  <2>1. Stores(contra, price, left)
    BY <1>2, <1>4 DEF WireTyped, Stores
  <2> HIDE DEF contra
  <2>2. /\ BookShaped(book')
        /\ \A s \in Side : DOMAIN book'[s] = DOMAIN book[s]
        /\ \A s \in Side : \A p \in DOMAIN book[s] :
             book'[s][p] = IF s = contra /\ p = price THEN left ELSE book[s][p]
    BY <2>1, WireStore
  <2> QED
    BY <2>2 DEF contra
<1>6. WireTyped'
  <2>0. lastTrades' \in Seq(WireTrade)
    BY <1>1, AppendProperties DEF WireTyped, Executes
  <2>1. \A id \in DOMAIN orderMap' : orderMap'[id].side \in Side
    BY WireFill DEF WireTyped
  <2> QED
    BY <1>1, <1>5, <2>0, <2>1 DEF WireTyped, Executes
<1>7. Contra' = Contra /\ ~Idle'
  BY <1>1 DEF Contra, Executes
<1>8. HusksAtFront'
  <2> SUFFICES ASSUME NEW side \in Side, NEW p \in DOMAIN book[side],
                      IsEmpty(book'[side][p].orders)
               PROVE  /\ side = Contra
                      /\ \A q \in DOMAIN book[side] :
                           Better(side, q, p) => IsEmpty(book'[side][q].orders)
    BY <1>5, <1>7 DEF HusksAtFront
  <2>1. CASE side = Contra /\ p = price
    <3>1. \A q \in DOMAIN book[Contra] :
            ~IsEmpty(book[Contra][q].orders) => ~Better(Contra, q, price)
      BY <1>3 DEF BestLive
    <3> QED
      BY <1>4, <1>5, <2>1, <3>1
  <2>2. CASE ~(side = Contra /\ p = price)
    <3>1. IsEmpty(book[side][p].orders)
      BY <1>5, <2>2
    <3>2. side = Contra /\ \A q \in DOMAIN book[side] :
            Better(side, q, p) => IsEmpty(book[side][q].orders)
      BY <3>1 DEF HusksAtFront
    <3>3. ~Better(side, price, p)
      BY <1>4, <3>2
    <3> QED
      BY <1>5, <3>2, <3>3
  <2> QED
    BY <2>1, <2>2
<1> QED
  BY <1>5, <1>6, <1>8

(* A level that survives pruneEmptyFront has an order in it.               *)
LEMMA WireKept ==
  ASSUME WireTyped, HusksAtFront, ~Idle,
         NEW p \in DOMAIN Without(book[Contra], EmptyFront(Contra))
  PROVE  /\ p \in DOMAIN book[Contra] /\ ~IsEmpty(book[Contra][p].orders)
         /\ Without(book[Contra], EmptyFront(Contra))[p] = book[Contra][p]
<1>1. Contra \in Side
  BY WireIncoming
<1>2. /\ p \in DOMAIN book[Contra] \ EmptyFront(Contra)
      /\ Without(book[Contra], EmptyFront(Contra))[p] = book[Contra][p]
  BY DEF Without
<1>3. PICK q \in DOMAIN book[Contra] :
        (q = p \/ Better(Contra, q, p)) /\ ~IsEmpty(book[Contra][q].orders)
  BY <1>2 DEF EmptyFront
<1> QED
  BY <1>1, <1>2, <1>3 DEF HusksAtFront

(* How addOrder leaves the two sides and the index.                        *)
LEMMA WireRest ==
  ASSUME WireTyped, restRemainder
  PROVE  /\ WireTyped' /\ Idle'
         /\ book'[Contra] = Without(book[Contra], EmptyFront(Contra))
         /\ \/ book'[incoming.side] = book[incoming.side]
            \/ /\ incoming.type = "LIMIT" /\ incoming.quantity # 0
               /\ DOMAIN book'[incoming.side] = DOMAIN book[incoming.side] \cup {incoming.price}
               /\ ~IsEmpty(book'[incoming.side][incoming.price].orders)
               /\ \A p \in DOMAIN book[incoming.side] :
                    p # incoming.price => book'[incoming.side][p] = book[incoming.side][p]
<1> DEFINE gone  == EmptyFront(Contra)
           kept  == Without(book[Contra], gone)
           refs  == Dangle(orderMap, Contra, gone)
           level == LevelAt(incoming.side, incoming.price)
           queue == PushBack(level.orders, incoming)
           added == [orders |-> queue, quantity |-> level.quantity + incoming.quantity]
           entry == [price |-> incoming.price, side |-> incoming.side,
                     iterator |-> LastIterator(queue)]
<1>1. /\ incoming \in WireOrder /\ Contra \in Side /\ Contra # incoming.side
      /\ incoming.side \in Side /\ incoming.price \in Price
      /\ \A side \in Side : side = Contra \/ side = incoming.side
  BY WireIncoming DEF restRemainder, Side
<1>2. DOMAIN kept \subseteq DOMAIN book[Contra] /\ \A p \in DOMAIN kept : kept[p] = book[Contra][p]
  BY DEF Without
<1>3. \A id \in DOMAIN refs : refs[id].side \in Side
  BY DEF Dangle, WireTyped
<1>4. WireLevel(added) /\ ~IsEmpty(added.orders)
  <2>1. level.orders \in WireDeque /\ WellFormed(level.orders)
    <3>1. EmptyDeque \in WireDeque /\ WellFormed(EmptyDeque)
      BY DEF EmptyDeque, WireDeque, WellFormed, Freed
    <3> QED
      BY <1>1, <3>1 DEF LevelAt, EmptyLevel, WireTyped, BookShaped, WireLevel
  <2> HIDE DEF level
  <2> QED
    BY <1>1, <2>1, WirePushBack DEF WireLevel
<1>5. incoming' = NoOrder /\ lastTrades' \in Seq(WireTrade)
  BY DEF restRemainder, WireTyped
<1>6. CASE incoming.type = "LIMIT" /\ incoming.quantity # 0
  <2>1. /\ book' = [book EXCEPT ![Contra] = kept,
                                ![incoming.side] = With(@, incoming.price, added)]
        /\ orderMap' = With(refs, incoming.id, entry)
    BY <1>6 DEF restRemainder
  <2>2. entry.side \in Side
    BY <1>1
  <2> HIDE DEF kept, added, refs, entry
  <2>3. /\ DOMAIN book' = Side /\ book'[Contra] = kept
        /\ book'[incoming.side] = With(book[incoming.side], incoming.price, added)
    BY <1>1, <2>1 DEF WireTyped, BookShaped
  <2>4. \A id \in DOMAIN orderMap' : orderMap'[id].side \in Side
    BY <1>3, <2>1, <2>2 DEF With
  <2>5. /\ DOMAIN book'[incoming.side] = DOMAIN book[incoming.side] \cup {incoming.price}
        /\ book'[incoming.side][incoming.price] = added
        /\ \A p \in DOMAIN book[incoming.side] :
             p # incoming.price => book'[incoming.side][p] = book[incoming.side][p]
    BY <2>3 DEF With
  <2>6. \A side \in Side :
          /\ DOMAIN book'[side] \subseteq Price
          /\ \A p \in DOMAIN book'[side] : WireLevel(book'[side][p])
    <3>1. /\ DOMAIN book'[Contra] \subseteq Price
          /\ \A p \in DOMAIN book'[Contra] : WireLevel(book'[Contra][p])
      BY <1>1, <1>2, <2>3 DEF WireTyped, BookShaped
    <3>2. /\ DOMAIN book'[incoming.side] \subseteq Price
          /\ \A p \in DOMAIN book'[incoming.side] : WireLevel(book'[incoming.side][p])
      BY <1>1, <1>4, <2>5 DEF WireTyped, BookShaped
    <3> QED
      BY <1>1, <3>1, <3>2
  <2>7. WireTyped' /\ Idle'
    BY <1>5, <2>3, <2>4, <2>6 DEF WireTyped, BookShaped, Idle
  <2> QED
    BY <1>4, <1>6, <2>3, <2>5, <2>7 DEF kept
<1>7. CASE ~(incoming.type = "LIMIT" /\ incoming.quantity # 0)
  <2>1. book' = [book EXCEPT ![Contra] = kept] /\ orderMap' = refs
    BY <1>7 DEF restRemainder
  <2> HIDE DEF kept, refs
  <2>2. DOMAIN book' = Side /\ book'[Contra] = kept /\ book'[incoming.side] = book[incoming.side]
    BY <1>1, <2>1 DEF WireTyped, BookShaped
  <2>3. \A side \in Side :
          /\ DOMAIN book'[side] \subseteq Price
          /\ \A p \in DOMAIN book'[side] : WireLevel(book'[side][p])
    BY <1>1, <1>2, <2>2 DEF WireTyped, BookShaped
  <2>4. WireTyped' /\ Idle'
    BY <1>3, <1>5, <2>1, <2>2, <2>3 DEF WireTyped, BookShaped, Idle
  <2> QED
    BY <2>2, <2>4 DEF kept
<1> QED
  BY <1>6, <1>7

(* When addOrder returns no level is empty.                                *)
LEMMA WireRestHusks ==
  ASSUME WireTyped, HusksAtFront, restRemainder
  PROVE  HusksAtFront'
<1>1. /\ ~Idle /\ Contra \in Side /\ Contra # incoming.side /\ incoming.side \in Side
      /\ \A side \in Side : side = Contra \/ side = incoming.side
  BY WireIncoming DEF restRemainder, Side
<1>2. ASSUME NEW p \in DOMAIN book'[Contra]
      PROVE  ~IsEmpty(book'[Contra][p].orders)
  BY <1>1, <1>2, WireRest, WireKept
<1>3. ASSUME NEW p \in DOMAIN book'[incoming.side]
      PROVE  ~IsEmpty(book'[incoming.side][p].orders)
  BY <1>1, <1>3, WireRest DEF HusksAtFront
<1> QED
  BY <1>1, <1>2, <1>3 DEF HusksAtFront

(* A cancel drops the level it empties; where it finds none it changes     *)
(* nothing.                                                                *)
LEMMA WireCancelKeeps ==
  ASSUME WireTyped, HusksAtFront, NEW id, cancelOrder(id)
  PROVE  /\ WireTyped' /\ HusksAtFront'
         /\ \A side \in Side : DOMAIN book'[side] \subseteq DOMAIN book[side]
<1> DEFINE ref   == orderMap[id]
           level == book[ref.side][ref.price]
           found == id \in DOMAIN orderMap /\ ref.price \in DOMAIN book[ref.side]
<1>0. Idle /\ incoming' = incoming /\ Idle' /\ lastTrades' \in Seq(WireTrade)
  BY DEF cancelOrder, Idle
<1>1. \A side \in Side : \A p \in DOMAIN book[side] : ~IsEmpty(book[side][p].orders)
  BY <1>0 DEF HusksAtFront
<1>2. CASE ~found
  <2>1. UNCHANGED <<book, orderMap>>
    BY <1>2 DEF cancelOrder
  <2> QED
    BY <1>0, <1>1, <2>1 DEF WireTyped, HusksAtFront
<1>3. CASE found
  <2>1. /\ ref.side \in Side /\ ref.price \in DOMAIN book[ref.side] /\ ~IsEmpty(level.orders)
        /\ level.orders \in WireDeque /\ WellFormed(level.orders)
    BY <1>1, <1>3 DEF WireTyped, BookShaped, WireLevel
  <2>2. PICK read \in ReadThrough(level.orders, ref.iterator),
             erased \in EraseAt(level.orders, ref.iterator) :
          LET left == [orders   |-> Erase(level.orders, erased),
                       quantity |-> level.quantity - level.orders.slots[read].quantity]
          IN /\ book' = StoreOrDrop(ref.side, ref.price, left)
             /\ orderMap' = Without(IF IsEmpty(left.orders)
                                    THEN Dangle(orderMap, ref.side, {ref.price})
                                    ELSE orderMap, {id})
    BY <1>3 DEF cancelOrder
  <2> DEFINE left == [orders   |-> Erase(level.orders, erased),
                      quantity |-> level.quantity - level.orders.slots[read].quantity]
             refs == IF IsEmpty(left.orders) THEN Dangle(orderMap, ref.side, {ref.price})
                     ELSE orderMap
             here  == ref.side
             price == ref.price
  <2>3. WireLevel(left)
    <3> HIDE DEF level
    <3> QED
      BY <2>1, WireErase DEF WireLevel
  <2>4. book' = StoreOrDrop(here, price, left) /\ orderMap' = Without(refs, {id})
    BY <2>2
  <2>5. \A i \in DOMAIN refs : refs[i].side \in Side
    BY DEF WireTyped, Dangle
  <2>6. here \in Side /\ price \in DOMAIN book[here] /\ BookShaped(book)
    BY <2>1 DEF WireTyped
  <2> HIDE DEF refs, left, here, price
  <2>7. \A i \in DOMAIN orderMap' : orderMap'[i].side \in Side
    BY <2>4, <2>5 DEF Without
  <2>8. CASE ~IsEmpty(left.orders)
    <3>1. book' = [book EXCEPT ![here][price] = left]
      BY <2>4, <2>8 DEF StoreOrDrop
    <3>2. /\ BookShaped(book')
          /\ \A s \in Side : DOMAIN book'[s] = DOMAIN book[s]
          /\ \A s \in Side : \A p \in DOMAIN book[s] :
               book'[s][p] = IF s = here /\ p = price THEN left ELSE book[s][p]
      <4>1. Stores(here, price, left)
        BY <2>3, <2>6, <3>1 DEF Stores
      <4> QED
        BY <4>1, WireStore
    <3>3. HusksAtFront'
      BY <1>1, <2>8, <3>2 DEF HusksAtFront
    <3> QED
      BY <1>0, <2>7, <3>2, <3>3 DEF WireTyped
  <2>9. CASE IsEmpty(left.orders)
    <3>1. book' = [book EXCEPT ![here] = Without(@, {price})]
      BY <2>4, <2>9 DEF StoreOrDrop
    <3>2. /\ DOMAIN book' = Side
          /\ \A s \in Side : /\ DOMAIN book'[s] \subseteq DOMAIN book[s]
                             /\ \A p \in DOMAIN book'[s] : book'[s][p] = book[s][p]
      BY <2>6, <3>1 DEF BookShaped, Without
    <3>3. BookShaped(book')
      BY <2>6, <3>2 DEF BookShaped
    <3>4. HusksAtFront'
      BY <1>1, <3>2 DEF HusksAtFront
    <3> QED
      BY <1>0, <2>7, <3>2, <3>3, <3>4 DEF WireTyped
  <2> QED
    BY <2>8, <2>9
<1> QED
  BY <1>2, <1>3

(* An amend moves no order, to whatever quantity it is.                    *)
LEMMA WireModifyKeeps ==
  ASSUME WireTyped, HusksAtFront, NEW id, NEW newQuantity \in Int, modifyOrder(id, newQuantity)
  PROVE  /\ WireTyped' /\ HusksAtFront'
         /\ \A side \in Side : DOMAIN book'[side] = DOMAIN book[side]
<1> DEFINE ref   == orderMap[id]
           level == book[ref.side][ref.price]
           found == id \in DOMAIN orderMap /\ ref.price \in DOMAIN book[ref.side]
<1>0. /\ Idle /\ incoming' = incoming /\ Idle' /\ orderMap' = orderMap
      /\ lastTrades' \in Seq(WireTrade)
  BY DEF modifyOrder, Idle
<1>1. \A side \in Side : \A p \in DOMAIN book[side] : ~IsEmpty(book[side][p].orders)
  BY <1>0 DEF HusksAtFront
<1>2. CASE ~found
  <2>1. UNCHANGED book
    BY <1>2 DEF modifyOrder
  <2> QED
    BY <1>0, <1>1, <2>1 DEF WireTyped, HusksAtFront
<1>3. CASE found
  <2>1. /\ ref.side \in Side /\ ref.price \in DOMAIN book[ref.side] /\ ~IsEmpty(level.orders)
        /\ level.orders \in WireDeque /\ WellFormed(level.orders)
    BY <1>1, <1>3 DEF WireTyped, BookShaped, WireLevel
  <2>2. PICK at \in ReadThrough(level.orders, ref.iterator) :
          book' = [book EXCEPT ![ref.side][ref.price] =
                    [orders   |-> Resize(level.orders, at, newQuantity),
                     quantity |-> level.quantity
                                  + (newQuantity - level.orders.slots[at].quantity)]]
    BY <1>3, <2>1 DEF modifyOrder
  <2> DEFINE left == [orders   |-> Resize(level.orders, at, newQuantity),
                      quantity |-> level.quantity
                                   + (newQuantity - level.orders.slots[at].quantity)]
             here  == ref.side
             price == ref.price
  <2>3. WireLevel(left) /\ ~IsEmpty(left.orders)
    <3> HIDE DEF level
    <3> QED
      BY <2>1, WireResize DEF WireLevel
  <2>4. book' = [book EXCEPT ![here][price] = left]
    BY <2>2
  <2>5. here \in Side /\ price \in DOMAIN book[here] /\ BookShaped(book)
    BY <2>1 DEF WireTyped
  <2> HIDE DEF left, here, price
  <2>6. /\ BookShaped(book')
        /\ \A s \in Side : DOMAIN book'[s] = DOMAIN book[s]
        /\ \A s \in Side : \A p \in DOMAIN book[s] :
             book'[s][p] = IF s = here /\ p = price THEN left ELSE book[s][p]
    <3>1. Stores(here, price, left)
      BY <2>3, <2>4, <2>5 DEF Stores
    <3> QED
      BY <3>1, WireStore
  <2>7. HusksAtFront'
    BY <1>1, <2>3, <2>6 DEF HusksAtFront
  <2> QED
    BY <1>0, <2>6, <2>7 DEF WireTyped
<1> QED
  BY <1>2, <1>3

(* What addOrder rests is worse than every level it could trade with that  *)
(* survives, unless it is an order below 0, which the loop never looks at. *)
LEMMA WireRestUncrossed ==
  ASSUME WireTyped, HusksAtFront, Uncrossed, restRemainder,
         incoming.type = "LIMIT" => incoming.quantity >= 0
  PROVE  Uncrossed'
<1>1. /\ Contra \in Side /\ Contra # incoming.side /\ incoming.side \in Side
      /\ incoming.price \in Price /\ incoming.quantity \in Int
  BY WireIncoming DEF restRemainder
<1>2. ASSUME NEW p \in DOMAIN book'[Contra]
      PROVE  /\ p \in DOMAIN book[Contra]
             /\ incoming.type = "LIMIT" /\ incoming.quantity # 0 => ~Marketable(incoming, p)
  <2>1. p \in DOMAIN book[Contra] /\ ~IsEmpty(book[Contra][p].orders)
    BY <1>2, WireRest, WireKept DEF restRemainder
  <2>2. MatchingOver
    BY DEF restRemainder
  <2>3. incoming.type = "LIMIT" /\ incoming.quantity <= 0 => incoming.quantity = 0
    BY <1>1
  <2> QED
    BY <2>1, <2>2, <2>3 DEF MatchingOver
<1>3. Price \subseteq Int /\ \A side \in Side : DOMAIN book[side] \subseteq Price
  BY TypesAssumption DEF WireTyped, BookShaped
<1>4. \A p \in DOMAIN book'[incoming.side] :
        \/ p \in DOMAIN book[incoming.side]
        \/ p = incoming.price /\ incoming.type = "LIMIT" /\ incoming.quantity # 0
  BY WireRest
<1>5. CASE incoming.side = "BUY"
  <2>1. Contra = "SELL"
    BY <1>5 DEF Contra, Opposite
  <2> SUFFICES ASSUME NEW bid \in DOMAIN book'["BUY"], NEW ask \in DOMAIN book'["SELL"]
               PROVE  bid < ask
    BY DEF Uncrossed
  <2>2. ask \in DOMAIN book["SELL"] /\ ask \in Int
    BY <1>1, <1>2, <1>3, <2>1
  <2>3. CASE bid \in DOMAIN book["BUY"]
    BY <2>2, <2>3 DEF Uncrossed
  <2>4. CASE bid = incoming.price /\ incoming.type = "LIMIT" /\ incoming.quantity # 0
    <3>1. ~Marketable(incoming, ask)
      BY <1>2, <2>1, <2>4
    <3>2. Better("SELL", incoming.price, ask)
      BY <1>5, <3>1 DEF Marketable, Opposite
    <3> QED
      BY <1>1, <1>3, <2>2, <2>4, <3>2 DEF Better
  <2> QED
    BY <1>4, <1>5, <2>3, <2>4
<1>6. CASE incoming.side = "SELL"
  <2>1. Contra = "BUY"
    BY <1>6 DEF Contra, Opposite
  <2> SUFFICES ASSUME NEW bid \in DOMAIN book'["BUY"], NEW ask \in DOMAIN book'["SELL"]
               PROVE  bid < ask
    BY DEF Uncrossed
  <2>2. bid \in DOMAIN book["BUY"] /\ bid \in Int
    BY <1>1, <1>2, <1>3, <2>1
  <2>3. CASE ask \in DOMAIN book["SELL"]
    BY <2>2, <2>3 DEF Uncrossed
  <2>4. CASE ask = incoming.price /\ incoming.type = "LIMIT" /\ incoming.quantity # 0
    <3>1. ~Marketable(incoming, bid)
      BY <1>2, <2>1, <2>4
    <3>2. Better("BUY", incoming.price, bid)
      BY <1>6, <3>1 DEF Marketable, Opposite
    <3> QED
      BY <1>1, <1>3, <2>2, <2>4, <3>2 DEF Better
  <2> QED
    BY <1>4, <1>6, <2>3, <2>4
<1> QED
  BY <1>1, <1>5, <1>6 DEF Side

-----------------------------------------------------------------------------
(* The threads, for whatever a sender sends.                               *)

(* The frames that reach the ring.                                         *)
Sent == {n \in 1..Len(script) : parses(script[n])}

(* Every frame of the script asks for what a caller of the book may.       *)
AllSound == \A i \in DOMAIN script : sound(script[i])

(* A LIMIT order below 0 has been asked for.                               *)
BelowZero == \E i \in DOMAIN applied : addsNegative(script[applied[i]])

(* The values of the variables of the threads.  While a body is awaited    *)
(* there is one to read, and what the book thread has popped is a frame    *)
(* until it has called the book with it.                                   *)
ThreadsTyped ==
  /\ script \in Sessions
  /\ reader \in {"resolve", "connect", "backoff", "header", "body", "closed"}
  /\ received \in 0..Len(script) /\ (reader = "body" => received < Len(script))
  /\ ring \in Seq(Sent) /\ Len(ring) <= Capacity
  /\ quit \in BOOLEAN /\ ioStopped \in BOOLEAN /\ netDone \in BOOLEAN
  /\ bookPc \in {"poll", "pop", "dispatch", "print", "returned"}
  /\ current \in Sent \cup {0} /\ (bookPc = "dispatch" => current \in Sent)
  /\ mainPc \in {"installHandler", "joinNet", "joinBook", "returned"}
  /\ signal \in BOOLEAN /\ sawEof \in BOOLEAN
  /\ applied \in Seq(Sent) /\ discarded \subseteq 1..Len(script)

(* An order below 0 is in hand only once a frame has asked for it, and     *)
(* without one the book is not crossed.                                    *)
SignKept ==
  \/ BelowZero
  \/ Uncrossed /\ (~Idle /\ incoming.type = "LIMIT" => incoming.quantity >= 0)

(* The order in hand is that of the frame applied last.                    *)
TradesAddUp == ~Idle => applied # <<>> /\ lastFrame.qty = Traded(incoming.quantity, lastTrades)

(* The book of the engine, for any session, and for one whose frames are   *)
(* all sound.                                                              *)
EngineInv ==
  /\ ThreadsTyped
  /\ WireTyped /\ HusksAtFront
  /\ SignKept
  /\ TradesAddUp
  /\ AllSound => TypeOK /\ printed \in Seq(Trade)

(* A session is a sequence of frames.                                      *)
LEMMA ScriptTyped ==
  ASSUME script \in Sessions
  PROVE  /\ script \in Seq(Frame) /\ Len(script) \in Nat /\ DOMAIN script = 1..Len(script)
         /\ \A n \in Sent : script[n] \in Frame /\ parses(script[n])
<1>1. script \in Seq(Frame)
  BY SessionsAssumption
<1>2. Len(script) \in Nat /\ DOMAIN script = 1..Len(script) /\ \A n \in 1..Len(script) : script[n] \in Frame
  BY <1>1
<1> QED
  BY <1>1, <1>2 DEF Sent

(* What a frame asks of the book.                                          *)
Asks(frame) ==
  \/ /\ frame.type = 0
     /\ \E o \in WireOrder : /\ addOrder(o) /\ o.quantity = frame.qty
                             /\ o.type = "LIMIT" => frame.orderType = 1
                             /\ sound(frame) => o \in Order
  \/ frame.type = 1 /\ \E id \in OrderID : cancelOrder(id)
  \/ /\ frame.type = 2
     /\ \E id \in OrderID, q \in Int : modifyOrder(id, q) /\ (sound(frame) => q \in Nat)

LEMMA Asked ==
  ASSUME NEW frame \in Frame, parses(frame), dispatch(parsed(frame))
  PROVE  Asks(frame)
<1>1. CASE frame.type = 0
  <2>1. /\ frame \in [size : Nat, type : {0}, orderId : OrderID, price : Price, qty : Int,
                      side : 0..255, orderType : 0..255]
    BY <1>1 DEF Frame
  <2> DEFINE o == [id       |-> frame.orderId,
                   price    |-> frame.price,
                   quantity |-> frame.qty,
                   side     |-> sideOf(frame.side),
                   type     |-> orderTypeOf(frame.orderType)]
  <2>2. parsed(frame) = ADD(o)
    BY <1>1 DEF parsed
  <2>3. o \in WireOrder
    <3>1. sideOf(frame.side) \in Side
      BY DEF sideOf, Side
    <3>2. orderTypeOf(frame.orderType) \in OrderType \cup {"other"}
      BY DEF orderTypeOf, OrderType
    <3>3. frame.orderId \in OrderID /\ frame.price \in Price /\ frame.qty \in Int
      BY <2>1
    <3> QED
      BY <3>1, <3>2, <3>3 DEF WireOrder
  <2>4. o.type = "LIMIT" => frame.orderType = 1
    BY DEF orderTypeOf
  <2>5. o.quantity = frame.qty
    OBVIOUS
  <2> HIDE DEF o
  <2>6. addOrder(o)
    BY <2>2 DEF dispatch, ADD
  <2>7. sound(frame) => o \in Order
    BY <1>1, <2>2 DEF sound, ADD
  <2> QED
    BY <1>1, <2>3, <2>4, <2>5, <2>6, <2>7 DEF Asks
<1>2. CASE frame.type = 1
  <2>1. frame.orderId \in OrderID
    BY <1>2 DEF Frame
  <2>2. parsed(frame) = CANCEL(frame.orderId)
    BY <1>2 DEF parsed
  <2>3. cancelOrder(frame.orderId)
    BY <2>2 DEF dispatch, CANCEL
  <2> QED
    BY <1>2, <2>1, <2>3 DEF Asks
<1>3. CASE frame.type = 2
  <2>1. frame.orderId \in OrderID /\ frame.newQty \in Int
    BY <1>3 DEF Frame
  <2>2. parsed(frame) = AMEND(frame.orderId, frame.newQty)
    BY <1>3 DEF parsed
  <2>3. modifyOrder(frame.orderId, frame.newQty)
    BY <2>2 DEF dispatch, AMEND
  <2>4. sound(frame) => frame.newQty \in Nat
    BY <1>3, <2>1 DEF sound
  <2> QED
    BY <1>3, <2>1, <2>3, <2>4 DEF Asks
<1> QED
  BY <1>1, <1>2, <1>3 DEF parses

-----------------------------------------------------------------------------
(* Steps that leave the book alone.                                        *)

LEMMA BookStays ==
  ASSUME EngineInv, ThreadsTyped', UNCHANGED <<bookVars, script, applied, printed>>
  PROVE  EngineInv'
<1>1. WireTyped' /\ HusksAtFront' /\ (TypeOK => TypeOK')
  BY DEF EngineInv, bookVars, WireTyped, HusksAtFront, TypeOK, BookTyped, IndexTyped, Idle, Contra
<1>2. SignKept' /\ TradesAddUp'
  BY DEF EngineInv, bookVars, SignKept, BelowZero, Uncrossed, TradesAddUp, lastFrame, Idle
<1>3. AllSound' => AllSound
  BY DEF AllSound
<1> QED
  BY <1>1, <1>2, <1>3 DEF EngineInv

(* The network thread and what ends it.                                    *)
LEMMA NetTyped ==
  ASSUME ThreadsTyped, netThread
  PROVE  ThreadsTyped'
<1> USE DEF threadVars, netVars, historyVars
<1>1. UNCHANGED <<bookPc, current, applied, mainPc, script>> /\ Sent' = Sent
  BY DEF netThread, Sent
<1>2. CASE connecting
  <2>1. UNCHANGED <<received, ring, quit, ioStopped, netDone, signal, discarded, sawEof>>
    BY <1>2 DEF connecting
  <2>2. reader' \in {"resolve", "connect", "backoff", "header"}
    BY <1>2 DEF connecting, resolved, connected, failed, retried, handler
  <2> QED
    BY <1>1, <2>1, <2>2 DEF ThreadsTyped
<1>3. CASE headerRead
  <2>1. UNCHANGED <<received, ring, quit, ioStopped, netDone, signal, discarded, sawEof>>
    BY <1>3 DEF headerRead
  <2>2. reader' = "body" /\ received < Len(script)
    BY <1>3 DEF headerRead, handler
  <2> QED
    BY <1>1, <2>1, <2>2 DEF ThreadsTyped
<1>4. CASE bodyRead
  <2> DEFINE i == received + 1
  <2>1. UNCHANGED <<quit, ioStopped, netDone, signal, sawEof>>
    BY <1>4 DEF bodyRead
  <2>2. reader' = "header" /\ received' = i /\ reader = "body"
    BY <1>4 DEF bodyRead, handler
  <2>3. received \in Nat /\ Len(script) \in Nat /\ i \in 1..Len(script) /\ i \in 0..Len(script)
    BY <2>2, ScriptTyped DEF ThreadsTyped
  <2>4. ring \in Seq(Sent) /\ Len(ring) \in Nat /\ Capacity \in Nat
    BY CapacityAssumption DEF ThreadsTyped
  <2>5. ring' \in Seq(Sent) /\ Len(ring') <= Capacity /\ discarded' \subseteq 1..Len(script)
    <3>1. CASE discarded' = discarded \cup {i} /\ UNCHANGED ring
      BY <2>3, <3>1 DEF ThreadsTyped
    <3>2. CASE /\ parses(script[i]) /\ Len(ring) < Capacity
               /\ ring' = Append(ring, i) /\ UNCHANGED discarded
      <4>1. i \in Sent
        BY <2>3, <3>2 DEF Sent
      <4> HIDE DEF i
      <4>2. ring' \in Seq(Sent) /\ Len(ring') = Len(ring) + 1
        BY <2>4, <3>2, <4>1, AppendProperties
      <4> QED
        BY <2>4, <3>2, <4>2 DEF ThreadsTyped
    <3> QED
      BY <1>4, <3>1, <3>2 DEF bodyRead, push
  <2> HIDE DEF i
  <2> QED
    BY <1>1, <2>1, <2>2, <2>3, <2>5 DEF ThreadsTyped
<1>5. CASE signalled
  BY <1>1, <1>5 DEF signalled, ThreadsTyped
<1>6. CASE netReturns
  BY <1>1, <1>6 DEF netReturns, ThreadsTyped
<1> QED
  BY <1>2, <1>3, <1>4, <1>5, <1>6 DEF netThread

(* The book thread.                                                        *)
LEMMA BookThreadTyped ==
  ASSUME ThreadsTyped, bookThread
  PROVE  ThreadsTyped'
<1> USE DEF threadVars, netVars
<1>1. /\ UNCHANGED <<script, reader, received, ioStopped, netDone, quit, mainPc, signal, discarded, sawEof>>
      /\ Sent' = Sent /\ ring \in Seq(Sent) /\ applied \in Seq(Sent)
  BY DEF bookThread, Sent, ThreadsTyped
<1>2. CASE poll \/ popNothing
  <2>1. UNCHANGED <<ring, current, applied>> /\ bookPc' \in {"poll", "pop", "returned"}
    BY <1>2 DEF poll, popNothing
  <2> QED
    BY <1>1, <2>1 DEF ThreadsTyped
<1>3. CASE pop
  <2>1. ring # <<>> /\ ring' = Tail(ring) /\ current' = Head(ring) /\ bookPc' = "dispatch"
    BY <1>3 DEF pop
  <2>2. Head(ring) \in Sent /\ Tail(ring) \in Seq(Sent) /\ Len(Tail(ring)) = Len(ring) - 1
    BY <1>1, <2>1, HeadTailProperties
  <2>3. Len(ring) \in Nat /\ Len(ring) <= Capacity /\ Capacity \in Nat
    BY <1>1, CapacityAssumption DEF ThreadsTyped
  <2>4. ring' \in Seq(Sent) /\ Len(ring') <= Capacity /\ current' \in Sent /\ UNCHANGED applied
    BY <1>3, <2>1, <2>2, <2>3 DEF pop
  <2> QED
    BY <1>1, <2>1, <2>4 DEF ThreadsTyped
<1>4. ASSUME NEW event, callBook(event)
      PROVE  ThreadsTyped'
  <2>1. /\ bookPc = "dispatch" /\ bookPc' = "print" /\ applied' = Append(applied, current)
        /\ UNCHANGED <<ring, current>>
    BY <1>4 DEF callBook
  <2>2. current \in Sent
    BY <2>1 DEF ThreadsTyped
  <2>3. applied' \in Seq(Sent)
    BY <1>1, <2>1, <2>2, AppendProperties
  <2> QED
    BY <1>1, <2>1, <2>3 DEF ThreadsTyped
<1>5. CASE matching
  BY <1>1, <1>5 DEF matching, ThreadsTyped
<1>6. CASE print
  <2>1. UNCHANGED <<ring, current, applied>> /\ bookPc' = "pop"
    BY <1>6 DEF print
  <2> QED
    BY <1>1, <2>1 DEF ThreadsTyped
<1> QED
  BY <1>2, <1>3, <1>4, <1>5, <1>6 DEF bookThread, threadStep

(* The other steps.                                                        *)
LEMMA OthersTyped ==
  ASSUME ThreadsTyped,
         \/ readFailed /\ UNCHANGED <<bookVars, threadVars, mainPc, script>>
         \/ mainThread \/ interrupt \/ finished \/ UNCHANGED vars
  PROVE  ThreadsTyped'
<1> USE DEF threadVars, netVars, historyVars
<1>1. Sent' = Sent
  BY DEF Sent, mainThread, interrupt, finished, vars
<1>2. CASE readFailed /\ UNCHANGED <<bookVars, threadVars, mainPc, script>>
  BY <1>1, <1>2 DEF readFailed, handleError, ThreadsTyped
<1>3. CASE mainThread
  BY <1>1, <1>3 DEF mainThread, ThreadsTyped
<1>4. CASE interrupt
  BY <1>1, <1>4 DEF interrupt, ThreadsTyped
<1>5. CASE finished \/ UNCHANGED vars
  <2>1. UNCHANGED vars
    BY <1>5 DEF finished
  <2> QED
    BY <1>1, <2>1 DEF ThreadsTyped, vars
<1> QED
  BY <1>2, <1>3, <1>4, <1>5

-----------------------------------------------------------------------------
(* The steps of the book.                                                  *)

(* An iteration of addOrder.                                               *)
LEMMA MatchKeeps ==
  ASSUME EngineInv, Match, UNCHANGED <<script, applied, printed>>
  PROVE  /\ WireTyped' /\ HusksAtFront' /\ SignKept' /\ TradesAddUp'
         /\ AllSound' => TypeOK' /\ printed' \in Seq(Trade)
<1> USE DEF EngineInv
<1>0. (BelowZero' <=> BelowZero) /\ lastFrame' = lastFrame /\ (AllSound' <=> AllSound)
  BY DEF BelowZero, lastFrame, AllSound
<1>1. ASSUME NEW price \in Price, fillResting(price) \/ fillIncoming(price)
      PROVE  /\ WireTyped' /\ HusksAtFront' /\ SignKept' /\ TradesAddUp'
             /\ AllSound' => TypeOK' /\ printed' \in Seq(Trade)
  <2>1. WireTyped' /\ HusksAtFront' /\ \A side \in Side : DOMAIN book'[side] = DOMAIN book[side]
    BY <1>1, WireFillKeeps
  <2>2. PICK trade : Executes(trade)
    BY <1>1, WireFill
  <2>3. SignKept'
    BY <1>0, <2>1, <2>2 DEF SignKept, Uncrossed, Executes, Side
  <2>4. TradesAddUp'
    <3>1. ~Idle /\ incoming.quantity \in Int
      BY <1>1, WireFill, WireIncoming
    <3> DEFINE base == incoming.quantity
               left == incoming'.quantity
    <3>2. /\ lastTrades \in Seq(WireTrade) /\ trade \in WireTrade
          /\ \A t \in WireTrade : t.quantity \in Int
      BY <2>2 DEF Executes, WireTyped, WireTrade
    <3>3. base \in Int /\ left = base - trade.quantity /\ lastTrades' = Append(lastTrades, trade)
      BY <2>2, <3>1 DEF Executes
    <3> HIDE DEF base, left
    <3>4. Traded(base - trade.quantity, Append(lastTrades, trade)) = Traded(base, lastTrades)
      BY <3>2, <3>3, TradedAppend
    <3>5. Traded(left, lastTrades') = Traded(base, lastTrades)
      BY <3>3, <3>4
    <3> QED
      BY <1>0, <3>1, <3>5 DEF TradesAddUp, base, left
  <2>5. AllSound => TypeOK'
    BY <1>1, FillRestingTyped, FillIncomingTyped
  <2> QED
    BY <1>0, <2>1, <2>3, <2>4, <2>5
<1>2. CASE restRemainder
  <2>1. WireTyped' /\ Idle' /\ HusksAtFront' /\ ~Idle
    BY <1>2, WireRest, WireRestHusks DEF restRemainder
  <2>2. SignKept'
    <3>1. CASE BelowZero
      BY <1>0, <3>1 DEF SignKept
    <3>2. CASE ~BelowZero
      BY <1>2, <2>1, <3>2, WireRestUncrossed DEF SignKept
    <3> QED
      BY <3>1, <3>2
  <2>3. AllSound => TypeOK'
    BY <1>2, RestRemainderTyped
  <2> QED
    BY <1>0, <2>1, <2>2, <2>3 DEF TradesAddUp
<1> QED
  BY <1>1, <1>2 DEF Match

(* The call a frame makes.                                                 *)
LEMMA CallKeeps ==
  ASSUME EngineInv, callBook(parsed(script[current])), UNCHANGED <<script, printed>>
  PROVE  /\ WireTyped' /\ HusksAtFront' /\ SignKept' /\ TradesAddUp'
         /\ AllSound' => TypeOK' /\ printed' \in Seq(Trade)
<1> USE DEF EngineInv
<1> DEFINE frame == script[current]
           n     == Len(applied)
<1>1. /\ current \in Sent /\ script \in Sessions /\ applied \in Seq(Sent)
      /\ applied' = Append(applied, current)
  BY DEF callBook, ThreadsTyped
<1>2. frame \in Frame /\ parses(frame) /\ current \in DOMAIN script
  BY <1>1, ScriptTyped DEF Sent
<1>3. Asks(frame)
  <2>1. dispatch(parsed(frame))
    BY DEF callBook
  <2> HIDE DEF frame
  <2> QED
    BY <1>2, <2>1, Asked
<1>4. /\ n \in Nat /\ DOMAIN applied = 1..n /\ DOMAIN applied' = 1..n + 1 /\ Len(applied') = n + 1
      /\ applied'[n + 1] = current /\ \A i \in 1..n : applied'[i] = applied[i]
  BY <1>1, AppendProperties, LenProperties
<1> HIDE DEF n
<1>5. /\ BelowZero => BelowZero'
      /\ addsNegative(frame) => BelowZero'
      /\ lastFrame' = frame /\ applied' # <<>>
      /\ AllSound' = AllSound
  <2>1. \A i \in 1..n : i \in 1..n + 1
    BY <1>4
  <2>2. n + 1 \in 1..n + 1
    BY <1>4
  <2>3. UNCHANGED script
    OBVIOUS
  <2>4. BelowZero => BelowZero'
    BY <1>4, <2>1, <2>3 DEF BelowZero
  <2>5. addsNegative(frame) => BelowZero'
    BY <1>4, <2>2, <2>3 DEF BelowZero
  <2>6. lastFrame' = frame /\ applied' # <<>>
    BY <1>4, <2>2, <2>3 DEF lastFrame
  <2> QED
    BY <2>4, <2>5, <2>6 DEF AllSound
<1>6. AllSound => sound(frame)
  BY <1>2 DEF AllSound
<1> HIDE DEF frame
<1>7. ASSUME NEW o \in WireOrder, addOrder(o), o.quantity = frame.qty, frame.type = 0,
             o.type = "LIMIT" => frame.orderType = 1, sound(frame) => o \in Order
      PROVE  /\ WireTyped' /\ HusksAtFront' /\ SignKept' /\ TradesAddUp'
             /\ AllSound' => TypeOK' /\ printed' \in Seq(Trade)
  <2>1. Idle /\ incoming' = o /\ lastTrades' = <<>> /\ UNCHANGED <<book, orderMap>>
    BY <1>7 DEF addOrder
  <2>2. WireTyped' /\ HusksAtFront'
    BY <2>1 DEF WireTyped, HusksAtFront
  <2>3. o.quantity \in Int
    BY DEF WireOrder
  <2>4. SignKept'
    <3>1. o.type = "LIMIT" /\ ~(o.quantity >= 0) => addsNegative(frame)
      BY <1>7, <2>3 DEF addsNegative
    <3> QED
      BY <1>5, <2>1, <3>1 DEF SignKept, Uncrossed
  <2>5. TradesAddUp'
    <3>1. /\ <<>> \in Seq(WireTrade) /\ \A t \in WireTrade : t.quantity \in Int
      BY DEF WireTrade
    <3> DEFINE base == o.quantity
    <3>2. Traded(base, <<>>) = base
      <4>1. Traded(base, <<>>) = base
        <5> DEFINE t == [takerId |-> o.id, makerId |-> o.id, price |-> o.price,
                         quantity |-> 0, takerSide |-> o.side]
                   none == <<>>
        <5>1. t \in WireTrade /\ none \in Seq(WireTrade)
          BY DEF WireTrade, WireOrder
        <5>2. base \in Int
          BY <2>3
        <5> HIDE DEF t, base, none
        <5> QED
          BY <3>1, <5>1, <5>2, TradedAppend
      <4> QED
        BY <4>1
    <3> QED
      BY <1>5, <1>7, <2>1, <3>2 DEF TradesAddUp
  <2>6. AllSound => TypeOK'
    BY <1>6, <1>7, <2>1 DEF TypeOK, BookTyped, IndexTyped
  <2> QED
    BY <1>5, <2>2, <2>4, <2>5, <2>6
<1>8. ASSUME NEW id \in OrderID, cancelOrder(id)
      PROVE  /\ WireTyped' /\ HusksAtFront' /\ SignKept' /\ TradesAddUp'
             /\ AllSound' => TypeOK' /\ printed' \in Seq(Trade)
  <2>1. /\ WireTyped' /\ HusksAtFront'
        /\ \A side \in Side : DOMAIN book'[side] \subseteq DOMAIN book[side]
    BY <1>8, WireCancelKeeps
  <2>2. Idle'
    BY <1>8 DEF cancelOrder, Idle
  <2>3. SignKept' /\ TradesAddUp'
    BY <1>5, <2>1, <2>2 DEF SignKept, TradesAddUp, Uncrossed, Side
  <2>4. AllSound => TypeOK'
    BY <1>8, CancelOrderTyped
  <2> QED
    BY <1>5, <2>1, <2>3, <2>4
<1>9. ASSUME NEW id \in OrderID, NEW q \in Int, modifyOrder(id, q), sound(frame) => q \in Nat
      PROVE  /\ WireTyped' /\ HusksAtFront' /\ SignKept' /\ TradesAddUp'
             /\ AllSound' => TypeOK' /\ printed' \in Seq(Trade)
  <2>1. /\ WireTyped' /\ HusksAtFront'
        /\ \A side \in Side : DOMAIN book'[side] = DOMAIN book[side]
    BY <1>9, WireModifyKeeps
  <2>2. Idle'
    BY <1>9 DEF modifyOrder, Idle
  <2>3. SignKept' /\ TradesAddUp'
    BY <1>5, <2>1, <2>2 DEF SignKept, TradesAddUp, Uncrossed, Side
  <2>4. AllSound => TypeOK'
    BY <1>6, <1>9, ModifyOrderTyped
  <2> QED
    BY <1>5, <2>1, <2>3, <2>4
<1> QED
  BY <1>3, <1>7, <1>8, <1>9 DEF Asks

-----------------------------------------------------------------------------
(* Nothing has been received and the book is empty.                        *)
LEMMA EngineInitially == EngineInit => EngineInv
<1> SUFFICES ASSUME EngineInit PROVE EngineInv
  OBVIOUS
<1>1. IInv /\ Idle /\ lastTrades = <<>>
  BY Initially DEF EngineInit, Init, Idle
<1>2. ThreadsTyped
  <2>1. script \in Sessions /\ Len(script) \in Nat
    BY ScriptTyped DEF EngineInit
  <2>2. ring \in Seq(Sent) /\ Len(ring) <= Capacity /\ applied \in Seq(Sent)
    BY CapacityAssumption DEF EngineInit
  <2>3. discarded \subseteq 1..Len(script) /\ received \in 0..Len(script)
    BY <2>1 DEF EngineInit
  <2>4. /\ reader = "resolve" /\ bookPc = "poll" /\ current = 0 /\ mainPc = "installHandler"
        /\ quit \in BOOLEAN /\ ioStopped \in BOOLEAN /\ netDone \in BOOLEAN
        /\ signal \in BOOLEAN /\ sawEof \in BOOLEAN
    BY DEF EngineInit
  <2> QED
    BY <2>1, <2>2, <2>3, <2>4 DEF ThreadsTyped
<1>3. WireTyped
  <2>1. DOMAIN book = Side /\ (\A side \in Side : DOMAIN book[side] = {}) /\ DOMAIN orderMap = {}
    BY DEF EngineInit, Init
  <2>2. lastTrades \in Seq(WireTrade) /\ incoming = NoOrder
    BY <1>1 DEF Idle
  <2> QED
    BY <2>1, <2>2 DEF WireTyped, BookShaped
<1>4. SignKept /\ TradesAddUp
  BY <1>1 DEF SignKept, TradesAddUp, IInv
<1>5. TypeOK /\ printed \in Seq(Trade)
  BY <1>1 DEF IInv, EngineInit
<1> QED
  BY <1>1, <1>2, <1>3, <1>4, <1>5 DEF EngineInv, IInv

(* The thread prints what the call has traded.                             *)
LEMMA PrintKeeps ==
  ASSUME EngineInv, ThreadsTyped', print, UNCHANGED script
  PROVE  EngineInv'
<1>1. UNCHANGED <<bookVars, applied>> /\ printed' = printed \o lastTrades
  BY DEF print
<1>2. WireTyped' /\ HusksAtFront' /\ (TypeOK => TypeOK')
  BY <1>1 DEF EngineInv, bookVars, WireTyped, HusksAtFront, TypeOK, BookTyped, IndexTyped, Idle, Contra
<1>3. SignKept' /\ TradesAddUp'
  BY <1>1 DEF EngineInv, bookVars, SignKept, BelowZero, Uncrossed, TradesAddUp, lastFrame, Idle
<1>4. AllSound' => AllSound
  BY DEF AllSound
<1>5. TypeOK /\ printed \in Seq(Trade) => printed' \in Seq(Trade)
  BY <1>1, ConcatProperties DEF TypeOK
<1> QED
  BY <1>2, <1>3, <1>4, <1>5 DEF EngineInv

(* Every step of every thread preserves the invariant.                     *)
LEMMA EngineInductive == EngineInv /\ [EngineNext]_vars => EngineInv'
<1> SUFFICES ASSUME EngineInv, [EngineNext]_vars PROVE EngineInv'
  OBVIOUS
<1>0. ThreadsTyped
  BY DEF EngineInv
<1>1. CASE netThread
  <2>1. UNCHANGED <<bookVars, script, applied, printed>>
    BY <1>1 DEF netThread, threadVars
  <2> QED
    BY <1>0, <1>1, <2>1, NetTyped, BookStays
<1>2. CASE \/ readFailed /\ UNCHANGED <<bookVars, threadVars, mainPc, script>>
           \/ mainThread \/ interrupt \/ finished \/ UNCHANGED vars
  <2>1. UNCHANGED <<bookVars, script, applied, printed>>
    BY <1>2 DEF mainThread, interrupt, finished, vars, threadVars
  <2> QED
    BY <1>0, <1>2, <2>1, OthersTyped, BookStays
<1>3. CASE bookThread
  <2>1. ThreadsTyped' /\ UNCHANGED script
    BY <1>0, <1>3, BookThreadTyped DEF bookThread
  <2>2. CASE poll \/ popNothing \/ pop
    <3>1. UNCHANGED <<bookVars, script, applied, printed>>
      BY <2>1, <2>2 DEF poll, popNothing, pop
    <3> QED
      BY <2>1, <3>1, BookStays
  <2>3. CASE callBook(parsed(script[current]))
    <3>1. UNCHANGED <<script, printed>>
      BY <2>1, <2>3 DEF callBook
    <3> QED
      BY <2>1, <2>3, <3>1, CallKeeps DEF EngineInv
  <2>4. CASE matching
    <3>1. Match /\ UNCHANGED <<script, applied, printed>>
      BY <2>1, <2>4 DEF matching, threadVars
    <3> QED
      BY <2>1, <3>1, MatchKeeps DEF EngineInv
  <2>5. CASE print
    BY <2>1, <2>5, PrintKeeps
  <2> QED
    BY <1>3, <2>2, <2>3, <2>4, <2>5 DEF bookThread, threadStep
<1> QED
  BY <1>1, <1>2, <1>3 DEF EngineNext

LEMMA EngineInvariance == EngineSpec => []EngineInv
BY EngineInitially, EngineInductive, PTL DEF EngineSpec

(* Whatever a sender sends, the threads' variables keep their types and    *)
(* the ring its bound; the book and what was printed keep theirs as long   *)
(* as every frame asks for what a caller of the book may (types.h's Order  *)
(* laid over raw bytes in tcp_reader.cpp's parseBodyToEvent).              *)
THEOREM EngineTypeCorrect == EngineSpec => []EngineTypeOK
<1>1. EngineInv => EngineTypeOK
  <2> SUFFICES ASSUME EngineInv PROVE EngineTypeOK
    OBVIOUS
  <2>1. Sent \subseteq 1..Len(script) /\ Len(script) \in Nat
    BY ScriptTyped DEF EngineInv, ThreadsTyped, Sent
  <2>2. Seq(Sent) \subseteq Seq(1..Len(script))
    BY <2>1, SeqMonotonic
  <2>3. current \in 0..Len(script)
    BY <2>1 DEF EngineInv, ThreadsTyped
  <2> QED
    BY <2>2, <2>3 DEF EngineInv, ThreadsTyped, EngineTypeOK, AllSound
<1> QED
  BY <1>1, EngineInvariance, PTL

(* Only a LIMIT order of a negative quantity, which parseBodyToEvent lets  *)
(* through and match does not run for, leaves the book crossed: no other   *)
(* frame of any session does, whatever its quantity, side and type bytes.  *)
THEOREM CrossedOnlyBelowZero == EngineSpec => []CrossedOnlyByNegative
<1>1. EngineInv => CrossedOnlyByNegative
  BY DEF EngineInv, SignKept, BelowZero, CrossedOnlyByNegative
<1> QED
  BY <1>1, EngineInvariance, PTL

(* While an order is being matched, its trades and what is left of it add  *)
(* up to the quantity of its frame, for any quantities, those below 0      *)
(* included (match, orderbook.cpp).                                        *)
THEOREM QuantitiesConserved == EngineSpec => []Conserved
<1>1. EngineInv => Conserved
  BY DEF EngineInv, TradesAddUp, Conserved, Traded
<1> QED
  BY <1>1, EngineInvariance, PTL

-----------------------------------------------------------------------------
(* The calls of the book thread end, for whatever a sender sends: also     *)
(* where an order below 0 on the book makes the order in hand grow.        *)

(* An iteration of the book thread's loop returns from addOrder or leaves  *)
(* less to do.                                                             *)
ThreadShrinks == [][matching => LessToDo]_vars

EngineBook == EngineInv /\ PricesFinite

(* What the loop needs of the book holds of the engine's.                  *)
LEMMA WireQueues ==
  ASSUME EngineBook
  PROVE  Queues(WireOrder) /\ (~Idle => HandTyped)
<1>1. WireTyped /\ PricesFinite
  BY DEF EngineBook, EngineInv
<1>2. Queues(WireOrder)
  BY <1>1 DEF WireTyped, BookShaped, WireLevel, WireDeque, Queues, Queue
<1>3. ~Idle => HandTyped
  BY <1>1, WireIncoming, TypesAssumption DEF HandTyped
<1> QED
  BY <1>2, <1>3

LEMMA WireShrinks ==
  ASSUME EngineBook, matching
  PROVE  LessToDo
<1>1. WireTyped /\ HusksAtFront /\ Match
  BY DEF EngineBook, EngineInv, matching
<1>2. ~Idle /\ incoming \in WireOrder
  BY <1>1, WireIncoming DEF Match, fillResting, fillIncoming, restRemainder
<1>3. incoming' = NoOrder \/ \E q : incoming' = [incoming EXCEPT !.quantity = q]
  BY <1>1 DEF Match, fillResting, fillIncoming, restRemainder
<1>4. /\ incoming' = NoOrder \/ incoming'.side = incoming.side
      /\ \A q : incoming' = [incoming EXCEPT !.quantity = q] => incoming'.quantity = q
  BY <1>2, <1>3 DEF WireOrder
<1> QED
  BY <1>1, <1>4, WireQueues, MatchShrinks

(* The sides of the engine's book have finitely many prices.               *)
LEMMA WireFinite ==
  ASSUME EngineBook, Match
  PROVE  PricesFinite'
<1>1. WireTyped /\ HusksAtFront /\ PricesFinite
  BY DEF EngineBook, EngineInv
<1>2. ASSUME NEW price, fillResting(price) \/ fillIncoming(price)
      PROVE  PricesFinite'
  <2>1. \A side \in Side : DOMAIN book'[side] = DOMAIN book[side]
    BY <1>1, <1>2, WireFillKeeps
  <2> QED
    BY <1>1, <2>1 DEF PricesFinite
<1>3. ASSUME restRemainder
      PROVE  PricesFinite'
  <2>1. HandTyped
    BY <1>3, WireQueues DEF restRemainder
  <2>2. DOMAIN book'[Contra] \subseteq DOMAIN book[Contra]
    BY <1>1, <1>3, WireRest DEF Without
  <2>3. \/ DOMAIN book'[incoming.side] = DOMAIN book[incoming.side]
        \/ DOMAIN book'[incoming.side] = DOMAIN book[incoming.side] \cup {incoming.price}
    BY <1>1, <1>3, WireRest
  <2> QED
    BY <1>1, <2>1, <2>2, <2>3, PricesLeft
<1> QED
  BY <1>2, <1>3 DEF Match

LEMMA CallFinite ==
  ASSUME EngineBook, callBook(parsed(script[current]))
  PROVE  PricesFinite'
<1> DEFINE frame == script[current]
<1>1. WireTyped /\ HusksAtFront /\ PricesFinite /\ ThreadsTyped
  BY DEF EngineBook, EngineInv
<1>2. frame \in Frame /\ parses(frame)
  BY <1>1, ScriptTyped DEF callBook, ThreadsTyped
<1>3. dispatch(parsed(frame))
  BY DEF callBook
<1> HIDE DEF frame
<1>4. Asks(frame)
  BY <1>2, <1>3, Asked
<1>5. ASSUME NEW o, addOrder(o)
      PROVE  PricesFinite'
  BY <1>1, <1>5 DEF addOrder, PricesFinite
<1>6. ASSUME NEW id, cancelOrder(id)
      PROVE  PricesFinite'
  <2>1. \A side \in Side : DOMAIN book'[side] \subseteq DOMAIN book[side]
    BY <1>1, <1>6, WireCancelKeeps
  <2> QED
    BY <1>1, <2>1, FS_Subset DEF PricesFinite
<1>7. ASSUME NEW id, NEW q \in Int, modifyOrder(id, q)
      PROVE  PricesFinite'
  <2>1. \A side \in Side : DOMAIN book'[side] = DOMAIN book[side]
    BY <1>1, <1>7, WireModifyKeeps
  <2> QED
    BY <1>1, <2>1 DEF PricesFinite
<1> QED
  BY <1>4, <1>5, <1>6, <1>7 DEF Asks

LEMMA EngineBookInvariance == EngineSpec => []EngineBook
<1>1. EngineInit => EngineBook
  <2>1. EngineInit => PricesFinite
    BY FS_EmptySet DEF EngineInit, Init, PricesFinite
  <2> QED
    BY <2>1, EngineInitially DEF EngineBook
<1>2. EngineBook /\ [EngineNext]_vars => EngineBook'
  <2> SUFFICES ASSUME EngineBook, [EngineNext]_vars PROVE EngineBook'
    OBVIOUS
  <2>1. EngineInv' /\ PricesFinite
    BY EngineInductive DEF EngineBook
  <2>2. \/ UNCHANGED bookVars
        \/ callBook(parsed(script[current]))
        \/ Match
    BY DEF EngineNext, netThread, bookThread, threadStep, poll, popNothing, pop, matching, print,
           mainThread, interrupt, finished, vars
  <2>3. CASE UNCHANGED bookVars
    BY <2>1, <2>3 DEF bookVars, PricesFinite, EngineBook
  <2> QED
    BY <2>1, <2>2, <2>3, CallFinite, WireFinite DEF EngineBook
<1> QED
  BY <1>1, <1>2, PTL DEF EngineSpec

(* The book thread is never stuck in a call: until addOrder is done with   *)
(* an order it has an iteration to make.                                   *)
THEOREM ThreadGoesOn == EngineSpec => []NeverStuck
<1>1. EngineBook => NeverStuck
  BY WireQueues, GoesOn
<1> QED
  BY <1>1, EngineBookInvariance, PTL

(* Nor is it in a call for ever, for any frames, those of a negative       *)
(* quantity included, so it comes back to poll the flag.                   *)
THEOREM ThreadCallsEnd == EngineSpec => ThreadShrinks
<1>1. EngineBook /\ [EngineNext]_vars => [matching => LessToDo]_vars
  BY WireShrinks
<1> QED
  BY <1>1, EngineBookInvariance, PTL DEF EngineSpec, ThreadShrinks
=============================================================================
