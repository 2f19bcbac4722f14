--------------------------- MODULE BtcWireProofs ---------------------------
(***************************************************************************)
(* Proofs about BtcWire for every set of messages, every capacity of the   *)
(* ring, every length of a session and whatever the memory holds that the  *)
(* handlers do not set: of what the handlers push, the book is given       *)
(* exactly what the ring has room for, in order.                           *)
(***************************************************************************)
EXTENDS BtcWire, SequenceTheorems, FiniteSetTheorems, TLAPS

-----------------------------------------------------------------------------
(* What a handler may push.                                                *)
Events ==
  {event(msg, msg.entries[i], id, type) :
     msg \in Messages, i \in Int, id \in OrderID, type \in TypeByte}

(* The values of the variables an event passes through.                    *)
PathTyped ==
  /\ ring \in Seq(Events) /\ produced \in Seq(Events) /\ applied \in Seq(Events)
  /\ bookPc = "dispatch" => current \in Events

(* The invariant: FirstEventsOnly and, for the push to extend it, that     *)
(* what was produced is still in the ring while messages arrive.           *)
Phase == mainPc = "ioRun" => bookPc = "unborn" /\ applied = <<>>
PathInv == PathTyped /\ Phase /\ FirstEventsOnly

-----------------------------------------------------------------------------
(* The ring and its room.                                                  *)

(* Room has the first of the events, as many as there are or as fit.       *)
LEMMA RoomProperties ==
  ASSUME NEW S, NEW s \in Seq(S)
  PROVE  /\ room(s) \in Seq(S)
         /\ Len(room(s)) = IF Len(s) > Capacity THEN Capacity ELSE Len(s)
         /\ \A i \in 1..Len(room(s)) : room(s)[i] = s[i]
<1>1. Len(s) \in Nat /\ Capacity \in Nat \ {0}
  BY LenProperties, CapacityAssumption
<1>2. CASE Len(s) > Capacity
  <2>1. \A i \in 1..Capacity : s[i] \in S
    BY <1>1, <1>2, ElementOfSeq
  <2>2. /\ SubSeq(s, 1, Capacity) \in Seq(S)
        /\ Len(SubSeq(s, 1, Capacity)) = Capacity
        /\ \A i \in 1..Capacity : SubSeq(s, 1, Capacity)[i] = s[i]
    <3> DEFINE front == SubSeq(s, 1, Capacity)
    <3>1. /\ front \in Seq(S)
          /\ Len(front) = IF 1 <= Capacity THEN Capacity - 1 + 1 ELSE 0
          /\ \A i \in 1..Capacity - 1 + 1 : front[i] = s[1 + i - 1]
      BY <1>1, <2>1, SubSeqProperties
    <3> HIDE DEF front
    <3>2. \A i \in 1..Capacity : i \in 1..Capacity - 1 + 1 /\ 1 + i - 1 = i
      BY <1>1
    <3>3. \A i \in 1..Capacity : front[i] = s[i]
      BY <3>1, <3>2
    <3>4. Len(front) = Capacity
      BY <1>1, <3>1
    <3> QED
      BY <3>1, <3>3, <3>4 DEF front
  <2>3. room(s) = SubSeq(s, 1, Capacity)
    BY <1>2 DEF room
  <2> QED
    BY <1>2, <2>2, <2>3
<1>3. CASE ~(Len(s) > Capacity)
  BY <1>3 DEF room
<1> QED
  BY <1>2, <1>3

(* Pushing to a ring that has made room is making room for all: events     *)
(* that found it full are not in its way.                                  *)
LEMMA RoomOnce ==
  ASSUME NEW S, NEW s \in Seq(S), NEW e \in Seq(S)
  PROVE  room(room(s) \o e) = room(s \o e)
<1> DEFINE r == room(s)
           short == r \o e
           long == s \o e
<1>1. /\ r \in Seq(S) /\ Len(r) = IF Len(s) > Capacity THEN Capacity ELSE Len(s)
      /\ \A i \in 1..Len(r) : r[i] = s[i]
  BY RoomProperties
<1>2. Len(s) \in Nat /\ Len(e) \in Nat /\ Len(r) \in Nat /\ Capacity \in Nat \ {0}
  BY <1>1, LenProperties, CapacityAssumption
<1>3. CASE Len(s) > Capacity
  <2>1. /\ short \in Seq(S) /\ Len(short) = Len(r) + Len(e)
        /\ \A i \in 1..Len(r) + Len(e) :
             short[i] = IF i <= Len(r) THEN r[i] ELSE e[i - Len(r)]
    <3> HIDE DEF r
    <3> QED BY <1>1, ConcatProperties
  <2>2. /\ long \in Seq(S) /\ Len(long) = Len(s) + Len(e)
        /\ \A i \in 1..Len(s) + Len(e) :
             long[i] = IF i <= Len(s) THEN s[i] ELSE e[i - Len(s)]
    BY ConcatProperties
  <2>3. /\ room(short) \in Seq(S)
        /\ Len(room(short)) = IF Len(short) > Capacity THEN Capacity ELSE Len(short)
        /\ \A i \in 1..Len(room(short)) : room(short)[i] = short[i]
    <3> HIDE DEF short
    <3> QED BY <2>1, RoomProperties
  <2>4. /\ room(long) \in Seq(S)
        /\ Len(room(long)) = IF Len(long) > Capacity THEN Capacity ELSE Len(long)
        /\ \A i \in 1..Len(room(long)) : room(long)[i] = long[i]
    <3> HIDE DEF long
    <3> QED BY <2>2, RoomProperties
  <2> HIDE DEF r, short, long
  <2>5. Len(r) = Capacity
    BY <1>1, <1>3
  <2>6. Len(room(short)) = Capacity
    BY <1>2, <2>1, <2>3, <2>5
  <2>7. Len(room(long)) = Capacity
    BY <1>2, <1>3, <2>2, <2>4
  <2>8. ASSUME NEW i \in 1..Capacity PROVE room(short)[i] = room(long)[i]
    <3>1. room(short)[i] = short[i] /\ short[i] = r[i]
      BY <1>2, <2>1, <2>3, <2>5, <2>6
    <3>2. r[i] = s[i]
      BY <1>1, <2>5
    <3>3. room(long)[i] = long[i] /\ long[i] = s[i]
      BY <1>2, <1>3, <2>2, <2>4, <2>7
    <3> QED BY <3>1, <3>2, <3>3
  <2>9. room(short) = room(long)
    BY <2>3, <2>4, <2>6, <2>7, <2>8, SeqEqual
  <2> QED
    BY <2>9 DEF short, long, r
<1>4. CASE ~(Len(s) > Capacity)
  <2>1. r = s
    BY <1>4 DEF room
  <2> QED
    BY <2>1
<1> QED
  BY <1>3, <1>4

-----------------------------------------------------------------------------
(* What a message is turned into.                                          *)

(* As many entries are converted as a number says.                         *)
LEMMA ConvertedTyped ==
  ASSUME NEW msg \in Messages
  PROVE  converted(msg) \in Nat
<1> DEFINE kept == {i \in DOMAIN msg.entries : \A j \in 1..i : ~throws(msg, msg.entries[j])}
<1>1. IsFiniteSet(DOMAIN msg.entries) /\ kept \in SUBSET DOMAIN msg.entries
  BY BtcAssumption
<1>2. IsFiniteSet(kept)
  <2> HIDE DEF kept
  <2> QED BY <1>1, FS_Subset
<1>3. Cardinality(kept) \in Nat
  <2> HIDE DEF kept
  <2> QED BY <1>2, FS_CardinalityType
<1> QED
  BY <1>3 DEF converted

(* The events of a message are a sequence of events.                       *)
LEMMA EventsTyped ==
  ASSUME NEW msg \in Messages, NEW entries, entries = SubSeq(msg.entries, 1, converted(msg)),
         NEW ids \in [DOMAIN entries -> OrderID], NEW types \in [DOMAIN entries -> TypeByte]
  PROVE  [i \in DOMAIN entries |-> event(msg, entries[i], ids[i], types[i])] \in Seq(Events)
<1> DEFINE n == converted(msg)
           S == {msg.entries[i] : i \in Int}
           front == SubSeq(msg.entries, 1, n)
<1>1. n \in Nat
  BY ConvertedTyped
<1> HIDE DEF n
<1>2. \A i \in 1..n : msg.entries[i] \in S
  BY <1>1
<1>3. front \in Seq(S) /\ (\A i \in 1..n - 1 + 1 : front[i] = msg.entries[1 + i - 1])
      /\ Len(front) = IF 1 <= n THEN n - 1 + 1 ELSE 0
  <2> HIDE DEF S
  <2> QED BY <1>1, <1>2, SubSeqProperties
<1>4. front = entries
  BY DEF n
<1> HIDE DEF front, S
<1>5. Len(front) = n /\ DOMAIN front = 1..Len(front)
  BY <1>1, <1>3, LenProperties
<1>6. DOMAIN entries = 1..n
  BY <1>4, <1>5
<1>7. ASSUME NEW i \in 1..n
      PROVE  event(msg, entries[i], ids[i], types[i]) \in Events
  <2>1. i \in 1..n - 1 + 1 /\ 1 + i - 1 = i /\ i \in Int
    BY <1>1
  <2>2. entries[i] = msg.entries[i]
    BY <1>3, <1>4, <2>1
  <2>3. ids[i] \in OrderID /\ types[i] \in TypeByte
    BY <1>6
  <2>4. event(msg, msg.entries[i], ids[i], types[i]) \in Events
    BY <2>1, <2>3 DEF Events
  <2> QED
    BY <2>2, <2>4
<1>8. [i \in 1..n |-> event(msg, entries[i], ids[i], types[i])] \in [1..n -> Events]
  BY <1>7
<1>9. [i \in 1..n |-> event(msg, entries[i], ids[i], types[i])] \in Seq(Events)
  <2> DEFINE events == [i \in 1..n |-> event(msg, entries[i], ids[i], types[i])]
  <2>1. events \in [1..n -> Events]
    BY <1>8
  <2> HIDE DEF events
  <2>2. events \in Seq(Events)
    BY <1>1, <2>1
  <2> QED
    BY <2>2 DEF events
<1> QED
  BY <1>6, <1>9

-----------------------------------------------------------------------------
(* The threads' steps.                                                     *)

(* A step that moves no event, and gives the book thread nothing in hand.  *)
LEMMA PathStays ==
  ASSUME PathInv, UNCHANGED <<ring, produced, applied, current>>, inHand' = inHand,
         bookPc' = "dispatch" => bookPc = "dispatch",
         mainPc' = "ioRun" => mainPc = "ioRun" /\ bookPc' = bookPc
  PROVE  PathInv'
<1>1. PathTyped'
  BY DEF PathInv, PathTyped
<1>2. Phase'
  BY DEF PathInv, Phase
<1>3. path' = path
  BY DEF path
<1> QED
  BY <1>1, <1>2, <1>3 DEF PathInv, FirstEventsOnly

(* While messages arrive, the path is the ring.                            *)
LEMMA PathIsRing ==
  ASSUME PathTyped, bookPc = "unborn", applied = <<>>
  PROVE  path = ring
<1>1. inHand = <<>> /\ ring \in Seq(Events)
  BY DEF inHand, PathTyped
<1>2. <<>> \o ring = ring
  BY <1>1, ConcatEmptySeq
<1> QED
  BY <1>1, <1>2 DEF path

(* A message adds to the ring what it still has room for.                  *)
LEMMA MessagePushed ==
  ASSUME PathInv, NEW events \in Seq(Events), mainPc = "ioRun",
         ring' = pushed(events), produced' = produced \o events,
         UNCHANGED <<bookPc, applied, current>>
  PROVE  PathInv'
<1>1. bookPc = "unborn" /\ applied = <<>> /\ ring \in Seq(Events) /\ produced \in Seq(Events)
  BY DEF PathInv, PathTyped, Phase
<1>2. ring = room(produced)
  BY <1>1, PathIsRing DEF PathInv, FirstEventsOnly
<1>3. produced \o events \in Seq(Events) /\ ring \o events \in Seq(Events)
  BY <1>1, ConcatProperties
<1>4. ring' = room(ring \o events)
  BY DEF pushed
<1>5. ring' \in Seq(Events)
  BY <1>3, <1>4, RoomProperties
<1>6. ring' = room(produced')
  BY <1>1, <1>2, <1>4, RoomOnce
<1>7. PathTyped'
  BY <1>1, <1>3, <1>5 DEF PathInv, PathTyped
<1>8. path' = ring'
  <2>1. inHand' = <<>>
    BY <1>1 DEF inHand
  <2>2. <<>> \o ring' = ring'
    BY <1>5, ConcatEmptySeq
  <2> QED
    BY <1>1, <2>1, <2>2 DEF path
<1> QED
  BY <1>1, <1>6, <1>7, <1>8 DEF PathInv, Phase, FirstEventsOnly, room

(* pop takes the head of the ring in hand.                                 *)
LEMMA EventPopped ==
  ASSUME PathInv, pop, UNCHANGED <<produced, mainPc>>
  PROVE  PathInv'
<1>1. ring \in Seq(Events) /\ ring # <<>> /\ applied \in Seq(Events)
  BY DEF PathInv, PathTyped, pop
<1>2. ring' \in Seq(Events) /\ current' \in Events /\ ring = <<current'>> \o ring'
  <2>1. Head(ring) \in Events /\ Tail(ring) \in Seq(Events) /\ ring = <<Head(ring)>> \o Tail(ring)
    BY <1>1, HeadTailProperties
  <2> QED
    BY <2>1 DEF pop
<1>3. inHand = <<>> /\ inHand' = <<current'>> /\ bookPc = "pop"
  BY DEF pop, inHand
<1>4. path' = path
  <2>1. inHand \o ring = ring
    BY <1>1, <1>3, ConcatEmptySeq
  <2> QED
    BY <1>2, <1>3, <2>1 DEF path, pop
<1>5. PathTyped'
  BY <1>2 DEF PathInv, PathTyped, pop
<1> QED
  BY <1>3, <1>4, <1>5 DEF PathInv, Phase, FirstEventsOnly

(* The call of the book moves the event from the thread's hand to the book. *)
LEMMA EventApplied ==
  ASSUME PathInv, NEW call, callBook(call), UNCHANGED <<produced, mainPc>>
  PROVE  PathInv'
<1>1. bookPc = "dispatch" /\ bookPc' = "print" /\ ring' = ring /\ current' = current
      /\ applied' = Append(applied, current)
  BY DEF callBook
<1>2. ring \in Seq(Events) /\ applied \in Seq(Events) /\ current \in Events
      /\ <<current>> \in Seq(Events)
  BY <1>1 DEF PathInv, PathTyped
<1>3. inHand = <<current>> /\ inHand' = <<>>
  BY <1>1 DEF inHand
<1>4. applied' = applied \o <<current>> /\ applied' \in Seq(Events)
  BY <1>1, <1>2, AppendIsConcat, AppendProperties
<1>5. inHand' \o ring' = ring
  BY <1>1, <1>2, <1>3, ConcatEmptySeq
<1>6. (applied \o <<current>>) \o ring = applied \o (<<current>> \o ring)
  BY <1>2, ConcatAssociative
<1>7. path' = path
  BY <1>3, <1>4, <1>5, <1>6 DEF path
<1>8. PathTyped'
  BY <1>1, <1>2, <1>4 DEF PathInv, PathTyped
<1> QED
  BY <1>1, <1>7, <1>8 DEF PathInv, Phase, FirstEventsOnly

-----------------------------------------------------------------------------
(* The invariant holds at the start: nothing was sent.                     *)
THEOREM PathInitially == BtcInit => PathInv
<1> SUFFICES ASSUME BtcInit PROVE PathInv
  OBVIOUS
<1>1. ring = <<>> /\ produced = <<>> /\ applied = <<>> /\ bookPc = "unborn"
  BY DEF BtcInit
<1>2. PathTyped /\ Phase
  BY <1>1 DEF PathTyped, Phase
<1>3. path = <<>>
  BY <1>1, <1>2, PathIsRing
<1>4. room(<<>>) = <<>>
  BY CapacityAssumption, EmptySeq DEF room
<1> QED
  BY <1>1, <1>2, <1>3, <1>4 DEF PathInv, FirstEventsOnly

(* No handler and no step of runBtcWire or of the book thread breaks it.   *)
THEOREM PathInductive == PathInv /\ [BtcNext]_vars => PathInv'
<1> SUFFICES ASSUME PathInv, [BtcNext]_vars PROVE PathInv'
  OBVIOUS
<1> USE DEF threadVars, sessionVars
<1>1. CASE ioThread
  <2>1. UNCHANGED <<bookPc, applied, current>> /\ inHand' = inHand
    BY <1>1 DEF ioThread, inHand
  <2>2. ASSUME NEW msg \in Messages, onRead(msg)
        PROVE  PathInv'
    <3> DEFINE entries == SubSeq(msg.entries, 1, converted(msg))
    <3>1. mainPc = "ioRun"
      BY <2>2 DEF onRead
    <3>2. PICK ids \in [DOMAIN entries -> OrderID], types \in [DOMAIN entries -> TypeByte] :
            /\ ring' = pushed([i \in DOMAIN entries |-> event(msg, entries[i], ids[i], types[i])])
            /\ produced' = produced \o
                 [i \in DOMAIN entries |-> event(msg, entries[i], ids[i], types[i])]
      BY <2>2 DEF onRead
    <3> DEFINE events == [i \in DOMAIN entries |-> event(msg, entries[i], ids[i], types[i])]
    <3>3. events \in Seq(Events)
      BY EventsTyped
    <3>4. ring' = pushed(events) /\ produced' = produced \o events
      BY <3>2
    <3> HIDE DEF events
    <3> QED
      BY <2>1, <3>1, <3>3, <3>4, MessagePushed
  <2>3. CASE onResolve \/ onConnect \/ onSslHandshake \/ onHandshake \/ onSubscribeSend
    <3>1. UNCHANGED <<ring, produced>> /\ (mainPc' = "ioRun" => mainPc = "ioRun")
      BY <2>3 DEF onResolve, onConnect, onSslHandshake, onHandshake, onSubscribeSend, handler
    <3> QED
      BY <2>1, <3>1, PathStays
  <2> QED
    BY <1>1, <2>2, <2>3 DEF ioThread
<1>2. CASE opFailed /\ UNCHANGED <<bookVars, threadVars, quit>>
  BY <1>2, PathStays DEF opFailed, handler, inHand
<1>3. CASE mainThread
  <2>1. UNCHANGED <<ring, produced, applied, current>> /\ mainPc' # "ioRun"
    BY <1>3 DEF mainThread, startBookThread, stop, return
  <2>2. CASE startBookThread
    <3>1. bookPc' = "poll" /\ bookPc # "dispatch"
      BY <2>2 DEF startBookThread, PathInv, Phase
    <3> QED
      BY <2>1, <3>1, PathStays DEF inHand
  <2>3. CASE stop \/ return
    <3>1. bookPc' = bookPc
      BY <2>3 DEF stop, return
    <3> QED
      BY <2>1, <3>1, PathStays DEF inHand
  <2> QED
    BY <1>3, <2>2, <2>3 DEF mainThread
<1>4. CASE bookThread
  <2>0. UNCHANGED <<produced, mainPc>> /\ threadStep(current)
    BY <1>4 DEF bookThread
  <2>1. mainPc = "ioRun" => bookPc = "unborn"
    BY DEF PathInv, Phase
  <2>2. CASE poll
    BY <2>0, <2>1, <2>2, PathStays DEF poll, inHand
  <2>3. CASE popNothing
    BY <2>0, <2>1, <2>3, PathStays DEF popNothing, inHand
  <2>4. CASE pop
    BY <2>0, <2>4, EventPopped
  <2>5. CASE callBook(current)
    BY <2>0, <2>5, EventApplied
  <2>6. CASE matching
    BY <2>0, <2>6, PathStays DEF matching, inHand
  <2>7. CASE print
    BY <2>0, <2>1, <2>7, PathStays DEF print, inHand
  <2> QED
    BY <2>0, <2>2, <2>3, <2>4, <2>5, <2>6, <2>7 DEF threadStep
<1>5. CASE ended \/ UNCHANGED vars
  <2>1. UNCHANGED <<ring, produced, applied, current, bookPc, mainPc>>
    BY <1>5 DEF ended, vars
  <2> QED
    BY <2>1, PathStays DEF inHand
<1> QED
  BY <1>1, <1>2, <1>3, <1>4, <1>5 DEF BtcNext

(* Whatever the exchange sends, in however many messages, and wherever an  *)
(* exception cuts one: the book is given the first Capacity of the events  *)
(* the handlers make, in order, and no other (websocket_reader.cpp:176,    *)
(* :211 pushing to a ring that main.cpp:82 lets nobody empty).             *)
THEOREM FirstEventsReachTheBook == BtcSpec => []FirstEventsOnly
<1>1. PathInv => FirstEventsOnly
  BY DEF PathInv
<1> QED
  BY <1>1, PathInitially, PathInductive, PTL DEF BtcSpec

-----------------------------------------------------------------------------
(* The two phases of the session: an operation of the reader is pending    *)
(* only while the io_context runs, and until it has returned there is no   *)
(* thread to touch the book.                                               *)
Untouched == bookPc = "unborn" /\ applied = <<>> /\ Idle /\ orderMap = <<>>

PhaseInv ==
  /\ op # "none" => mainPc = "ioRun"
  /\ mainPc = "ioRun" => Untouched

(* Nothing has happened at the start.                                      *)
THEOREM PhaseInitially == BtcInit => PhaseInv
BY DEF BtcInit, Init, PhaseInv, Untouched, Idle

(* A step of the book thread needs the thread, and an order being matched  *)
(* needs an order: neither is there while the io_context runs.             *)
THEOREM PhaseInductive == PhaseInv /\ [BtcNext]_vars => PhaseInv'
<1> SUFFICES ASSUME PhaseInv, [BtcNext]_vars PROVE PhaseInv'
  OBVIOUS
<1> USE DEF PhaseInv
<1>1. ASSUME Untouched, UNCHANGED <<bookVars, bookPc, applied>>
      PROVE  Untouched'
  BY <1>1 DEF Untouched, bookVars, Idle
<1>2. CASE ioThread
  <2>1. UNCHANGED <<bookVars, bookPc, applied>>
    BY <1>2 DEF ioThread, threadVars
  <2>2. mainPc = "ioRun" /\ (op' # "none" => mainPc' = "ioRun")
    BY <1>2 DEF ioThread, onResolve, onConnect, onSslHandshake, onHandshake,
                onSubscribeSend, onRead, handler
  <2> QED
    BY <1>1, <2>1, <2>2
<1>3. CASE opFailed /\ UNCHANGED <<bookVars, threadVars, quit>>
  <2>1. UNCHANGED <<bookVars, bookPc, applied>>
    BY <1>3 DEF threadVars
  <2>2. mainPc = "ioRun" /\ op' = "none"
    BY <1>3 DEF opFailed, handler
  <2> QED
    BY <1>1, <2>1, <2>2
<1>4. CASE mainThread
  <2>1. mainPc' # "ioRun" /\ op' = op
    BY <1>4 DEF mainThread, startBookThread, stop, return
  <2>2. op = "none"
    BY <1>4 DEF mainThread, startBookThread, stop, return
  <2> QED
    BY <2>1, <2>2
<1>5. CASE bookThread
  <2>1. UNCHANGED <<op, mainPc>> /\ threadStep(current)
    BY <1>5 DEF bookThread, sessionVars
  <2>2. SUFFICES ASSUME mainPc = "ioRun" PROVE FALSE
    BY <2>1
  <2>3. bookPc = "unborn" /\ Idle
    BY <2>2 DEF Untouched
  <2>4. ~matching
    BY <2>3 DEF matching, Match, fillResting, fillIncoming, restRemainder
  <2> QED
    BY <2>1, <2>3, <2>4 DEF threadStep, poll, popNothing, pop, callBook, print
<1>6. CASE ended \/ UNCHANGED vars
  <2>1. UNCHANGED <<bookVars, bookPc, applied, op, mainPc>>
    BY <1>6 DEF ended, vars, threadVars, sessionVars
  <2> QED
    BY <1>1, <2>1
<1> QED
  BY <1>2, <1>3, <1>4, <1>5, <1>6 DEF BtcNext

(* However long the feed stays up, and whatever it sends, the book is      *)
(* empty until it is lost: the io_context runs on the thread that would    *)
(* start the book thread (main.cpp:82-87).                                 *)
THEOREM BookIdleWhileConnected == BtcSpec => []BookWaitsForFeed
<1>1. PhaseInv => BookWaitsForFeed
  BY DEF PhaseInv, Untouched, BookWaitsForFeed
<1> QED
  BY <1>1, PhaseInitially, PhaseInductive, PTL DEF BtcSpec
=============================================================================
