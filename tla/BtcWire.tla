------------------------------ MODULE BtcWire ------------------------------
(***************************************************************************)
(* The other live engine (engine/main.cpp, runBtcWire, built with          *)
(* ENABLE_WS): WebSocketReader (engine/websocket_reader.cpp) connects to   *)
(* the exchange, subscribes, and turns each message into events for the    *)
(* ring.  runBtcWire runs the io_context on its own thread and starts the  *)
(* book thread only when that has returned, so the session has two         *)
(* phases: messages fill the ring, then the book is applied to.  The only  *)
(* call of runBtcWire is commented out (main.cpp:96): the module is about  *)
(* what the function does once it is called.                               *)
(*                                                                         *)
(* A message is what the JSON library (JsonParser) makes of its text: its  *)
(* type and the entries its handler loops over.  Sizes are whole numbers   *)
(* of the smallest unit a size is written in, Unit of them to one coin.    *)
(***************************************************************************)
EXTENDS BookThread

CONSTANTS
  Messages,     (* what the exchange may send                               *)
  Bad,          (* an entry on which at, get, stoi or stod throws           *)
  Unit,         (* units of size in one coin                                *)
  IntMax,       (* of int: stoi throws above it                             *)
  MaxMessages   (* bound: of one session                                    *)

ASSUME BtcAssumption ==
  /\ Unit \in Nat \ {0}
  /\ IntMax \in Nat /\ MaxMessages \in Nat
  /\ \A msg \in Messages : IsFiniteSet(DOMAIN msg.entries)

VARIABLES
  op,        (* the operation WebSocketReader waits for, "none" when it has none *)
  received,  (* messages read                                               *)
  mainPc,    (* where runBtcWire stands                                     *)
  produced,  (* history: the events the handlers tried to push, in order    *)
  cut        (* history: a handler was left by an exception                 *)

sessionVars == <<op, received, mainPc, produced, cut>>
vars == <<bookVars, threadVars, ring, quit, sessionVars>>

-----------------------------------------------------------------------------
BtcInit ==
  /\ Init
  /\ ring = <<>> /\ quit = FALSE
  /\ bookPc = "unborn" /\ current = <<>> /\ applied = <<>> /\ printed = <<>>
  /\ op = "resolve" /\ received = 0 /\ mainPc = "ioRun"
  /\ produced = <<>> /\ cut = FALSE

-----------------------------------------------------------------------------
(* The handlers, run by io.run() on the main thread.                       *)

handler(from, to) ==
  /\ mainPc = "ioRun" /\ op = from
  /\ op' = to
  /\ UNCHANGED <<ring, received, produced, cut>>

onResolve      == handler("resolve", "connect") /\ UNCHANGED mainPc
onConnect      == handler("connect", "sslHandshake") /\ UNCHANGED mainPc
onSslHandshake == handler("sslHandshake", "handshake") /\ UNCHANGED mainPc

(* on_handshake signs the subscription and sends it.  A key that is not    *)
(* base64, or text that is not UTF-8, throws out of the handler, out of    *)
(* io.run() and out of main.                                               *)
onHandshake ==
  \/ handler("handshake", "write") /\ UNCHANGED mainPc
  \/ handler("handshake", "none") /\ mainPc' = "terminated"

onSubscribeSend == handler("write", "read") /\ UNCHANGED mainPc

(* Every handler returns on an error and starts nothing: no retry.         *)
opFailed == \E from \in {"resolve", "connect", "sslHandshake", "handshake", "write", "read"} :
              handler(from, "none") /\ UNCHANGED mainPc

(* An entry of a message whose conversion throws: a change's size is also  *)
(* converted to an int, to tell a cancel.                                  *)
throws(msg, entry) ==
  entry = Bad \/ (msg.type = "l2update" /\ entry.size \div Unit > IntMax)

(* How many entries are turned into events before the first that throws.   *)
converted(msg) ==
  Cardinality({i \in DOMAIN msg.entries : \A j \in 1..i : ~throws(msg, msg.entries[j])})

cutShort(msg) == msg.type = "unparsable" \/ converted(msg) < Len(msg.entries)

(* What the memory of an order type may hold: also a byte that is neither. *)
TypeByte == OrderType \cup {"other"}

(* The event of an entry.  Nothing sets its id, nor the type of an order   *)
(* of a snapshot: they are what the memory of the local variable holds.    *)
(* A size below one coin is 0 as an int, and cancels.                      *)
event(msg, entry, id, type) ==
  IF msg.type = "snapshot"
  THEN ADD([id |-> id, price |-> entry.price, quantity |-> entry.size,
            side |-> entry.side, type |-> type])
  ELSE IF entry.size \div Unit = 0 THEN CANCEL(id) ELSE AMEND(id, entry.size)

(* What of a sequence the ring has room for.                               *)
room(s) == IF Len(s) > Capacity THEN SubSeq(s, 1, Capacity) ELSE s

(* A fault to seed: the ring makes room by dropping its oldest event.      *)
pushedDroppingOldest(events) ==
  LET all == ring \o events
  IN IF Len(all) > Capacity THEN SubSeq(all, Len(all) - Capacity + 1, Len(all)) ELSE all

(* spsc_queue::push of each event; nobody looks at its result, and an      *)
(* event that finds the ring full is gone.                                 *)
pushed(events) == room(ring \o events)

(* A fault to seed: the next read is started whatever happened.            *)
nextOpAlways(msg) == "read"

(* The next read is started at the end of the try block only.              *)
nextOp(msg) == IF cutShort(msg) THEN "none" ELSE "read"

(* on_read: the events of the entries are pushed one by one; an exception  *)
(* leaves those of the entries before it in the ring.                      *)
onRead(msg) ==
  LET entries == SubSeq(msg.entries, 1, converted(msg))
  IN /\ mainPc = "ioRun" /\ op = "read" /\ received < MaxMessages
     /\ \E ids \in [DOMAIN entries -> OrderID], types \in [DOMAIN entries -> TypeByte] :
          LET events == [i \in DOMAIN entries |-> event(msg, entries[i], ids[i], types[i])]
          IN ring' = pushed(events) /\ produced' = produced \o events
     /\ op' = nextOp(msg)
     /\ received' = received + 1
     /\ cut' = (cut \/ cutShort(msg))
     /\ UNCHANGED mainPc

ioThread ==
  /\ \/ onResolve \/ onConnect \/ onSslHandshake \/ onHandshake \/ onSubscribeSend
     \/ \E msg \in Messages : onRead(msg)
  /\ UNCHANGED <<bookVars, threadVars, quit>>

-----------------------------------------------------------------------------
(* runBtcWire, and the book thread once it has been started.               *)

(* A fault to seed: the thread is started while the io_context runs.       *)
startBookThreadEarly ==
  /\ mainPc = "ioRun"
  /\ mainPc' = "stop" /\ bookPc' = "poll"
  /\ UNCHANGED <<op, received, ring, produced, cut>>

(* io.run() returns when no operation is pending, and bookThr is started.  *)
startBookThread ==
  /\ mainPc = "ioRun" /\ op = "none"
  /\ mainPc' = "stop" /\ bookPc' = "poll"
  /\ UNCHANGED <<op, received, ring, produced, cut>>

(* reader->stop() starts a close whose handler nobody runs.                *)
stop ==
  /\ mainPc = "stop" /\ mainPc' = "return"
  /\ UNCHANGED <<bookPc, op, received, ring, produced, cut>>

(* A fault to seed: the thread is joined before the function returns.      *)
returnJoined ==
  /\ mainPc = "return" /\ bookPc = "returned" /\ mainPc' = "terminated"
  /\ UNCHANGED <<bookPc, op, received, ring, produced, cut>>

(* The function returns and destroys a thread that was never joined, which *)
(* calls std::terminate.                                                   *)
return ==
  /\ mainPc = "return" /\ mainPc' = "terminated"
  /\ UNCHANGED <<bookPc, op, received, ring, produced, cut>>

mainThread ==
  /\ startBookThread \/ stop \/ return
  /\ UNCHANGED <<bookVars, quit, current, applied, printed>>

bookThread ==
  /\ mainPc # "terminated"
  /\ threadStep(current)
  /\ UNCHANGED <<quit, sessionVars>>

ended == mainPc = "terminated" /\ UNCHANGED vars

BtcNext ==
  \/ ioThread
  \/ opFailed /\ UNCHANGED <<bookVars, threadVars, quit>>
  \/ mainThread
  \/ bookThread
  \/ ended

(* Both threads are scheduled; nothing is owed by the exchange.            *)
BtcSpec == BtcInit /\ [][BtcNext]_vars /\ WF_vars(mainThread) /\ WF_vars(bookThread)

-----------------------------------------------------------------------------
(* The book thread has what it popped on its way to the book.              *)
inHand == IF bookPc = "dispatch" THEN <<current>> ELSE <<>>
path == applied \o (inHand \o ring)

(* Of all the events of a session the book is given the first Capacity, in *)
(* the order the exchange sent them, and no other: those pushed to a full  *)
(* ring are gone, and nothing empties the ring while messages arrive       *)
(* (websocket_reader.cpp:176, :211; main.cpp:82).                          *)
FirstEventsOnly == path = room(produced)

(* While the feed is connected the book stays empty, as the io_context     *)
(* runs on the thread that will start the book thread (main.cpp:82-87).    *)
BookWaitsForFeed == op # "none" => applied = <<>> /\ Idle /\ orderMap = <<>>

(* One message the parser throws on ends the process: no further read is   *)
(* started (websocket_reader.cpp:223), io.run() returns, and so does       *)
(* runBtcWire, with a thread it has not joined (main.cpp:87-90).           *)
BadMessageIsFatal == cut ~> mainPc = "terminated"

(* So does every other way to lose the feed, from a resolve that fails to  *)
(* a connection that is reset: nothing is retried.                         *)
FeedLossIsFatal == op = "none" ~> mainPc = "terminated"
=============================================================================
