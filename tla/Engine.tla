------------------------------- MODULE Engine -------------------------------
(***************************************************************************)
(* The live engine (engine/main.cpp, runTcpWire): the network thread runs  *)
(* the handlers of TcpReader (engine/tcp_reader.cpp) and pushes events     *)
(* into a bounded ring, the book thread pops them and applies them to its  *)
(* book, and the main thread installs the signal handler and joins both.   *)
(* An action of the network thread is one completion handler; an action of *)
(* the book thread is one step between two accesses to shared state.       *)
(***************************************************************************)
EXTENDS BookThread, Wire, Functions

CONSTANT
  Sessions   (* what a sender may send on a connection: sequences of frames *)

ASSUME SessionsAssumption == Sessions \subseteq Seq(Frame)

MaxFrames == CHOOSE n \in {Len(s) : s \in Sessions} : \A s \in Sessions : Len(s) <= n

VARIABLES
  script,    (* the frames this sender sends                                *)
  reader,    (* the operation TcpReader is waiting for                      *)
  received,  (* frames of the script read so far                            *)
  ioStopped, (* io.stop() has been called: no further handler runs          *)
  netDone,   (* io.run() has returned                                       *)
  mainPc,    (* where runTcpWire stands, once both threads run              *)
  signal     (* SIGINT or SIGTERM is pending for the signal handler         *)

(* What the engine did, to state properties over.                          *)
VARIABLES
  discarded, (* frames lost to a full ring or rejected by the parser        *)
  sawEof     (* the sender closed the connection after its last frame       *)

netVars     == <<reader, received, ioStopped, netDone>>
historyVars == <<discarded, sawEof>>
vars == <<bookVars, threadVars, netVars, ring, quit, mainPc, signal, historyVars, script>>

-----------------------------------------------------------------------------
EngineInit ==
  /\ Init
  /\ script \in Sessions
  /\ reader = "resolve" /\ received = 0 /\ ring = <<>>
  /\ quit = FALSE /\ ioStopped = FALSE /\ netDone = FALSE
  /\ bookPc = "poll" /\ current = 0
  /\ mainPc = "installHandler" /\ signal = FALSE
  /\ applied = <<>> /\ discarded = {} /\ printed = <<>> /\ sawEof = FALSE

-----------------------------------------------------------------------------
(* The network thread.                                                     *)

(* A handler of the reader runs, which may start the next operation.       *)
handler(from, to) ==
  /\ ~ioStopped /\ reader = from
  /\ reader' = to

resolved  == handler("resolve", "connect")
connected == handler("connect", "header")

(* schedule_reconnect after a failed resolve or connect, and its timer.    *)
failed   == handler("resolve", "backoff") \/ handler("connect", "backoff")
retried  == handler("backoff", "resolve")

connecting ==
  /\ resolved \/ connected \/ failed \/ retried
  /\ UNCHANGED <<received, ring, quit, ioStopped, netDone, signal, historyVars>>

headerRead ==
  /\ handler("header", "body")
  /\ received < Len(script)
  /\ UNCHANGED <<received, ring, quit, ioStopped, netDone, signal, historyVars>>

(* A fault to seed: the ring is taken to be unbounded.                     *)
pushUnbounded(i) == ring' = Append(ring, i) /\ UNCHANGED discarded

(* A fault to seed: a full ring loses its newest event to the next one.    *)
pushOverwriting(i) ==
  IF Len(ring) < Capacity THEN ring' = Append(ring, i) /\ UNCHANGED discarded
  ELSE ring' = [ring EXCEPT ![Capacity] = i] /\ UNCHANGED discarded

(* spsc_queue::push: fails when the ring is full, and the event is lost.   *)
push(i) ==
  IF Len(ring) < Capacity THEN ring' = Append(ring, i) /\ UNCHANGED discarded
  ELSE discarded' = discarded \cup {i} /\ UNCHANGED ring

(* read_body's handler: a body that parses is pushed, one that does not is *)
(* skipped, and the next header is awaited either way.                     *)
bodyRead ==
  LET i == received + 1
  IN /\ handler("body", "header")
     /\ received' = i
     /\ IF parses(script[i]) THEN push(i)
        ELSE discarded' = discarded \cup {i} /\ UNCHANGED ring
     /\ UNCHANGED <<quit, ioStopped, netDone, signal, sawEof>>

(* A fault to seed: the io_context is not stopped.                         *)
handleErrorRunning == quit' = TRUE /\ reader' = "closed" /\ UNCHANGED ioStopped

(* handle_error: the first failed read, also the end of the stream, shuts  *)
(* the engine down.                                                        *)
handleError == quit' = TRUE /\ reader' = "closed" /\ ioStopped' = TRUE

readFailed ==
  /\ ~ioStopped /\ reader \in {"header", "body"}
  /\ handleError
  /\ sawEof' = (reader = "header" /\ received = Len(script))
  /\ UNCHANGED <<received, ring, netDone, signal, discarded>>

(* The handler of the signal set, once main has installed it.              *)
signalled ==
  /\ ~ioStopped /\ signal /\ mainPc # "installHandler"
  /\ quit' = TRUE /\ reader' = "closed" /\ ioStopped' = TRUE
  /\ signal' = FALSE
  /\ UNCHANGED <<received, ring, netDone, historyVars>>

(* io.run() returns.                                                       *)
netReturns ==
  /\ ioStopped /\ ~netDone
  /\ netDone' = TRUE
  /\ UNCHANGED <<reader, received, ioStopped, ring, quit, signal, historyVars>>

netThread ==
  /\ connecting \/ headerRead \/ bodyRead \/ signalled \/ netReturns
  /\ UNCHANGED <<bookVars, threadVars, mainPc, script>>

-----------------------------------------------------------------------------
(* The book thread, on the event of the frame it popped.                   *)
bookThread ==
  /\ threadStep(parsed(script[current]))
  /\ UNCHANGED <<netVars, quit, mainPc, signal, discarded, sawEof, script>>

-----------------------------------------------------------------------------
(* The main thread, and whoever sends the signal.                          *)

mainThread ==
  /\ \/ mainPc = "installHandler" /\ mainPc' = "joinNet"
     \/ mainPc = "joinNet" /\ netDone /\ mainPc' = "joinBook"
     \/ mainPc = "joinBook" /\ bookPc = "returned" /\ mainPc' = "returned"
  /\ UNCHANGED <<bookVars, threadVars, netVars, ring, quit, signal, historyVars, script>>

(* Before the handler is installed a signal ends the process at once; that *)
(* case has no successor and is left out.                                  *)
interrupt ==
  /\ ~signal /\ ~ioStopped /\ mainPc # "installHandler"
  /\ signal' = TRUE
  /\ UNCHANGED <<bookVars, threadVars, netVars, ring, quit, mainPc, historyVars, script>>

finished == mainPc = "returned" /\ UNCHANGED vars

EngineNext ==
  \/ netThread
  \/ readFailed /\ UNCHANGED <<bookVars, threadVars, mainPc, script>>
  \/ bookThread
  \/ mainThread
  \/ interrupt
  \/ finished

(* The three threads are scheduled, a completed operation's handler is run *)
(* and the sender's frames arrive; nobody has to close the connection or   *)
(* send a signal.                                                          *)
EngineSpec ==
  /\ EngineInit /\ [][EngineNext]_vars
  /\ WF_vars(netThread) /\ WF_vars(bookThread) /\ WF_vars(mainThread)

-----------------------------------------------------------------------------
(* A frame whose values are those of the type the parser gives them.       *)
sound(frame) ==
  CASE frame.type = 0 -> parsed(frame).order \in Order
    [] frame.type = 2 -> frame.newQty >= 0
    [] OTHER -> TRUE

(* The values of the variables, those of the book as long as the frames'   *)
(* are; the ring never holds more than it may.                             *)
EngineTypeOK ==
  /\ (\A i \in DOMAIN script : sound(script[i])) => TypeOK /\ printed \in Seq(Trade)
  /\ reader \in {"resolve", "connect", "backoff", "header", "body", "closed"}
  /\ received \in 0..Len(script)
  /\ ring \in Seq(1..Len(script)) /\ Len(ring) <= Capacity
  /\ quit \in BOOLEAN /\ ioStopped \in BOOLEAN /\ netDone \in BOOLEAN
  /\ bookPc \in {"poll", "pop", "dispatch", "print", "returned"}
  /\ current \in 0..Len(script)
  /\ mainPc \in {"installHandler", "joinNet", "joinBook", "returned"}
  /\ signal \in BOOLEAN /\ sawEof \in BOOLEAN
  /\ applied \in Seq(1..Len(script)) /\ discarded \subseteq 1..Len(script)

(* Frames on their way: popped and not yet applied, or in the ring.        *)
InFlight == (IF bookPc = "dispatch" THEN <<current>> ELSE <<>>) \o ring

(* Every frame that was read is at exactly one place: applied, on its way  *)
(* or discarded; and what reaches the book reaches it in the order sent,   *)
(* whatever the two threads' interleaving.                                 *)
NothingLostOrReordered ==
  LET path == applied \o InFlight
  IN /\ \A i, j \in DOMAIN path : i < j => path[i] < path[j]
     /\ {path[i] : i \in DOMAIN path} \cap discarded = {}
     /\ {path[i] : i \in DOMAIN path} \cup discarded = 1..received

(* Once either thread has asked for the end, both threads return and main  *)
(* joins them.                                                             *)
QuitEnds == quit ~> mainPc = "returned"

(* Every frame read is applied or discarded, unless the engine shuts down. *)
FramesProcessed ==
  \A i \in 1..MaxFrames :
    received >= i ~> quit \/ i \in discarded \/ \E j \in DOMAIN applied : applied[j] = i

(* The frame applied last, and that what was asked of the book was a LIMIT *)
(* order of a negative quantity, which parseBodyToEvent lets through.      *)
lastFrame == script[applied[Len(applied)]]
addsNegative(frame) == frame.type = 0 /\ frame.orderType = 1 /\ frame.qty < 0

(* match does not run for an order below 0, and addOrder rests it whatever *)
(* it crosses (orderbook.cpp:11, :188; tcp_reader.cpp:104).  Nothing else  *)
(* a frame may carry crosses the book: not an amend to a negative quantity *)
(* nor a fill against one, that makes the incoming order grow, nor a byte  *)
(* that is no Side and no OrderType.                                       *)
CrossedOnlyByNegative ==
  Uncrossed \/ \E i \in DOMAIN applied : addsNegative(script[applied[i]])

(* What an order has traded and what is left of it are what its frame      *)
(* said, also where it grows on a negative order before it shrinks.        *)
Conserved ==
  ~Idle =>
    lastFrame.qty = FoldFunction(LAMBDA trade, sum : trade.quantity + sum,
                                 incoming.quantity, lastTrades)

(* The engine "processes the scripted orders" (info.txt:14): when it ends  *)
(* because the sender has closed the connection, every frame it read and   *)
(* did not discard has reached the book.                                   *)
Drained ==
  mainPc = "returned" /\ sawEof =>
    {applied[i] : i \in DOMAIN applied} \cup discarded = 1..Len(script)
=============================================================================
