-------------------------------- MODULE Wire --------------------------------
(***************************************************************************)
(* The frames of the TCP feed (engine/tcp_reader.h) and what               *)
(* TcpReader::parseBodyToEvent makes of one.  A frame is the length its    *)
(* header announces and the fields of the packed struct laid over its      *)
(* body; type, side and orderType are raw bytes.                           *)
(***************************************************************************)
EXTENDS Feed

(* sizeof of the packed WireAdd, WireCancel and WireAmend.                 *)
WireAdd    == 23
WireCancel == 9
WireAmend  == 13

(* A body is what a packed struct can be read from: any id, price and      *)
(* quantity, also a negative one, and any byte for a side and an order     *)
(* type.  Of a type nobody knows only the type byte is looked at.          *)
Frame ==
       [size : Nat, type : {0}, orderId : OrderID, price : Price, qty : Int,
        side : 0..255, orderType : 0..255]
  \cup [size : Nat, type : {1}, orderId : OrderID]
  \cup [size : Nat, type : {2}, orderId : OrderID, newQty : Int]
  \cup [size : Nat, type : 3..255]

(* The order of an ADD, whose quantity may be any and whose type no type.  *)
WireOrder == [id       : OrderID,
              price    : Price,
              quantity : Int,
              side     : Side,
              type     : OrderType \cup {"other"}]

ASSUME WireAssumption == NoOrder \notin WireOrder

(* The body's length has to be that of the struct its type byte names.     *)
parses(frame) ==
  \/ frame.type = 0 /\ frame.size = WireAdd
  \/ frame.type = 1 /\ frame.size = WireCancel
  \/ frame.type = 2 /\ frame.size = WireAmend

(* Neither byte of an ADD is checked.  The book takes a side that is not   *)
(* BUY for SELL; an order type that is neither is matched like a LIMIT and *)
(* rested like a MARKET order, that is never.                              *)
sideOf(byte)      == IF byte = 0 THEN "BUY" ELSE "SELL"
orderTypeOf(byte) == CASE byte = 0 -> "MARKET" [] byte = 1 -> "LIMIT" [] OTHER -> "other"

(* The event of a frame that parses.  The code divides the wire's integer  *)
(* by 1e4 into a double and floors nothing: every price below 2^53 units   *)
(* keeps a double of its own, and the doubles keep the order.  The book    *)
(* only compares prices, so the model counts them in the wire's unit.  A   *)
(* price is not checked (one that is not positive is logged), and a        *)
(* quantity keeps its sign.                                                *)
parsed(frame) ==
  CASE frame.type = 0 -> ADD([id       |-> frame.orderId,
                              price    |-> frame.price,
                              quantity |-> frame.qty,
                              side     |-> sideOf(frame.side),
                              type     |-> orderTypeOf(frame.orderType)])
    [] frame.type = 1 -> CANCEL(frame.orderId)
    [] frame.type = 2 -> AMEND(frame.orderId, frame.newQty)
=============================================================================
