------------------------------ MODULE MCEngine ------------------------------
EXTENDS Engine

(* Frames as sample_tcp.py packs them.                                     *)
pkt_add(id, price, qty, side, orderType) ==
  [size |-> 23, type |-> 0, orderId |-> id, price |-> price * 10000,
   qty |-> qty, side |-> side, orderType |-> orderType]
pkt_amend(id, newQty) == [size |-> 13, type |-> 2, orderId |-> id, newQty |-> newQty]
pkt_cancel(id)        == [size |-> 9, type |-> 1, orderId |-> id]

(* The session of engine/sample_tcp.py.                                    *)
SampleSession ==
  << pkt_add(1, 20, 30, 0, 1),  pkt_add(2, 40, 60, 0, 1), pkt_add(3, 50, 12, 0, 1),
     pkt_add(4, 40, 20, 0, 1),  pkt_add(5, 80, 50, 1, 1), pkt_add(6, 90, 12, 1, 1),
     pkt_add(7, 110, 50, 1, 1), pkt_add(8, 1, 60, 0, 0),  pkt_add(9, 1, 20, 1, 0) >>

(* What the session's comments say of its two market orders: number 8      *)
(* "matches with order 5, then 6" and number 9 "with order 3, then 2"      *)
(* (sample_tcp.py:63).                                                     *)
SampleTrades ==
  LET trade(taker, maker, price, quantity, side) ==
        [takerId |-> taker, makerId |-> maker, price |-> price * 10000,
         quantity |-> quantity, takerSide |-> side]
  IN << trade(8, 5, 80, 50, "BUY"), trade(8, 6, 90, 10, "BUY"),
        trade(9, 3, 50, 12, "SELL"), trade(9, 2, 40, 8, "SELL") >>

(* A book that has seen the whole session has printed these trades, and no *)
(* interleaving of the threads prints others, as long as nothing was lost  *)
(* on the way.                                                             *)
SampleOutcome ==
  script = SampleSession /\ discarded = {} =>
    /\ printed = SubSeq(SampleTrades, 1, Len(printed))
    /\ applied = [i \in 1..Len(SampleSession) |-> i] /\ bookPc # "print" => printed = SampleTrades

(* A session with every kind of frame, one of them of an unknown type and  *)
(* one whose length is not that of its type.                               *)
MixedSession ==
  << pkt_add(1, 20, 30, 0, 1), pkt_amend(1, 75), [size |-> 9, type |-> 7],
     pkt_add(2, 20, 75, 1, 1), [pkt_cancel(1) EXCEPT !.size = 8], pkt_cancel(1) >>

(* Sessions of values nobody checks: negative quantities, a price of -1,   *)
(* bytes that are no side and no order type, amends below 0, and a price   *)
(* a ten-thousandth above another.                                         *)
OddSessions ==
  { <<first, second, third>> :
      first  \in {pkt_add(1, 20, -1, 0, 1), pkt_add(1, 40, 2, 9, 1), pkt_add(1, -1, 2, 0, 1)},
      second \in {pkt_add(2, 20, -1, 1, 1), pkt_amend(1, -1), pkt_add(2, 40, -2, 0, 1),
                  pkt_add(2, 20, 2, 1, 7), [pkt_add(2, 20, 2, 1, 1) EXCEPT !.price = 200001]},
      third  \in {pkt_add(3, -1, 1, 1, 1), pkt_add(3, 40, 3, 0, 1), pkt_add(3, 20, -1, 1, 0)} }

(* The prices of the sessions in ten-thousandths, -1 and one that is not   *)
(* a whole number among them.                                              *)
MCPrice == {p * 10000 : p \in {-1, 1, 20, 40, 50, 80, 90, 110}} \cup {200001}

MCSessions    == {SampleSession, MixedSession} \cup OddSessions
DrainSessions == {SampleSession}
=============================================================================
