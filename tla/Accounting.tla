----------------------------- MODULE Accounting -----------------------------
(***************************************************************************)
(* The simulator's score keeping (sim/accounting.h): which trades are the  *)
(* market maker's, and what a trade does to its inventory and cash.        *)
(***************************************************************************)
EXTENDS MarketTypes, Sequences

Seqs == INSTANCE SequencesExt

CONSTANTS
  MakerFee,  (* per share, paid when a resting order is hit                 *)
  TakerFee   (* per share, paid when an order crosses the spread            *)

ASSUME FeesAssumption == MakerFee \in Int /\ TakerFee \in Int

Ledger == [position : Int, cash : Int, fills : Nat]

FlatLedger == [position |-> 0, cash |-> 0, fills |-> 0]

(* A fault to seed: only the taker's leg is looked at.                     *)
ownsTaker(ids, trade) == trade.takerId \in ids

(* MmOrderSet::owns, of a trade: either leg is one of these orders.        *)
owns(ids, trade) == trade.makerId \in ids \/ trade.takerId \in ids

(* The ids a sequence of trades touches.                                   *)
TradedIds(trades) ==
  UNION {{trades[i].makerId, trades[i].takerId} : i \in DOMAIN trades}

(* A fault to seed: a sale is booked as a purchase.                        *)
recordUnsigned(ledger, side, trade, fee) ==
  [position |-> ledger.position + trade.quantity,
   cash     |-> ledger.cash - trade.quantity * trade.price - fee * trade.quantity,
   fills    |-> ledger.fills + 1]

(* Ledger::record: one leg of a trade.                                     *)
record(ledger, side, trade, fee) ==
  LET signed == IF side = "BUY" THEN trade.quantity ELSE -trade.quantity
  IN [position |-> ledger.position + signed,
      cash     |-> ledger.cash - signed * trade.price - fee * trade.quantity,
      fills    |-> ledger.fills + 1]

(* Ledger::apply: the maker's side is the opposite of the taker's, and a   *)
(* trade between two of these orders books both legs.                      *)
applyTrade(ledger, trade, ids) ==
  LET made == IF trade.makerId \in ids
              THEN record(ledger, Opposite(trade.takerSide), trade, MakerFee) ELSE ledger
  IN IF trade.takerId \in ids THEN record(made, trade.takerSide, trade, TakerFee) ELSE made

(* All of a tick's trades, in order.                                       *)
applyTrades(ledger, trades, ids) ==
  Seqs!FoldLeft(LAMBDA l, trade : applyTrade(l, trade, ids), ledger, trades)
=============================================================================
