-------------------------------- MODULE Sim --------------------------------
(***************************************************************************)
(* The backtest loop (sim/sim.cpp) over the real book: each tick the flow  *)
(* generator (sim/flow/zi_flow.cpp) acts, its events are applied, the      *)
(* market maker observes the book and quotes, its events are applied, and  *)
(* the tick's trades are scored.  One thread; the phases are the places    *)
(* between the steps of one iteration.                                     *)
(*                                                                         *)
(* The market maker is the author's strategy behind sim/market_maker.h and *)
(* not in the repository (only NullMM is): it is any strategy that keeps   *)
(* that contract, cancelling and amending orders it has quoted and then    *)
(* quoting with freshly minted ids.                                        *)
(***************************************************************************)
EXTENDS Feed, Accounting

CONSTANTS
  QUANTITY,   (* zi_flow.cpp: every flow order has this size                *)
  MaxQuotes,  (* the most orders the market maker quotes per tick; 0 is NullMM *)
  MaxCancels, (* the most cancels it emits per tick                         *)
  MaxAmends,  (* the most amends                                            *)
  Careful     (* the market maker leaves alone, for a tick, the orders that
                 just traded, and quotes no price that would trade at once   *)

ASSUME SimAssumption ==
  /\ QUANTITY \in Quantity \ {0}
  /\ MaxQuotes \in Nat /\ MaxCancels \in Nat /\ MaxAmends \in Nat
  /\ Careful \in BOOLEAN
  /\ OrderID \subseteq Nat

VARIABLES
  phase,       (* where the loop stands                                     *)
  nextId,      (* the harness's one source of ids                           *)
  events,      (* what is left to apply of this phase's events              *)
  applying,    (* apply() has called the book and not yet read its trades   *)
  resting,     (* the flow's resting_: ids it believes are on the book      *)
  prevTrades,  (* sim.cpp's lastTrades: the trades of the previous tick     *)
  tickTrades,  (* the trades of this tick so far                            *)
  mmOrders,    (* ids the harness attributes to the market maker            *)
  ledger,
  mark         (* twice the last mid of a two-sided book                    *)

(* What really happened, to compare the harness's view with.               *)
VARIABLES
  minted,      (* every id the market maker has quoted under                *)
  executed,    (* what those orders have bought and sold                    *)
  told,        (* how many of those the market maker was handed in myFills  *)
  intact       (* the book's index has been exact at every call             *)

loopVars  == <<phase, nextId, events, applying>>
flowVars  == <<resting, prevTrades>>
scoreVars == <<mmOrders, ledger, mark>>
truth     == <<minted, executed, told, intact>>
vars      == <<bookVars, loopVars, flowVars, tickTrades, scoreVars, truth>>

-----------------------------------------------------------------------------
(* What is executed is told by the two orders and not by the trade that is *)
(* printed of them: shares and their value by side, shares by role.        *)
Executions == [shares : [Side -> Int], value : [Side -> Int], made : Int, taken : Int, fills : Nat]

NoExecutions ==
  [shares |-> [s \in Side |-> 0], value |-> [s \in Side |-> 0], made |-> 0, taken |-> 0, fills |-> 0]

(* The account of a trader with these executions: it holds what it bought  *)
(* and has not sold, and has paid for it, and a fee for every share.       *)
Balance(e) ==
  [position |-> e.shares["BUY"] - e.shares["SELL"],
   cash     |-> e.value["SELL"] - e.value["BUY"] - MakerFee * e.made - TakerFee * e.taken,
   fills    |-> e.fills]

-----------------------------------------------------------------------------
SimInit ==
  /\ Init
  /\ phase = "flow" /\ nextId = 1 /\ events = <<>> /\ applying = FALSE
  /\ resting = {} /\ prevTrades = <<>> /\ tickTrades = <<>>
  /\ mmOrders = {} /\ ledger = FlatLedger /\ mark = 0
  /\ minted = {} /\ executed = NoExecutions /\ told = 0 /\ intact = TRUE

-----------------------------------------------------------------------------
(* Phase 1: the flow.                                                      *)

(* A fault to seed: only the makers of the last tick are pruned.           *)
trackedMakersOnly == resting \ {prevTrades[i].makerId : i \in DOMAIN prevTrades}

(* onTick first forgets every order that traded last tick.                 *)
tracked == resting \ TradedIds(prevTrades)

(* The tick starts with the flow's events to apply and no trades.          *)
startTick(out) ==
  /\ phase = "flow"
  /\ phase' = "applyFlow"
  /\ events' = out
  /\ tickTrades' = <<>>
  /\ UNCHANGED <<bookVars, applying, prevTrades, scoreVars, truth>>

flowIdles ==
  /\ startTick(<<>>)
  /\ resting' = tracked
  /\ UNCHANGED nextId

(* A limit order of either side at any price of the value band.            *)
flowAdds(order) ==
  /\ order.id = nextId /\ order.type = "LIMIT" /\ order.quantity = QUANTITY
  /\ startTick(<<ADD(order)>>)
  /\ resting' = tracked \cup {order.id}
  /\ nextId' = nextId + 1

(* A fault to seed: any tracked order is taken, as begin() of an unordered *)
(* set would.                                                              *)
flowCancelsAny(id) ==
  /\ id \in tracked
  /\ startTick(<<CANCEL(id)>>)
  /\ resting' = tracked \ {id}
  /\ UNCHANGED nextId

(* *resting_.begin(): the smallest id believed to be on the book.          *)
flowCancels(id) ==
  /\ id \in tracked /\ \A other \in tracked : id <= other
  /\ startTick(<<CANCEL(id)>>)
  /\ resting' = tracked \ {id}
  /\ UNCHANGED nextId

-----------------------------------------------------------------------------
(* apply(), for the flow's events and for the market maker's.              *)

apply ==
  /\ phase \in {"applyFlow", "applyQuotes"}
  /\ ~applying /\ events # <<>>
  /\ dispatch(Head(events))
  /\ applying' = TRUE
  /\ intact' = (intact /\ IndexExact)
  /\ UNCHANGED <<phase, nextId, events, flowVars, tickTrades, scoreVars,
                 minted, executed, told>>

(* History: the order in hand trades with the first of a level, at the     *)
(* price that one stands at.  The one rests on the side the other takes    *)
(* from, so each side of the book has one of them.                         *)
executions(price) ==
  LET maker    == Front(book[Contra][price].orders)
      quantity == incoming.quantity - incoming'.quantity
      mine(id) == IF id \in minted THEN quantity ELSE 0
      on(side) == mine(IF side = Contra THEN maker.id ELSE incoming.id)
      fill(id) == IF id \in minted THEN 1 ELSE 0
  IN [shares |-> [s \in Side |-> executed.shares[s] + on(s)],
      value  |-> [s \in Side |-> executed.value[s] + on(s) * maker.price],
      made   |-> executed.made + mine(maker.id),
      taken  |-> executed.taken + mine(incoming.id),
      fills  |-> executed.fills + fill(maker.id) + fill(incoming.id)]

matching ==
  /\ \/ \E price \in Price :
          (fillResting(price) \/ fillIncoming(price)) /\ executed' = executions(price)
     \/ restRemainder /\ UNCHANGED executed
  /\ UNCHANGED <<loopVars, flowVars, tickTrades, scoreVars, minted, told, intact>>

(* The book's trades are appended to the tick's.                           *)
drain ==
  /\ applying /\ Idle
  /\ applying' = FALSE
  /\ events' = Tail(events)
  /\ tickTrades' = tickTrades \o lastTrades
  /\ UNCHANGED <<bookVars, phase, nextId, flowVars, scoreVars, truth>>

-----------------------------------------------------------------------------
(* Phase 2: the market maker.                                              *)

(* The trades of the tick that are the market maker's, by their places.    *)
myFills == {i \in DOMAIN tickTrades : owns(mmOrders, tickTrades[i])}

(* What a careful market maker does not do, from what it is shown.         *)
CarefulBatch(dropped, quotes) ==
  /\ \A i \in myFills : ~owns(dropped, tickTrades[i])
  /\ \A i \in DOMAIN quotes :
       /\ quotes[i].type = "LIMIT"
       /\ LET opposite == Quote(Opposite(quotes[i].side)).price
          IN opposite = Absent \/ Better(quotes[i].side, opposite, quotes[i].price)
  /\ \A i, j \in DOMAIN quotes :
       quotes[i].side = "BUY" /\ quotes[j].side = "SELL" => quotes[i].price < quotes[j].price

(* A fault to seed: an order is only attributed once it is on the book.    *)
registeredCancelsOnly(dropped, quotes) == mmOrders \ dropped

(* The ids of the events are registered before the events are applied.     *)
registered(dropped, quotes) ==
  (mmOrders \ dropped) \cup {quotes[i].id : i \in DOMAIN quotes}

(* onTick of the market maker: it is handed its fills of this tick so far, *)
(* cancels and amends some of its orders and quotes new ones.              *)
quote(cancels, amends, quotes) ==
  LET dropped == {cancels[i] : i \in DOMAIN cancels}
  IN
  /\ phase = "applyFlow" /\ events = <<>> /\ ~applying
  /\ \A i \in DOMAIN quotes : quotes[i].id = nextId + i - 1
  /\ Careful => CarefulBatch(dropped, quotes)
  /\ phase' = "applyQuotes"
  /\ events' = [i \in DOMAIN cancels |-> CANCEL(cancels[i])]
               \o [i \in DOMAIN amends |-> AMEND(amends[i][1], amends[i][2])]
               \o [i \in DOMAIN quotes |-> ADD(quotes[i])]
  /\ nextId' = nextId + Len(quotes)
  /\ mmOrders' = registered(dropped, quotes)
  /\ minted' = minted \cup {quotes[i].id : i \in DOMAIN quotes}
  /\ told' = told + Cardinality(myFills)
  /\ UNCHANGED <<bookVars, applying, flowVars, tickTrades, ledger, mark, executed, intact>>

-----------------------------------------------------------------------------
(* Phase 3: the tick is scored, and its trades become the next tick's      *)
(* lastTrades (tickTrades is cleared before it is used again).             *)
score ==
  /\ phase = "applyQuotes" /\ events = <<>> /\ ~applying
  /\ phase' = "flow"
  /\ ledger' = applyTrades(ledger, tickTrades, mmOrders)
  /\ mark' = IF Quote("BUY").price # Absent /\ Quote("SELL").price # Absent
             THEN Quote("BUY").price + Quote("SELL").price ELSE mark
  /\ prevTrades' = tickTrades
  /\ tickTrades' = <<>>
  /\ UNCHANGED <<bookVars, nextId, events, applying, resting, mmOrders, truth>>

-----------------------------------------------------------------------------
(* Sequences of at most n elements of S.                                   *)
AtMost(n, S) == UNION {[1..k -> S] : k \in 0..n}

(* What the market maker may emit: cancels and amends of its working       *)
(* orders, in any order, and quotes under the next ids.                    *)
Cancels == AtMost(MaxCancels, mmOrders)
Amends  == AtMost(MaxAmends, mmOrders \X Quantity)
Quotes  == AtMost(MaxQuotes, {o \in Submissions : o.id >= nextId /\ o.id < nextId + MaxQuotes})

SimNext ==
  \/ flowIdles
  \/ \E order \in Submissions : flowAdds(order)
  \/ \E id \in OrderID : flowCancels(id)
  \/ apply
  \/ matching
  \/ drain
  \/ \E cancels \in Cancels, amends \in Amends, quotes \in Quotes :
       quote(cancels, amends, quotes)
  \/ score

(* The loop runs on to its last tick: nothing in it waits.                 *)
SimSpec == SimInit /\ [][SimNext]_vars /\ WF_vars(SimNext)

-----------------------------------------------------------------------------
(* The values of the variables.                                            *)
SimTypeOK ==
  /\ TypeOK
  /\ phase \in {"flow", "applyFlow", "applyQuotes"}
  /\ nextId \in Nat
  /\ applying \in BOOLEAN
  /\ resting \subseteq OrderID /\ mmOrders \subseteq OrderID /\ minted \subseteq OrderID
  /\ prevTrades \in Seq(Trade) /\ tickTrades \in Seq(Trade)
  /\ ledger \in Ledger /\ executed \in Executions
  /\ mark \in Int /\ told \in Nat /\ intact \in BOOLEAN

IdsOn(side) ==
  UNION {{book[side][p].orders.slots[i].id : i \in Live(book[side][p].orders)} :
           p \in DOMAIN book[side]}

RestingIds == IdsOn("BUY") \cup IdsOn("SELL")

(* Between ticks, what the flow believes to be on the book, once it has    *)
(* dropped what traded, is what is there: so a cancel of the flow always   *)
(* takes an order off the book, and no order is forgotten.  It rests on    *)
(* every order having the same size, for the flow cannot represent a       *)
(* partial fill (zi_flow.cpp:49), and on the book's index having been      *)
(* right at every call.                                                    *)
FlowTracksBook == phase = "flow" /\ intact => tracked = RestingIds \ minted

(* When the tick has been scored the ledger is the account of all that the *)
(* market maker's orders have bought and sold in the book, each execution  *)
(* once, on the side and at the price it happened and for the fee of its   *)
(* role, and of nothing else (sim.cpp:125, accounting.h:54), as long as no *)
(* call has found the book's index wrong: after that a cancelled order may *)
(* go on trading.                                                          *)
LedgerExact == phase = "flow" /\ intact => ledger = Balance(executed)

(* When the market maker is about to quote, the fills it has been handed,  *)
(* with those it is handed now, are all the executions of its orders       *)
(* (market_maker.h:40: "your orders since your last quote").               *)
FillsTold ==
  phase = "applyFlow" /\ events = <<>> /\ ~applying /\ intact =>
    told + Cardinality(myFills) = executed.fills

(* Every tick comes to its end.                                            *)
TickEnds == (phase # "flow") ~> (phase = "flow")
=============================================================================
