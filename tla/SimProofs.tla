----------------------------- MODULE SimProofs -----------------------------
(***************************************************************************)
(* What the backtest loop keeps, for every bound, price, fee and length of *)
(* run: that its variables are what they should be, that the ledger books  *)
(* every execution of the market maker's orders once, that the market      *)
(* maker is told of every one of them, and that the flow, when it is       *)
(* alone, knows what it has on the book.                                   *)
(*                                                                         *)
(* The parts build on each other: the ledger as a run of single trades;    *)
(* the loop's shape, an invariant of which the type invariant is a part;   *)
(* the ids on the book and what the book's operations do to that set, as   *)
(* long as the index is exact; and then, one after the other, the          *)
(* invariants LedgerInv, FillsInv and FlowInv of a tick's middle.          *)
(***************************************************************************)
EXTENDS Sim, OrderBookProofs

-----------------------------------------------------------------------------
(* The ledger: what a sequence of trades makes of it.                      *)

(* r is the ledger before the first trade and after each of them.          *)
Runs(r, l, trades, ids) ==
  /\ r \in [0..Len(trades) -> Ledger]
  /\ r[0] = l
  /\ \A i \in 1..Len(trades) : r[i] = applyTrade(r[i - 1], trades[i], ids)

(* A trade leaves a ledger.                                                *)
LEMMA ApplyTradeTyped ==
  ASSUME NEW l \in Ledger, NEW trade \in Trade, NEW ids
  PROVE  applyTrade(l, trade, ids) \in Ledger
<1>1. ASSUME NEW k \in Ledger, NEW side, NEW fee \in Int
      PROVE  record(k, side, trade, fee) \in Ledger
  <2>1. trade.quantity \in Int /\ trade.price \in Int /\ k.position \in Int /\ k.cash \in Int /\ k.fills \in Nat
    <3>1. trade.quantity \in Nat /\ trade.price \in Price
      BY DEF Trade
    <3>2. trade.price \in Int
      BY <3>1, TypesAssumption
    <3>3. trade.quantity \in Int
      BY <3>1
    <3> QED
      BY <3>2, <3>3 DEF Ledger
  <2> DEFINE signed == IF side = "BUY" THEN trade.quantity ELSE -trade.quantity
  <2>2. signed \in Int
    BY <2>1
  <2> HIDE DEF signed
  <2>3. signed * trade.price \in Int /\ fee * trade.quantity \in Int
    BY <2>1, <2>2
  <2>4. record(k, side, trade, fee) =
          [position |-> k.position + signed,
           cash     |-> k.cash - signed * trade.price - fee * trade.quantity,
           fills    |-> k.fills + 1]
    BY DEF record, signed
  <2> DEFINE a == signed * trade.price
             b == fee * trade.quantity
  <2> HIDE DEF a, b
  <2>5. k.position + signed \in Int /\ k.cash - a - b \in Int /\ k.fills + 1 \in Nat
    BY <2>1, <2>2, <2>3 DEF a, b
  <2> QED
    BY <2>4, <2>5 DEF Ledger, a, b
<1> DEFINE made == IF trade.makerId \in ids
                   THEN record(l, Opposite(trade.takerSide), trade, MakerFee) ELSE l
<1>2. made \in Ledger
  BY <1>1, FeesAssumption
<1>3. applyTrade(l, trade, ids) =
        IF trade.takerId \in ids THEN record(made, trade.takerSide, trade, TakerFee) ELSE made
  BY DEF applyTrade
<1> HIDE DEF made
<1> QED
  BY <1>1, <1>2, <1>3, FeesAssumption

(* The last number of an initial segment.                                  *)
LEMMA LastOf ==
  ASSUME NEW k \in Nat \ {0}
  PROVE  Seqs!Max(1..k) = k
<1>1. k \in 1..k /\ \A n \in 1..k : n <= k
  OBVIOUS
<1>2. \A m \in 1..k : (\A n \in 1..k : n <= m) => m = k
  OBVIOUS
<1> QED
  BY <1>1, <1>2 DEF Seqs!Max

(* The fold of applyTrades over the sets of places of trades.              *)
Places(S, trades) == S = DOMAIN trades

(* g is that fold.                                                         *)
FoldsTrades(g, S, l, trades, ids) ==
  /\ g \in [SUBSET S -> Ledger]
  /\ \A s \in SUBSET S :
       g[s] = IF s = {} THEN l
              ELSE applyTrade(g[s \ {Seqs!Max(s)}], trades[Seqs!Max(s)], ids)

LEMMA ApplyFolds ==
  ASSUME NEW trades \in Seq(Trade), NEW l \in Ledger, NEW ids, NEW S, Places(S, trades)
  PROVE  \E g : FoldsTrades(g, S, l, trades, ids) /\ applyTrades(l, trades, ids) = g[S]
<1> DEFINE ch == [s \in SUBSET S |-> Seqs!Max(s)]
           st == [pair \in S \X Ledger |-> applyTrade(pair[2], trades[pair[1]], ids)]
<1>0. S = 1..Len(trades) /\ Len(trades) \in Nat /\ \A i \in S : trades[i] \in Trade
  BY DEF Places
<1>1. IsFiniteSet(S) /\ S \subseteq Int
  BY <1>0, FS_Interval
<1>2. Chooses(ch, S)
  <2>1. ASSUME NEW s \in SUBSET S, s # {}
        PROVE  Seqs!Max(s) \in s
    <3>1. s \in SUBSET Int /\ IsFiniteSet(s)
      BY <1>1, FS_Subset
    <3>2. \E m \in s : \A k \in s : k <= m
      BY <2>1, <3>1, Extremes
    <3>3. \E m \in s : \A k \in s : m >= k
      BY <3>1, <3>2
    <3> QED
      BY <3>2, <3>3 DEF Seqs!Max
  <2> QED
    BY <2>1 DEF Chooses
<1>3. st \in [S \X Ledger -> Ledger]
  <2>1. ASSUME NEW pair \in S \X Ledger
        PROVE  applyTrade(pair[2], trades[pair[1]], ids) \in Ledger
    <3>1. pair[1] \in S /\ pair[2] \in Ledger
      OBVIOUS
    <3>2. trades[pair[1]] \in Trade
      BY <1>0, <3>1
    <3> QED
      BY <3>1, <3>2, ApplyTradeTyped
  <2> QED
    BY <2>1
<1>4. PICK g \in [SUBSET S -> Ledger] : Folds(g, S, l, ch, st)
  <2> HIDE DEF ch, st
  <2> QED
    BY <1>1, <1>2, <1>3, FoldExists
<1>5. ASSUME NEW s \in SUBSET S
      PROVE  g[s] = IF s = {} THEN l
                    ELSE applyTrade(g[s \ {Seqs!Max(s)}], trades[Seqs!Max(s)], ids)
  <2>1. CASE s = {}
    BY <1>4, <2>1 DEF Folds
  <2>2. CASE s # {}
    <3>1. ch[s] = Seqs!Max(s) /\ ch[s] \in S /\ s \ {ch[s]} \in SUBSET S
      BY <1>2, <2>2 DEF Chooses
    <3>2. g[s] = st[<<ch[s], g[s \ {ch[s]}]>>] /\ g[s \ {ch[s]}] \in Ledger
      BY <1>4, <2>2, <3>1 DEF Folds
    <3> QED
      BY <2>2, <3>1, <3>2
  <2> QED
    BY <2>1, <2>2
<1>6. applyTrades(l, trades, ids) = g[S]
  <2> DEFINE defines(it) ==
               it = [s \in SUBSET S |-> IF s = {} THEN l
                                        ELSE applyTrade(it[s \ {Seqs!Max(s)}], trades[Seqs!Max(s)], ids)]
             h == CHOOSE it : defines(it)
  <2>1. applyTrades(l, trades, ids) = h[S]
    BY DEF Places, applyTrades, Seqs!FoldLeft, Seqs!MapThenFoldSet
  <2>2. defines(g)
    <3> DEFINE f == [s \in SUBSET S |-> IF s = {} THEN l
                         ELSE applyTrade(g[s \ {Seqs!Max(s)}], trades[Seqs!Max(s)], ids)]
    <3>1. \A s \in SUBSET S : g[s] = f[s]
      BY <1>5
    <3>2. g = [s \in SUBSET S |-> g[s]] /\ f = [s \in SUBSET S |-> f[s]]
      OBVIOUS
    <3>3. g = f
      BY <3>1, <3>2
    <3> QED
      BY <3>3
  <2>3. defines(h)
    <3> HIDE DEF defines
    <3> QED
      BY <2>2
  <2>4. Recurs(h, S, Ledger, l, ch, st)
    <3> SUFFICES ASSUME NEW s \in SUBSET S
                 PROVE  /\ s = {} => h[s] = l
                        /\ s # {} /\ h[s \ {ch[s]}] \in Ledger => h[s] = st[<<ch[s], h[s \ {ch[s]}]>>]
      BY DEF Recurs
    <3>1. h[s] = IF s = {} THEN l ELSE applyTrade(h[s \ {Seqs!Max(s)}], trades[Seqs!Max(s)], ids)
      BY <2>3
    <3>2. ch[s] = Seqs!Max(s)
      OBVIOUS
    <3>3. s # {} => ch[s] \in S
      BY <1>2 DEF Chooses
    <3> HIDE DEF h, ch
    <3>4. ASSUME s # {}, h[s \ {ch[s]}] \in Ledger
          PROVE  st[<<ch[s], h[s \ {ch[s]}]>>] = applyTrade(h[s \ {ch[s]}], trades[ch[s]], ids)
      BY <3>3, <3>4
    <3> QED
      BY <3>1, <3>2, <3>4
  <2> HIDE DEF h, st, ch
  <2>5. BothFold(g, h, S, Ledger, l, ch, st)
    BY <1>1, <1>2, <1>4, <2>4 DEF BothFold
  <2>6. h[S] = g[S]
    BY <2>5, FoldSameWhole
  <2> QED
    BY <2>1, <2>6
<1> QED
  BY <1>5, <1>6 DEF FoldsTrades

(* It is a run.                                                            *)
LEMMA ApplyRuns ==
  ASSUME NEW trades \in Seq(Trade), NEW l \in Ledger, NEW ids
  PROVE  \E r : Runs(r, l, trades, ids) /\ applyTrades(l, trades, ids) = r[Len(trades)]
<1> DEFINE n == Len(trades)
           S == 1..n
<1>0. n \in Nat /\ Places(S, trades)
  BY DEF Places
<1>1. PICK g : FoldsTrades(g, S, l, trades, ids) /\ applyTrades(l, trades, ids) = g[S]
  <2> HIDE DEF S
  <2> QED
    BY <1>0, ApplyFolds
<1> HIDE DEF S, n
<1> DEFINE r == [k \in 0..n |-> g[1..k]]
<1>7. \A k \in 0..n : 1..k \in SUBSET S
  BY <1>0 DEF S
<1>8. r \in [0..n -> Ledger]
  BY <1>1, <1>7 DEF FoldsTrades
<1>9. r[0] = l
  <2>1. 1..0 = {} /\ 0 \in 0..n /\ {} \in SUBSET S
    BY <1>0
  <2>2. g[{}] = l
    BY <1>1, <2>1 DEF FoldsTrades
  <2> QED
    BY <2>1, <2>2
<1>10. ASSUME NEW k \in 1..n
       PROVE  r[k] = applyTrade(r[k - 1], trades[k], ids)
  <2>0. k \in Nat \ {0} /\ k \in 0..n /\ k - 1 \in 0..n
    BY <1>0
  <2>1. (1..k) \ {k} = 1..(k - 1) /\ 1..k # {}
    BY <2>0
  <2>2. Seqs!Max(1..k) = k
    BY <2>0, LastOf
  <2>3. g[1..k] = applyTrade(g[(1..k) \ {k}], trades[k], ids)
    BY <1>1, <1>7, <2>0, <2>1, <2>2 DEF FoldsTrades
  <2> QED
    BY <2>0, <2>1, <2>3
<1>11. r[n] = g[S]
  BY <1>0 DEF S
<1> HIDE DEF r
<1> QED
  BY <1>1, <1>8, <1>9, <1>10, <1>11 DEF Runs, n

(* Two runs that start alike and step alike stay alike.                    *)
StepAlike(r, q, n) ==
  /\ r[0] = q[0]
  /\ \A i \in 1..n : r[i - 1] = q[i - 1] => r[i] = q[i]

LEMMA SameRun ==
  ASSUME NEW n \in Nat, NEW r, NEW q, StepAlike(r, q, n)
  PROVE  \A i \in 0..n : r[i] = q[i]
<1>0. r[0] = q[0] /\ \A i \in 1..n : r[i - 1] = q[i - 1] => r[i] = q[i]
  BY DEF StepAlike
<1> DEFINE P == {i \in Nat : i <= n => r[i] = q[i]}
<1>1. P \in SUBSET Nat /\ 0 \in P
  BY <1>0
<1>2. ASSUME NEW i \in P
      PROVE  i + 1 \in P
  <2>1. i \in Nat /\ i + 1 \in Nat /\ (i <= n => r[i] = q[i])
    OBVIOUS
  <2>2. CASE i + 1 <= n
    <3>1. i + 1 \in 1..n /\ (i + 1) - 1 = i /\ i <= n
      BY <2>1, <2>2
    <3> QED
      BY <1>0, <2>1, <3>1
  <2>3. CASE ~(i + 1 <= n)
    BY <2>1, <2>3
  <2> QED
    BY <2>2, <2>3
<1> HIDE DEF P
<1>3. P = Nat
  BY <1>1, <1>2, EveryNat
<1> QED
  BY <1>3 DEF P

(* A sequence of trades leaves a ledger, and none leaves it alone.         *)
LEMMA ApplyTyped ==
  ASSUME NEW trades \in Seq(Trade), NEW l \in Ledger, NEW ids
  PROVE  applyTrades(l, trades, ids) \in Ledger
<1>1. PICK r : Runs(r, l, trades, ids) /\ applyTrades(l, trades, ids) = r[Len(trades)]
  BY ApplyRuns
<1>2. Len(trades) \in 0..Len(trades)
  OBVIOUS
<1> QED
  BY <1>1, <1>2 DEF Runs

LEMMA ApplyNone ==
  ASSUME NEW l \in Ledger, NEW ids
  PROVE  applyTrades(l, <<>>, ids) = l
<1> DEFINE none == <<>>
<1>1. none \in Seq(Trade) /\ Len(none) = 0
  OBVIOUS
<1> HIDE DEF none
<1>2. PICK r : Runs(r, l, none, ids) /\ applyTrades(l, none, ids) = r[Len(none)]
  BY <1>1, ApplyRuns
<1> QED
  BY <1>1, <1>2 DEF Runs, none

(* Only which of the legs are among the ids matters.                       *)
LEMMA ApplySame ==
  ASSUME NEW trades \in Seq(Trade), NEW l \in Ledger, NEW ids, NEW others,
         TradedIds(trades) \cap ids = TradedIds(trades) \cap others
  PROVE  applyTrades(l, trades, ids) = applyTrades(l, trades, others)
<1> DEFINE n == Len(trades)
<1>1. PICK r : Runs(r, l, trades, ids) /\ applyTrades(l, trades, ids) = r[n]
  BY ApplyRuns
<1>2. PICK q : Runs(q, l, trades, others) /\ applyTrades(l, trades, others) = q[n]
  BY ApplyRuns
<1>3. ASSUME NEW i \in 1..n, r[i - 1] = q[i - 1]
      PROVE  r[i] = q[i]
  <2>1. trades[i].makerId \in TradedIds(trades) /\ trades[i].takerId \in TradedIds(trades)
    BY DEF TradedIds
  <2>2. /\ trades[i].makerId \in ids <=> trades[i].makerId \in others
        /\ trades[i].takerId \in ids <=> trades[i].takerId \in others
    BY <2>1
  <2>3. applyTrade(r[i - 1], trades[i], ids) = applyTrade(q[i - 1], trades[i], others)
    BY <1>3, <2>2 DEF applyTrade
  <2> QED
    BY <1>1, <1>2, <2>3 DEF Runs
<1>4. n \in Nat /\ r[0] = q[0]
  BY <1>1, <1>2 DEF Runs
<1> HIDE DEF n
<1>5. StepAlike(r, q, n)
  BY <1>3, <1>4 DEF StepAlike
<1>6. \A i \in 0..n : r[i] = q[i]
  BY <1>4, <1>5, SameRun
<1> QED
  BY <1>1, <1>2, <1>4, <1>6

(* Trades may be applied in two goes.                                      *)
LEMMA ApplyConcat ==
  ASSUME NEW first \in Seq(Trade), NEW then \in Seq(Trade), NEW l \in Ledger, NEW ids
  PROVE  applyTrades(l, first \o then, ids) = applyTrades(applyTrades(l, first, ids), then, ids)
<1> DEFINE both == first \o then
           n == Len(first)
           m == Len(then)
           mid == applyTrades(l, first, ids)
<1>1. /\ n \in Nat /\ m \in Nat /\ both \in Seq(Trade) /\ Len(both) = n + m
      /\ \A i \in 1..n : both[i] = first[i]
      /\ \A i \in 1..m : both[n + i] = then[i]
  OBVIOUS
<1>2. PICK r : Runs(r, l, first, ids) /\ mid = r[n]
  BY ApplyRuns
<1>3. mid \in Ledger
  BY ApplyTyped
<1> HIDE DEF both, mid
<1>4. PICK q : Runs(q, mid, then, ids) /\ applyTrades(mid, then, ids) = q[m]
  BY <1>3, ApplyRuns
<1>5. PICK w : Runs(w, l, both, ids) /\ applyTrades(l, both, ids) = w[n + m]
  BY <1>1, ApplyRuns
<1> HIDE DEF n, m
<1>6. w[n] = r[n]
  <2>1. ASSUME NEW i \in 1..n, w[i - 1] = r[i - 1]
        PROVE  w[i] = r[i]
    <3>1. i \in 1..Len(both) /\ both[i] = first[i]
      BY <1>1
    <3> QED
      BY <1>2, <1>5, <2>1, <3>1 DEF Runs, n
  <2>2. w[0] = r[0]
    BY <1>2, <1>5 DEF Runs
  <2>3. StepAlike(w, r, n)
    BY <2>1, <2>2 DEF StepAlike
  <2>4. \A i \in 0..n : w[i] = r[i]
    BY <1>1, <2>3, SameRun
  <2> QED
    BY <1>1, <2>4
<1> DEFINE v == [i \in 0..m |-> w[n + i]]
<1>7. ASSUME NEW i \in 1..m, v[i - 1] = q[i - 1]
      PROVE  v[i] = q[i]
  <2>1. /\ n + i \in 1..Len(both) /\ both[n + i] = then[i] /\ (n + i) - 1 = n + (i - 1)
        /\ i \in 0..m /\ i - 1 \in 0..m
    BY <1>1
  <2>2. v[i] = w[n + i] /\ v[i - 1] = w[n + (i - 1)]
    BY <2>1
  <2>3. w[n + i] = applyTrade(w[(n + i) - 1], both[n + i], ids)
    BY <1>5, <2>1 DEF Runs
  <2>4. q[i] = applyTrade(q[i - 1], then[i], ids)
    BY <1>4 DEF Runs, m
  <2> HIDE DEF v
  <2> QED
    BY <1>7, <2>1, <2>2, <2>3, <2>4
<1>8. v[0] = q[0]
  <2>1. v[0] = w[n]
    BY <1>1
  <2>2. q[0] = mid
    BY <1>4 DEF Runs
  <2> QED
    BY <1>2, <1>6, <2>1, <2>2
<1>9. v[m] = w[n + m] /\ m \in 0..m
  BY <1>1
<1> HIDE DEF v
<1>10. StepAlike(v, q, m)
  BY <1>7, <1>8 DEF StepAlike
<1>11. \A i \in 0..m : v[i] = q[i]
  BY <1>1, <1>10, SameRun
<1> QED
  BY <1>4, <1>5, <1>9, <1>11 DEF both, mid

(* A trade neither of whose takers is among the ids books one fill for a   *)
(* leg among them.                                                         *)
LEMMA ApplyFills ==
  ASSUME NEW trades \in Seq(Trade), NEW l \in Ledger, NEW ids,
         \A i \in DOMAIN trades : trades[i].takerId \notin ids
  PROVE  applyTrades(l, trades, ids).fills
           = l.fills + Cardinality({i \in DOMAIN trades : owns(ids, trades[i])})
<1> DEFINE n == Len(trades)
           mine(k) == {i \in 1..k : owns(ids, trades[i])}
           r1 == [k \in 0..n |-> l.fills + Cardinality(mine(k))]
<1>1. PICK r : Runs(r, l, trades, ids) /\ applyTrades(l, trades, ids) = r[n]
  BY ApplyRuns
<1> DEFINE r2 == [k \in 0..n |-> r[k].fills]
<1>2. n \in Nat /\ DOMAIN trades = 1..n /\ l.fills \in Nat
  BY DEF Ledger
<1>3. \A k \in 0..n : IsFiniteSet(mine(k)) /\ Cardinality(mine(k)) \in Nat
  <2>1. SUFFICES ASSUME NEW k \in 0..n PROVE IsFiniteSet(mine(k))
    BY FS_CardinalityType
  <2>2. IsFiniteSet(1..k) /\ mine(k) \subseteq 1..k
    BY FS_Interval
  <2> HIDE DEF mine
  <2> QED
    BY <2>2, FS_Subset
<1>4. r2[0] = r1[0]
  <2>1. mine(0) = {}
    OBVIOUS
  <2>2. Cardinality(mine(0)) = 0
    BY <2>1, FS_EmptySet
  <2>3. r[0] = l
    BY <1>1 DEF Runs
  <2>4. 0 \in 0..n
    BY <1>2
  <2> HIDE DEF mine
  <2> QED
    BY <1>2, <2>2, <2>3, <2>4
<1>5. ASSUME NEW k \in 1..n, r2[k - 1] = r1[k - 1]
      PROVE  r2[k] = r1[k]
  <2>1. k \in 0..n /\ k - 1 \in 0..n /\ trades[k] \in Trade /\ trades[k].takerId \notin ids
    BY <1>2
  <2>2. r[k - 1] \in Ledger /\ r[k] = applyTrade(r[k - 1], trades[k], ids) /\ r[k - 1].fills \in Nat
    BY <1>1, <2>1 DEF Runs, Ledger
  <2>3. r[k].fills = r[k - 1].fills + (IF owns(ids, trades[k]) THEN 1 ELSE 0)
    <3>1. owns(ids, trades[k]) <=> trades[k].makerId \in ids
      BY <2>1 DEF owns
    <3> QED
      BY <2>1, <2>2, <3>1 DEF applyTrade, record
  <2>4. Cardinality(mine(k)) = Cardinality(mine(k - 1)) + (IF owns(ids, trades[k]) THEN 1 ELSE 0)
    <3>1. CASE owns(ids, trades[k])
      <4>1. mine(k) = mine(k - 1) \cup {k} /\ k \notin mine(k - 1)
        BY <1>2, <3>1
      <4> HIDE DEF mine
      <4> QED
        BY <1>3, <2>1, <3>1, <4>1, FS_AddElement
    <3>2. CASE ~owns(ids, trades[k])
      <4>1. mine(k) = mine(k - 1)
        BY <1>2, <3>2
      <4> HIDE DEF mine
      <4> QED
        BY <1>3, <2>1, <3>2, <4>1
    <3> QED
      BY <3>1, <3>2
  <2> HIDE DEF mine
  <2>5. r2[k] = r[k].fills /\ r2[k - 1] = r[k - 1].fills
    BY <2>1
  <2>6. /\ r1[k] = l.fills + Cardinality(mine(k))
        /\ r1[k - 1] = l.fills + Cardinality(mine(k - 1))
    BY <2>1
  <2>7. Cardinality(mine(k)) \in Nat /\ Cardinality(mine(k - 1)) \in Nat
    BY <1>3, <2>1
  <2> DEFINE one == IF owns(ids, trades[k]) THEN 1 ELSE 0
             c == Cardinality(mine(k))
             b == Cardinality(mine(k - 1))
  <2>8. one \in Nat /\ r[k].fills = r[k - 1].fills + one /\ c = b + one
    BY <2>3, <2>4
  <2>9. r1[k] = l.fills + c /\ r1[k - 1] = l.fills + b /\ b \in Nat
    BY <2>6, <2>7
  <2> HIDE DEF r1, r2, one, c, b
  <2>10. r2[k] = r2[k - 1] + one
    BY <2>5, <2>8
  <2>11. r1[k] = r1[k - 1] + one
    BY <1>2, <2>8, <2>9
  <2> QED
    BY <1>5, <2>10, <2>11
<1>6. n \in 0..n /\ mine(n) = {i \in DOMAIN trades : owns(ids, trades[i])}
  BY <1>2
<1>7. r2[n] = r[n].fills /\ r1[n] = l.fills + Cardinality(mine(n))
  BY <1>6
<1> HIDE DEF r1, r2, mine, n
<1>8. StepAlike(r2, r1, n)
  BY <1>4, <1>5 DEF StepAlike
<1>9. \A k \in 0..n : r2[k] = r1[k]
  BY <1>2, <1>8, SameRun
<1> QED
  BY <1>1, <1>6, <1>7, <1>9

(* The legs of trades one after the other.                                 *)
LEMMA TradedConcat ==
  ASSUME NEW first \in Seq(Trade), NEW then \in Seq(Trade)
  PROVE  TradedIds(first \o then) = TradedIds(first) \cup TradedIds(then)
<1> DEFINE both == first \o then
           n == Len(first)
<1>1. /\ n \in Nat /\ DOMAIN first = 1..n /\ DOMAIN both = 1..(n + Len(then))
      /\ DOMAIN then = 1..Len(then) /\ Len(then) \in Nat
      /\ \A i \in 1..n : both[i] = first[i]
      /\ \A i \in 1..Len(then) : both[n + i] = then[i]
  OBVIOUS
<1> HIDE DEF both, n
<1>2. \A i \in DOMAIN first : i \in DOMAIN both
  BY <1>1
<1>3. \A i \in DOMAIN then : n + i \in DOMAIN both
  BY <1>1
<1>4. \A i \in DOMAIN both : i \in DOMAIN first \/ (i - n \in DOMAIN then /\ both[i] = then[i - n])
  BY <1>1
<1>5. TradedIds(both) = TradedIds(first) \cup TradedIds(then)
  BY <1>1, <1>2, <1>3, <1>4 DEF TradedIds
<1> QED
  BY <1>5 DEF both

LEMMA TradedAppended ==
  ASSUME NEW trades \in Seq(Trade), NEW trade \in Trade
  PROVE  TradedIds(Append(trades, trade)) = TradedIds(trades) \cup {trade.makerId, trade.takerId}
<1> DEFINE more == Append(trades, trade)
           n == Len(trades)
<1>1. /\ n \in Nat /\ DOMAIN trades = 1..n /\ DOMAIN more = 1..(n + 1)
      /\ \A i \in 1..n : more[i] = trades[i]
      /\ more[n + 1] = trade
  OBVIOUS
<1> HIDE DEF more, n
<1>2. DOMAIN more = DOMAIN trades \cup {n + 1}
  BY <1>1
<1>3. TradedIds(more) = TradedIds(trades) \cup {trade.makerId, trade.takerId}
  BY <1>1, <1>2 DEF TradedIds
<1> QED
  BY <1>3 DEF more

-----------------------------------------------------------------------------
(* The account of what was executed.                                       *)

LEMMA Products ==
  /\ \A f, a, b \in Int : f * (a + b) = f * a + f * b
  /\ \A a, b \in Int : (-a) * b = -(a * b) /\ a * b \in Int
  /\ \A a \in Int : 0 * a = 0 /\ a * 0 = 0
<1>1. \A f, a, b \in Int : f * (a + b) = f * a + f * b
  OBVIOUS
<1>2. \A a, b \in Int : (-a) * b = -(a * b) /\ a * b \in Int
  OBVIOUS
<1>3. \A a \in Int : 0 * a = 0 /\ a * 0 = 0
  OBVIOUS
<1> QED
  BY <1>1, <1>2, <1>3

LEMMA BalanceTyped ==
  ASSUME NEW e \in Executions
  PROVE  Balance(e) \in Ledger
<1>1. /\ e.shares["BUY"] \in Int /\ e.shares["SELL"] \in Int
      /\ e.value["BUY"] \in Int /\ e.value["SELL"] \in Int
      /\ e.made \in Int /\ e.taken \in Int /\ e.fills \in Nat
  BY DEF Executions, Side
<1> DEFINE m == MakerFee * e.made
           t == TakerFee * e.taken
<1>2. m \in Int /\ t \in Int
  BY <1>1, FeesAssumption, Products
<1> HIDE DEF m, t
<1>3. e.value["SELL"] - e.value["BUY"] - m - t \in Int /\ e.shares["BUY"] - e.shares["SELL"] \in Int
  BY <1>1, <1>2
<1> QED
  BY <1>1, <1>3 DEF Balance, Ledger, m, t

(* A fill, told by the orders, moves the balance as its trade moves a      *)
(* ledger.                                                                 *)
LEMMA FillExecuted ==
  ASSUME TypeOK, executed \in Executions,
         NEW price \in Price, fillResting(price) \/ fillIncoming(price), executed' = executions(price)
  PROVE  /\ executed' \in Executions
         /\ \E trade \in Trade :
              /\ lastTrades' = Append(lastTrades, trade)
              /\ Balance(executed') = applyTrade(Balance(executed), trade, minted)
<1> DEFINE level == book[Contra][price]
           curr  == Front(level.orders)
<1>1. incoming \in Order /\ Contra \in Side /\ Contra = Opposite(incoming.side) /\ incoming.side \in Side
  BY IncomingTyped DEF fillResting, fillIncoming, Contra, Order
<1>2. curr \in Order
  <2>1. WellFormed(level.orders) /\ ~IsEmpty(level.orders) /\ level.orders \in Deque
    BY <1>1 DEF fillResting, fillIncoming, BestLive, TypeOK, BookTyped, Level
  <2> QED
    BY <2>1, FrontTyped
<1>3. PICK q \in Nat : /\ incoming.quantity - incoming'.quantity = q
                       /\ lastTrades' = Append(lastTrades, Fill(curr, q))
  <2>1. CASE fillResting(price)
    <3>1. /\ lastTrades' = Append(lastTrades, Fill(curr, curr.quantity))
          /\ incoming' = [incoming EXCEPT !.quantity = @ - curr.quantity]
      BY <2>1 DEF fillResting
    <3>2. incoming'.quantity = incoming.quantity - curr.quantity /\ incoming.quantity \in Nat /\ curr.quantity \in Nat
      BY <1>1, <1>2, <3>1 DEF Order
    <3> QED
      BY <3>1, <3>2
  <2>2. CASE fillIncoming(price)
    <3>1. /\ lastTrades' = Append(lastTrades, Fill(curr, incoming.quantity))
          /\ incoming' = [incoming EXCEPT !.quantity = 0]
      BY <2>2 DEF fillIncoming
    <3>2. incoming'.quantity = 0 /\ incoming.quantity \in Nat
      BY <1>1, <3>1 DEF Order
    <3> QED
      BY <3>1, <3>2
  <2> QED
    BY <2>1, <2>2
<1> DEFINE trade == Fill(curr, q)
<1>4. /\ trade \in Trade /\ trade.quantity = q /\ trade.price = curr.price /\ trade.makerId = curr.id
      /\ trade.takerId = incoming.id /\ trade.takerSide = incoming.side
  BY <1>1, <1>2, <1>3, FillTyped DEF Fill
<1>5. curr.price \in Int /\ q \in Int /\ MakerFee \in Int /\ TakerFee \in Int
  <2> HIDE DEF curr
  <2>1. curr.price \in Price
    BY <1>2 DEF Order
  <2>2. curr.price \in Int
    BY <2>1, TypesAssumption
  <2>3. q \in Int
    BY <1>3
  <2> QED
    BY <2>2, <2>3, FeesAssumption
<1> DEFINE m == IF curr.id \in minted THEN q ELSE 0
           t == IF incoming.id \in minted THEN q ELSE 0
           o(s) == IF s = Contra THEN m ELSE t
           v(s) == o(s) * curr.price
<1>6. executed' = [shares |-> [s \in Side |-> executed.shares[s] + o(s)],
                   value  |-> [s \in Side |-> executed.value[s] + v(s)],
                   made   |-> executed.made + m,
                   taken  |-> executed.taken + t,
                   fills  |-> executed.fills + (IF curr.id \in minted THEN 1 ELSE 0)
                                             + (IF incoming.id \in minted THEN 1 ELSE 0)]
  <2>1. \A s \in Side : (IF (IF s = Contra THEN curr.id ELSE incoming.id) \in minted THEN q ELSE 0) = o(s)
    OBVIOUS
  <2> QED
    BY <1>3, <2>1 DEF executions
<1>7. /\ m \in Int /\ t \in Int /\ \A s \in Side : o(s) \in Int /\ v(s) \in Int
  <2>1. m \in Int /\ t \in Int
    BY <1>5
  <2>2. \A s \in Side : o(s) \in Int
    BY <2>1
  <2> HIDE DEF m, t, o
  <2> QED
    BY <1>5, <2>1, <2>2, Products
<1>8. /\ executed.shares["BUY"] \in Int /\ executed.shares["SELL"] \in Int
      /\ executed.value["BUY"] \in Int /\ executed.value["SELL"] \in Int
      /\ executed.made \in Int /\ executed.taken \in Int /\ executed.fills \in Nat
      /\ executed.shares \in [Side -> Int] /\ executed.value \in [Side -> Int]
  BY DEF Executions, Side
<1>9. executed' \in Executions
  <2> HIDE DEF curr, m, t, o, v
  <2> QED
    BY <1>6, <1>7, <1>8 DEF Executions
<1>10. Balance(executed') = applyTrade(Balance(executed), trade, minted)
  <2> DEFINE b == Balance(executed)
             n == Balance(executed')
             p == q * curr.price
             fm == MakerFee * q
             ft == TakerFee * q
             em == MakerFee * executed.made
             et == TakerFee * executed.taken
  <2>1. /\ p \in Int /\ fm \in Int /\ ft \in Int /\ em \in Int /\ et \in Int
    BY <1>5, <1>8, Products
  <2>2. /\ MakerFee * (executed.made + m) = em + (IF curr.id \in minted THEN fm ELSE 0)
        /\ TakerFee * (executed.taken + t) = et + (IF incoming.id \in minted THEN ft ELSE 0)
    <3> HIDE DEF curr
    <3>1. MakerFee * m = IF curr.id \in minted THEN fm ELSE 0
      BY <1>5, Products
    <3>2. TakerFee * t = IF incoming.id \in minted THEN ft ELSE 0
      BY <1>5, Products
    <3> HIDE DEF m, t, fm, ft
    <3> QED
      BY <1>5, <1>7, <1>8, <3>1, <3>2, Products
  <2>3. \A s \in Side : v(s) = IF s = Contra THEN (IF curr.id \in minted THEN p ELSE 0)
                                             ELSE (IF incoming.id \in minted THEN p ELSE 0)
    BY <1>5, Products
  <2>4. /\ b.position = executed.shares["BUY"] - executed.shares["SELL"]
        /\ b.cash = executed.value["SELL"] - executed.value["BUY"] - em - et
        /\ b.fills = executed.fills
        /\ b.position \in Int /\ b.cash \in Int /\ b.fills \in Nat
    <3>1. b \in Ledger
      BY BalanceTyped
    <3> QED
      BY <3>1 DEF Balance, Ledger
  <2>5. n = [position |-> (executed.shares["BUY"] + o("BUY")) - (executed.shares["SELL"] + o("SELL")),
             cash |-> (executed.value["SELL"] + v("SELL")) - (executed.value["BUY"] + v("BUY"))
                        - MakerFee * (executed.made + m) - TakerFee * (executed.taken + t),
             fills |-> executed.fills + (IF curr.id \in minted THEN 1 ELSE 0)
                                      + (IF incoming.id \in minted THEN 1 ELSE 0)]
    <3> HIDE DEF curr, m, t, o, v
    <3> QED
      BY <1>6 DEF Balance, Side
  <2>6. (-q) * curr.price = -p
    BY <1>5, Products
  <2>7. \A l, fee : /\ record(l, "BUY", trade, fee)
                  = [position |-> l.position + q, cash |-> l.cash - p - fee * q, fills |-> l.fills + 1]
               /\ record(l, "SELL", trade, fee)
                  = [position |-> l.position + (-q), cash |-> l.cash - (-p) - fee * q, fills |-> l.fills + 1]
    <3> HIDE DEF trade
    <3> QED
      BY <1>4, <2>6 DEF record
  <2> DEFINE made == IF curr.id \in minted THEN record(b, Opposite(incoming.side), trade, MakerFee) ELSE b
  <2>8. applyTrade(b, trade, minted)
          = IF incoming.id \in minted THEN record(made, incoming.side, trade, TakerFee) ELSE made
    <3> HIDE DEF trade, b
    <3> QED
      BY <1>4 DEF applyTrade
  <2>9. b = [position |-> b.position, cash |-> b.cash, fills |-> b.fills]
    BY DEF Balance
  <2> HIDE DEF trade, curr, p, fm, ft, em, et, b, n, v
  <2>10. CASE incoming.side = "BUY"
    <3>1. Contra = "SELL" /\ o("BUY") = t /\ o("SELL") = m
      BY <1>1, <2>10 DEF Opposite
    <3>2. /\ v("SELL") = (IF curr.id \in minted THEN p ELSE 0)
          /\ v("BUY") = (IF incoming.id \in minted THEN p ELSE 0)
      BY <2>3, <3>1 DEF Side
    <3>3. made = IF curr.id \in minted
                 THEN [position |-> b.position + (-q), cash |-> b.cash - (-p) - fm, fills |-> b.fills + 1]
                 ELSE b
      BY <2>7, <2>10 DEF Opposite, fm
    <3>4. /\ made.position = b.position - m
          /\ made.cash = b.cash + v("SELL") - (IF curr.id \in minted THEN fm ELSE 0)
          /\ made.fills = b.fills + (IF curr.id \in minted THEN 1 ELSE 0)
          /\ made = [position |-> made.position, cash |-> made.cash, fills |-> made.fills]
      BY <1>5, <2>1, <2>4, <2>9, <3>2, <3>3
    <3> HIDE DEF made
    <3>5. applyTrade(b, trade, minted)
            = IF incoming.id \in minted
              THEN [position |-> made.position + q, cash |-> made.cash - p - ft, fills |-> made.fills + 1]
              ELSE made
      BY <2>7, <2>8, <2>10 DEF ft
    <3>6. /\ n.position = made.position + t
          /\ n.cash = made.cash - v("BUY") - (IF incoming.id \in minted THEN ft ELSE 0)
          /\ n.fills = made.fills + (IF incoming.id \in minted THEN 1 ELSE 0)
          /\ n = [position |-> n.position, cash |-> n.cash, fills |-> n.fills]
      BY <1>5, <1>7, <1>8, <2>1, <2>2, <2>4, <2>5, <3>1, <3>2, <3>4
    <3>7. made.position \in Int /\ made.cash \in Int /\ made.fills \in Nat
      BY <1>5, <1>7, <2>1, <2>4, <3>2, <3>4
    <3>8. n = IF incoming.id \in minted
              THEN [position |-> made.position + q, cash |-> made.cash - p - ft, fills |-> made.fills + 1]
              ELSE made
      BY <1>5, <2>1, <3>2, <3>4, <3>6, <3>7
    <3> QED
      BY <3>5, <3>8 DEF n, b
  <2>11. CASE incoming.side = "SELL"
    <3>1. Contra = "BUY" /\ o("SELL") = t /\ o("BUY") = m
      BY <1>1, <2>11 DEF Opposite
    <3>2. /\ v("BUY") = (IF curr.id \in minted THEN p ELSE 0)
          /\ v("SELL") = (IF incoming.id \in minted THEN p ELSE 0)
      BY <2>3, <3>1 DEF Side
    <3>3. made = IF curr.id \in minted
                 THEN [position |-> b.position + q, cash |-> b.cash - p - fm, fills |-> b.fills + 1]
                 ELSE b
      BY <2>7, <2>11 DEF Opposite, fm
    <3>4. /\ made.position = b.position + m
          /\ made.cash = b.cash - v("BUY") - (IF curr.id \in minted THEN fm ELSE 0)
          /\ made.fills = b.fills + (IF curr.id \in minted THEN 1 ELSE 0)
          /\ made = [position |-> made.position, cash |-> made.cash, fills |-> made.fills]
      BY <1>5, <2>1, <2>4, <2>9, <3>2, <3>3
    <3> HIDE DEF made
    <3>5. applyTrade(b, trade, minted)
            = IF incoming.id \in minted
              THEN [position |-> made.position + (-q), cash |-> made.cash - (-p) - ft, fills |-> made.fills + 1]
              ELSE made
      BY <2>7, <2>8, <2>11 DEF ft
    <3>6. /\ n.position = made.position - t
          /\ n.cash = made.cash + v("SELL") - (IF incoming.id \in minted THEN ft ELSE 0)
          /\ n.fills = made.fills + (IF incoming.id \in minted THEN 1 ELSE 0)
          /\ n = [position |-> n.position, cash |-> n.cash, fills |-> n.fills]
      BY <1>5, <1>7, <1>8, <2>1, <2>2, <2>4, <2>5, <3>1, <3>2, <3>4
    <3>7. made.position \in Int /\ made.cash \in Int /\ made.fills \in Nat
      BY <1>5, <1>7, <2>1, <2>4, <3>2, <3>4
    <3>8. n = IF incoming.id \in minted
              THEN [position |-> made.position + (-q), cash |-> made.cash - (-p) - ft, fills |-> made.fills + 1]
              ELSE made
      BY <1>5, <2>1, <3>2, <3>4, <3>6, <3>7
    <3> QED
      BY <3>5, <3>8 DEF n, b
  <2> QED
    BY <1>1, <2>10, <2>11 DEF Side
<1> QED
  BY <1>3, <1>4, <1>9, <1>10

(* One trade more.                                                         *)
LEMMA ApplyOne ==
  ASSUME NEW trade \in Trade, NEW l \in Ledger, NEW ids
  PROVE  applyTrades(l, <<trade>>, ids) = applyTrade(l, trade, ids)
<1> DEFINE one == <<trade>>
<1>1. one \in Seq(Trade) /\ Len(one) = 1 /\ one[1] = trade
  OBVIOUS
<1> HIDE DEF one
<1>2. PICK r : Runs(r, l, one, ids) /\ applyTrades(l, one, ids) = r[Len(one)]
  BY <1>1, ApplyRuns
<1>3. r[0] = l /\ \A i \in 1..1 : r[i] = applyTrade(r[i - 1], one[i], ids)
  BY <1>1, <1>2 DEF Runs
<1>4. r[1] = applyTrade(r[1 - 1], one[1], ids) /\ 1 - 1 = 0
  BY <1>3
<1> QED
  BY <1>1, <1>2, <1>3, <1>4 DEF one

LEMMA ApplyAppended ==
  ASSUME NEW trades \in Seq(Trade), NEW trade \in Trade, NEW l \in Ledger, NEW ids
  PROVE  applyTrades(l, Append(trades, trade), ids) = applyTrade(applyTrades(l, trades, ids), trade, ids)
<1> DEFINE one == <<trade>>
<1>1. one \in Seq(Trade) /\ Append(trades, trade) = trades \o one
  OBVIOUS
<1>2. applyTrades(l, trades, ids) \in Ledger
  BY ApplyTyped
<1>3. applyTrades(applyTrades(l, trades, ids), one, ids)
        = applyTrade(applyTrades(l, trades, ids), trade, ids)
  BY <1>2, ApplyOne
<1> HIDE DEF one
<1>4. applyTrades(l, trades \o one, ids) = applyTrades(applyTrades(l, trades, ids), one, ids)
  BY <1>1, ApplyConcat
<1> QED
  BY <1>1, <1>3, <1>4

-----------------------------------------------------------------------------
(* The loop: what its variables hold and what it is in the middle of.      *)

Event == {ADD(order) : order \in Submissions}
         \cup {AMEND(id, quantity) : id \in OrderID, quantity \in Quantity}
         \cup {CANCEL(id) : id \in OrderID}

Pending == IF applying THEN Tail(events) ELSE events

IsAdd(i) == events[i].type = "ADD"

LoopShape ==
  /\ events \in Seq(Event)
  /\ ~applying => Idle
  /\ applying => events # <<>>
  /\ ~Idle => /\ events[1].type = "ADD"
              /\ incoming = [events[1].order EXCEPT !.quantity = incoming.quantity]
  /\ \A i, j \in DOMAIN events : i < j /\ IsAdd(i) => IsAdd(j)
  /\ phase = "flow" => events = <<>> /\ ~applying /\ tickTrades = <<>>

LoopInv == SimTypeOK /\ HusksAtFront /\ Uncrossed /\ PricesFinite /\ LoopShape

(* The best price of a side that has one.                                  *)
LEMMA QuotePrice ==
  ASSUME TypeOK, PricesFinite, NEW side \in Side
  PROVE  /\ Quote(side).price \in Int
         /\ DOMAIN book[side] # {} =>
              /\ Quote(side).price \in DOMAIN book[side]
              /\ \A p \in DOMAIN book[side] : ~Better(side, p, Quote(side).price)
<1>1. CASE DOMAIN book[side] = {}
  BY <1>1 DEF Quote, Absent
<1>2. CASE DOMAIN book[side] # {}
  <2>1. /\ BestPrice(side) \in DOMAIN book[side]
        /\ \A p \in DOMAIN book[side] : ~Better(side, p, BestPrice(side))
    BY <1>2, BestPriceIs DEF PricesFinite
  <2>2. Quote(side).price = BestPrice(side)
    BY <1>2 DEF Quote
  <2>3. DOMAIN book[side] \subseteq Int
    BY TypesAssumption DEF TypeOK, BookTyped
  <2> QED
    BY <1>2, <2>1, <2>2, <2>3
<1> QED
  BY <1>1, <1>2

(* A call of an event keeps the book sound.                                *)
LEMMA Dispatched ==
  ASSUME IInv, PricesFinite, NEW e \in Event, dispatch(e)
  PROVE  /\ IInv' /\ PricesFinite' /\ Idle /\ lastTrades' = <<>>
         /\ \A side \in Side : DOMAIN book'[side] \subseteq DOMAIN book[side]
         /\ \/ e.type = "ADD" /\ incoming' = e.order /\ e.order \in Order /\ book' = book
            \/ e.type # "ADD" /\ incoming' = incoming
<1>1. TypeOK /\ HusksAtFront /\ Uncrossed /\ \A side \in Side : DOMAIN book[side] = DOMAIN book[side]
  BY DEF IInv
<1>2. CASE e.type = "ADD"
  <2>1. e.order \in Submissions /\ addOrder(e.order)
    BY <1>2 DEF Event, ADD, AMEND, CANCEL, dispatch
  <2>2. /\ Idle /\ lastTrades' = <<>> /\ incoming' = e.order /\ e.order \in Order
        /\ book' = book /\ incoming' \in Order
    BY <2>1, SubmissionsAssumption DEF addOrder
  <2>3. TypeOK'
    BY <1>1, <2>1, AddOrderTyped
  <2>4. HusksAtFront' /\ Uncrossed' /\ PricesFinite'
    BY <1>1, <2>2 DEF HusksAtFront, Uncrossed, PricesFinite
  <2> QED
    BY <1>2, <2>2, <2>3, <2>4 DEF IInv
<1>3. CASE e.type = "AMEND"
  <2>1. e.id \in OrderID /\ e.quantity \in Nat /\ modifyOrder(e.id, e.quantity)
    <3>1. e.id \in OrderID /\ e.quantity \in Quantity /\ modifyOrder(e.id, e.quantity)
      BY <1>3 DEF Event, ADD, AMEND, CANCEL, dispatch
    <3> QED
      BY <3>1, TypesAssumption
  <2>2. TypeOK' /\ HusksAtFront' /\ \A side \in Side : DOMAIN book'[side] = DOMAIN book[side]
    BY <1>1, <2>1, ModifyOrderTyped, ModifyOrderHusks
  <2>3. Idle /\ lastTrades' = <<>> /\ incoming' = incoming
    BY <2>1 DEF modifyOrder
  <2>4. Uncrossed' /\ PricesFinite'
    BY <1>1, <2>2 DEF Uncrossed, Side, PricesFinite
  <2> QED
    BY <1>3, <2>2, <2>3, <2>4 DEF IInv
<1>4. CASE e.type = "CANCEL"
  <2>1. e.id \in OrderID /\ cancelOrder(e.id)
    BY <1>4 DEF Event, ADD, AMEND, CANCEL, dispatch
  <2>2. TypeOK' /\ HusksAtFront' /\ \A side \in Side : DOMAIN book'[side] \subseteq DOMAIN book[side]
    BY <1>1, <2>1, CancelOrderTyped, CancelOrderHusks
  <2>3. Idle /\ lastTrades' = <<>> /\ incoming' = incoming
    BY <2>1 DEF cancelOrder
  <2>4. Uncrossed'
    BY <1>1, <2>2 DEF Uncrossed, Side
  <2>5. PricesFinite'
    BY <2>2, FS_Subset DEF PricesFinite
  <2> QED
    BY <1>4, <2>2, <2>3, <2>4, <2>5 DEF IInv
<1> QED
  BY <1>2, <1>3, <1>4 DEF dispatch

(* So does an iteration of its loop, and the order in hand is the same     *)
(* order with less of its quantity left, until it has been dealt with.     *)
LEMMA Matched ==
  ASSUME IInv, PricesFinite, Match
  PROVE  /\ IInv' /\ PricesFinite' /\ ~Idle
         /\ \/ incoming' = NoOrder
            \/ incoming' = [incoming EXCEPT !.quantity = incoming'.quantity]
<1>1. TypeOK /\ HusksAtFront /\ Uncrossed
  BY DEF IInv
<1>2. IInv'
  BY Inductive DEF Next
<1>3. PricesFinite'
  BY MatchFinite DEF EInv
<1>4. ASSUME NEW price \in Price, fillResting(price) \/ fillIncoming(price)
      PROVE  /\ ~Idle
             /\ incoming' = [incoming EXCEPT !.quantity = incoming'.quantity]
  <2>1. ~Idle
    BY <1>4 DEF fillResting, fillIncoming
  <2>2. incoming \in Order
    BY <1>1, <2>1 DEF TypeOK, Idle
  <2>3. \E q : incoming' = [incoming EXCEPT !.quantity = q]
    BY <1>4 DEF fillResting, fillIncoming
  <2>4. incoming' = [incoming EXCEPT !.quantity = incoming'.quantity]
    BY <2>2, <2>3 DEF Order
  <2> QED
    BY <2>1, <2>4
<1>5. ASSUME restRemainder
      PROVE  ~Idle /\ incoming' = NoOrder
  BY <1>5 DEF restRemainder
<1> QED
  BY <1>2, <1>3, <1>4, <1>5 DEF Match

(* Two sequences one after the other, and three.                           *)
LEMMA TwoInARow ==
  ASSUME NEW X, NEW a \in Seq(X), NEW b \in Seq(X)
  PROVE  /\ a \o b \in Seq(X) /\ Len(a \o b) = Len(a) + Len(b)
         /\ \A i \in 1..Len(a) : (a \o b)[i] = a[i]
         /\ \A i \in 1..Len(b) : (a \o b)[Len(a) + i] = b[i]
         /\ \A i \in (Len(a) + 1)..(Len(a) + Len(b)) : (a \o b)[i] = b[i - Len(a)]
OBVIOUS

InARow(X, a, b, c, s) ==
  /\ s \in Seq(X) /\ DOMAIN s = 1..(Len(a) + Len(b) + Len(c))
  /\ \A i \in DOMAIN s :
       \/ i \in DOMAIN a /\ s[i] = a[i]
       \/ i > Len(a) /\ i - Len(a) \in DOMAIN b /\ s[i] = b[i - Len(a)]
       \/ i > Len(a) + Len(b) /\ i - (Len(a) + Len(b)) \in DOMAIN c
            /\ s[i] = c[i - (Len(a) + Len(b))]
  /\ \A i \in DOMAIN a : i \in DOMAIN s /\ s[i] = a[i]
  /\ \A i \in DOMAIN c : Len(a) + Len(b) + i \in DOMAIN s /\ s[Len(a) + Len(b) + i] = c[i]

LEMMA ThreeInARow ==
  ASSUME NEW X, NEW a \in Seq(X), NEW b \in Seq(X), NEW c \in Seq(X)
  PROVE  InARow(X, a, b, c, a \o b \o c)
<1> DEFINE d == a \o b
           s == d \o c
<1>1. /\ d \in Seq(X) /\ Len(d) = Len(a) + Len(b) /\ DOMAIN d = 1..Len(d)
      /\ \A i \in 1..Len(a) : d[i] = a[i]
      /\ \A i \in 1..Len(b) : d[Len(a) + i] = b[i]
      /\ \A i \in (Len(a) + 1)..Len(d) : d[i] = b[i - Len(a)]
      /\ Len(a) \in Nat /\ Len(b) \in Nat /\ Len(c) \in Nat
      /\ DOMAIN a = 1..Len(a) /\ DOMAIN b = 1..Len(b) /\ DOMAIN c = 1..Len(c)
  BY TwoInARow
<1> HIDE DEF d
<1>2. s = d \o c
  OBVIOUS
<1> HIDE DEF s
<1>3. /\ s \in Seq(X) /\ Len(s) = Len(d) + Len(c) /\ DOMAIN s = 1..Len(s)
      /\ \A i \in 1..Len(d) : s[i] = d[i]
      /\ \A i \in 1..Len(c) : s[Len(d) + i] = c[i]
      /\ \A i \in (Len(d) + 1)..Len(s) : s[i] = c[i - Len(d)]
  <2>1. d \in Seq(X) /\ c \in Seq(X)
    BY <1>1
  <2>2. /\ d \o c \in Seq(X) /\ Len(d \o c) = Len(d) + Len(c)
        /\ \A i \in 1..Len(d) : (d \o c)[i] = d[i]
        /\ \A i \in 1..Len(c) : (d \o c)[Len(d) + i] = c[i]
        /\ \A i \in (Len(d) + 1)..(Len(d) + Len(c)) : (d \o c)[i] = c[i - Len(d)]
    BY <2>1, TwoInARow
  <2> QED
    BY <1>2, <2>2
<1>4. ASSUME NEW i \in DOMAIN s
      PROVE  \/ i \in DOMAIN a /\ s[i] = a[i]
             \/ i > Len(a) /\ i - Len(a) \in DOMAIN b /\ s[i] = b[i - Len(a)]
             \/ i > Len(a) + Len(b) /\ i - (Len(a) + Len(b)) \in DOMAIN c
                  /\ s[i] = c[i - (Len(a) + Len(b))]
  <2>1. CASE i <= Len(a)
    BY <1>1, <1>3, <2>1
  <2>2. CASE i > Len(a) /\ i <= Len(d)
    <3>1. i \in (Len(a) + 1)..Len(d) /\ i \in 1..Len(d)
      BY <1>1, <1>3, <2>2
    <3> QED
      BY <1>1, <1>3, <2>2, <3>1
  <2>3. CASE i > Len(d)
    <3>1. i \in (Len(d) + 1)..Len(s) /\ i - Len(d) \in DOMAIN c
      BY <1>1, <1>3, <2>3
    <3> QED
      BY <1>1, <1>3, <2>3, <3>1
  <2> QED
    BY <1>1, <1>3, <2>1, <2>2, <2>3
<1>5. InARow(X, a, b, c, s)
  <2>1. s \in Seq(X) /\ DOMAIN s = 1..(Len(a) + Len(b) + Len(c))
    BY <1>1, <1>3
  <2>2. ASSUME NEW i \in DOMAIN a
        PROVE  i \in DOMAIN s /\ s[i] = a[i]
    <3>1. i \in 1..Len(a) /\ i \in 1..Len(d)
      BY <1>1
    <3> QED
      BY <1>1, <1>3, <2>1, <3>1
  <2>3. ASSUME NEW i \in DOMAIN c
        PROVE  Len(a) + Len(b) + i \in DOMAIN s /\ s[Len(a) + Len(b) + i] = c[i]
    BY <1>1, <1>3, <2>1
  <2> QED
    BY <1>4, <2>1, <2>2, <2>3 DEF InARow
<1> QED
  BY <1>5 DEF s, d

(* The parts of LoopInv.                                                   *)
BookSound == IInv /\ PricesFinite

Scored ==
  /\ phase \in {"flow", "applyFlow", "applyQuotes"}
  /\ nextId \in Nat
  /\ applying \in BOOLEAN
  /\ resting \subseteq OrderID /\ mmOrders \subseteq OrderID /\ minted \subseteq OrderID
  /\ prevTrades \in Seq(Trade) /\ tickTrades \in Seq(Trade)
  /\ ledger \in Ledger /\ executed \in Executions
  /\ mark \in Int /\ told \in Nat /\ intact \in BOOLEAN

LEMMA LoopParts == LoopInv <=> BookSound /\ Scored /\ LoopShape
BY DEF LoopInv, BookSound, IInv, Scored, SimTypeOK

LEMMA LoopPartsNext == LoopInv' <=> BookSound' /\ Scored' /\ LoopShape'
BY DEF LoopInv, BookSound, IInv, Scored, SimTypeOK

(* A step that leaves the book alone.                                      *)
LEMMA BookStays ==
  ASSUME BookSound, UNCHANGED bookVars
  PROVE  BookSound' /\ (Idle' <=> Idle)
BY DEF BookSound, IInv, bookVars, TypeOK, BookTyped, IndexTyped, HusksAtFront, Uncrossed, PricesFinite,
       Idle, Contra

(* The events are of the three kinds.                                      *)
LEMMA EventKinds ==
  /\ \A order \in Submissions : ADD(order) \in Event /\ ADD(order).type = "ADD" /\ ADD(order).order = order
  /\ \A id \in OrderID : CANCEL(id) \in Event /\ CANCEL(id).type = "CANCEL" /\ CANCEL(id).id = id
  /\ \A id \in OrderID, quantity \in Quantity :
       AMEND(id, quantity) \in Event /\ AMEND(id, quantity).type = "AMEND"
<1>1. ASSUME NEW order \in Submissions
      PROVE  ADD(order) \in Event /\ ADD(order).type = "ADD" /\ ADD(order).order = order
  <2>1. ADD(order) \in Event
    BY DEF Event
  <2> QED
    BY <2>1 DEF ADD
<1>2. ASSUME NEW id \in OrderID
      PROVE  CANCEL(id) \in Event /\ CANCEL(id).type = "CANCEL" /\ CANCEL(id).id = id
  <2>1. CANCEL(id) \in Event
    BY DEF Event
  <2> QED
    BY <2>1 DEF CANCEL
<1>3. ASSUME NEW id \in OrderID, NEW quantity \in Quantity
      PROVE  AMEND(id, quantity) \in Event /\ AMEND(id, quantity).type = "AMEND"
  <2>1. AMEND(id, quantity) \in Event
    BY DEF Event
  <2> QED
    BY <2>1 DEF AMEND
<1> QED
  BY <1>1, <1>2, <1>3

(* A tick starts with at most one event.                                   *)
LEMMA StartLoop ==
  ASSUME LoopInv, NEW out \in Seq(Event), Len(out) <= 1, startTick(out),
         resting' \subseteq OrderID, nextId' \in Nat
  PROVE  LoopInv'
<1>1. BookSound /\ Scored /\ LoopShape
  BY LoopParts
<1>2. /\ phase = "flow" /\ phase' = "applyFlow" /\ events' = out /\ tickTrades' = <<>>
      /\ UNCHANGED <<bookVars, applying, prevTrades, scoreVars, truth>>
  BY DEF startTick
<1>3. BookSound' /\ (Idle' <=> Idle)
  BY <1>1, <1>2, BookStays
<1>4. Scored'
  <2>1. <<>> \in Seq(Trade)
    OBVIOUS
  <2> QED
    BY <1>1, <1>2, <2>1 DEF Scored, scoreVars, truth
<1>5. LoopShape'
  <2>1. ~applying /\ Idle
    BY <1>1, <1>2 DEF LoopShape
  <2>2. \A i, j \in DOMAIN out : ~(i < j)
    <3>1. Len(out) \in Nat /\ DOMAIN out = 1..Len(out)
      OBVIOUS
    <3> QED
      BY <3>1
  <2> QED
    BY <1>2, <1>3, <2>1, <2>2 DEF LoopShape
<1> QED
  BY <1>3, <1>4, <1>5, LoopPartsNext

(* An event is handed to the book.                                         *)
LEMMA ApplyLoop ==
  ASSUME LoopInv, apply
  PROVE  LoopInv'
<1>1. BookSound /\ Scored /\ LoopShape
  BY LoopParts
<1>2. /\ phase # "flow" /\ ~applying /\ events # <<>>
      /\ dispatch(Head(events)) /\ applying' = TRUE
      /\ intact' = (intact /\ IndexExact)
      /\ UNCHANGED <<phase, nextId, events, flowVars, tickTrades, scoreVars, minted, executed, told>>
  BY DEF apply
<1>3. events \in Seq(Event) /\ Head(events) = events[1] /\ Head(events) \in Event /\ 1 \in DOMAIN events
  BY <1>1, <1>2 DEF LoopShape
<1>4. /\ BookSound'
      /\ \/ events[1].type = "ADD" /\ incoming' = events[1].order /\ events[1].order \in Order
         \/ events[1].type # "ADD" /\ incoming' = incoming /\ Idle
  BY <1>1, <1>2, <1>3, Dispatched DEF BookSound
<1>5. Scored'
  BY <1>1, <1>2 DEF Scored, flowVars, scoreVars, IsAdd
<1>6. LoopShape'
  <2>1. CASE events[1].type = "ADD"
    <3>1. incoming' = [events[1].order EXCEPT !.quantity = incoming'.quantity]
      BY <1>4, <2>1 DEF Order
    <3> QED
      BY <1>1, <1>2, <2>1, <3>1 DEF LoopShape, IsAdd
  <2>2. CASE events[1].type # "ADD"
    BY <1>1, <1>2, <1>4, <2>2 DEF LoopShape, Idle, IsAdd
  <2> QED
    BY <2>1, <2>2
<1> QED
  BY <1>4, <1>5, <1>6, LoopPartsNext

(* The book matches.                                                       *)
LEMMA MatchLoop ==
  ASSUME LoopInv, matching
  PROVE  LoopInv'
<1>1. BookSound /\ Scored /\ LoopShape
  BY LoopParts
<1>2. Match /\ UNCHANGED <<loopVars, flowVars, tickTrades, scoreVars, minted, told, intact>>
  BY DEF matching, Match
<1>3. /\ BookSound' /\ ~Idle
      /\ incoming' = NoOrder \/ incoming' = [incoming EXCEPT !.quantity = incoming'.quantity]
  BY <1>1, <1>2, Matched DEF BookSound
<1>4. Scored'
  <2>1. executed' \in Executions
    <3>1. TypeOK /\ executed \in Executions
      BY <1>1 DEF BookSound, IInv, Scored
    <3> QED
      BY <3>1, FillExecuted DEF matching
  <2> QED
    BY <1>1, <1>2, <2>1 DEF Scored, loopVars, flowVars, scoreVars
<1>5. LoopShape'
  <2>1. applying /\ phase # "flow"
    BY <1>1, <1>3 DEF LoopShape
  <2>2. ~Idle' => /\ events[1].type = "ADD"
                  /\ incoming' = [events[1].order EXCEPT !.quantity = incoming'.quantity]
    <3>1. SUFFICES ASSUME ~Idle'
                   PROVE  /\ events[1].type = "ADD"
                          /\ incoming' = [events[1].order EXCEPT !.quantity = incoming'.quantity]
      OBVIOUS
    <3>2. /\ events[1].type = "ADD" /\ incoming = [events[1].order EXCEPT !.quantity = incoming.quantity]
          /\ incoming' = [incoming EXCEPT !.quantity = incoming'.quantity]
      BY <1>1, <1>3, <3>1 DEF LoopShape, Idle
    <3>3. events[1].order \in Order
      BY <1>1, <1>3, <3>2, SubmissionsAssumption DEF LoopShape, Event, ADD, AMEND, CANCEL
    <3> QED
      BY <3>2, <3>3 DEF Order
  <2> QED
    BY <1>1, <1>2, <2>1, <2>2 DEF LoopShape, loopVars, IsAdd
<1> QED
  BY <1>3, <1>4, <1>5, LoopPartsNext

(* Its trades are read.                                                    *)
LEMMA DrainLoop ==
  ASSUME LoopInv, drain
  PROVE  LoopInv'
<1>1. BookSound /\ Scored /\ LoopShape
  BY LoopParts
<1>2. /\ applying /\ Idle /\ applying' = FALSE /\ events' = Tail(events)
      /\ tickTrades' = tickTrades \o lastTrades
      /\ UNCHANGED <<bookVars, phase, nextId, flowVars, scoreVars, truth>>
  BY DEF drain
<1>3. BookSound' /\ Idle'
  BY <1>1, <1>2, BookStays
<1>4. Scored'
  <2>1. lastTrades \in Seq(Trade) /\ tickTrades \in Seq(Trade)
    BY <1>1 DEF BookSound, IInv, TypeOK, Scored
  <2>2. tickTrades' \in Seq(Trade)
    BY <1>2, <2>1
  <2> QED
    BY <1>1, <1>2, <2>2 DEF Scored, flowVars, scoreVars, truth
<1>5. LoopShape'
  <2>1. /\ events \in Seq(Event) /\ events # <<>> /\ phase # "flow"
        /\ \A i, j \in DOMAIN events : i < j /\ IsAdd(i) => IsAdd(j)
    BY <1>1, <1>2 DEF LoopShape
  <2>2. /\ Tail(events) \in Seq(Event) /\ DOMAIN Tail(events) = 1..(Len(events) - 1)
        /\ \A i \in 1..(Len(events) - 1) : Tail(events)[i] = events[i + 1]
        /\ Len(events) \in Nat \ {0} /\ DOMAIN events = 1..Len(events)
    BY <2>1
  <2>3. ASSUME NEW i \in DOMAIN events', NEW j \in DOMAIN events', i < j, IsAdd(i)'
        PROVE  IsAdd(j)'
    <3>1. /\ i + 1 \in DOMAIN events /\ j + 1 \in DOMAIN events /\ i + 1 < j + 1
          /\ events'[i] = events[i + 1] /\ events'[j] = events[j + 1]
      BY <1>2, <2>2, <2>3
    <3> QED
      BY <2>1, <2>3, <3>1 DEF IsAdd
  <2> QED
    BY <1>2, <1>3, <2>1, <2>2, <2>3 DEF LoopShape
<1> QED
  BY <1>3, <1>4, <1>5, LoopPartsNext

(* What the market maker emits.                                            *)
LEMMA AtMostTyped ==
  ASSUME NEW n \in Nat, NEW S, NEW s \in AtMost(n, S)
  PROVE  s \in Seq(S)
<1>1. PICK k \in 0..n : s \in [1..k -> S]
  BY DEF AtMost
<1> QED
  BY <1>1

Batch(cancels, amends, quotes) ==
  [i \in DOMAIN cancels |-> CANCEL(cancels[i])]
  \o [i \in DOMAIN amends |-> AMEND(amends[i][1], amends[i][2])]
  \o [i \in DOMAIN quotes |-> ADD(quotes[i])]

(* Its cancels come first, then its amends, then its quotes.               *)
LEMMA BatchProperties ==
  ASSUME mmOrders \subseteq OrderID, NEW cancels \in Cancels, NEW amends \in Amends, NEW quotes \in Quotes
  PROVE  LET batch == Batch(cancels, amends, quotes)
             before == Len(cancels) + Len(amends)
         IN /\ batch \in Seq(Event)
            /\ cancels \in Seq(mmOrders) /\ quotes \in Seq(Submissions) /\ before \in Nat
            /\ \A i \in DOMAIN batch :
                 \/ batch[i].type # "ADD" /\ i <= before
                 \/ /\ i > before /\ i - before \in DOMAIN quotes
                    /\ batch[i].type = "ADD" /\ batch[i] = ADD(quotes[i - before])
                    /\ batch[i].order = quotes[i - before]
            /\ \A i \in DOMAIN cancels : i \in DOMAIN batch /\ batch[i] = CANCEL(cancels[i])
            /\ \A i \in DOMAIN quotes :
                 before + i \in DOMAIN batch /\ batch[before + i] = ADD(quotes[i])
<1>1. /\ cancels \in Seq(mmOrders) /\ amends \in Seq(mmOrders \X Quantity) /\ quotes \in Seq(Submissions)
  <2>1. cancels \in Seq(mmOrders)
    BY SimAssumption, AtMostTyped DEF Cancels
  <2>2. amends \in Seq(mmOrders \X Quantity)
    BY SimAssumption, AtMostTyped DEF Amends
  <2>3. quotes \in Seq({o \in Submissions : o.id >= nextId /\ o.id < nextId + MaxQuotes})
    BY SimAssumption, AtMostTyped DEF Quotes
  <2>4. quotes \in Seq(Submissions)
    BY <2>3
  <2> QED
    BY <2>1, <2>2, <2>4
<1> DEFINE a == [i \in DOMAIN cancels |-> CANCEL(cancels[i])]
           b == [i \in DOMAIN amends |-> AMEND(amends[i][1], amends[i][2])]
           c == [i \in DOMAIN quotes |-> ADD(quotes[i])]
           s == Batch(cancels, amends, quotes)
<1>2. /\ a \in Seq(Event) /\ Len(a) = Len(cancels) /\ DOMAIN a = DOMAIN cancels
      /\ \A i \in DOMAIN a : a[i] = CANCEL(cancels[i]) /\ a[i].type = "CANCEL"
  <2>1. \A i \in DOMAIN cancels : cancels[i] \in OrderID
    BY <1>1
  <2>2. \A i \in DOMAIN cancels : CANCEL(cancels[i]) \in Event /\ CANCEL(cancels[i]).type = "CANCEL"
    BY <2>1, EventKinds
  <2> QED
    BY <1>1, <2>2
<1>3. /\ b \in Seq(Event) /\ Len(b) = Len(amends) /\ DOMAIN b = DOMAIN amends
      /\ \A i \in DOMAIN b : b[i].type = "AMEND"
  <2>1. \A i \in DOMAIN amends : amends[i] \in mmOrders \X Quantity
    BY <1>1
  <2>2. \A i \in DOMAIN amends : amends[i][1] \in OrderID /\ amends[i][2] \in Quantity
    BY <2>1
  <2>3. \A i \in DOMAIN amends : /\ AMEND(amends[i][1], amends[i][2]) \in Event
                                 /\ AMEND(amends[i][1], amends[i][2]).type = "AMEND"
    BY <2>2, EventKinds
  <2> QED
    BY <1>1, <2>3
<1>4. /\ c \in Seq(Event) /\ Len(c) = Len(quotes) /\ DOMAIN c = DOMAIN quotes
      /\ \A i \in DOMAIN c : c[i] = ADD(quotes[i]) /\ c[i].type = "ADD" /\ c[i].order = quotes[i]
  <2>1. \A i \in DOMAIN quotes : quotes[i] \in Submissions
    BY <1>1
  <2>2. \A i \in DOMAIN quotes : /\ ADD(quotes[i]) \in Event /\ ADD(quotes[i]).type = "ADD"
                                 /\ ADD(quotes[i]).order = quotes[i]
    BY <2>1, EventKinds
  <2> QED
    BY <1>1, <2>2
<1>5. s = a \o b \o c
  BY DEF Batch
<1>6. Len(cancels) \in Nat /\ Len(amends) \in Nat /\ Len(quotes) \in Nat
      /\ DOMAIN cancels = 1..Len(cancels) /\ DOMAIN amends = 1..Len(amends)
  BY <1>1
<1> HIDE DEF a, b, c, s
<1>11. InARow(Event, a, b, c, s)
  BY <1>2, <1>3, <1>4, <1>5, ThreeInARow
<1>7. /\ s \in Seq(Event) /\ DOMAIN s = 1..(Len(a) + Len(b) + Len(c))
      /\ \A i \in DOMAIN s :
           \/ i \in DOMAIN a /\ s[i] = a[i]
           \/ i > Len(a) /\ i - Len(a) \in DOMAIN b /\ s[i] = b[i - Len(a)]
           \/ i > Len(a) + Len(b) /\ i - (Len(a) + Len(b)) \in DOMAIN c
                /\ s[i] = c[i - (Len(a) + Len(b))]
      /\ \A i \in DOMAIN a : i \in DOMAIN s /\ s[i] = a[i]
      /\ \A i \in DOMAIN c : Len(a) + Len(b) + i \in DOMAIN s /\ s[Len(a) + Len(b) + i] = c[i]
  BY <1>11 DEF InARow
<1> DEFINE before == Len(cancels) + Len(amends)
<1>8. before = Len(a) + Len(b) /\ before \in Nat
  BY <1>2, <1>3, <1>6
<1>9. ASSUME NEW i \in DOMAIN s
      PROVE  \/ s[i].type # "ADD" /\ i <= before
             \/ /\ i > before /\ i - before \in DOMAIN quotes
                /\ s[i].type = "ADD" /\ s[i] = ADD(quotes[i - before])
                /\ s[i].order = quotes[i - before]
  <2>0. i \in Nat
    BY <1>2, <1>3, <1>4, <1>6, <1>7
  <2>1. CASE i \in DOMAIN a /\ s[i] = a[i]
    BY <1>2, <1>6, <2>0, <2>1
  <2>2. CASE i > Len(a) /\ i - Len(a) \in DOMAIN b /\ s[i] = b[i - Len(a)]
    <3>1. i <= before
      BY <1>2, <1>3, <1>6, <2>0, <2>2
    <3> QED
      BY <1>3, <2>2, <3>1
  <2>3. CASE i > before /\ i - before \in DOMAIN c /\ s[i] = c[i - before]
    BY <1>4, <2>3
  <2> QED
    BY <1>7, <1>8, <2>1, <2>2, <2>3
<1> QED
  BY <1>1, <1>2, <1>4, <1>7, <1>8, <1>9 DEF s

(* The market maker acts.                                                  *)
LEMMA QuoteLoop ==
  ASSUME LoopInv, NEW cancels \in Cancels, NEW amends \in Amends, NEW quotes \in Quotes,
         quote(cancels, amends, quotes)
  PROVE  LoopInv'
<1> DEFINE dropped == {cancels[i] : i \in DOMAIN cancels}
           new == {quotes[i].id : i \in DOMAIN quotes}
           batch == Batch(cancels, amends, quotes)
           before == Len(cancels) + Len(amends)
<1>1. BookSound /\ Scored /\ LoopShape
  BY LoopParts
<1>2. /\ phase = "applyFlow" /\ events = <<>> /\ ~applying /\ phase' = "applyQuotes"
      /\ events' = batch
      /\ nextId' = nextId + Len(quotes)
      /\ mmOrders' = (mmOrders \ dropped) \cup new
      /\ minted' = minted \cup new
      /\ told' = told + Cardinality(myFills)
      /\ UNCHANGED <<bookVars, applying, flowVars, tickTrades, ledger, mark, executed, intact>>
  BY DEF quote, registered, Batch
<1>3. mmOrders \subseteq OrderID
  BY <1>1 DEF Scored
<1>4. /\ batch \in Seq(Event) /\ quotes \in Seq(Submissions)
      /\ \A i \in DOMAIN batch :
           \/ batch[i].type # "ADD" /\ i <= before
           \/ i > before /\ batch[i].type = "ADD"
      /\ before \in Nat
  BY <1>3, BatchProperties
<1>5. new \subseteq OrderID
  <2>1. \A i \in DOMAIN quotes : quotes[i] \in Order
    BY <1>4, SubmissionsAssumption
  <2> QED
    BY <2>1 DEF Order
<1>6. Cardinality(myFills) \in Nat
  <2>1. DOMAIN tickTrades = 1..Len(tickTrades) /\ Len(tickTrades) \in Nat /\ myFills \subseteq DOMAIN tickTrades
    BY <1>1 DEF Scored, myFills
  <2>2. IsFiniteSet(1..Len(tickTrades))
    BY <2>1, FS_Interval
  <2> QED
    BY <2>1, <2>2, FS_Subset, FS_CardinalityType
<1> HIDE DEF batch, new, dropped, before
<1>7. BookSound' /\ (Idle' <=> Idle)
  BY <1>1, <1>2, BookStays
<1>8. Scored'
  <2>1. nextId' \in Nat
    BY <1>1, <1>2, <1>4 DEF Scored
  <2>2. told' \in Nat
    BY <1>1, <1>2, <1>6 DEF Scored
  <2> QED
    BY <1>1, <1>2, <1>5, <2>1, <2>2 DEF Scored, flowVars
<1>9. LoopShape'
  <2>1. ASSUME NEW i \in DOMAIN batch, NEW j \in DOMAIN batch, i < j, batch[i].type = "ADD"
        PROVE  batch[j].type = "ADD"
    <3>1. i > before /\ DOMAIN batch = 1..Len(batch) /\ Len(batch) \in Nat
      BY <1>4, <2>1
    <3>2. ~(j <= before)
      BY <1>4, <2>1, <3>1
    <3> QED
      BY <1>4, <3>2
  <2> QED
    BY <1>1, <1>2, <1>4, <1>7, <2>1 DEF LoopShape, IsAdd
<1> QED
  BY <1>7, <1>8, <1>9, LoopPartsNext

(* The tick is scored.                                                     *)
LEMMA ScoreLoop ==
  ASSUME LoopInv, score
  PROVE  LoopInv'
<1>1. BookSound /\ Scored /\ LoopShape
  BY LoopParts
<1>2. /\ phase = "applyQuotes" /\ events = <<>> /\ ~applying /\ phase' = "flow"
      /\ ledger' = applyTrades(ledger, tickTrades, mmOrders)
      /\ mark' = (IF Quote("BUY").price # Absent /\ Quote("SELL").price # Absent
                  THEN Quote("BUY").price + Quote("SELL").price ELSE mark)
      /\ prevTrades' = tickTrades /\ tickTrades' = <<>>
      /\ UNCHANGED <<bookVars, nextId, events, applying, resting, mmOrders, truth>>
  BY DEF score
<1>3. BookSound' /\ (Idle' <=> Idle)
  BY <1>1, <1>2, BookStays
<1>4. Scored'
  <2>1. ledger' \in Ledger
    BY <1>1, <1>2, ApplyTyped DEF Scored
  <2>2. Quote("BUY").price \in Int /\ Quote("SELL").price \in Int
    BY <1>1, QuotePrice DEF BookSound, IInv, Side
  <2>3. mark' \in Int
    BY <1>1, <1>2, <2>2 DEF Scored
  <2>4. <<>> \in Seq(Trade)
    OBVIOUS
  <2> QED
    BY <1>1, <1>2, <2>1, <2>3, <2>4 DEF Scored, truth
<1>5. LoopShape'
  BY <1>1, <1>2, <1>3 DEF LoopShape, IsAdd
<1> QED
  BY <1>3, <1>4, <1>5, LoopPartsNext

(* The first state.                                                        *)
LEMMA LoopInitially == SimInit => LoopInv
<1> SUFFICES ASSUME SimInit PROVE LoopInv
  OBVIOUS
<1>1. Init /\ IInv
  BY Initially DEF SimInit
<1>2. PricesFinite
  <2>1. \A side \in Side : DOMAIN book[side] = {}
    BY <1>1 DEF Init
  <2> QED
    BY <2>1, FS_EmptySet DEF PricesFinite
<1>3. Scored
  <2>1. FlatLedger \in Ledger /\ NoExecutions \in Executions
    BY DEF FlatLedger, Ledger, NoExecutions, Executions
  <2>2. <<>> \in Seq(Trade)
    OBVIOUS
  <2>3. applying \in BOOLEAN /\ intact \in BOOLEAN
    BY DEF SimInit
  <2>4. /\ phase = "flow" /\ nextId = 1 /\ mark = 0 /\ told = 0
        /\ resting = {} /\ mmOrders = {} /\ minted = {}
        /\ prevTrades = <<>> /\ tickTrades = <<>> /\ ledger = FlatLedger /\ executed = NoExecutions
    BY DEF SimInit
  <2> QED
    BY <2>1, <2>2, <2>3, <2>4 DEF Scored
<1>4. LoopShape
  BY <1>1 DEF SimInit, LoopShape, Init, Idle
<1> QED
  BY <1>1, <1>2, <1>3, <1>4, LoopParts DEF BookSound

LEMMA LoopInductive == LoopInv /\ [SimNext]_vars => LoopInv'
<1> SUFFICES ASSUME LoopInv, [SimNext]_vars PROVE LoopInv'
  OBVIOUS
<1>0. BookSound /\ Scored /\ LoopShape
  BY LoopParts
<1>1. CASE flowIdles
  <2>1. startTick(<<>>) /\ resting' = tracked /\ nextId' = nextId
    BY <1>1 DEF flowIdles
  <2>2. resting' \subseteq OrderID /\ nextId' \in Nat
    BY <1>0, <2>1 DEF tracked, Scored
  <2>3. <<>> \in Seq(Event) /\ Len(<<>>) <= 1
    OBVIOUS
  <2> QED
    BY <2>1, <2>2, <2>3, StartLoop
<1>2. ASSUME NEW order \in Submissions, flowAdds(order)
      PROVE  LoopInv'
  <2> DEFINE out == <<ADD(order)>>
  <2>1. startTick(out) /\ resting' = tracked \cup {order.id} /\ nextId' = nextId + 1
    BY <1>2 DEF flowAdds
  <2>2. resting' \subseteq OrderID /\ nextId' \in Nat
    BY <1>0, <2>1, SubmissionsAssumption DEF tracked, Scored, Order
  <2>3. out \in Seq(Event) /\ Len(out) <= 1
    BY EventKinds
  <2> HIDE DEF out
  <2> QED
    BY <2>1, <2>2, <2>3, StartLoop
<1>3. ASSUME NEW id \in OrderID, flowCancels(id)
      PROVE  LoopInv'
  <2> DEFINE out == <<CANCEL(id)>>
  <2>1. startTick(out) /\ resting' = tracked \ {id} /\ nextId' = nextId
    BY <1>3 DEF flowCancels
  <2>2. resting' \subseteq OrderID /\ nextId' \in Nat
    BY <1>0, <2>1 DEF tracked, Scored
  <2>3. out \in Seq(Event) /\ Len(out) <= 1
    BY EventKinds
  <2> HIDE DEF out
  <2> QED
    BY <2>1, <2>2, <2>3, StartLoop
<1>4. CASE UNCHANGED vars
  <2>1. /\ UNCHANGED bookVars
        /\ UNCHANGED <<loopVars, flowVars, tickTrades, scoreVars, truth>>
    BY <1>4 DEF vars
  <2>2. BookSound' /\ (Idle' <=> Idle)
    BY <1>0, <2>1, BookStays
  <2>3. Scored'
    BY <1>0, <2>1 DEF Scored, loopVars, flowVars, scoreVars, truth
  <2>4. LoopShape'
    BY <1>0, <2>1, <2>2 DEF LoopShape, loopVars, IsAdd, bookVars
  <2> QED
    BY <2>2, <2>3, <2>4, LoopPartsNext
<1> QED
  BY <1>1, <1>2, <1>3, <1>4, ApplyLoop, MatchLoop, DrainLoop, QuoteLoop, ScoreLoop DEF SimNext

(* The loop is in such a state always.                                     *)
LEMMA LoopInvariance == SimSpec => []LoopInv
<1>1. SimInit => LoopInv
  BY LoopInitially
<1>2. LoopInv /\ [SimNext]_vars => LoopInv'
  BY LoopInductive
<1> QED
  BY <1>1, <1>2, PTL DEF SimSpec

(* The variables of the backtest keep their types.                         *)
THEOREM SimTypeCorrect == SimSpec => []SimTypeOK
<1>1. LoopInv => SimTypeOK
  BY DEF LoopInv
<1> QED
  BY <1>1, LoopInvariance, PTL

-----------------------------------------------------------------------------
(* The ids on the book: what each call does to them.                       *)

IdsIn(d) == {d.slots[i].id : i \in Live(d)}

Unique(d) == \A i, j \in Live(d) : d.slots[i].id = d.slots[j].id => i = j

(* No id stands at two places of the book.                                 *)
Distinct ==
  /\ \A s \in Side : \A p \in DOMAIN book[s] : Unique(book[s][p].orders)
  /\ \A s, t \in Side : \A p \in DOMAIN book[s] : \A q \in DOMAIN book[t] :
       \A id \in IdsIn(book[s][p].orders) : id \in IdsIn(book[t][q].orders) => s = t /\ p = q

(* An id on the book stands in a level.                                    *)
LEMMA OnALevel ==
  \A id : id \in RestingIds <=>
            \E s \in Side : \E p \in DOMAIN book[s] : id \in IdsIn(book[s][p].orders)
<1>1. RestingIds = UNION {UNION {IdsIn(book[s][p].orders) : p \in DOMAIN book[s]} : s \in Side}
  BY DEF RestingIds, IdsOn, IdsIn, Side
<1> QED
  BY <1>1

LEMMA OnALevelNext ==
  \A id : id \in RestingIds' <=>
            \E s \in Side : \E p \in DOMAIN book'[s] : id \in IdsIn(book'[s][p].orders)
<1>1. RestingIds' = UNION {UNION {IdsIn(book'[s][p].orders) : p \in DOMAIN book'[s]} : s \in Side}
  BY DEF RestingIds, IdsOn, IdsIn, Side
<1> QED
  BY <1>1

LEMMA DistinctNext ==
  Distinct' <=>
    /\ \A s \in Side : \A p \in DOMAIN book'[s] : Unique(book'[s][p].orders)
    /\ \A s, t \in Side : \A p \in DOMAIN book'[s] : \A q \in DOMAIN book'[t] :
         \A id \in IdsIn(book'[s][p].orders) : id \in IdsIn(book'[t][q].orders) => s = t /\ p = q
BY DEF Distinct, Unique, IdsIn, Live

(* The live slots of a queue are slots it has used, and hold orders.       *)
LEMMA LiveSlots ==
  ASSUME NEW d \in Deque, WellFormed(d)
  PROVE  /\ Live(d) \subseteq DOMAIN d.slots
         /\ \A i \in Live(d) : d.slots[i] \in Order /\ d.slots[i].id \in OrderID
<1>1. Live(d) \subseteq DOMAIN d.slots
  BY DEF Live, Deque, WellFormed
<1> QED
  BY <1>1, SlotTyped DEF Order

(* Where the order that erase leaves in slot i was.                        *)
From(d, pos, i) ==
  IF d.begin <= pos /\ pos - d.begin < Size(d) \div 2
  THEN IF i <= pos THEN i - 1 ELSE i
  ELSE IF i >= pos THEN i + 1 ELSE i

LEMMA EraseFrom ==
  ASSUME NEW d \in Deque, WellFormed(d), NEW pos \in Live(d)
  PROVE  LET e == Erase(d, pos)
         IN /\ \A i \in Live(e) : /\ From(d, pos, i) \in Live(d) \ {pos}
                                  /\ e.slots[i] = d.slots[From(d, pos, i)]
            /\ \A i, j \in Live(e) : From(d, pos, i) = From(d, pos, j) => i = j
            /\ \A k \in Live(d) \ {pos} : \E i \in Live(e) : From(d, pos, i) = k
<1> DEFINE e == Erase(d, pos)
<1>1. /\ d.begin \in Nat /\ d.end \in Nat /\ pos \in Int
      /\ d.begin <= pos /\ pos <= d.end - 1
      /\ 1 <= d.begin /\ d.end <= Len(d.slots) + 1 /\ DOMAIN d.slots = 1..Len(d.slots)
      /\ Len(d.slots) \in Nat /\ Live(d) = d.begin .. d.end - 1
  BY DEF Deque, WellFormed, Live
<1>2. CASE d.begin <= pos /\ pos - d.begin < Size(d) \div 2
  <2>1. /\ e.begin = d.begin + 1 /\ e.end = d.end
        /\ e.slots = [i \in DOMAIN d.slots |->
                       IF d.begin < i /\ i <= pos THEN d.slots[i - 1] ELSE d.slots[i]]
    BY <1>2 DEF Erase, Deque
  <2>2. Live(e) = (d.begin + 1) .. d.end - 1
    BY <2>1 DEF Live
  <2>3. \A i : From(d, pos, i) = IF i <= pos THEN i - 1 ELSE i
    BY <1>2 DEF From
  <2> HIDE DEF e
  <2>4. ASSUME NEW i \in Live(e)
        PROVE  /\ From(d, pos, i) \in Live(d) \ {pos}
               /\ e.slots[i] = d.slots[From(d, pos, i)]
    <3>1. i \in DOMAIN d.slots /\ d.begin < i /\ i \in Int
      BY <1>1, <2>2
    <3>2. From(d, pos, i) \in Live(d) \ {pos}
      BY <1>1, <2>2, <2>3, <3>1
    <3> QED
      BY <2>1, <2>3, <3>1, <3>2
  <2>5. \A i, j \in Live(e) : From(d, pos, i) = From(d, pos, j) => i = j
    BY <1>1, <2>2, <2>3
  <2>6. ASSUME NEW k \in Live(d) \ {pos}
        PROVE  \E i \in Live(e) : From(d, pos, i) = k
    <3>1. CASE k < pos
      <4>1. k + 1 \in Live(e) /\ From(d, pos, k + 1) = k
        BY <1>1, <2>2, <2>3, <3>1
      <4> QED
        BY <4>1
    <3>2. CASE k > pos
      <4>1. k \in Live(e) /\ From(d, pos, k) = k
        BY <1>1, <2>2, <2>3, <3>2
      <4> QED
        BY <4>1
    <3> QED
      BY <1>1, <3>1, <3>2
  <2> QED
    BY <2>4, <2>5, <2>6 DEF e
<1>3. CASE ~(d.begin <= pos /\ pos - d.begin < Size(d) \div 2)
  <2>1. /\ e.begin = d.begin /\ e.end = d.end - 1
        /\ e.slots = [i \in DOMAIN d.slots |->
                       IF i >= pos /\ i + 1 < d.end THEN d.slots[i + 1] ELSE d.slots[i]]
    BY <1>3 DEF Erase, Deque
  <2>2. Live(e) = d.begin .. d.end - 2
    BY <1>1, <2>1 DEF Live
  <2>3. \A i : From(d, pos, i) = IF i >= pos THEN i + 1 ELSE i
    BY <1>3 DEF From
  <2> HIDE DEF e
  <2>4. ASSUME NEW i \in Live(e)
        PROVE  /\ From(d, pos, i) \in Live(d) \ {pos}
               /\ e.slots[i] = d.slots[From(d, pos, i)]
    <3>1. i \in DOMAIN d.slots /\ i + 1 < d.end /\ i \in Int
      BY <1>1, <2>2
    <3>2. CASE i >= pos
      <4>1. From(d, pos, i) = i + 1 /\ i + 1 # pos /\ i + 1 \in Live(d)
        BY <1>1, <2>2, <2>3, <3>1, <3>2
      <4>2. e.slots[i] = d.slots[i + 1]
        BY <2>1, <3>1, <3>2
      <4> QED
        BY <4>1, <4>2
    <3>3. CASE ~(i >= pos)
      <4>1. From(d, pos, i) = i /\ i # pos /\ i \in Live(d)
        BY <1>1, <2>2, <2>3, <3>1, <3>3
      <4>2. e.slots[i] = d.slots[i]
        BY <2>1, <3>1, <3>3
      <4> QED
        BY <4>1, <4>2
    <3> QED
      BY <3>2, <3>3
  <2>5. \A i, j \in Live(e) : From(d, pos, i) = From(d, pos, j) => i = j
    BY <1>1, <2>2, <2>3
  <2>6. ASSUME NEW k \in Live(d) \ {pos}
        PROVE  \E i \in Live(e) : From(d, pos, i) = k
    <3>1. CASE k > pos
      <4>1. k - 1 \in Live(e) /\ From(d, pos, k - 1) = k
        BY <1>1, <2>2, <2>3, <3>1
      <4> QED
        BY <4>1
    <3>2. CASE k < pos
      <4>1. k \in Live(e) /\ From(d, pos, k) = k
        BY <1>1, <2>2, <2>3, <3>2
      <4> QED
        BY <4>1
    <3>3. k > pos \/ k < pos
      BY <1>1
    <3> QED
      BY <3>1, <3>2, <3>3
  <2> QED
    BY <2>4, <2>5, <2>6 DEF e
<1> QED
  BY <1>2, <1>3

(* erase takes off the ids of the queue that of the slot erased.           *)
LEMMA EraseIds ==
  ASSUME NEW d \in Deque, WellFormed(d), NEW pos \in Live(d)
  PROVE  /\ IdsIn(Erase(d, pos)) \subseteq IdsIn(d)
         /\ Unique(d) => /\ Unique(Erase(d, pos))
                         /\ IdsIn(Erase(d, pos)) = IdsIn(d) \ {d.slots[pos].id}
<1> DEFINE e == Erase(d, pos)
<1>1. /\ \A i \in Live(e) : /\ From(d, pos, i) \in Live(d) \ {pos}
                            /\ e.slots[i] = d.slots[From(d, pos, i)]
      /\ \A i, j \in Live(e) : From(d, pos, i) = From(d, pos, j) => i = j
      /\ \A k \in Live(d) \ {pos} : \E i \in Live(e) : From(d, pos, i) = k
  BY EraseFrom
<1> HIDE DEF e
<1>2. IdsIn(e) \subseteq IdsIn(d)
  BY <1>1 DEF IdsIn
<1>3. ASSUME Unique(d)
      PROVE  Unique(e) /\ IdsIn(e) = IdsIn(d) \ {d.slots[pos].id}
  <2>1. Unique(e)
    BY <1>1, <1>3 DEF Unique
  <2>2. \A i \in Live(e) : e.slots[i].id # d.slots[pos].id
    BY <1>1, <1>3 DEF Unique
  <2>3. ASSUME NEW k \in Live(d), d.slots[k].id # d.slots[pos].id
        PROVE  d.slots[k].id \in IdsIn(e)
    <3>1. PICK i \in Live(e) : From(d, pos, i) = k
      BY <1>1, <2>3
    <3> QED
      BY <1>1, <3>1 DEF IdsIn
  <2>4. IdsIn(d) \ {d.slots[pos].id} \subseteq IdsIn(e)
    BY <2>3 DEF IdsIn
  <2>5. d.slots[pos].id \notin IdsIn(e)
    BY <2>2 DEF IdsIn
  <2> QED
    BY <1>2, <2>1, <2>4, <2>5
<1> QED
  BY <1>2, <1>3 DEF e

(* Assigning a quantity changes no id.                                     *)
LEMMA ResizeIds ==
  ASSUME NEW d \in Deque, WellFormed(d), NEW pos \in DOMAIN d.slots, NEW q \in Nat
  PROVE  IdsIn(Resize(d, pos, q)) = IdsIn(d)
<1> DEFINE r == Resize(d, pos, q)
<1>1. r.begin = d.begin /\ r.end = d.end
  BY ResizeTyped
<1>2. \A i \in DOMAIN d.slots : r.slots[i].id = d.slots[i].id
  <2>1. r.slots = [d.slots EXCEPT ![pos] = [@ EXCEPT !.quantity = q]]
    BY DEF Resize, Deque
  <2>2. \A i \in DOMAIN d.slots : d.slots[i] \in Order
    BY DEF Deque
  <2> QED
    BY <2>1, <2>2 DEF Order
<1>3. Live(r) = Live(d) /\ Live(d) \subseteq DOMAIN d.slots
  BY <1>1, LiveSlots DEF Live
<1> HIDE DEF r
<1>4. IdsIn(r) = IdsIn(d)
  BY <1>2, <1>3 DEF IdsIn
<1> QED
  BY <1>4 DEF r

(* push_back adds one, and moves none.                                     *)
LEMMA PushBackOrders ==
  ASSUME NEW d \in Deque, WellFormed(d), NEW o
  PROVE  /\ Live(PushBack(d, o)) = Live(d) \cup {d.end} /\ d.end \notin Live(d)
         /\ PushBack(d, o).slots[d.end] = o
         /\ \A i \in Live(d) : PushBack(d, o).slots[i] = d.slots[i]
<1> DEFINE e == PushBack(d, o)
<1>1. /\ d.begin \in Nat /\ d.end \in Nat /\ d.begin <= d.end /\ 1 <= d.begin
      /\ d.end <= Len(d.slots) + 1 /\ DOMAIN d.slots = 1..Len(d.slots)
      /\ Len(d.slots) \in Nat /\ d.slots \in Seq(Order)
  BY DEF Deque, WellFormed
<1>2. Live(e) = Live(d) \cup {d.end} /\ d.end \notin Live(d)
  BY <1>1 DEF Live, PushBack
<1>3. CASE d.end <= Len(d.slots)
  <2>1. e.slots = [d.slots EXCEPT ![d.end] = o]
    BY <1>3 DEF PushBack
  <2> QED
    BY <1>1, <1>2, <1>3, <2>1 DEF Live
<1>4. CASE ~(d.end <= Len(d.slots))
  <2>1. e.slots = Append(d.slots, o) /\ d.end = Len(d.slots) + 1
    BY <1>1, <1>4 DEF PushBack
  <2>2. e.slots[d.end] = o /\ \A i \in 1..Len(d.slots) : e.slots[i] = d.slots[i]
    BY <1>1, <2>1
  <2> QED
    BY <1>1, <1>2, <2>1, <2>2 DEF Live
<1> QED
  BY <1>3, <1>4

LEMMA PushBackIds ==
  ASSUME NEW d \in Deque, WellFormed(d), NEW o
  PROVE  /\ IdsIn(PushBack(d, o)) = IdsIn(d) \cup {o.id}
         /\ Unique(d) /\ o.id \notin IdsIn(d) => Unique(PushBack(d, o))
<1> DEFINE e == PushBack(d, o)
<1>1. /\ Live(e) = Live(d) \cup {d.end} /\ d.end \notin Live(d)
      /\ e.slots[d.end] = o /\ \A i \in Live(d) : e.slots[i] = d.slots[i]
  BY PushBackOrders
<1> HIDE DEF e
<1>2. IdsIn(e) = IdsIn(d) \cup {o.id}
  BY <1>1 DEF IdsIn
<1>3. Unique(d) /\ o.id \notin IdsIn(d) => Unique(e)
  BY <1>1 DEF Unique, IdsIn
<1> QED
  BY <1>2, <1>3 DEF e

-----------------------------------------------------------------------------
(* What each call of the book does to the ids on it.                       *)

(* No level gains an id.                                                   *)
Shrinks ==
  \A s \in Side : \A p \in DOMAIN book'[s] :
    p \in DOMAIN book[s] /\ IdsIn(book'[s][p].orders) \subseteq IdsIn(book[s][p].orders)

(* Every order of the book was in the same level before.                   *)
KeptFrom(e, d) == \A i \in Live(e) : \E j \in Live(d) : e.slots[i] = d.slots[j]

NoneNew ==
  \A s \in Side : \A p \in DOMAIN book'[s] :
    p \in DOMAIN book[s] /\ KeptFrom(book'[s][p].orders, book[s][p].orders)

(* A level loses id and the book no other.                                 *)
Loses(id) ==
  /\ Shrinks
  /\ \A s \in Side : \A p \in DOMAIN book[s] : \A k \in IdsIn(book[s][p].orders) :
       k # id => p \in DOMAIN book'[s] /\ k \in IdsIn(book'[s][p].orders)
  /\ \A s \in Side : \A p \in DOMAIN book'[s] : id \notin IdsIn(book'[s][p].orders)
  /\ \A s \in Side : \A p \in DOMAIN book'[s] : Unique(book'[s][p].orders)

(* One level is stored, and every other stays.                             *)
Stores(side, price, level) ==
  /\ \A s \in Side : DOMAIN book'[s] = DOMAIN book[s]
  /\ \A s \in Side : \A p \in DOMAIN book[s] :
       book'[s][p] = IF s = side /\ p = price THEN level ELSE book[s][p]

LEMMA ShrinksIds == Shrinks => RestingIds' \subseteq RestingIds
BY OnALevel, OnALevelNext DEF Shrinks

LEMMA LosesId ==
  ASSUME NEW id, Loses(id)
  PROVE  RestingIds' = RestingIds \ {id}
<1>1. RestingIds' \subseteq RestingIds
  BY ShrinksIds DEF Loses
<1>2. id \notin RestingIds'
  BY OnALevelNext DEF Loses
<1>3. ASSUME NEW k \in RestingIds, k # id
      PROVE  k \in RestingIds'
  <2>0. PICK s \in Side : \E p \in DOMAIN book[s] : k \in IdsIn(book[s][p].orders)
    BY OnALevel
  <2>1. PICK p \in DOMAIN book[s] : k \in IdsIn(book[s][p].orders)
    BY <2>0
  <2>2. p \in DOMAIN book'[s] /\ k \in IdsIn(book'[s][p].orders)
    BY <1>3, <2>1 DEF Loses
  <2> QED
    BY <2>2, OnALevelNext
<1> QED
  BY <1>1, <1>2, <1>3

LEMMA LosesDistinct ==
  ASSUME Distinct, NEW id, Loses(id)
  PROVE  Distinct'
<1>1. \A s \in Side : \A p \in DOMAIN book'[s] : Unique(book'[s][p].orders)
  BY DEF Loses
<1>2. ASSUME NEW s \in Side, NEW t \in Side, NEW p \in DOMAIN book'[s], NEW q \in DOMAIN book'[t],
             NEW k \in IdsIn(book'[s][p].orders), k \in IdsIn(book'[t][q].orders)
      PROVE  s = t /\ p = q
  <2>1. /\ p \in DOMAIN book[s] /\ k \in IdsIn(book[s][p].orders)
        /\ q \in DOMAIN book[t] /\ k \in IdsIn(book[t][q].orders)
    BY <1>2 DEF Loses, Shrinks
  <2> QED
    BY <2>1 DEF Distinct
<1> QED
  BY <1>1, <1>2, DistinctNext

(* A level is stored that has lost one id of its queue.                    *)
LEMMA StoresWithout ==
  ASSUME Distinct, NEW side \in Side, NEW price \in DOMAIN book[side], NEW level,
         Stores(side, price, level), NEW id \in IdsIn(book[side][price].orders),
         Unique(level.orders), IdsIn(level.orders) = IdsIn(book[side][price].orders) \ {id}
  PROVE  Loses(id)
<1>1. Shrinks
  BY DEF Stores, Shrinks
<1>2. ASSUME NEW s \in Side, NEW p \in DOMAIN book[s]
      PROVE  /\ id \in IdsIn(book[s][p].orders) => s = side /\ p = price
             /\ Unique(book[s][p].orders)
  BY DEF Distinct
<1> QED
  BY <1>1, <1>2 DEF Loses, Stores

(* The index finds every order, so no id stands twice.                     *)
LEMMA IndexDistinct ==
  ASSUME BookTyped, IndexExact
  PROVE  Distinct
<1>1. ASSUME NEW s \in Side, NEW p \in DOMAIN book[s], NEW k \in IdsIn(book[s][p].orders)
      PROVE  orderMap[k].side = s /\ orderMap[k].price = p
  BY <1>1 DEF IdsIn, IndexExact, Indexed
<1>2. ASSUME NEW s \in Side, NEW p \in DOMAIN book[s]
      PROVE  Unique(book[s][p].orders)
  BY <1>2 DEF Unique, IndexExact, Indexed
<1> QED
  BY <1>1, <1>2 DEF Distinct

(* A fill is of an order of the book, and adds nothing to it.              *)
LEMMA FillIds ==
  ASSUME TypeOK, NEW price \in Price, fillResting(price) \/ fillIncoming(price)
  PROVE  /\ \E trade \in Trade : /\ lastTrades' = Append(lastTrades, trade)
                                 /\ trade.takerId = incoming.id /\ trade.makerId \in RestingIds
         /\ Shrinks
<1> DEFINE level == book[Contra][price]
           curr  == Front(level.orders)
<1>1. incoming \in Order /\ incoming # NoOrder /\ Contra \in Side
  BY IncomingTyped DEF fillResting, fillIncoming
<1>2. /\ price \in DOMAIN book[Contra] /\ level \in Level
      /\ WellFormed(level.orders) /\ ~IsEmpty(level.orders) /\ level.orders \in Deque
  BY <1>1 DEF fillResting, fillIncoming, BestLive, TypeOK, BookTyped, Level
<1>3. /\ curr \in Order /\ level.orders.begin \in Live(level.orders)
      /\ level.orders.begin \in DOMAIN level.orders.slots
  BY <1>2, FrontTyped DEF Live, IsEmpty, Deque, WellFormed
<1>4. curr.id \in RestingIds
  BY <1>1, <1>2, <1>3, OnALevel DEF IdsIn, Front
<1>5. PICK q, left :
        /\ q \in Nat
        /\ lastTrades' = Append(lastTrades, Fill(curr, q))
        /\ book' = [book EXCEPT ![Contra][price] = left]
        /\ IdsIn(left.orders) \subseteq IdsIn(level.orders)
  <2>1. CASE fillResting(price)
    <3>1. /\ lastTrades' = Append(lastTrades, Fill(curr, curr.quantity))
          /\ book' = [book EXCEPT ![Contra][price] = Consume(level)]
      BY <1>1, <1>2, <2>1 DEF fillResting, TypeOK, BookTyped
    <3>2. IdsIn(Consume(level).orders) \subseteq IdsIn(level.orders)
      BY <1>2, <1>3, EraseIds DEF Consume
    <3>3. curr.quantity \in Nat
      BY <1>3 DEF Order
    <3> QED
      BY <3>1, <3>2, <3>3
  <2>2. CASE fillIncoming(price)
    <3>1. /\ lastTrades' = Append(lastTrades, Fill(curr, incoming.quantity))
          /\ book' = [book EXCEPT ![Contra][price] = Reduce(level, incoming.quantity)]
          /\ curr.quantity > incoming.quantity
      BY <1>1, <1>2, <2>2 DEF fillIncoming, TypeOK, BookTyped
    <3>2. curr.quantity - incoming.quantity \in Nat /\ incoming.quantity \in Nat
      BY <1>1, <1>3, <3>1 DEF Order
    <3>3. IdsIn(Reduce(level, incoming.quantity).orders) \subseteq IdsIn(level.orders)
      BY <1>2, <1>3, <3>2, ResizeIds DEF Reduce
    <3> QED
      BY <3>1, <3>2, <3>3
  <2> QED
    BY <2>1, <2>2
<1>6. Stores(Contra, price, left)
  BY <1>1, <1>2, <1>5 DEF Stores, TypeOK, BookTyped
<1>7. Shrinks
  BY <1>1, <1>2, <1>5, <1>6 DEF Shrinks, Stores
<1>8. Fill(curr, q) \in Trade /\ Fill(curr, q).takerId = incoming.id /\ Fill(curr, q).makerId = curr.id
  BY <1>1, <1>3, <1>5, FillTyped DEF Fill
<1> QED
  BY <1>4, <1>5, <1>7, <1>8

(* The rest of an order is all that joins the book.                        *)
LEMMA RestIds ==
  ASSUME TypeOK, restRemainder
  PROVE  RestingIds' \subseteq RestingIds \cup {incoming.id} /\ lastTrades' = lastTrades
<1> DEFINE kept  == Without(book[Contra], EmptyFront(Contra))
           level == LevelAt(incoming.side, incoming.price)
           queue == PushBack(level.orders, incoming)
           added == [orders |-> queue, quantity |-> level.quantity + incoming.quantity]
<1>1. /\ incoming \in Order /\ Contra \in Side /\ Contra # incoming.side
      /\ incoming.side \in Side
  BY IncomingTyped DEF restRemainder, Order
<1>2. level \in Level /\ WellFormed(level.orders) /\ level.orders \in Deque
  BY <1>1, EmptyDequeTyped DEF LevelAt, EmptyLevel, Level, TypeOK, BookTyped
<1>3. \A s \in Side : s = Contra \/ s = incoming.side
  BY <1>1 DEF Side
<1>4. ASSUME NEW p \in DOMAIN book'[Contra]
      PROVE  p \in DOMAIN book[Contra] /\ book'[Contra][p] = book[Contra][p]
  BY <1>4, RestRemainderBook DEF Without
<1>5. ASSUME NEW p \in DOMAIN book'[incoming.side], NEW k \in IdsIn(book'[incoming.side][p].orders)
      PROVE  k = incoming.id \/ (p \in DOMAIN book[incoming.side] /\ k \in IdsIn(book[incoming.side][p].orders))
  <2>1. CASE incoming.type = "LIMIT" /\ incoming.quantity # 0
    <3>1. book' = [book EXCEPT ![Contra] = kept,
                               ![incoming.side] = With(@, incoming.price, added)]
      BY <2>1 DEF restRemainder
    <3> HIDE DEF kept, added
    <3>2. book'[incoming.side] = With(book[incoming.side], incoming.price, added)
      BY <1>1, <3>1 DEF TypeOK, BookTyped
    <3>3. CASE p = incoming.price
      <4>1. book'[incoming.side][p] = added
        BY <3>2, <3>3, <1>5 DEF With
      <4>2. added.orders = queue
        BY DEF added
      <4>3. IdsIn(queue) = IdsIn(level.orders) \cup {incoming.id}
        BY <1>2, PushBackIds
      <4>4. k \in IdsIn(level.orders) \/ k = incoming.id
        BY <1>5, <4>1, <4>2, <4>3
      <4>5. ASSUME k \in IdsIn(level.orders), incoming.price \notin DOMAIN book[incoming.side]
            PROVE  FALSE
        <5>1. level.orders = EmptyDeque
          BY <4>5 DEF LevelAt, EmptyLevel
        <5> QED
          BY <4>5, <5>1 DEF IdsIn, EmptyDeque, Live
      <4> QED
        BY <3>3, <4>4, <4>5 DEF LevelAt
    <3>4. CASE p # incoming.price
      BY <1>5, <3>2, <3>4 DEF With
    <3> QED
      BY <3>3, <3>4
  <2>2. CASE ~(incoming.type = "LIMIT" /\ incoming.quantity # 0)
    BY <1>5, <2>2, RestRemainderBook
  <2> QED
    BY <2>1, <2>2
<1>6. RestingIds' \subseteq RestingIds \cup {incoming.id}
  <2>1. SUFFICES ASSUME NEW k \in RestingIds', k # incoming.id PROVE k \in RestingIds
    OBVIOUS
  <2>0. PICK s \in Side : \E p \in DOMAIN book'[s] : k \in IdsIn(book'[s][p].orders)
    BY <2>1, OnALevelNext
  <2>2. PICK p \in DOMAIN book'[s] : k \in IdsIn(book'[s][p].orders)
    BY <2>0
  <2>3. p \in DOMAIN book[s] /\ k \in IdsIn(book[s][p].orders)
    BY <1>3, <1>4, <1>5, <2>1, <2>2
  <2> QED
    BY <2>3, OnALevel
<1> QED
  BY <1>6 DEF restRemainder

LEMMA EraseKeeps ==
  ASSUME NEW d \in Deque, WellFormed(d), NEW pos \in Live(d)
  PROVE  KeptFrom(Erase(d, pos), d)
BY EraseFrom DEF KeptFrom

LEMMA StoresKept ==
  ASSUME NEW side \in Side, NEW price \in DOMAIN book[side], NEW level,
         Stores(side, price, level), KeptFrom(level.orders, book[side][price].orders)
  PROVE  NoneNew
BY DEF NoneNew, Stores, KeptFrom

(* With an exact index a cancel takes its order off the book.              *)
LEMMA CancelIds ==
  ASSUME TypeOK, IndexExact, NEW id \in OrderID, cancelOrder(id)
  PROVE  Loses(id) /\ NoneNew
<1> DEFINE ref   == orderMap[id]
           level == book[ref.side][ref.price]
           d     == level.orders
<1>1. Distinct
  BY IndexDistinct DEF TypeOK
<1>2. CASE id \notin DOMAIN orderMap
  <2>1. \A s \in Side : \A p \in DOMAIN book[s] : id \notin IdsIn(book[s][p].orders)
    BY <1>2 DEF IndexExact, Indexed, IdsIn
  <2>2. book' = book
    BY <1>2 DEF cancelOrder
  <2> QED
    BY <1>1, <2>1, <2>2 DEF Loses, Shrinks, Distinct, NoneNew, KeptFrom
<1>3. CASE id \in DOMAIN orderMap
  <2>1. /\ ref.side \in Side /\ ref.price \in DOMAIN book[ref.side]
        /\ d \in Deque /\ WellFormed(d)
        /\ ref.iterator.map = d.map /\ ref.iterator.slot \in Live(d)
        /\ d.slots[ref.iterator.slot].id = id
    BY <1>3 DEF TypeOK, IndexTyped, OrderRef, BookTyped, Level, IndexExact, EntryExact
  <2> DEFINE pos == ref.iterator.slot
             e   == Erase(d, pos)
  <2>2. EraseAt(d, ref.iterator) = {pos}
    BY <2>1 DEF EraseAt
  <2>3. PICK left : book' = StoreOrDrop(ref.side, ref.price, left) /\ left.orders = e
    <3>1. PICK erased, quantity :
            /\ erased \in EraseAt(d, ref.iterator)
            /\ book' = StoreOrDrop(ref.side, ref.price, [orders |-> Erase(d, erased), quantity |-> quantity])
      BY <1>3, <2>1 DEF cancelOrder
    <3>2. erased = pos
      BY <2>2, <3>1
    <3>3. [orders |-> Erase(d, erased), quantity |-> quantity].orders = e
      BY <3>2
    <3> QED
      BY <3>1, <3>3
  <2>4. Unique(d)
    BY <1>1, <2>1 DEF Distinct
  <2>5. Unique(e) /\ IdsIn(e) = IdsIn(d) \ {id}
    BY <2>1, <2>4, EraseIds
  <2>6. id \in IdsIn(d)
    BY <2>1 DEF IdsIn
  <2>7. CASE IsEmpty(e)
    <3>1. IdsIn(e) = {}
      <4>9. pos \in Live(d) /\ d \in Deque /\ WellFormed(d)
        BY <2>1
      <4>0. ~IsEmpty(d) /\ pos \in DOMAIN d.slots
        <5> HIDE DEF pos, d
        <5>1. ~IsEmpty(d)
          BY <4>9 DEF IsEmpty, Live, Deque
        <5> QED
          BY <4>9, <5>1, LiveSlots
      <4>1. e \in Deque
        BY <2>1, <4>0, EraseTyped
      <4> HIDE DEF e
      <4>2. e.begin \in Nat /\ e.end = e.begin
        BY <2>7, <4>1 DEF IsEmpty, Deque
      <4>3. Live(e) = {}
        BY <4>2 DEF Live
      <4> QED
        BY <4>3 DEF IdsIn
    <3>2. IdsIn(d) = {id}
      BY <2>5, <2>6, <3>1
    <3>3. book' = [book EXCEPT ![ref.side] = Without(@, {ref.price})]
      BY <2>3, <2>7 DEF StoreOrDrop
    <3> HIDE DEF e, d
    <3>4. /\ book'[ref.side] = Without(book[ref.side], {ref.price})
          /\ \A s \in Side : s # ref.side => book'[s] = book[s]
      BY <2>1, <3>3 DEF TypeOK, BookTyped
    <3>5. /\ \A s \in Side : \A p \in DOMAIN book'[s] : p \in DOMAIN book[s] /\ book'[s][p] = book[s][p]
          /\ \A s \in Side : \A p \in DOMAIN book[s] :
               p \notin DOMAIN book'[s] => s = ref.side /\ p = ref.price
          /\ ref.price \notin DOMAIN book'[ref.side]
      BY <3>4 DEF Without
    <3>6. \A s \in Side : \A p \in DOMAIN book[s] :
            id \in IdsIn(book[s][p].orders) => s = ref.side /\ p = ref.price
      BY <1>1, <2>1, <2>6 DEF Distinct, d
    <3>7. NoneNew
      BY <3>5 DEF NoneNew, KeptFrom
    <3> QED
      BY <1>1, <3>2, <3>5, <3>6, <3>7 DEF Loses, Shrinks, Distinct, d
  <2>8. CASE ~IsEmpty(e)
    <3>1. book' = [book EXCEPT ![ref.side][ref.price] = left]
      BY <2>3, <2>8 DEF StoreOrDrop
    <3>2. Stores(ref.side, ref.price, left)
      BY <2>1, <3>1 DEF Stores, TypeOK, BookTyped
    <3>3. Loses(id)
      BY <1>1, <2>1, <2>3, <2>5, <2>6, <3>2, StoresWithout
    <3>4. KeptFrom(left.orders, d)
      BY <2>1, <2>3, EraseKeeps
    <3> QED
      BY <2>1, <3>2, <3>3, <3>4, StoresKept
  <2> QED
    BY <2>7, <2>8
<1> QED
  BY <1>2, <1>3

(* An amend moves no id.                                                   *)
LEMMA ModifyIds ==
  ASSUME TypeOK, NEW id \in OrderID, NEW newQuantity \in Nat, modifyOrder(id, newQuantity)
  PROVE  Shrinks
<1> DEFINE ref   == orderMap[id]
           level == book[ref.side][ref.price]
           found == id \in DOMAIN orderMap /\ ref.price \in DOMAIN book[ref.side]
<1>1. CASE ~found
  BY <1>1 DEF modifyOrder, Shrinks
<1>2. CASE found
  <2>1. /\ ref.side \in Side /\ ref.price \in DOMAIN book[ref.side]
        /\ level.orders \in Deque /\ WellFormed(level.orders)
        /\ ref.iterator.map # Freed => ref.iterator.slot \in DOMAIN level.orders.slots
    BY <1>2 DEF TypeOK, IndexTyped, BookTyped, OrderRef, Level
  <2>0. PICK at, quantity :
          /\ at \in ReadThrough(level.orders, ref.iterator)
          /\ book' = [book EXCEPT ![ref.side][ref.price] =
                       [orders |-> Resize(level.orders, at, newQuantity), quantity |-> quantity]]
    BY <1>2, <2>1 DEF modifyOrder, TypeOK, BookTyped
  <2> DEFINE left == [orders |-> Resize(level.orders, at, newQuantity), quantity |-> quantity]
  <2>2. /\ at \in ReadThrough(level.orders, ref.iterator)
        /\ book' = [book EXCEPT ![ref.side][ref.price] = left]
        /\ left.orders = Resize(level.orders, at, newQuantity)
    BY <2>0
  <2> HIDE DEF left
  <2>3. at \in DOMAIN level.orders.slots
    BY <2>1, <2>2 DEF ReadThrough
  <2>4. IdsIn(left.orders) = IdsIn(level.orders)
    BY <2>1, <2>2, <2>3, ResizeIds
  <2>5. Stores(ref.side, ref.price, left)
    BY <2>1, <2>2 DEF Stores, TypeOK, BookTyped
  <2> QED
    BY <2>1, <2>4, <2>5 DEF Shrinks, Stores
<1> QED
  BY <1>1, <1>2

-----------------------------------------------------------------------------
(* Whose trades are whose: what has to hold in the middle of a tick for    *)
(* the ledger to be right at its end.                                      *)

(* The ids a cancel still to be applied will take off the book.            *)
Dropping == {id \in OrderID : \E i \in DOMAIN Pending : Pending[i] = CANCEL(id)}

(* The ids of the orders to be added, the one in hand among them.          *)
Adding == {events[i].order.id : i \in {j \in DOMAIN events : IsAdd(j)}}

(* The ids that have traded in this tick.                                  *)
TickTraded == TradedIds(tickTrades) \cup (IF applying THEN TradedIds(lastTrades) ELSE {})

(* No id has been used that the harness has not minted.                    *)
Minted ==
  /\ \A id \in RestingIds \cup Adding \cup TickTraded \cup minted : id < nextId
  /\ mmOrders \subseteq minted

(* An order of the market maker that can trade, or has in this tick, is    *)
(* attributed to it.                                                       *)
Attributed ==
  /\ RestingIds \cap minted \subseteq mmOrders \cup Dropping
  /\ (Adding \cup TickTraded) \cap minted \subseteq mmOrders

(* The trades of this tick, those the loop has not read yet among them.    *)
TradedSoFar == IF applying THEN tickTrades \o lastTrades ELSE tickTrades

(* What its orders have bought and sold is what the ledger will say when   *)
(* the tick's trades are scored.                                           *)
Booked == Balance(executed) = applyTrades(ledger, TradedSoFar, mmOrders)

LedgerInv == intact => Minted /\ Attributed /\ Booked

(* The ids on the book and of trades are ids of orders.                    *)
LEMMA RestingAreIds ==
  ASSUME TypeOK
  PROVE  RestingIds \subseteq OrderID
<1>1. ASSUME NEW s \in Side, NEW p \in DOMAIN book[s], NEW id \in IdsIn(book[s][p].orders)
      PROVE  id \in OrderID
  <2>1. book[s][p].orders \in Deque /\ WellFormed(book[s][p].orders)
    BY DEF TypeOK, BookTyped, Level
  <2>2. \A i \in Live(book[s][p].orders) : book[s][p].orders.slots[i].id \in OrderID
    BY <2>1, LiveSlots
  <2> QED
    BY <1>1, <2>2 DEF IdsIn
<1> QED
  BY <1>1, OnALevel

LEMMA TradedAreIds ==
  ASSUME NEW trades \in Seq(Trade)
  PROVE  TradedIds(trades) \subseteq OrderID
<1>1. \A i \in DOMAIN trades : trades[i].makerId \in OrderID /\ trades[i].takerId \in OrderID
  <2>1. \A i \in DOMAIN trades : trades[i] \in Trade
    OBVIOUS
  <2> QED
    BY <2>1 DEF Trade
<1> QED
  BY <1>1 DEF TradedIds

(* The step leaves what the market maker is owed alone.                    *)
SameScore == UNCHANGED <<minted, mmOrders, nextId>>

(* A step in which no id becomes live that was not, except one already     *)
(* accounted for, keeps the account.                                       *)
LEMMA AccountStays ==
  ASSUME Minted, Attributed, SameScore,
         RestingIds' \subseteq RestingIds \cup Adding,
         \A id \in RestingIds' \cap Dropping : id \in Dropping' \cup Adding,
         Adding' \subseteq Adding,
         TickTraded' \subseteq TickTraded \cup Adding \cup (RestingIds \ Dropping)
  PROVE  Minted' /\ Attributed'
<1>1. UNCHANGED <<minted, mmOrders, nextId>>
  BY DEF SameScore
<1>2. \A id \in RestingIds' \cup Adding' \cup TickTraded' \cup minted' : id < nextId'
  BY <1>1 DEF Minted
<1>3. RestingIds' \cap minted' \subseteq mmOrders' \cup Dropping'
  BY <1>1 DEF Attributed
<1>4. (Adding' \cup TickTraded') \cap minted' \subseteq mmOrders'
  BY <1>1 DEF Attributed
<1> QED
  BY <1>1, <1>2, <1>3, <1>4 DEF Minted, Attributed

(* An event is handed to the book: only a cancel of it stops pending.      *)
LEMMA ApplyAccount ==
  ASSUME LoopInv, LedgerInv, apply
  PROVE  LedgerInv'
<1>1. BookSound /\ Scored /\ LoopShape
  BY LoopParts
<1>2. /\ phase # "flow" /\ ~applying /\ events # <<>>
      /\ dispatch(Head(events)) /\ applying' = TRUE
      /\ intact' = (intact /\ IndexExact)
      /\ UNCHANGED <<phase, nextId, events, flowVars, tickTrades, scoreVars, minted, executed, told>>
  BY DEF apply
<1> DEFINE e == events[1]
<1>3. events \in Seq(Event) /\ Head(events) = e /\ e \in Event /\ 1 \in DOMAIN events
  BY <1>1, <1>2 DEF LoopShape
<1>4. lastTrades' = <<>> /\ TypeOK
  BY <1>1, <1>2, <1>3, Dispatched DEF BookSound, IInv
<1>5. SUFFICES ASSUME intact' PROVE Minted' /\ Attributed' /\ Booked'
  BY DEF LedgerInv
<1>6. intact /\ IndexExact /\ Minted /\ Attributed /\ Booked
  BY <1>2, <1>5 DEF LedgerInv
<1>7. SameScore
  BY <1>2 DEF SameScore, scoreVars
<1>8. Adding' = Adding
  BY <1>2 DEF Adding, IsAdd
<1>9. TickTraded' = TickTraded
  <2>1. TradedIds(<<>>) = {}
    BY DEF TradedIds
  <2> QED
    BY <1>2, <1>4, <2>1 DEF TickTraded
<1>10. ASSUME NEW id \in Dropping, e # CANCEL(id)
       PROVE  id \in Dropping'
  <2>1. PICK i \in DOMAIN events : events[i] = CANCEL(id)
    BY <1>2 DEF Dropping, Pending
  <2>2. i # 1 /\ i \in 1..Len(events) /\ Len(events) \in Nat
    BY <1>3, <1>10, <2>1
  <2>3. i - 1 \in DOMAIN Tail(events) /\ Tail(events)[i - 1] = events[i]
    BY <1>3, <2>2
  <2>4. Pending' = Tail(events)
    BY <1>2 DEF Pending
  <2>5. i - 1 \in DOMAIN Pending' /\ Pending'[i - 1] = CANCEL(id)
    BY <2>1, <2>3, <2>4
  <2> QED
    BY <2>5 DEF Dropping
<1>11. /\ RestingIds' \subseteq RestingIds
       /\ \A id \in RestingIds' : e # CANCEL(id)
  <2>1. CASE e.type = "ADD"
    <3>1. book' = book
      BY <1>2, <1>3, <2>1 DEF dispatch, addOrder, AMEND, CANCEL
    <3>2. RestingIds' = RestingIds
      BY <3>1 DEF RestingIds, IdsOn
    <3> QED
      BY <2>1, <3>2 DEF CANCEL
  <2>2. CASE e.type = "AMEND"
    <3>1. e.id \in OrderID /\ e.quantity \in Quantity /\ modifyOrder(e.id, e.quantity)
      BY <1>2, <1>3, <2>2 DEF Event, ADD, AMEND, CANCEL, dispatch
    <3>2. e.quantity \in Nat
      BY <3>1, TypesAssumption
    <3>3. Shrinks
      BY <1>4, <3>1, <3>2, ModifyIds
    <3> QED
      BY <2>2, <3>3, ShrinksIds DEF CANCEL
  <2>3. CASE e.type = "CANCEL"
    <3>1. e.id \in OrderID /\ cancelOrder(e.id)
      BY <1>2, <1>3, <2>3 DEF Event, ADD, AMEND, CANCEL, dispatch
    <3>2. Loses(e.id)
      BY <1>4, <1>6, <3>1, CancelIds
    <3>3. RestingIds' = RestingIds \ {e.id}
      BY <3>2, LosesId
    <3>4. \A id : e = CANCEL(id) => id = e.id
      BY DEF CANCEL
    <3> QED
      BY <3>3, <3>4
  <2> QED
    BY <1>2, <1>3, <2>1, <2>2, <2>3 DEF dispatch
<1>12. Booked'
  <2>1. TradedSoFar = tickTrades /\ TradedSoFar' = tickTrades \o <<>> /\ tickTrades \in Seq(Trade)
    BY <1>1, <1>2, <1>4 DEF TradedSoFar, Scored
  <2>2. tickTrades \o <<>> = tickTrades
    BY <2>1
  <2> QED
    BY <1>2, <1>6, <2>1, <2>2 DEF Booked, scoreVars
<1> HIDE DEF e
<1> QED
  BY <1>6, <1>7, <1>8, <1>9, <1>10, <1>11, <1>12, AccountStays

(* The order in hand is the one of the event being applied, and nothing is *)
(* left to be cancelled.                                                   *)
LEMMA InHand ==
  ASSUME LoopInv, ~Idle
  PROVE  applying /\ incoming.id \in Adding /\ Dropping = {}
<1>1. /\ applying /\ events \in Seq(Event) /\ events # <<>> /\ events[1].type = "ADD"
      /\ incoming = [events[1].order EXCEPT !.quantity = incoming.quantity]
      /\ \A i, j \in DOMAIN events : i < j /\ IsAdd(i) => IsAdd(j)
  BY DEF LoopInv, LoopShape
<1>2. 1 \in DOMAIN events /\ DOMAIN events = 1..Len(events) /\ Len(events) \in Nat
  BY <1>1
<1>3. events[1].order \in Order
  BY <1>1, <1>2, SubmissionsAssumption DEF Event, ADD, AMEND, CANCEL
<1>4. incoming.id = events[1].order.id
  BY <1>1, <1>3 DEF Order
<1>5. incoming.id \in Adding
  BY <1>1, <1>2, <1>4 DEF Adding, IsAdd
<1>6. Pending = Tail(events)
  BY <1>1 DEF Pending
<1>7. ASSUME NEW i \in DOMAIN Pending
      PROVE  Pending[i].type = "ADD"
  <2>1. i \in 1..(Len(events) - 1) /\ Pending[i] = events[i + 1]
    BY <1>1, <1>2, <1>6
  <2>2. i + 1 \in DOMAIN events /\ 1 < i + 1
    BY <1>2, <2>1
  <2> QED
    BY <1>1, <1>2, <2>1, <2>2 DEF IsAdd
<1>8. Dropping = {}
  BY <1>7 DEF Dropping, CANCEL
<1> QED
  BY <1>1, <1>5, <1>8

(* The book matches: the taker is the order in hand, the maker is resting, *)
(* and the rest of the taker is all that joins the book.                   *)
LEMMA MatchAccount ==
  ASSUME LoopInv, LedgerInv, matching
  PROVE  LedgerInv'
<1>1. BookSound /\ Scored /\ LoopShape
  BY LoopParts
<1>2. Match /\ UNCHANGED <<loopVars, flowVars, tickTrades, scoreVars, minted, told, intact>>
  BY DEF matching, Match
<1>3. TypeOK /\ ~Idle
  BY <1>1, <1>2, Matched DEF BookSound, IInv
<1>4. applying /\ incoming.id \in Adding /\ Dropping = {}
  BY <1>3, InHand
<1>5. SUFFICES ASSUME intact' PROVE Minted' /\ Attributed' /\ Booked'
  BY DEF LedgerInv
<1>6. Minted /\ Attributed /\ Booked
  BY <1>2, <1>5 DEF LedgerInv
<1>7. SameScore /\ UNCHANGED <<applying, tickTrades, mmOrders, ledger, minted>>
  BY <1>2 DEF SameScore, loopVars, scoreVars
<1>8. Adding' = Adding
  BY <1>2 DEF Adding, IsAdd, loopVars
<1>9. /\ RestingIds' \subseteq RestingIds \cup Adding
      /\ TickTraded' \subseteq TickTraded \cup Adding \cup RestingIds
  <2>1. ASSUME NEW price \in Price, fillResting(price) \/ fillIncoming(price)
        PROVE  /\ RestingIds' \subseteq RestingIds
               /\ TickTraded' \subseteq TickTraded \cup Adding \cup RestingIds
    <3>1. PICK trade \in Trade : /\ lastTrades' = Append(lastTrades, trade)
                                 /\ trade.takerId = incoming.id /\ trade.makerId \in RestingIds
      BY <1>3, <2>1, FillIds
    <3>2. RestingIds' \subseteq RestingIds
      BY <1>3, <2>1, FillIds, ShrinksIds
    <3>3. lastTrades \in Seq(Trade)
      BY <1>3 DEF TypeOK
    <3>4. TradedIds(lastTrades') = TradedIds(lastTrades) \cup {trade.makerId, trade.takerId}
      BY <3>1, <3>3, TradedAppended
    <3> QED
      BY <1>4, <1>7, <3>1, <3>2, <3>4 DEF TickTraded
  <2>2. ASSUME restRemainder
        PROVE  /\ RestingIds' \subseteq RestingIds \cup Adding
               /\ TickTraded' \subseteq TickTraded \cup Adding \cup RestingIds
    <3>1. RestingIds' \subseteq RestingIds \cup {incoming.id} /\ lastTrades' = lastTrades
      BY <1>3, <2>2, RestIds
    <3> QED
      BY <1>4, <1>7, <3>1 DEF TickTraded
  <2> QED
    BY <1>2, <2>1, <2>2 DEF Match
<1>10. Minted' /\ Attributed'
  BY <1>4, <1>6, <1>7, <1>8, <1>9, AccountStays
<1>11. Booked'
  <2>1. /\ TradedSoFar = tickTrades \o lastTrades /\ TradedSoFar' = tickTrades \o lastTrades'
        /\ tickTrades \in Seq(Trade) /\ lastTrades \in Seq(Trade)
        /\ ledger \in Ledger /\ executed \in Executions
    BY <1>1, <1>3, <1>4, <1>7 DEF TradedSoFar, Scored, TypeOK
  <2>2. ASSUME NEW price \in Price, fillResting(price) \/ fillIncoming(price), executed' = executions(price)
        PROVE  Booked'
    <3>1. PICK trade \in Trade : /\ lastTrades' = Append(lastTrades, trade)
                                 /\ Balance(executed') = applyTrade(Balance(executed), trade, minted)
      BY <1>3, <2>1, <2>2, FillExecuted
    <3>2. trade.makerId \in TickTraded' /\ trade.takerId \in TickTraded'
      <4>1. TradedIds(lastTrades') = TradedIds(lastTrades) \cup {trade.makerId, trade.takerId}
        BY <2>1, <3>1, TradedAppended
      <4> QED
        BY <1>4, <1>7, <4>1 DEF TickTraded
    <3>3. /\ trade.makerId \in minted <=> trade.makerId \in mmOrders
          /\ trade.takerId \in minted <=> trade.takerId \in mmOrders
      BY <1>7, <1>10, <3>2 DEF Minted, Attributed
    <3>4. applyTrade(Balance(executed), trade, minted) = applyTrade(Balance(executed), trade, mmOrders)
      BY <3>3 DEF applyTrade
    <3>5. TradedSoFar \in Seq(Trade) /\ TradedSoFar' = Append(TradedSoFar, trade)
      BY <2>1, <3>1
    <3>6. applyTrades(ledger, TradedSoFar', mmOrders)
            = applyTrade(applyTrades(ledger, TradedSoFar, mmOrders), trade, mmOrders)
      <4> DEFINE before == TradedSoFar
      <4>1. before \in Seq(Trade)
        BY <3>5
      <4> HIDE DEF before
      <4>2. applyTrades(ledger, Append(before, trade), mmOrders)
              = applyTrade(applyTrades(ledger, before, mmOrders), trade, mmOrders)
        BY <2>1, <4>1, ApplyAppended
      <4> QED
        BY <3>5, <4>2 DEF before
    <3> QED
      BY <1>6, <1>7, <3>1, <3>4, <3>6 DEF Booked
  <2>3. ASSUME restRemainder, UNCHANGED executed
        PROVE  Booked'
    <3>1. lastTrades' = lastTrades
      BY <2>3 DEF restRemainder
    <3> QED
      BY <1>6, <1>7, <2>1, <2>3, <3>1 DEF Booked
  <2> QED
    BY <2>2, <2>3 DEF matching
<1> QED
  BY <1>10, <1>11

(* Its trades are read.                                                    *)
LEMMA DrainAccount ==
  ASSUME LoopInv, LedgerInv, drain
  PROVE  LedgerInv'
<1>1. BookSound /\ Scored /\ LoopShape
  BY LoopParts
<1>2. /\ applying /\ Idle /\ applying' = FALSE /\ events' = Tail(events)
      /\ tickTrades' = tickTrades \o lastTrades
      /\ UNCHANGED <<bookVars, phase, nextId, flowVars, scoreVars, truth>>
  BY DEF drain
<1>3. SUFFICES ASSUME intact' PROVE Minted' /\ Attributed' /\ Booked'
  BY DEF LedgerInv
<1>4. Minted /\ Attributed /\ Booked
  BY <1>2, <1>3 DEF LedgerInv, truth
<1>5. UNCHANGED <<nextId, mmOrders, ledger, minted, executed, book, lastTrades>>
  BY <1>2 DEF scoreVars, bookVars, truth
<1>6. /\ lastTrades \in Seq(Trade) /\ tickTrades \in Seq(Trade)
      /\ events \in Seq(Event) /\ events # <<>>
  BY <1>1, <1>2 DEF BookSound, IInv, TypeOK, Scored, LoopShape
<1>7. TradedIds(tickTrades') = TradedIds(tickTrades) \cup TradedIds(lastTrades)
  BY <1>2, <1>6, TradedConcat
<1>8. TickTraded' = TickTraded
  BY <1>2, <1>7 DEF TickTraded
<1>9. Pending' = Pending
  BY <1>2 DEF Pending
<1>10. Dropping' = Dropping
  BY <1>9 DEF Dropping
<1>11. Adding' \subseteq Adding
  <2>1. ASSUME NEW i \in DOMAIN events', IsAdd(i)'
        PROVE  events'[i].order.id \in Adding
    <3>1. i + 1 \in DOMAIN events /\ events'[i] = events[i + 1]
      BY <1>2, <1>6
    <3> QED
      BY <2>1, <3>1 DEF Adding, IsAdd
  <2> QED
    BY <2>1 DEF Adding
<1>12. RestingIds' = RestingIds
  BY <1>5 DEF RestingIds, IdsOn
<1>13. Booked'
  <2>1. TradedSoFar' = TradedSoFar
    BY <1>2 DEF TradedSoFar
  <2> QED
    BY <1>4, <1>5, <2>1 DEF Booked
<1>14. Minted'
  BY <1>4, <1>5, <1>8, <1>11, <1>12 DEF Minted
<1>15. /\ RestingIds' \cap minted' \subseteq mmOrders' \cup Dropping'
       /\ (Adding' \cup TickTraded') \cap minted' \subseteq mmOrders'
  BY <1>4, <1>5, <1>8, <1>10, <1>11, <1>12 DEF Attributed
<1> QED
  BY <1>13, <1>14, <1>15 DEF Attributed

(* The ids of the market maker's new quotes are new, and a careful one     *)
(* keeps what has traded in this tick attributed.                          *)
LEMMA QuoteFresh ==
  ASSUME Careful, LoopInv, Minted,
         NEW cancels \in Cancels, NEW amends \in Amends, NEW quotes \in Quotes,
         quote(cancels, amends, quotes)
  PROVE  /\ nextId \in Nat /\ nextId' \in Nat /\ nextId <= nextId'
         /\ \A i \in DOMAIN quotes : nextId <= quotes[i].id /\ quotes[i].id < nextId'
         /\ \A id \in RestingIds \cup TickTraded \cup minted :
              id < nextId' /\ \A i \in DOMAIN quotes : id # quotes[i].id
         /\ TradedIds(tickTrades) \cap mmOrders = TradedIds(tickTrades) \cap mmOrders'
         /\ TickTraded = TradedIds(tickTrades)
<1> DEFINE dropped == {cancels[i] : i \in DOMAIN cancels}
           new == {quotes[i].id : i \in DOMAIN quotes}
<1>1. BookSound /\ Scored /\ LoopShape
  BY LoopParts
<1>2. /\ events = <<>> /\ ~applying
      /\ nextId' = nextId + Len(quotes)
      /\ mmOrders' = (mmOrders \ dropped) \cup new
      /\ CarefulBatch(dropped, quotes)
      /\ \A i \in DOMAIN quotes : quotes[i].id = nextId + i - 1
  BY DEF quote, registered
<1>3. nextId \in Nat /\ mmOrders \subseteq OrderID
  BY <1>1 DEF Scored
<1>4. quotes \in Seq(Submissions)
  BY <1>3, BatchProperties
<1>5. nextId' \in Nat /\ nextId <= nextId'
  BY <1>2, <1>3, <1>4
<1>6. ASSUME NEW i \in DOMAIN quotes
      PROVE  nextId <= quotes[i].id /\ quotes[i].id < nextId'
  <2>1. i \in 1..Len(quotes) /\ Len(quotes) \in Nat
    BY <1>4
  <2> QED
    BY <1>2, <1>3, <2>1
<1>7. TickTraded = TradedIds(tickTrades)
  BY <1>2 DEF TickTraded
<1>8. \A id \in RestingIds \cup TickTraded \cup minted : id \in Nat /\ id < nextId
  <2>1. RestingIds \subseteq OrderID
    BY <1>1, RestingAreIds DEF BookSound, IInv
  <2>2. TickTraded \subseteq OrderID
    BY <1>1, <1>7, TradedAreIds DEF Scored
  <2>3. minted \subseteq OrderID
    BY <1>1 DEF Scored
  <2> QED
    BY <2>1, <2>2, <2>3, SimAssumption DEF Minted
<1>9. ASSUME NEW id \in RestingIds \cup TickTraded \cup minted
      PROVE  id < nextId' /\ \A i \in DOMAIN quotes : id # quotes[i].id
  <2>1. id \in Nat /\ id < nextId
    BY <1>8
  <2>2. id < nextId'
    BY <1>3, <1>5, <2>1
  <2>3. ASSUME NEW i \in DOMAIN quotes, id = quotes[i].id
        PROVE  FALSE
    <3>1. nextId <= id
      BY <1>6, <2>3
    <3> QED
      BY <1>3, <2>1, <3>1
  <2> QED
    BY <2>2, <2>3
<1> HIDE DEF dropped
<1>10. ASSUME NEW id \in TickTraded, id \in mmOrders
       PROVE  id \notin dropped
  <2>1. PICK i \in DOMAIN tickTrades : id \in {tickTrades[i].makerId, tickTrades[i].takerId}
    BY <1>7, <1>10 DEF TradedIds
  <2>2. i \in myFills
    BY <1>10, <2>1 DEF myFills, owns
  <2>3. ~owns(dropped, tickTrades[i])
    BY <1>2, <2>2 DEF CarefulBatch
  <2> QED
    BY <2>1, <2>3 DEF owns
<1>11. \A id \in TickTraded : id \notin new
  BY <1>9
<1> HIDE DEF new
<1>12. TickTraded \cap mmOrders = TickTraded \cap mmOrders'
  BY <1>2, <1>10, <1>11
<1> QED
  BY <1>3, <1>5, <1>6, <1>7, <1>9, <1>12

(* The market maker acts: what it quotes is attributed to it at once, and  *)
(* a careful one keeps what has traded in this tick attributed.            *)
LEMMA QuoteAccount ==
  ASSUME Careful, LoopInv, LedgerInv,
         NEW cancels \in Cancels, NEW amends \in Amends, NEW quotes \in Quotes,
         quote(cancels, amends, quotes)
  PROVE  LedgerInv'
<1> DEFINE dropped == {cancels[i] : i \in DOMAIN cancels}
           new == {quotes[i].id : i \in DOMAIN quotes}
           batch == Batch(cancels, amends, quotes)
<1>1. BookSound /\ Scored /\ LoopShape
  BY LoopParts
<1>2. /\ phase = "applyFlow" /\ events = <<>> /\ ~applying
      /\ events' = batch
      /\ nextId' = nextId + Len(quotes)
      /\ mmOrders' = (mmOrders \ dropped) \cup new
      /\ minted' = minted \cup new
      /\ UNCHANGED <<bookVars, applying, flowVars, tickTrades, ledger, mark, executed, intact>>
      /\ CarefulBatch(dropped, quotes)
      /\ \A i \in DOMAIN quotes : quotes[i].id = nextId + i - 1
  BY DEF quote, registered, Batch
<1>3. SUFFICES ASSUME intact' PROVE Minted' /\ Attributed' /\ Booked'
  BY DEF LedgerInv
<1>4. Minted /\ Attributed /\ Booked
  BY <1>2, <1>3 DEF LedgerInv
<1>5. mmOrders \subseteq OrderID /\ nextId \in Nat
  BY <1>1 DEF Scored
<1>6. /\ batch \in Seq(Event) /\ cancels \in Seq(mmOrders) /\ quotes \in Seq(Submissions)
      /\ \A i \in DOMAIN cancels : i \in DOMAIN batch /\ batch[i] = CANCEL(cancels[i])
      /\ \A i \in DOMAIN batch :
           batch[i].type = "ADD" => \E j \in DOMAIN quotes : batch[i].order = quotes[j]
  BY <1>5, BatchProperties
<1>7. /\ nextId' \in Nat /\ \A id \in new : id < nextId'
      /\ \A id \in RestingIds \cup TickTraded \cup minted : id \notin new /\ id < nextId'
      /\ TradedIds(tickTrades) \cap mmOrders = TradedIds(tickTrades) \cap mmOrders'
      /\ TickTraded = TradedIds(tickTrades)
  <2>1. /\ nextId' \in Nat
        /\ \A i \in DOMAIN quotes : quotes[i].id < nextId'
        /\ \A id \in RestingIds \cup TickTraded \cup minted :
             id < nextId' /\ \A i \in DOMAIN quotes : id # quotes[i].id
        /\ TradedIds(tickTrades) \cap mmOrders = TradedIds(tickTrades) \cap mmOrders'
        /\ TickTraded = TradedIds(tickTrades)
    BY <1>4, QuoteFresh
  <2> QED
    BY <2>1
<1>9. dropped \subseteq Dropping'
  <2>1. ASSUME NEW i \in DOMAIN cancels
        PROVE  cancels[i] \in Dropping'
    <3>1. cancels[i] \in OrderID
      BY <1>5, <1>6
    <3>2. Pending' = batch
      BY <1>2 DEF Pending
    <3>3. i \in DOMAIN Pending' /\ Pending'[i] = CANCEL(cancels[i])
      BY <1>6, <3>2
    <3> QED
      BY <3>1, <3>3 DEF Dropping
  <2> QED
    BY <2>1
<1>10. Adding' \subseteq new
  BY <1>2, <1>6 DEF Adding, IsAdd
<1>11. Dropping = {}
  BY <1>2 DEF Dropping, Pending
<1> HIDE DEF batch, new, dropped
<1>12. RestingIds' = RestingIds /\ TickTraded' = TickTraded
  BY <1>2 DEF RestingIds, IdsOn, TickTraded, bookVars
<1>15. Minted'
  <2>1. \A id \in RestingIds' \cup Adding' \cup TickTraded' \cup minted' : id < nextId'
    BY <1>2, <1>7, <1>10, <1>12
  <2>2. mmOrders' \subseteq minted'
    BY <1>2, <1>4 DEF Minted
  <2> QED
    BY <2>1, <2>2 DEF Minted
<1>16. RestingIds' \cap minted' \subseteq mmOrders' \cup Dropping'
  BY <1>2, <1>4, <1>7, <1>9, <1>11, <1>12 DEF Attributed
<1>17. (Adding' \cup TickTraded') \cap minted' \subseteq mmOrders'
  <2>1. Adding' \subseteq mmOrders'
    BY <1>2, <1>10
  <2>2. TickTraded' \cap minted' \subseteq mmOrders'
    BY <1>2, <1>4, <1>7, <1>12 DEF Attributed
  <2> QED
    BY <2>1, <2>2
<1>18. Booked'
  <2>1. TradedSoFar = tickTrades /\ TradedSoFar' = tickTrades
    BY <1>2 DEF TradedSoFar
  <2>2. tickTrades \in Seq(Trade) /\ ledger \in Ledger
    BY <1>1 DEF Scored
  <2>3. applyTrades(ledger, tickTrades, mmOrders) = applyTrades(ledger, tickTrades, mmOrders')
    BY <1>7, <2>2, ApplySame
  <2> QED
    BY <1>2, <1>4, <2>1, <2>3 DEF Booked
<1> QED
  BY <1>15, <1>16, <1>17, <1>18 DEF Attributed

(* The tick is scored.                                                     *)
LEMMA ScoreAccount ==
  ASSUME LoopInv, LedgerInv, score
  PROVE  LedgerInv'
<1>1. BookSound /\ Scored /\ LoopShape
  BY LoopParts
<1>2. /\ events = <<>> /\ ~applying
      /\ ledger' = applyTrades(ledger, tickTrades, mmOrders)
      /\ tickTrades' = <<>>
      /\ UNCHANGED <<bookVars, nextId, events, applying, resting, mmOrders, truth>>
  BY DEF score
<1>3. UNCHANGED <<minted, executed, intact, book>>
  BY <1>2 DEF truth, bookVars
<1>4. SUFFICES ASSUME intact' PROVE Minted' /\ Attributed' /\ Booked'
  BY DEF LedgerInv
<1>5. Minted /\ Attributed /\ Booked
  BY <1>3, <1>4 DEF LedgerInv
<1>6. /\ Adding' = Adding /\ Dropping' = Dropping /\ TickTraded' \subseteq TickTraded
      /\ RestingIds' = RestingIds
  <2>1. TradedIds(<<>>) = {}
    BY DEF TradedIds
  <2> QED
    BY <1>2, <1>3, <2>1 DEF Adding, IsAdd, Dropping, Pending, TickTraded, RestingIds, IdsOn
<1>7. Booked'
  <2>1. TradedSoFar = tickTrades /\ TradedSoFar' = <<>>
    BY <1>2 DEF TradedSoFar
  <2>2. Balance(executed) = ledger' /\ ledger' \in Ledger
    BY <1>1, <1>2, <1>5, <2>1, ApplyTyped DEF Booked, Scored
  <2>3. applyTrades(ledger', <<>>, mmOrders) = ledger'
    BY <2>2, ApplyNone
  <2> QED
    BY <1>2, <1>3, <2>1, <2>2, <2>3 DEF Booked
<1>8. Minted'
  BY <1>2, <1>3, <1>5, <1>6 DEF Minted
<1>9. /\ RestingIds' \cap minted' \subseteq mmOrders' \cup Dropping'
      /\ (Adding' \cup TickTraded') \cap minted' \subseteq mmOrders'
  BY <1>2, <1>3, <1>5, <1>6 DEF Attributed
<1> QED
  BY <1>7, <1>8, <1>9 DEF Attributed

(* A tick starts: an order the flow adds has an id that was never used.    *)
LEMMA StartAccount ==
  ASSUME LoopInv, LedgerInv, NEW out \in Seq(Event), startTick(out),
         nextId' \in Nat, nextId <= nextId',
         \A i \in DOMAIN out : out[i].type = "ADD" =>
           nextId <= out[i].order.id /\ out[i].order.id < nextId'
  PROVE  LedgerInv'
<1>1. BookSound /\ Scored /\ LoopShape
  BY LoopParts
<1>2. /\ phase = "flow" /\ events' = out /\ tickTrades' = <<>>
      /\ UNCHANGED <<bookVars, applying, prevTrades, scoreVars, truth>>
  BY DEF startTick
<1>3. UNCHANGED <<minted, executed, intact, mmOrders, ledger, book>> /\ events = <<>> /\ ~applying
      /\ tickTrades = <<>>
  BY <1>1, <1>2 DEF truth, scoreVars, bookVars, LoopShape
<1>4. SUFFICES ASSUME intact' PROVE Minted' /\ Attributed' /\ Booked'
  BY DEF LedgerInv
<1>5. Minted /\ Attributed /\ Booked
  BY <1>3, <1>4 DEF LedgerInv
<1>6. TickTraded' = {} /\ RestingIds' = RestingIds /\ Dropping = {}
  <2>1. TradedIds(<<>>) = {}
    BY DEF TradedIds
  <2> QED
    BY <1>2, <1>3, <2>1 DEF Dropping, Pending, TickTraded, RestingIds, IdsOn
<1>7. \A id \in RestingIds \cup minted : id \in Nat /\ id < nextId /\ id < nextId'
  <2>1. RestingIds \subseteq OrderID
    BY <1>1, RestingAreIds DEF BookSound, IInv
  <2>2. minted \subseteq OrderID /\ nextId \in Nat
    BY <1>1 DEF Scored
  <2>3. \A id \in RestingIds \cup minted : id \in Nat /\ id < nextId
    BY <1>5, <2>1, <2>2, SimAssumption DEF Minted
  <2> QED
    BY <2>2, <2>3
<1>8. \A id \in Adding' : nextId <= id /\ id < nextId'
  BY <1>2 DEF Adding, IsAdd
<1>9. Adding' \cap minted = {}
  <2>1. SUFFICES ASSUME NEW id \in Adding', id \in minted PROVE FALSE
    OBVIOUS
  <2>2. id \in Nat /\ id < nextId /\ nextId <= id /\ nextId \in Nat
    BY <1>1, <1>7, <1>8, <2>1 DEF Scored
  <2> QED
    BY <2>2
<1>10. Minted'
  BY <1>3, <1>5, <1>6, <1>7, <1>8 DEF Minted
<1>11. Booked'
  <2>1. TradedSoFar = <<>> /\ TradedSoFar' = <<>>
    BY <1>2, <1>3 DEF TradedSoFar
  <2> QED
    BY <1>3, <1>5, <2>1 DEF Booked
<1> QED
  BY <1>2, <1>3, <1>5, <1>6, <1>9, <1>10, <1>11 DEF Attributed

(* The first state.                                                        *)
LEMMA AccountInitially == SimInit => LedgerInv
<1> SUFFICES ASSUME SimInit PROVE Minted /\ Attributed /\ Booked
  BY DEF LedgerInv
<1>1. /\ events = <<>> /\ ~applying /\ tickTrades = <<>> /\ minted = {} /\ mmOrders = {}
      /\ ledger = FlatLedger /\ executed = NoExecutions /\ Init
  BY DEF SimInit
<1>2. RestingIds = {}
  <2>1. \A side \in Side : DOMAIN book[side] = {}
    BY <1>1 DEF Init
  <2> QED
    BY <2>1, OnALevel
<1>3. Adding = {} /\ TickTraded = {}
  BY <1>1 DEF Adding, TickTraded, TradedIds
<1>5. RestingIds \cup Adding \cup TickTraded \cup minted = {}
  BY <1>1, <1>2, <1>3
<1>4. applyTrades(FlatLedger, <<>>, {}) = FlatLedger
  <2>1. FlatLedger \in Ledger
    BY DEF FlatLedger, Ledger
  <2> QED
    BY <2>1, ApplyNone
<1>6. Minted
  BY <1>1, <1>5 DEF Minted
<1>7. Attributed
  <2>1. RestingIds \cap minted \subseteq mmOrders \cup Dropping /\ (Adding \cup TickTraded) \cap minted \subseteq mmOrders
    BY <1>1
  <2> QED
    BY <2>1 DEF Attributed
<1>8. Booked
  <2>1. Balance(NoExecutions) = FlatLedger
    BY FeesAssumption, Products DEF Balance, NoExecutions, FlatLedger, Side
  <2>2. TradedSoFar = <<>>
    BY <1>1 DEF TradedSoFar
  <2> QED
    BY <1>1, <1>4, <2>1, <2>2 DEF Booked
<1> QED
  BY <1>6, <1>7, <1>8

LEMMA AccountInductive ==
  ASSUME Careful, LoopInv, LedgerInv, [SimNext]_vars
  PROVE  LedgerInv'
<1>0. BookSound /\ Scored /\ LoopShape
  BY LoopParts
<1>1. CASE flowIdles
  <2> DEFINE out == <<>>
  <2>1. startTick(out) /\ nextId' = nextId
    BY <1>1 DEF flowIdles
  <2>2. out \in Seq(Event) /\ DOMAIN out = {} /\ nextId' \in Nat /\ nextId <= nextId'
    BY <1>0, <2>1 DEF Scored
  <2> HIDE DEF out
  <2> QED
    BY <2>1, <2>2, StartAccount
<1>2. ASSUME NEW order \in Submissions, flowAdds(order)
      PROVE  LedgerInv'
  <2> DEFINE out == <<ADD(order)>>
  <2>1. startTick(out) /\ order.id = nextId /\ nextId' = nextId + 1
    BY <1>2 DEF flowAdds
  <2>2. nextId' \in Nat /\ nextId <= nextId' /\ nextId <= order.id /\ order.id < nextId'
    BY <1>0, <2>1 DEF Scored
  <2>3. out \in Seq(Event) /\ \A i \in DOMAIN out : out[i].order = order
    BY EventKinds
  <2> HIDE DEF out
  <2> QED
    BY <2>1, <2>2, <2>3, StartAccount
<1>3. ASSUME NEW id \in OrderID, flowCancels(id)
      PROVE  LedgerInv'
  <2> DEFINE out == <<CANCEL(id)>>
  <2>1. startTick(out) /\ nextId' = nextId
    BY <1>3 DEF flowCancels
  <2>2. nextId' \in Nat /\ nextId <= nextId'
    BY <1>0, <2>1 DEF Scored
  <2>3. out \in Seq(Event) /\ \A i \in DOMAIN out : out[i].type # "ADD"
    BY EventKinds
  <2> HIDE DEF out
  <2> QED
    BY <2>1, <2>2, <2>3, StartAccount
<1>4. CASE UNCHANGED vars
  <2>1. UNCHANGED <<book, lastTrades, nextId, events, applying, tickTrades, mmOrders, ledger, minted,
                    executed, intact>>
    BY <1>4 DEF vars, bookVars, loopVars, scoreVars, truth
  <2>2. /\ Adding' = Adding /\ Dropping' = Dropping /\ TickTraded' = TickTraded
        /\ RestingIds' = RestingIds /\ TradedSoFar' = TradedSoFar
    BY <2>1 DEF Adding, IsAdd, Dropping, Pending, TickTraded, RestingIds, IdsOn, TradedSoFar
  <2> QED
    BY <2>1, <2>2 DEF LedgerInv, Minted, Attributed, Booked
<1> QED
  BY <1>1, <1>2, <1>3, <1>4, ApplyAccount, MatchAccount, DrainAccount, QuoteAccount, ScoreAccount
  DEF SimNext

LEMMA AccountInvariance ==
  ASSUME Careful
  PROVE  SimSpec => []LedgerInv
<1>1. SimInit => LedgerInv
  BY AccountInitially
<1>2. LoopInv /\ LedgerInv /\ [SimNext]_vars => LedgerInv'
  BY AccountInductive
<1> QED
  BY <1>1, <1>2, LoopInvariance, PTL DEF SimSpec

(* Once a tick is scored the ledger holds every execution of a careful     *)
(* market maker's orders, and no other (sim.cpp:125).                      *)
THEOREM LedgerIsExact ==
  ASSUME Careful
  PROVE  SimSpec => []LedgerExact
<1>1. LoopInv /\ LedgerInv => LedgerExact
  <2> SUFFICES ASSUME LoopInv, LedgerInv, phase = "flow", intact PROVE ledger = Balance(executed)
    BY DEF LedgerExact
  <2>1. TradedSoFar = <<>> /\ ledger \in Ledger /\ Balance(executed) = applyTrades(ledger, TradedSoFar, mmOrders)
    BY DEF LoopInv, LoopShape, SimTypeOK, LedgerInv, Booked, TradedSoFar
  <2> QED
    BY <2>1, ApplyNone
<1> QED
  BY <1>1, LoopInvariance, AccountInvariance, PTL

-----------------------------------------------------------------------------
(* What the market maker is told: it only ever makes, for what it quotes   *)
(* crosses nothing, so all its fills are the flow's to cause and it is     *)
(* told of them before it quotes again.                                    *)

(* The market maker took no trade, and takes none.                         *)
NeverTakes ==
  /\ \A i \in DOMAIN tickTrades : tickTrades[i].takerId \notin minted
  /\ applying => \A i \in DOMAIN lastTrades : lastTrades[i].takerId \notin minted
  /\ phase = "applyFlow" => Adding \cap minted = {}
  /\ phase = "applyQuotes" => (applying => lastTrades = <<>>)

(* Nothing on the book is at a price the order would trade at.             *)
Passive(order) ==
  /\ order.type = "LIMIT"
  /\ \A p \in DOMAIN book[Opposite(order.side)] : Better(order.side, p, order.price)

(* The quotes still to be added would trade with nothing on the book, nor  *)
(* with each other.                                                        *)
Apart ==
  phase = "applyQuotes" =>
    \A i \in DOMAIN events : IsAdd(i) =>
      /\ Passive(events[i].order)
      /\ \A j \in DOMAIN events :
           IsAdd(j) /\ events[i].order.side = "BUY" /\ events[j].order.side = "SELL"
             => events[i].order.price < events[j].order.price

(* What it has been told is what has been scored, and once it has quoted   *)
(* also what scoring the tick will add.                                    *)
ToldSoFar ==
  told = ledger.fills + (IF phase = "applyQuotes" THEN Cardinality(myFills) ELSE 0)

FillsInv == intact => NeverTakes /\ Apart /\ ToldSoFar

LEMMA PassiveStays ==
  ASSUME NEW order \in Order, Passive(order), \A side \in Side : DOMAIN book'[side] \subseteq DOMAIN book[side]
  PROVE  Passive(order)'
<1>1. Opposite(order.side) \in Side
  BY SideOpposite DEF Order
<1> QED
  BY <1>1 DEF Passive

(* The events that add an order hold one.                                  *)
LEMMA AddedOrders ==
  ASSUME events \in Seq(Event)
  PROVE  \A i \in DOMAIN events : IsAdd(i) => events[i].order \in Order
<1> SUFFICES ASSUME NEW i \in DOMAIN events, IsAdd(i) PROVE events[i].order \in Order
  OBVIOUS
<1>1. events[i] \in Event /\ events[i].type = "ADD"
  BY DEF IsAdd
<1> QED
  BY <1>1, SubmissionsAssumption DEF Event, ADD, AMEND, CANCEL

(* A tick starts: the flow's order is not the market maker's.              *)
LEMMA StartTold ==
  ASSUME LoopInv, LedgerInv, FillsInv, NEW out \in Seq(Event), startTick(out),
         \A i \in DOMAIN out : out[i].type = "ADD" => nextId <= out[i].order.id
  PROVE  FillsInv'
<1>1. BookSound /\ Scored /\ LoopShape
  BY LoopParts
<1>2. /\ phase = "flow" /\ phase' = "applyFlow" /\ events' = out /\ tickTrades' = <<>>
      /\ UNCHANGED <<bookVars, applying, prevTrades, scoreVars, truth>>
  BY DEF startTick
<1>3. UNCHANGED <<minted, told, intact, ledger>> /\ ~applying
  BY <1>1, <1>2 DEF truth, scoreVars, LoopShape
<1>4. SUFFICES ASSUME intact' PROVE NeverTakes' /\ Apart' /\ ToldSoFar'
  BY DEF FillsInv
<1>5. Minted /\ ToldSoFar
  BY <1>3, <1>4 DEF LedgerInv, FillsInv
<1>6. \A id \in Adding' : nextId <= id
  BY <1>2 DEF Adding, IsAdd
<1>7. Adding' \cap minted' = {}
  <2>1. SUFFICES ASSUME NEW id \in Adding', id \in minted PROVE FALSE
    BY <1>3
  <2>2. minted \subseteq OrderID /\ nextId \in Nat
    BY <1>1 DEF Scored
  <2>3. id \in Nat /\ id < nextId /\ nextId <= id
    BY <1>5, <1>6, <2>1, <2>2, SimAssumption DEF Minted
  <2> QED
    BY <2>2, <2>3
<1>8. NeverTakes'
  BY <1>2, <1>3, <1>7 DEF NeverTakes
<1> QED
  BY <1>2, <1>3, <1>5, <1>8 DEF Apart, ToldSoFar

(* An event is handed to the book: no price appears on it.                 *)
LEMMA ApplyTold ==
  ASSUME LoopInv, FillsInv, apply
  PROVE  FillsInv'
<1>1. BookSound /\ Scored /\ LoopShape
  BY LoopParts
<1>2. /\ ~applying /\ events # <<>>
      /\ dispatch(Head(events)) /\ applying' = TRUE
      /\ intact' = (intact /\ IndexExact)
      /\ UNCHANGED <<phase, nextId, events, flowVars, tickTrades, scoreVars, minted, executed, told>>
  BY DEF apply
<1>3. events \in Seq(Event) /\ Head(events) \in Event
  BY <1>1, <1>2 DEF LoopShape
<1>4. lastTrades' = <<>> /\ \A side \in Side : DOMAIN book'[side] \subseteq DOMAIN book[side]
  BY <1>1, <1>2, <1>3, Dispatched DEF BookSound
<1>5. SUFFICES ASSUME intact' PROVE NeverTakes' /\ Apart' /\ ToldSoFar'
  BY DEF FillsInv
<1>6. NeverTakes /\ Apart /\ ToldSoFar
  BY <1>2, <1>5 DEF FillsInv
<1>7. UNCHANGED <<mmOrders, ledger>>
  BY <1>2 DEF scoreVars
<1>8. NeverTakes'
  <2>1. Adding' = Adding
    BY <1>2 DEF Adding, IsAdd
  <2> QED
    BY <1>2, <1>4, <1>6, <2>1 DEF NeverTakes
<1>9. Apart'
  <2>1. \A i \in DOMAIN events : IsAdd(i) /\ Passive(events[i].order) => Passive(events[i].order)'
    BY <1>2, <1>3, <1>4, PassiveStays, AddedOrders
  <2> QED
    BY <1>2, <1>6, <2>1 DEF Apart, IsAdd
<1>10. ToldSoFar'
  BY <1>2, <1>6, <1>7 DEF ToldSoFar, myFills, owns
<1> QED
  BY <1>8, <1>9, <1>10

(* A passive order trades with nothing.                                    *)
LEMMA PassiveRests ==
  ASSUME TypeOK, matching, ~Idle, NEW order \in Order,
         incoming = [order EXCEPT !.quantity = incoming.quantity], Passive(order)
  PROVE  restRemainder
<1>1. incoming.type = "LIMIT" /\ incoming.side = order.side /\ incoming.price = order.price
  BY DEF Passive, Order
<1>2. ASSUME NEW price \in Price, fillResting(price) \/ fillIncoming(price)
      PROVE  FALSE
  <2>1. price \in DOMAIN book[Contra] /\ Marketable(incoming, price)
    BY <1>2 DEF fillResting, fillIncoming, BestLive
  <2>2. Better(order.side, price, order.price)
    BY <1>1, <2>1 DEF Passive, Contra
  <2>3. ~Better(Opposite(order.side), order.price, price)
    BY <1>1, <2>1 DEF Marketable
  <2>4. price \in Int /\ order.price \in Int /\ order.side \in Side
    BY TypesAssumption DEF Order
  <2> QED
    BY <2>2, <2>3, <2>4 DEF Better, Opposite, Side
<1> QED
  BY <1>2 DEF matching, Match

(* What a resting order adds to the prices of the book.                    *)
LEMMA RestPrices ==
  ASSUME TypeOK, restRemainder
  PROVE  \A side \in Side : \A p \in DOMAIN book'[side] :
           p \in DOMAIN book[side] \/ (side = incoming.side /\ p = incoming.price)
<1>1. ~Idle
  BY DEF restRemainder
<1>2. \A side \in Side : side = Contra \/ side = incoming.side
  BY <1>1, IncomingTyped DEF Side, Order
<1>3. \A p \in DOMAIN book'[Contra] : p \in DOMAIN book[Contra]
  BY RestRemainderBook DEF Without
<1> QED
  BY <1>2, <1>3, RestRemainderBook

(* The book matches.                                                       *)
LEMMA MatchTold ==
  ASSUME LoopInv, FillsInv, matching
  PROVE  FillsInv'
<1>1. BookSound /\ Scored /\ LoopShape
  BY LoopParts
<1>2. Match /\ UNCHANGED <<loopVars, flowVars, tickTrades, scoreVars, minted, told, intact>>
  BY DEF matching, Match
<1>3. TypeOK /\ ~Idle
  BY <1>1, <1>2, Matched DEF BookSound, IInv
<1>4. applying /\ incoming.id \in Adding
  BY <1>3, InHand
<1>5. SUFFICES ASSUME intact' PROVE NeverTakes' /\ Apart' /\ ToldSoFar'
  BY DEF FillsInv
<1>6. UNCHANGED <<phase, events, applying, tickTrades, mmOrders, ledger, minted, told, intact>>
  BY <1>2 DEF loopVars, scoreVars
<1>7. NeverTakes /\ Apart /\ ToldSoFar
  BY <1>5, <1>6 DEF FillsInv
<1>8. ToldSoFar'
  BY <1>6, <1>7 DEF ToldSoFar, myFills, owns
<1>9. Adding' = Adding
  BY <1>6 DEF Adding, IsAdd
<1>10. phase \in {"applyFlow", "applyQuotes"}
  BY <1>1, <1>4 DEF Scored, LoopShape
<1>11. CASE phase = "applyFlow"
  <2>1. incoming.id \notin minted
    BY <1>4, <1>7, <1>11 DEF NeverTakes
  <2>2. lastTrades \in Seq(Trade)
    BY <1>3 DEF TypeOK
  <2>3. ASSUME NEW price \in Price, fillResting(price) \/ fillIncoming(price)
        PROVE  \A i \in DOMAIN lastTrades' : lastTrades'[i].takerId \notin minted
    <3>1. PICK trade \in Trade : lastTrades' = Append(lastTrades, trade) /\ trade.takerId = incoming.id
      BY <1>3, <2>3, FillIds
    <3>2. \A i \in DOMAIN lastTrades' : \/ i \in DOMAIN lastTrades /\ lastTrades'[i] = lastTrades[i]
                                        \/ lastTrades'[i] = trade
      BY <2>2, <3>1
    <3> QED
      BY <1>4, <1>7, <2>1, <3>1, <3>2 DEF NeverTakes
  <2>4. ASSUME restRemainder
        PROVE  \A i \in DOMAIN lastTrades' : lastTrades'[i].takerId \notin minted
    BY <1>3, <1>4, <1>7, <2>4, RestIds DEF NeverTakes
  <2>5. \A i \in DOMAIN lastTrades' : lastTrades'[i].takerId \notin minted
    BY <1>2, <2>3, <2>4 DEF Match
  <2>6. NeverTakes'
    BY <1>6, <1>7, <1>9, <1>11, <2>5 DEF NeverTakes
  <2>7. Apart'
    BY <1>6, <1>11 DEF Apart
  <2> QED
    BY <1>8, <2>6, <2>7
<1>12. CASE phase = "applyQuotes"
  <2> DEFINE order == events[1].order
  <2>1. /\ events \in Seq(Event) /\ 1 \in DOMAIN events /\ IsAdd(1)
        /\ incoming = [order EXCEPT !.quantity = incoming.quantity]
    BY <1>1, <1>3 DEF LoopShape, IsAdd
  <2>2. order \in Order /\ \A i \in DOMAIN events : IsAdd(i) => events[i].order \in Order
    BY <2>1, AddedOrders
  <2>3. Passive(order)
    BY <1>7, <1>12, <2>1 DEF Apart
  <2> HIDE DEF order
  <2>4. restRemainder
    BY <1>3, <2>1, <2>2, <2>3, PassiveRests
  <2>5. lastTrades' = <<>>
    BY <1>3, <1>4, <1>7, <1>12, <2>4, RestIds DEF NeverTakes
  <2>6. NeverTakes'
    BY <1>6, <1>7, <1>9, <1>12, <2>5 DEF NeverTakes
  <2>7. /\ \A side \in Side : \A p \in DOMAIN book'[side] :
             p \in DOMAIN book[side] \/ (side = order.side /\ p = order.price)
        /\ order.side \in Side /\ order.price \in Int
    <3>1. incoming.side = order.side /\ incoming.price = order.price
      BY <2>1, <2>2 DEF Order
    <3>2. order.side \in Side /\ order.price \in Int
      BY <2>2, TypesAssumption DEF Order
    <3> QED
      BY <1>3, <2>4, <3>1, <3>2, RestPrices
  <2>8. ASSUME NEW i \in DOMAIN events, IsAdd(i)
        PROVE  Passive(events[i].order)'
    <3> DEFINE other == events[i].order
    <3>1. /\ Passive(other) /\ other \in Order
          /\ order.side = "BUY" /\ other.side = "SELL" => order.price < other.price
          /\ other.side = "BUY" /\ order.side = "SELL" => other.price < order.price
      BY <1>7, <1>12, <2>1, <2>2, <2>8 DEF Apart, order
    <3> HIDE DEF other
    <3>2. Opposite(other.side) \in Side /\ other.side \in Side /\ other.price \in Int
      BY <3>1, SideOpposite, TypesAssumption DEF Order
    <3>3. ASSUME NEW p \in DOMAIN book'[Opposite(other.side)]
          PROVE  Better(other.side, p, other.price)
      <4>1. CASE p \in DOMAIN book[Opposite(other.side)]
        BY <3>1, <4>1 DEF Passive
      <4>2. CASE order.side = Opposite(other.side) /\ p = order.price
        BY <2>7, <3>1, <3>2, <4>2 DEF Better, Opposite, Side
      <4> QED
        BY <2>7, <3>2, <3>3, <4>1, <4>2
    <3>4. other.type = "LIMIT"
      BY <3>1 DEF Passive
    <3>5. Passive(other)' <=> /\ other'.type = "LIMIT"
                              /\ \A p \in DOMAIN book'[Opposite(other'.side)] : Better(other'.side, p, other'.price)
      BY DEF Passive
    <3>6. other' = other
      BY <1>6 DEF other
    <3> QED
      BY <3>3, <3>4, <3>5, <3>6 DEF other
  <2>9. Apart'
    BY <1>6, <1>7, <1>12, <2>8 DEF Apart, IsAdd
  <2> QED
    BY <1>8, <2>6, <2>9
<1> QED
  BY <1>10, <1>11, <1>12

(* The book's trades are read: while quotes are applied there are none.    *)
LEMMA DrainTold ==
  ASSUME LoopInv, FillsInv, drain
  PROVE  FillsInv'
<1>1. BookSound /\ Scored /\ LoopShape
  BY LoopParts
<1>2. /\ applying /\ applying' = FALSE /\ events' = Tail(events)
      /\ tickTrades' = tickTrades \o lastTrades
      /\ UNCHANGED <<bookVars, phase, nextId, flowVars, scoreVars, minted, told, intact>>
  BY DEF drain, truth
<1>3. UNCHANGED <<mmOrders, ledger, minted, book, lastTrades, phase, told, intact>>
  BY <1>2 DEF scoreVars, bookVars
<1>4. SUFFICES ASSUME intact' PROVE NeverTakes' /\ Apart' /\ ToldSoFar'
  BY DEF FillsInv
<1>5. NeverTakes /\ Apart /\ ToldSoFar
  BY <1>3, <1>4 DEF FillsInv
<1>6. /\ lastTrades \in Seq(Trade) /\ tickTrades \in Seq(Trade)
      /\ events \in Seq(Event) /\ events # <<>> /\ phase # "flow"
  BY <1>1, <1>2 DEF BookSound, IInv, TypeOK, Scored, LoopShape
<1>7. \A i \in DOMAIN events' : i + 1 \in DOMAIN events /\ events'[i] = events[i + 1]
  BY <1>2, <1>6
<1>8. Adding' \subseteq Adding
  <2>1. ASSUME NEW i \in DOMAIN events', IsAdd(i)'
        PROVE  events'[i].order.id \in Adding
    BY <1>7, <2>1 DEF Adding, IsAdd
  <2> QED
    BY <2>1 DEF Adding
<1>9. \A i \in DOMAIN tickTrades' : tickTrades'[i].takerId \notin minted
  <2>1. \A i \in DOMAIN tickTrades' : \/ i \in DOMAIN tickTrades /\ tickTrades'[i] = tickTrades[i]
                                      \/ \E j \in DOMAIN lastTrades : tickTrades'[i] = lastTrades[j]
    <3> DEFINE n == Len(tickTrades)
               both == tickTrades \o lastTrades
    <3>1. /\ n \in Nat /\ DOMAIN tickTrades = 1..n /\ DOMAIN both = 1..(n + Len(lastTrades))
          /\ DOMAIN lastTrades = 1..Len(lastTrades) /\ Len(lastTrades) \in Nat
          /\ \A i \in 1..n : both[i] = tickTrades[i]
          /\ \A i \in (n + 1)..(n + Len(lastTrades)) : both[i] = lastTrades[i - n]
      BY <1>6, TwoInARow
    <3> HIDE DEF both, n
    <3>2. ASSUME NEW i \in DOMAIN both
          PROVE  \/ i \in DOMAIN tickTrades /\ both[i] = tickTrades[i]
                 \/ \E j \in DOMAIN lastTrades : both[i] = lastTrades[j]
      <4>1. CASE i <= n
        BY <3>1, <4>1
      <4>2. CASE i > n
        <5>1. i - n \in DOMAIN lastTrades /\ both[i] = lastTrades[i - n]
          BY <3>1, <4>2
        <5> QED
          BY <5>1
      <4> QED
        BY <3>1, <4>1, <4>2
    <3> QED
      BY <1>2, <3>2 DEF both
  <2> QED
    BY <1>2, <1>5, <2>1 DEF NeverTakes
<1>10. NeverTakes'
  BY <1>2, <1>3, <1>5, <1>8, <1>9 DEF NeverTakes
<1>11. Apart'
  <2> SUFFICES ASSUME phase = "applyQuotes" PROVE Apart'
    BY <1>3 DEF Apart
  <2>1. \A i \in DOMAIN events : IsAdd(i) => Passive(events[i].order)
    BY <1>5 DEF Apart
  <2>2. ASSUME NEW i \in DOMAIN events', IsAdd(i)'
        PROVE  Passive(events[i + 1].order) /\ IsAdd(i + 1) /\ i + 1 \in DOMAIN events /\ events'[i] = events[i + 1]
    BY <1>7, <2>1, <2>2 DEF IsAdd
  <2>3. ASSUME NEW i \in DOMAIN events', IsAdd(i)'
        PROVE  /\ events'[i].order.type = "LIMIT"
               /\ \A p \in DOMAIN book'[Opposite(events'[i].order.side)] :
                    Better(events'[i].order.side, p, events'[i].order.price)
    BY <1>3, <2>2, <2>3 DEF Passive
  <2>4. ASSUME NEW i \in DOMAIN events', IsAdd(i)', NEW j \in DOMAIN events', IsAdd(j)',
               events'[i].order.side = "BUY", events'[j].order.side = "SELL"
        PROVE  events'[i].order.price < events'[j].order.price
    BY <1>5, <2>2, <2>4 DEF Apart
  <2> QED
    BY <2>3, <2>4 DEF Apart, Passive
<1>12. ToldSoFar'
  <2>1. CASE phase = "applyQuotes"
    <3>1. lastTrades = <<>>
      BY <1>2, <1>5, <2>1 DEF NeverTakes
    <3>2. tickTrades' = tickTrades
      BY <1>2, <1>6, <3>1
    <3> QED
      BY <1>3, <1>5, <3>2 DEF ToldSoFar, myFills, owns
  <2>2. CASE phase # "applyQuotes"
    BY <1>3, <1>5, <2>2 DEF ToldSoFar
  <2> QED
    BY <2>1, <2>2
<1> QED
  BY <1>10, <1>11, <1>12

(* Better than the best price of the other side is better than them all.   *)
LEMMA BehindBest ==
  ASSUME TypeOK, PricesFinite, NEW order \in Order, Absent \notin Price,
         order.type = "LIMIT",
         LET opposite == Quote(Opposite(order.side)).price
         IN opposite = Absent \/ Better(order.side, opposite, order.price)
  PROVE  Passive(order)
<1> DEFINE other == Opposite(order.side)
           best == Quote(other).price
<1>1. other \in Side /\ order.side \in Side /\ order.price \in Int
  BY SideOpposite, TypesAssumption DEF Order
<1>2. DOMAIN book[other] # {} => /\ best \in DOMAIN book[other]
                                 /\ \A p \in DOMAIN book[other] : ~Better(other, p, best)
  BY <1>1, QuotePrice
<1>3. DOMAIN book[other] \subseteq Price
  BY <1>1 DEF TypeOK, BookTyped
<1>4. best = Absent \/ Better(order.side, best, order.price)
  OBVIOUS
<1>5. other = Opposite(order.side)
  OBVIOUS
<1> HIDE DEF other, best
<1>6. ASSUME NEW p \in DOMAIN book[other]
      PROVE  Better(order.side, p, order.price)
  <2>1. best \in Price /\ ~Better(other, p, best) /\ best # Absent
    BY <1>2, <1>3, <1>6
  <2>2. Better(order.side, best, order.price)
    BY <1>4, <2>1
  <2>3. best \in Int /\ p \in Int
    BY <1>3, <2>1, TypesAssumption
  <2> QED
    BY <1>1, <1>5, <2>1, <2>2, <2>3 DEF Better, Opposite, Side
<1> QED
  BY <1>5, <1>6 DEF Passive

(* The market maker acts.                                                  *)
LEMMA QuoteTold ==
  ASSUME Careful, Absent \notin Price, LoopInv, LedgerInv, FillsInv,
         NEW cancels \in Cancels, NEW amends \in Amends, NEW quotes \in Quotes,
         quote(cancels, amends, quotes)
  PROVE  FillsInv'
<1> DEFINE batch == Batch(cancels, amends, quotes)
           before == Len(cancels) + Len(amends)
           dropped == {cancels[i] : i \in DOMAIN cancels}
<1>1. BookSound /\ Scored /\ LoopShape
  BY LoopParts
<1>2. /\ phase = "applyFlow" /\ phase' = "applyQuotes" /\ events = <<>> /\ ~applying
      /\ events' = batch
      /\ minted' = minted \cup {quotes[i].id : i \in DOMAIN quotes}
      /\ told' = told + Cardinality(myFills)
      /\ UNCHANGED <<bookVars, applying, flowVars, tickTrades, ledger, mark, executed, intact>>
      /\ CarefulBatch(dropped, quotes)
  BY DEF quote, Batch
<1>3. SUFFICES ASSUME intact' PROVE NeverTakes' /\ Apart' /\ ToldSoFar'
  BY DEF FillsInv
<1>4. Minted /\ NeverTakes /\ ToldSoFar
  BY <1>2, <1>3 DEF LedgerInv, FillsInv
<1>5. mmOrders \subseteq OrderID /\ tickTrades \in Seq(Trade)
  BY <1>1 DEF Scored
<1>6. /\ batch \in Seq(Event) /\ quotes \in Seq(Submissions)
      /\ \A i \in DOMAIN batch : batch[i].type = "ADD" =>
           i - before \in DOMAIN quotes /\ batch[i].order = quotes[i - before]
  BY <1>5, BatchProperties
<1>7. /\ \A id \in TickTraded : \A i \in DOMAIN quotes : id # quotes[i].id
      /\ TradedIds(tickTrades) \cap mmOrders = TradedIds(tickTrades) \cap mmOrders'
      /\ TickTraded = TradedIds(tickTrades)
  BY <1>4, QuoteFresh
<1> HIDE DEF batch, before, dropped
<1>8. NeverTakes'
  <2>1. \A i \in DOMAIN tickTrades : tickTrades[i].takerId \in TickTraded
    BY <1>7 DEF TradedIds
  <2>2. \A i \in DOMAIN tickTrades : tickTrades[i].takerId \notin minted'
    BY <1>2, <1>4, <1>7, <2>1 DEF NeverTakes
  <2> QED
    BY <1>2, <2>2 DEF NeverTakes
<1>9. \A i \in DOMAIN quotes : Passive(quotes[i])
  <2>1. ASSUME NEW i \in DOMAIN quotes
        PROVE  Passive(quotes[i])
    <3> DEFINE order == quotes[i]
    <3>1. order \in Order
      BY <1>6, SubmissionsAssumption
    <3>2. /\ order.type = "LIMIT"
          /\ \/ Quote(Opposite(order.side)).price = Absent
             \/ Better(order.side, Quote(Opposite(order.side)).price, order.price)
      BY <1>2 DEF CarefulBatch
    <3>3. TypeOK /\ PricesFinite
      BY <1>1 DEF BookSound, IInv
    <3> HIDE DEF order
    <3>4. Passive(order)
      BY <3>1, <3>2, <3>3, BehindBest
    <3> QED
      BY <3>4 DEF order
  <2> QED
    BY <2>1
<1>10. Apart'
  <2>1. book' = book
    BY <1>2 DEF bookVars
  <2>2. ASSUME NEW i \in DOMAIN batch, batch[i].type = "ADD"
        PROVE  /\ batch[i].order.type = "LIMIT"
               /\ \A p \in DOMAIN book[Opposite(batch[i].order.side)] :
                    Better(batch[i].order.side, p, batch[i].order.price)
    BY <1>6, <1>9, <2>2 DEF Passive
  <2>3. ASSUME NEW i \in DOMAIN batch, batch[i].type = "ADD", NEW j \in DOMAIN batch, batch[j].type = "ADD",
               batch[i].order.side = "BUY", batch[j].order.side = "SELL"
        PROVE  batch[i].order.price < batch[j].order.price
    <3>1. /\ i - before \in DOMAIN quotes /\ batch[i].order = quotes[i - before]
          /\ j - before \in DOMAIN quotes /\ batch[j].order = quotes[j - before]
      BY <1>6, <2>3
    <3> QED
      BY <1>2, <2>3, <3>1 DEF CarefulBatch
  <2> QED
    BY <1>2, <2>1, <2>2, <2>3 DEF Apart, IsAdd, Passive
<1>11. ToldSoFar'
  <2>1. \A i \in DOMAIN tickTrades : owns(mmOrders, tickTrades[i]) <=> owns(mmOrders', tickTrades[i])
    <3>1. \A i \in DOMAIN tickTrades : /\ tickTrades[i].makerId \in TradedIds(tickTrades)
                                       /\ tickTrades[i].takerId \in TradedIds(tickTrades)
      BY DEF TradedIds
    <3> QED
      BY <1>7, <3>1 DEF owns
  <2>2. myFills' = myFills
    BY <1>2, <2>1 DEF myFills, owns
  <2>3. told = ledger.fills /\ ledger.fills \in Nat
    <3>1. ledger.fills \in Nat
      BY <1>1 DEF Scored, Ledger
    <3> QED
      BY <1>2, <1>4, <3>1 DEF ToldSoFar
  <2> QED
    BY <1>2, <2>2, <2>3 DEF ToldSoFar
<1> QED
  BY <1>8, <1>10, <1>11

(* The tick is scored.                                                     *)
LEMMA ScoreTold ==
  ASSUME LoopInv, LedgerInv, FillsInv, score
  PROVE  FillsInv'
<1>1. BookSound /\ Scored /\ LoopShape
  BY LoopParts
<1>2. /\ phase = "applyQuotes" /\ phase' = "flow" /\ events = <<>> /\ ~applying
      /\ ledger' = applyTrades(ledger, tickTrades, mmOrders)
      /\ tickTrades' = <<>>
      /\ UNCHANGED <<bookVars, nextId, events, applying, resting, mmOrders, truth>>
  BY DEF score
<1>3. UNCHANGED <<minted, told, intact>>
  BY <1>2 DEF truth
<1>4. SUFFICES ASSUME intact' PROVE NeverTakes' /\ Apart' /\ ToldSoFar'
  BY DEF FillsInv
<1>5. Minted /\ NeverTakes /\ ToldSoFar
  BY <1>3, <1>4 DEF LedgerInv, FillsInv
<1>6. NeverTakes' /\ Apart'
  BY <1>2 DEF NeverTakes, Apart
<1>7. ledger'.fills = ledger.fills + Cardinality(myFills)
  <2>1. tickTrades \in Seq(Trade) /\ ledger \in Ledger
    BY <1>1 DEF Scored
  <2>2. \A i \in DOMAIN tickTrades : tickTrades[i].takerId \notin mmOrders
    BY <1>5 DEF NeverTakes, Minted
  <2>3. ledger'.fills = ledger.fills + Cardinality({i \in DOMAIN tickTrades : owns(mmOrders, tickTrades[i])})
    BY <1>2, <2>1, <2>2, ApplyFills
  <2> QED
    BY <2>3 DEF myFills
<1>8. told' = ledger'.fills
  BY <1>2, <1>3, <1>5, <1>7 DEF ToldSoFar
<1>9. ledger'.fills \in Int
  <2>1. ledger' \in Ledger
    BY <1>1, <1>2, ApplyTyped DEF Scored
  <2> QED
    BY <2>1 DEF Ledger
<1>10. ToldSoFar'
  BY <1>2, <1>8, <1>9 DEF ToldSoFar
<1> QED
  BY <1>6, <1>10

(* The first state.                                                        *)
LEMMA ToldInitially == SimInit => FillsInv
<1> SUFFICES ASSUME SimInit PROVE NeverTakes /\ Apart /\ ToldSoFar
  BY DEF FillsInv
<1>1. /\ events = <<>> /\ ~applying /\ tickTrades = <<>> /\ phase = "flow" /\ told = 0
      /\ ledger = FlatLedger
  BY DEF SimInit
<1>2. NeverTakes /\ Apart
  BY <1>1 DEF NeverTakes, Apart
<1>3. ToldSoFar
  BY <1>1 DEF ToldSoFar, FlatLedger
<1> QED
  BY <1>2, <1>3

LEMMA ToldInductive ==
  ASSUME Careful, Absent \notin Price, LoopInv, LedgerInv, FillsInv, [SimNext]_vars
  PROVE  FillsInv'
<1>1. CASE flowIdles
  <2> DEFINE out == <<>>
  <2>1. startTick(out)
    BY <1>1 DEF flowIdles
  <2>2. out \in Seq(Event) /\ DOMAIN out = {}
    OBVIOUS
  <2> HIDE DEF out
  <2> QED
    BY <2>1, <2>2, StartTold
<1>2. ASSUME NEW order \in Submissions, flowAdds(order)
      PROVE  FillsInv'
  <2> DEFINE out == <<ADD(order)>>
  <2>1. startTick(out) /\ order.id = nextId
    BY <1>2 DEF flowAdds
  <2>2. nextId \in Nat
    BY LoopParts DEF Scored
  <2>3. out \in Seq(Event) /\ \A i \in DOMAIN out : out[i].order = order
    BY EventKinds
  <2> HIDE DEF out
  <2> QED
    BY <2>1, <2>2, <2>3, StartTold
<1>3. ASSUME NEW id \in OrderID, flowCancels(id)
      PROVE  FillsInv'
  <2> DEFINE out == <<CANCEL(id)>>
  <2>1. startTick(out)
    BY <1>3 DEF flowCancels
  <2>2. out \in Seq(Event) /\ \A i \in DOMAIN out : out[i].type # "ADD"
    BY EventKinds
  <2> HIDE DEF out
  <2> QED
    BY <2>1, <2>2, StartTold
<1>4. CASE UNCHANGED vars
  <2>1. UNCHANGED <<book, lastTrades, phase, events, applying, tickTrades, mmOrders, ledger, minted,
                    told, intact>>
    BY <1>4 DEF vars, bookVars, loopVars, scoreVars, truth
  <2>2. Adding' = Adding /\ myFills' = myFills
    BY <2>1 DEF Adding, IsAdd, myFills, owns
  <2>3. NeverTakes' <=> NeverTakes
    BY <2>1, <2>2 DEF NeverTakes
  <2>4. Apart' <=> Apart
    BY <2>1 DEF Apart, IsAdd, Passive
  <2>5. ToldSoFar' <=> ToldSoFar
    BY <2>1, <2>2 DEF ToldSoFar
  <2> QED
    BY <2>1, <2>3, <2>4, <2>5 DEF FillsInv
<1> QED
  BY <1>1, <1>2, <1>3, <1>4, ApplyTold, MatchTold, DrainTold, QuoteTold, ScoreTold DEF SimNext

LEMMA ToldInvariance ==
  ASSUME Careful, Absent \notin Price
  PROVE  SimSpec => []FillsInv
<1>1. SimInit => FillsInv
  BY ToldInitially
<1>2. LoopInv /\ LedgerInv /\ FillsInv /\ [SimNext]_vars => FillsInv'
  BY ToldInductive
<1> QED
  BY <1>1, <1>2, LoopInvariance, AccountInvariance, PTL DEF SimSpec

(* A careful market maker is told of every execution of its orders before  *)
(* it quotes again (market_maker.h:40), as long as no order is priced at   *)
(* the value that stands for an empty side.                                *)
THEOREM EveryFillIsTold ==
  ASSUME Careful, Absent \notin Price
  PROVE  SimSpec => []FillsTold
<1>1. LoopInv /\ LedgerInv /\ FillsInv => FillsTold
  <2> SUFFICES ASSUME LoopInv, LedgerInv, FillsInv, phase = "applyFlow", ~applying, intact
               PROVE  told + Cardinality(myFills) = executed.fills
    BY DEF FillsTold
  <2>1. /\ tickTrades \in Seq(Trade) /\ ledger \in Ledger
        /\ Balance(executed) = applyTrades(ledger, tickTrades, mmOrders)
        /\ mmOrders \subseteq minted /\ NeverTakes /\ ToldSoFar
    BY DEF LoopInv, SimTypeOK, LedgerInv, Minted, Booked, TradedSoFar, FillsInv
  <2>2. \A i \in DOMAIN tickTrades : tickTrades[i].takerId \notin mmOrders
    BY <2>1 DEF NeverTakes
  <2>3. executed.fills = ledger.fills + Cardinality({i \in DOMAIN tickTrades : owns(mmOrders, tickTrades[i])})
    BY <2>1, <2>2, ApplyFills DEF Balance
  <2>4. told = ledger.fills
    <3>1. ledger.fills \in Nat
      BY <2>1 DEF Ledger
    <3> QED
      BY <2>1, <3>1 DEF ToldSoFar
  <2> QED
    BY <2>3, <2>4 DEF myFills
<1> QED
  BY <1>1, LoopInvariance, AccountInvariance, ToldInvariance, PTL

-----------------------------------------------------------------------------
(* The flow alone.  With no market maker's orders every order has the      *)
(* flow's size, so every execution is of two whole orders.                 *)

(* Every order on the book has the flow's size.                            *)
Whole ==
  \A s \in Side : \A p \in DOMAIN book[s] : \A i \in Live(book[s][p].orders) :
    book[s][p].orders.slots[i].quantity = QUANTITY

LEMMA WholeStays ==
  ASSUME Whole, NoneNew
  PROVE  Whole'
<1>1. ASSUME NEW s \in Side, NEW p \in DOMAIN book'[s], NEW i \in Live(book'[s][p].orders)
      PROVE  book'[s][p].orders.slots[i].quantity = QUANTITY
  <2>1. p \in DOMAIN book[s] /\ KeptFrom(book'[s][p].orders, book[s][p].orders)
    BY DEF NoneNew
  <2>2. PICK j \in Live(book[s][p].orders) :
          book'[s][p].orders.slots[i] = book[s][p].orders.slots[j]
    BY <1>1, <2>1 DEF KeptFrom
  <2> QED
    BY <2>1, <2>2 DEF Whole
<1> QED
  BY <1>1 DEF Whole, Live

(* A resting order trades in full, and leaves the book.                    *)
LEMMA FillRestingIds ==
  ASSUME TypeOK, Distinct, Whole, NEW price \in Price, fillResting(price)
  PROVE  \E id \in RestingIds :
           /\ Loses(id) /\ NoneNew
           /\ incoming' = [incoming EXCEPT !.quantity = incoming.quantity - QUANTITY]
           /\ QUANTITY <= incoming.quantity
           /\ TradedIds(lastTrades') = TradedIds(lastTrades) \cup {id, incoming.id}
<1> DEFINE level == book[Contra][price]
           d     == level.orders
           curr  == Front(d)
<1>1. incoming \in Order /\ incoming # NoOrder /\ Contra \in Side
  BY IncomingTyped DEF fillResting
<1>2. /\ price \in DOMAIN book[Contra] /\ level \in Level
      /\ WellFormed(d) /\ ~IsEmpty(d) /\ d \in Deque
  BY <1>1 DEF fillResting, BestLive, TypeOK, BookTyped, Level
<1>3. /\ curr \in Order /\ d.begin \in Live(d) /\ curr = d.slots[d.begin]
  BY <1>2, FrontTyped DEF Live, IsEmpty, Deque, WellFormed, Front
<1>4. curr.id \in IdsIn(d) /\ curr.id \in RestingIds /\ curr.quantity = QUANTITY
  BY <1>1, <1>2, <1>3, OnALevel DEF IdsIn, Whole
<1>5. /\ curr.quantity <= incoming.quantity
      /\ lastTrades' = Append(lastTrades, Fill(curr, curr.quantity))
      /\ incoming' = [incoming EXCEPT !.quantity = @ - curr.quantity]
      /\ book' = [book EXCEPT ![Contra][price] = Consume(level)]
  BY <1>1, <1>2 DEF fillResting, TypeOK, BookTyped
<1>6. Stores(Contra, price, Consume(level))
  BY <1>1, <1>2, <1>5 DEF Stores, TypeOK, BookTyped
<1>7. Consume(level).orders = Erase(d, d.begin)
  BY DEF Consume
<1>8. Unique(d)
  BY <1>1, <1>2 DEF Distinct
<1>9. Unique(Erase(d, d.begin)) /\ IdsIn(Erase(d, d.begin)) = IdsIn(d) \ {curr.id}
  BY <1>2, <1>3, <1>8, EraseIds
<1>10. Loses(curr.id)
  BY <1>1, <1>2, <1>4, <1>6, <1>7, <1>9, StoresWithout
<1>11. NoneNew
  BY <1>1, <1>2, <1>3, <1>6, <1>7, EraseKeeps, StoresKept
<1>12. TradedIds(lastTrades') = TradedIds(lastTrades) \cup {curr.id, incoming.id}
  <2>1. curr.quantity \in Nat /\ lastTrades \in Seq(Trade)
    BY <1>3 DEF Order, TypeOK
  <2> DEFINE trade == Fill(curr, curr.quantity)
  <2>2. trade \in Trade /\ trade.makerId = curr.id /\ trade.takerId = incoming.id
    BY <1>1, <1>3, <2>1, FillTyped DEF Fill
  <2>3. lastTrades' = Append(lastTrades, trade)
    BY <1>5
  <2> HIDE DEF trade
  <2> QED
    BY <2>1, <2>2, <2>3, TradedAppended
<1> QED
  BY <1>4, <1>5, <1>10, <1>11, <1>12

(* What is left of a limit order joins the book, and nothing leaves it.    *)
LEMMA RestIdsExact ==
  ASSUME TypeOK, Distinct, Whole, restRemainder, incoming.id \notin RestingIds, incoming.type = "LIMIT",
         incoming.quantity \in {0, QUANTITY}
  PROVE  /\ RestingIds' = IF incoming.quantity # 0 THEN RestingIds \cup {incoming.id} ELSE RestingIds
         /\ Distinct' /\ Whole'
<1> DEFINE kept  == Without(book[Contra], EmptyFront(Contra))
           level == LevelAt(incoming.side, incoming.price)
           queue == PushBack(level.orders, incoming)
           added == [orders |-> queue, quantity |-> level.quantity + incoming.quantity]
           own   == incoming.side
           at    == incoming.price
<1>1. /\ incoming \in Order /\ Contra \in Side /\ Contra # own
      /\ own \in Side /\ \A s \in Side : s = Contra \/ s = own
  BY IncomingTyped DEF restRemainder, Order, Side
<1>2. level \in Level /\ WellFormed(level.orders) /\ level.orders \in Deque
  BY <1>1, EmptyDequeTyped DEF LevelAt, EmptyLevel, Level, TypeOK, BookTyped
<1>3. /\ \A p \in DOMAIN book'[Contra] : p \in DOMAIN book[Contra] /\ book'[Contra][p] = book[Contra][p]
      /\ \A p \in DOMAIN book[Contra] : p \notin DOMAIN book'[Contra] => IdsIn(book[Contra][p].orders) = {}
  <2>1. book'[Contra] = kept
    BY RestRemainderBook
  <2>2. ASSUME NEW p \in DOMAIN book[Contra], p \notin DOMAIN kept
        PROVE  IdsIn(book[Contra][p].orders) = {}
    <3>1. p \in EmptyFront(Contra)
      BY <2>2 DEF Without
    <3>2. IsEmpty(book[Contra][p].orders)
      BY <3>1 DEF EmptyFront
    <3>3. book[Contra][p].orders \in Deque
      BY <1>1 DEF TypeOK, BookTyped, Level
    <3>4. Live(book[Contra][p].orders) = {}
      BY <3>2, <3>3 DEF Live, IsEmpty, Deque
    <3> QED
      BY <3>4 DEF IdsIn
  <2>3. \A p \in DOMAIN kept : p \in DOMAIN book[Contra] /\ kept[p] = book[Contra][p]
    BY DEF Without
  <2> HIDE DEF kept
  <2> QED
    BY <2>1, <2>2, <2>3
<1>4. CASE incoming.quantity # 0
  <2>1. /\ book'[own] = With(book[own], at, added)
    <3>1. book' = [book EXCEPT ![Contra] = kept, ![own] = With(@, at, added)]
      BY <1>4 DEF restRemainder
    <3> HIDE DEF kept, added
    <3> QED
      BY <1>1, <3>1 DEF TypeOK, BookTyped
  <2>2. /\ IdsIn(level.orders) = IF at \in DOMAIN book[own] THEN IdsIn(book[own][at].orders) ELSE {}
        /\ at \in DOMAIN book[own] => level.orders = book[own][at].orders
        /\ at \notin DOMAIN book[own] => Live(level.orders) = {}
    BY DEF LevelAt, EmptyLevel, EmptyDeque, IdsIn, Live
  <2>3. incoming.id \notin IdsIn(level.orders) /\ Unique(level.orders)
    <3>1. incoming.id \notin IdsIn(level.orders)
      BY <1>1, <2>2, OnALevel
    <3>2. Unique(level.orders)
      BY <1>1, <2>2 DEF Unique, Distinct
    <3> QED
      BY <3>1, <3>2
  <2>4. IdsIn(queue) = IdsIn(level.orders) \cup {incoming.id} /\ Unique(queue)
    BY <1>2, <2>3, PushBackIds
  <2>5. \A i \in Live(queue) : queue.slots[i].quantity = QUANTITY
    <3>1. \A i \in Live(level.orders) : level.orders.slots[i].quantity = QUANTITY
      BY <1>1, <2>2 DEF Whole
    <3>2. incoming.quantity = QUANTITY
      BY <1>4
    <3> QED
      BY <1>2, <3>1, <3>2, PushBackOrders
  <2>6. added.orders = queue
    OBVIOUS
  <2> HIDE DEF level, queue, added, kept
  <2>7. /\ DOMAIN book'[own] = DOMAIN book[own] \cup {at}
        /\ book'[own][at].orders = queue
        /\ \A p \in DOMAIN book[own] : p # at => book'[own][p] = book[own][p]
    BY <2>1, <2>6 DEF With
  <2> HIDE DEF own, at
  <2>8. \A p \in DOMAIN book'[own] : \A k \in IdsIn(book'[own][p].orders) :
          \/ k = incoming.id /\ p = at
          \/ k # incoming.id /\ p \in DOMAIN book[own] /\ k \in IdsIn(book[own][p].orders)
    <3>1. \A p \in DOMAIN book[own] : incoming.id \notin IdsIn(book[own][p].orders)
      BY <1>1, OnALevel
    <3> QED
      BY <2>2, <2>3, <2>4, <2>7, <3>1
  <2>9. \A p \in DOMAIN book[own] : \A k \in IdsIn(book[own][p].orders) : k \in IdsIn(book'[own][p].orders)
    BY <2>2, <2>4, <2>7
  <2>10. incoming.id \in IdsIn(book'[own][at].orders) /\ at \in DOMAIN book'[own]
    BY <2>4, <2>7
  <2>11. \A p \in DOMAIN book'[Contra] : \A k \in IdsIn(book'[Contra][p].orders) :
           k # incoming.id /\ p \in DOMAIN book[Contra] /\ k \in IdsIn(book[Contra][p].orders)
    BY <1>1, <1>3, OnALevel
  <2>12. RestingIds' = RestingIds \cup {incoming.id}
    <3>1. ASSUME NEW k \in RestingIds'
          PROVE  k \in RestingIds \/ k = incoming.id
      <4>1. PICK s \in Side : \E p \in DOMAIN book'[s] : k \in IdsIn(book'[s][p].orders)
        BY OnALevelNext
      <4>2. PICK p \in DOMAIN book'[s] : k \in IdsIn(book'[s][p].orders)
        BY <4>1
      <4>3. k = incoming.id \/ (p \in DOMAIN book[s] /\ k \in IdsIn(book[s][p].orders))
        BY <1>1, <2>8, <2>11, <4>2
      <4> QED
        BY <4>3, OnALevel
    <3>2. ASSUME NEW k \in RestingIds
          PROVE  k \in RestingIds'
      <4>1. PICK s \in Side : \E p \in DOMAIN book[s] : k \in IdsIn(book[s][p].orders)
        BY OnALevel
      <4>2. PICK p \in DOMAIN book[s] : k \in IdsIn(book[s][p].orders)
        BY <4>1
      <4>3. p \in DOMAIN book'[s] /\ k \in IdsIn(book'[s][p].orders)
        BY <1>1, <1>3, <2>7, <2>9, <4>2
      <4> QED
        BY <4>3, OnALevelNext
    <3>3. incoming.id \in RestingIds'
      BY <1>1, <2>10, OnALevelNext
    <3> QED
      BY <3>1, <3>2, <3>3
  <2>13. \A s \in Side : \A p \in DOMAIN book'[s] : Unique(book'[s][p].orders)
    <3>1. \A p \in DOMAIN book'[own] : Unique(book'[own][p].orders)
      BY <1>1, <2>4, <2>7 DEF Distinct
    <3>2. \A p \in DOMAIN book'[Contra] : Unique(book'[Contra][p].orders)
      BY <1>1, <1>3 DEF Distinct
    <3> QED
      BY <1>1, <3>1, <3>2
  <2>14. ASSUME NEW s \in Side, NEW t \in Side, NEW p \in DOMAIN book'[s], NEW q \in DOMAIN book'[t],
                NEW k \in IdsIn(book'[s][p].orders), k \in IdsIn(book'[t][q].orders)
         PROVE  s = t /\ p = q
    <3>1. CASE k = incoming.id
      <4>1. s = own /\ t = own
        BY <1>1, <2>11, <2>14, <3>1
      <4> QED
        BY <2>8, <2>14, <3>1, <4>1
    <3>2. CASE k # incoming.id
      <4>1. p \in DOMAIN book[s] /\ k \in IdsIn(book[s][p].orders)
        BY <1>1, <2>8, <2>11, <2>14, <3>2
      <4>2. q \in DOMAIN book[t] /\ k \in IdsIn(book[t][q].orders)
        BY <1>1, <2>8, <2>11, <2>14, <3>2
      <4> QED
        BY <4>1, <4>2 DEF Distinct
    <3> QED
      BY <3>1, <3>2
  <2>15. Distinct'
    BY <2>13, <2>14, DistinctNext
  <2>16. Whole'
    <3>1. \A p \in DOMAIN book'[own] : \A i \in Live(book'[own][p].orders) :
            book'[own][p].orders.slots[i].quantity = QUANTITY
      BY <1>1, <2>5, <2>7 DEF Whole
    <3>2. \A p \in DOMAIN book'[Contra] : \A i \in Live(book'[Contra][p].orders) :
            book'[Contra][p].orders.slots[i].quantity = QUANTITY
      BY <1>1, <1>3 DEF Whole
    <3> QED
      BY <1>1, <3>1, <3>2 DEF Whole, Live
  <2> QED
    BY <1>4, <2>12, <2>15, <2>16
<1>5. CASE incoming.quantity = 0
  <2>1. book'[own] = book[own]
    BY <1>1, <1>5, RestRemainderBook
  <2> HIDE DEF own
  <2>2. \A s \in Side : \A p \in DOMAIN book'[s] : p \in DOMAIN book[s] /\ book'[s][p] = book[s][p]
    BY <1>1, <1>3, <2>1
  <2>3. NoneNew /\ Shrinks
    BY <2>2 DEF NoneNew, Shrinks, KeptFrom
  <2>4. RestingIds' = RestingIds
    <3>1. RestingIds' \subseteq RestingIds
      BY <2>3, ShrinksIds
    <3>2. ASSUME NEW k \in RestingIds
          PROVE  k \in RestingIds'
      <4>1. PICK s \in Side : \E p \in DOMAIN book[s] : k \in IdsIn(book[s][p].orders)
        BY OnALevel
      <4>2. PICK p \in DOMAIN book[s] : k \in IdsIn(book[s][p].orders)
        BY <4>1
      <4>3. p \in DOMAIN book'[s]
        BY <1>1, <1>3, <2>1, <4>2
      <4>4. k \in IdsIn(book'[s][p].orders)
        BY <2>2, <4>2, <4>3
      <4> QED
        BY <4>3, <4>4, OnALevelNext
    <3> QED
      BY <3>1, <3>2
  <2>5. Distinct'
    <3>1. \A s \in Side : \A p \in DOMAIN book'[s] : Unique(book'[s][p].orders)
      BY <2>2 DEF Distinct
    <3>2. ASSUME NEW s \in Side, NEW t \in Side, NEW p \in DOMAIN book'[s], NEW q \in DOMAIN book'[t],
                 NEW k \in IdsIn(book'[s][p].orders), k \in IdsIn(book'[t][q].orders)
          PROVE  s = t /\ p = q
      <4>1. /\ p \in DOMAIN book[s] /\ k \in IdsIn(book[s][p].orders)
            /\ q \in DOMAIN book[t] /\ k \in IdsIn(book[t][q].orders)
        BY <2>2, <3>2
      <4> QED
        BY <4>1 DEF Distinct
    <3> QED
      BY <3>1, <3>2, DistinctNext
  <2>6. Whole'
    BY <2>3, WholeStays
  <2> QED
    BY <1>5, <2>4, <2>5, <2>6
<1> QED
  BY <1>4, <1>5

(* The order still to be added or in hand, and the one to be cancelled.    *)
Outstanding == IF events # <<>> /\ ~(applying /\ Idle) THEN Adding ELSE {}

Leaving == {id \in OrderID : events # <<>> /\ ~applying /\ events[1] = CANCEL(id)}

(* The flow is alone: its one event of the tick adds or cancels.           *)
OfFlow(e) ==
  \/ \E order \in Submissions : e = ADD(order) /\ order.type = "LIMIT" /\ order.quantity = QUANTITY
  \/ \E id \in OrderID : e = CANCEL(id)

Alone ==
  /\ mmOrders = {} /\ minted = {}
  /\ Len(events) <= 1
  /\ events # <<>> => OfFlow(events[1])
  /\ phase = "applyQuotes" => events = <<>>
  /\ events # <<>> /\ ~applying => tickTrades = <<>>

(* The order in hand is whole until it trades, and then there is nothing   *)
(* left of it.                                                             *)
Hand ==
  ~Idle => \/ incoming.quantity = QUANTITY /\ incoming.id \notin TickTraded
           \/ incoming.quantity = 0 /\ incoming.id \in TickTraded

Fresh ==
  /\ \A id \in RestingIds \cup Adding \cup TickTraded : id < nextId
  /\ RestingIds \cap Outstanding = {} /\ RestingIds \cap TickTraded = {}

(* In the middle of a tick the flow believes to be on the book what is, or *)
(* is about to be, and has not traded.                                     *)
Believed ==
  IF phase = "flow" THEN tracked = RestingIds
  ELSE resting \ TickTraded = (RestingIds \ Leaving) \cup (Outstanding \ TickTraded)

FlowInv == intact => Distinct /\ Whole /\ Alone /\ Hand /\ Fresh /\ Believed

(* With one event, the ids of orders to add are its.                       *)
LEMMA OneEvent ==
  ASSUME events \in Seq(Event), Len(events) <= 1, events # <<>>
  PROVE  /\ DOMAIN events = {1} /\ Head(events) = events[1] /\ Tail(events) = <<>>
         /\ Adding = IF events[1].type = "ADD" THEN {events[1].order.id} ELSE {}
<1>1. Len(events) = 1 /\ DOMAIN events = 1..1 /\ Head(events) = events[1] /\ Tail(events) = <<>>
  <2>1. Len(events) \in Nat /\ DOMAIN events = 1..Len(events) /\ Len(events) # 0
    OBVIOUS
  <2>2. Len(events) = 1
    BY <2>1
  <2>3. Tail(events) \in Seq(Event) /\ Len(Tail(events)) = 0
    BY <2>2
  <2>4. \A rest \in Seq(Event) : Len(rest) = 0 => rest = <<>>
    OBVIOUS
  <2>5. Tail(events) = <<>>
    BY <2>3, <2>4
  <2>6. Head(events) = events[1]
    BY <2>2
  <2> QED
    BY <2>1, <2>2, <2>5, <2>6
<1>2. DOMAIN events = {1}
  BY <1>1
<1> QED
  BY <1>1, <1>2 DEF Adding, IsAdd

LEMMA FlowEvents ==
  ASSUME NEW e, OfFlow(e)
  PROVE  /\ e.type = "ADD" => \E order \in Submissions :
                                e = ADD(order) /\ order.type = "LIMIT" /\ order.quantity = QUANTITY
         /\ e.type # "ADD" => \E id \in OrderID : e = CANCEL(id)
<1>1. \A order : ADD(order).type = "ADD"
  BY DEF ADD
<1>2. \A id : CANCEL(id).type = "CANCEL"
  BY DEF CANCEL
<1> QED
  BY <1>1, <1>2 DEF OfFlow

(* A tick starts.                                                          *)
LEMMA StartFlow ==
  ASSUME LoopInv, FlowInv, NEW out \in Seq(Event), Len(out) <= 1, startTick(out),
         nextId' \in Nat, nextId <= nextId',
         \/ out = <<>> /\ resting' = tracked
         \/ \E order \in Submissions :
              /\ out = <<ADD(order)>> /\ order.type = "LIMIT" /\ order.quantity = QUANTITY
              /\ order.id = nextId /\ nextId' = nextId + 1 /\ resting' = tracked \cup {order.id}
         \/ \E id \in OrderID : out = <<CANCEL(id)>> /\ id \in tracked /\ resting' = tracked \ {id}
  PROVE  FlowInv'
<1>1. BookSound /\ Scored /\ LoopShape
  BY LoopParts
<1>2. /\ phase = "flow" /\ phase' = "applyFlow" /\ events' = out /\ tickTrades' = <<>>
      /\ UNCHANGED <<bookVars, applying, prevTrades, scoreVars, truth>>
  BY DEF startTick
<1>3. UNCHANGED <<book, incoming, minted, intact, mmOrders>> /\ ~applying /\ Idle
  BY <1>1, <1>2 DEF truth, scoreVars, bookVars, LoopShape
<1>4. SUFFICES ASSUME intact' PROVE (Distinct /\ Whole /\ Alone /\ Hand /\ Fresh /\ Believed)'
  BY DEF FlowInv
<1>5. Distinct /\ Whole /\ Alone /\ Fresh /\ tracked = RestingIds
  BY <1>2, <1>3, <1>4 DEF FlowInv, Believed
<1>6. RestingIds' = RestingIds /\ TickTraded' = {} /\ Distinct' /\ Whole' /\ Hand'
  <2>1. TradedIds(<<>>) = {}
    BY DEF TradedIds
  <2>2. RestingIds' = RestingIds /\ TickTraded' = {}
    BY <1>2, <1>3, <2>1 DEF RestingIds, IdsOn, TickTraded
  <2>3. Distinct' /\ Whole'
    BY <1>3, <1>5 DEF Distinct, Whole, Unique, IdsIn
  <2> QED
    BY <1>3, <2>2, <2>3 DEF Hand, Idle
<1>7. \A id \in RestingIds : id \in Nat /\ id < nextId /\ id < nextId' /\ nextId \in Nat
  <2>1. RestingIds \subseteq OrderID /\ nextId \in Nat
    BY <1>1, RestingAreIds DEF BookSound, IInv, Scored
  <2> QED
    BY <1>5, <2>1, SimAssumption DEF Fresh
<1>8. CASE out = <<>> /\ resting' = tracked
  <2>1. Adding' = {} /\ Outstanding' = {} /\ Leaving' = {}
    BY <1>2, <1>8 DEF Adding, Outstanding, Leaving
  <2>2. Alone'
    BY <1>2, <1>3, <1>5, <1>8 DEF Alone
  <2>3. Fresh' /\ Believed'
    BY <1>2, <1>5, <1>6, <1>7, <1>8, <2>1 DEF Fresh, Believed
  <2> QED
    BY <1>6, <2>2, <2>3
<1>9. ASSUME NEW order \in Submissions,
             out = <<ADD(order)>>, order.type = "LIMIT", order.quantity = QUANTITY,
             order.id = nextId, nextId' = nextId + 1, resting' = tracked \cup {order.id}
      PROVE  (Distinct /\ Whole /\ Alone /\ Hand /\ Fresh /\ Believed)'
  <2>1. /\ out # <<>> /\ Len(out) = 1 /\ DOMAIN out = {1} /\ out[1] = ADD(order)
        /\ ADD(order).type = "ADD" /\ ADD(order).order = order
    BY <1>9 DEF ADD
  <2>2. \A id : ADD(order) # CANCEL(id)
    BY DEF ADD, CANCEL
  <2>3. Adding' = {order.id} /\ Outstanding' = {order.id} /\ Leaving' = {}
    BY <1>2, <1>3, <2>1, <2>2 DEF Adding, IsAdd, Outstanding, Leaving
  <2>4. Alone'
    BY <1>2, <1>3, <1>5, <1>9, <2>1 DEF Alone, OfFlow
  <2>5. nextId \in Nat /\ order.id < nextId' /\ order.id \notin RestingIds
    BY <1>1, <1>7, <1>9 DEF Scored
  <2>6. Fresh'
    BY <1>6, <1>7, <2>3, <2>5 DEF Fresh
  <2>7. Believed'
    BY <1>2, <1>5, <1>6, <1>9, <2>3 DEF Believed
  <2> QED
    BY <1>6, <2>4, <2>6, <2>7
<1>10. ASSUME NEW id \in OrderID, out = <<CANCEL(id)>>, id \in tracked, resting' = tracked \ {id}
       PROVE  (Distinct /\ Whole /\ Alone /\ Hand /\ Fresh /\ Believed)'
  <2>1. out # <<>> /\ Len(out) = 1 /\ DOMAIN out = {1} /\ out[1] = CANCEL(id)
    BY <1>10
  <2>2. out[1].type # "ADD" /\ \A other : CANCEL(id) = CANCEL(other) => other = id
    BY <2>1 DEF CANCEL
  <2>3. Adding' = {} /\ Outstanding' = {} /\ Leaving' = {id}
    BY <1>2, <1>3, <2>1, <2>2 DEF Adding, IsAdd, Outstanding, Leaving
  <2>4. Alone'
    BY <1>2, <1>3, <1>5, <2>1 DEF Alone, OfFlow
  <2>5. Fresh'
    BY <1>6, <1>7, <2>3 DEF Fresh
  <2>6. Believed'
    BY <1>2, <1>5, <1>6, <1>10, <2>3 DEF Believed
  <2> QED
    BY <1>6, <2>4, <2>5, <2>6
<1> QED
  BY <1>8, <1>9, <1>10

(* An event of the flow is handed to the book.                             *)
LEMMA ApplyFlow ==
  ASSUME LoopInv, FlowInv, apply
  PROVE  FlowInv'
<1>1. BookSound /\ Scored /\ LoopShape
  BY LoopParts
<1>2. /\ phase # "flow" /\ ~applying /\ events # <<>>
      /\ dispatch(Head(events)) /\ applying' = TRUE
      /\ intact' = (intact /\ IndexExact)
      /\ UNCHANGED <<phase, nextId, events, flowVars, tickTrades, scoreVars, minted, executed, told>>
  BY DEF apply
<1>3. UNCHANGED <<resting, prevTrades, mmOrders>> /\ Idle /\ TypeOK
  BY <1>1, <1>2 DEF flowVars, scoreVars, LoopShape, BookSound, IInv
<1>4. SUFFICES ASSUME intact' PROVE (Distinct /\ Whole /\ Alone /\ Hand /\ Fresh /\ Believed)'
  BY DEF FlowInv
<1>5. IndexExact /\ Distinct /\ Whole /\ Alone /\ Fresh /\ Believed
  BY <1>2, <1>4 DEF FlowInv
<1>6. /\ events \in Seq(Event) /\ Len(events) <= 1 /\ OfFlow(events[1]) /\ tickTrades = <<>>
      /\ Head(events) = events[1] /\ events[1] \in Event
      /\ Adding = IF events[1].type = "ADD" THEN {events[1].order.id} ELSE {}
  BY <1>1, <1>2, <1>5, OneEvent DEF LoopShape, Alone
<1>7. /\ lastTrades' = <<>>
      /\ \/ /\ events[1].type = "ADD" /\ incoming' = events[1].order /\ events[1].order \in Order
            /\ book' = book
         \/ events[1].type # "ADD" /\ incoming' = incoming
  BY <1>1, <1>2, <1>6, Dispatched DEF BookSound
<1>8. TickTraded = {} /\ TickTraded' = {} /\ Adding' = Adding /\ Leaving' = {}
  <2>1. TradedIds(<<>>) = {}
    BY DEF TradedIds
  <2> QED
    BY <1>2, <1>6, <1>7, <2>1 DEF TickTraded, Adding, IsAdd, Leaving
<1>9. Alone'
  BY <1>2, <1>3, <1>5 DEF Alone
<1>10. CASE events[1].type = "ADD"
  <2>1. PICK order \in Submissions : /\ events[1] = ADD(order) /\ order.type = "LIMIT"
                                     /\ order.quantity = QUANTITY
    BY <1>6, <1>10, FlowEvents
  <2>2. ADD(order).order = order
    BY DEF ADD
  <2>3. book' = book /\ incoming' = order /\ order \in Order /\ ~Idle'
    <3>1. book' = book /\ incoming' = events[1].order /\ events[1].order \in Order
      BY <1>7, <1>10
    <3>2. events[1].order = order
      BY <2>1, <2>2
    <3> QED
      BY <3>1, <3>2, TypesAssumption DEF Idle
  <2>4. RestingIds' = RestingIds
    BY <2>3 DEF RestingIds, IdsOn
  <2>5. Distinct' /\ Whole'
    BY <1>5, <2>3 DEF Distinct, Whole, Unique, IdsIn
  <2>6. Hand'
    BY <1>8, <2>1, <2>3 DEF Hand
  <2>7. Outstanding' = Adding /\ Outstanding = Adding /\ Leaving = {}
    BY <1>2, <1>3, <1>8, <2>1, <2>3 DEF Outstanding, Leaving, ADD, CANCEL
  <2>8. Fresh'
    BY <1>2, <1>5, <1>8, <2>4, <2>7 DEF Fresh
  <2>9. Believed'
    BY <1>2, <1>3, <1>5, <1>8, <2>4, <2>7 DEF Believed
  <2> QED
    BY <1>9, <2>5, <2>6, <2>8, <2>9
<1>11. CASE events[1].type # "ADD"
  <2>1. PICK id \in OrderID : events[1] = CANCEL(id)
    BY <1>6, <1>11, FlowEvents
  <2>2. events[1].id = id /\ events[1].type = "CANCEL"
    BY <2>1 DEF CANCEL
  <2>3. cancelOrder(events[1].id)
    BY <1>2, <1>6, <1>11, <2>2 DEF Event, ADD, AMEND, CANCEL, dispatch
  <2>4. RestingIds' = RestingIds \ {id} /\ Distinct' /\ Whole'
    <3>1. Loses(events[1].id) /\ NoneNew
      BY <1>3, <1>5, <2>2, <2>3, CancelIds
    <3>2. RestingIds' = RestingIds \ {events[1].id} /\ Distinct'
      BY <1>5, <3>1, LosesId, LosesDistinct
    <3> QED
      BY <1>5, <2>2, <3>1, <3>2, WholeStays
  <2>5. Idle' /\ Hand'
    BY <1>3, <1>7, <1>11 DEF Idle, Hand
  <2>6. Adding = {} /\ Outstanding' = {} /\ Outstanding = {}
    BY <1>6, <1>8, <1>11 DEF Outstanding
  <2>7. Leaving = {id}
    BY <1>2, <2>1 DEF Leaving, CANCEL
  <2>8. Fresh'
    BY <1>2, <1>5, <1>8, <2>4, <2>6 DEF Fresh
  <2>9. Believed'
    BY <1>2, <1>3, <1>5, <1>8, <2>4, <2>6, <2>7 DEF Believed
  <2> QED
    BY <1>9, <2>4, <2>5, <2>8, <2>9
<1> QED
  BY <1>10, <1>11

(* The order in hand meets the book.                                       *)
LEMMA MatchFlow ==
  ASSUME LoopInv, FlowInv, matching
  PROVE  FlowInv'
<1>1. BookSound /\ Scored /\ LoopShape
  BY LoopParts
<1>2. Match /\ UNCHANGED <<loopVars, flowVars, tickTrades, scoreVars, minted, told, intact>>
  BY DEF matching, Match
<1>3. UNCHANGED <<phase, nextId, events, applying, resting, prevTrades, tickTrades, mmOrders, minted, intact>>
  BY <1>2 DEF loopVars, flowVars, scoreVars
<1>4. TypeOK /\ ~Idle /\ applying /\ incoming.id \in Adding /\ phase # "flow"
  BY <1>1, <1>2, Matched, InHand DEF BookSound, IInv, LoopShape
<1>5. SUFFICES ASSUME intact' PROVE (Distinct /\ Whole /\ Alone /\ Hand /\ Fresh /\ Believed)'
  BY DEF FlowInv
<1>6. Distinct /\ Whole /\ Alone /\ Hand /\ Fresh /\ Believed
  BY <1>3, <1>5 DEF FlowInv
<1>7. /\ events \in Seq(Event) /\ Len(events) <= 1 /\ events # <<>> /\ OfFlow(events[1])
      /\ events[1].type = "ADD" /\ Adding = {events[1].order.id}
      /\ incoming = [events[1].order EXCEPT !.quantity = incoming.quantity]
  <2>1. /\ events \in Seq(Event) /\ events # <<>> /\ events[1].type = "ADD"
        /\ incoming = [events[1].order EXCEPT !.quantity = incoming.quantity]
    BY <1>1, <1>4 DEF LoopShape
  <2>2. Len(events) <= 1 /\ OfFlow(events[1])
    BY <1>6, <2>1 DEF Alone
  <2>3. Adding = {events[1].order.id}
    BY <2>1, <2>2, OneEvent
  <2> QED
    BY <2>1, <2>2, <2>3
<1>8. PICK order \in Submissions : /\ events[1] = ADD(order) /\ order.type = "LIMIT"
                                   /\ order.quantity = QUANTITY
  BY <1>7, FlowEvents
<1>9. events[1].order = order /\ order \in Order
  BY <1>8, SubmissionsAssumption DEF ADD
<1>10. /\ incoming \in Order /\ incoming.type = "LIMIT" /\ incoming.id = order.id /\ Adding = {order.id}
       /\ incoming.quantity \in Int /\ QUANTITY \in Nat /\ QUANTITY > 0
  <2>1. incoming \in Order
    BY <1>4 DEF TypeOK, Idle
  <2>2. incoming.type = order.type /\ incoming.id = order.id
    BY <1>7, <1>9 DEF Order
  <2>3. QUANTITY \in Nat /\ QUANTITY > 0
    BY SimAssumption, TypesAssumption
  <2> QED
    BY <1>7, <1>8, <1>9, <2>1, <2>2, <2>3 DEF Order
<1>11. Adding' = Adding /\ Leaving = {} /\ Leaving' = {} /\ Alone'
       /\ Outstanding = Adding
  BY <1>3, <1>4, <1>6, <1>7 DEF Adding, IsAdd, Leaving, Alone, Outstanding
<1>12. ASSUME NEW price \in Price, fillResting(price)
       PROVE  (Distinct /\ Whole /\ Hand /\ Fresh /\ Believed)'
  <2>1. PICK maker \in RestingIds :
          /\ Loses(maker) /\ NoneNew
          /\ incoming' = [incoming EXCEPT !.quantity = incoming.quantity - QUANTITY]
          /\ QUANTITY <= incoming.quantity
          /\ TradedIds(lastTrades') = TradedIds(lastTrades) \cup {maker, incoming.id}
    BY <1>4, <1>6, <1>12, FillRestingIds
  <2>2. RestingIds' = RestingIds \ {maker} /\ Distinct' /\ Whole'
    BY <1>6, <2>1, LosesId, LosesDistinct, WholeStays
  <2>3. TickTraded' = TickTraded \cup {maker, order.id}
    BY <1>3, <1>4, <1>10, <2>1 DEF TickTraded
  <2>4. incoming.quantity = QUANTITY /\ order.id \notin TickTraded
    BY <1>4, <1>6, <1>10, <2>1 DEF Hand
  <2>5. incoming'.quantity = 0 /\ incoming'.id = order.id /\ incoming' \in Order
    <3>1. incoming'.quantity = incoming.quantity - QUANTITY /\ incoming'.id = incoming.id
      BY <1>10, <2>1 DEF Order
    <3>2. incoming'.quantity = 0
      BY <1>10, <2>4, <3>1
    <3>3. incoming' = [incoming EXCEPT !.quantity = 0] 
      BY <1>10, <2>1, <2>4
    <3> QED
      BY <1>10, <3>1, <3>2, <3>3 DEF Order
  <2>6. Hand' /\ ~Idle'
    <3>1. incoming' # NoOrder
      BY <2>5, TypesAssumption
    <3> QED
      BY <2>3, <2>5, <3>1 DEF Hand, Idle
  <2>7. Outstanding' = Adding
    BY <1>3, <1>4, <1>7, <1>11, <2>6 DEF Outstanding
  <2>8. maker # order.id /\ maker \notin TickTraded
    BY <1>6, <1>10, <1>11, <2>1 DEF Fresh
  <2>9. Fresh'
    <3>1. \A id \in RestingIds \cup Adding \cup TickTraded : id < nextId'
      BY <1>3, <1>6 DEF Fresh
    <3>2. \A id \in RestingIds' \cup Adding' \cup TickTraded' : id < nextId'
      BY <1>10, <1>11, <2>2, <2>3, <3>1
    <3>3. RestingIds' \cap Outstanding' = {} /\ RestingIds' \cap TickTraded' = {}
      BY <1>6, <1>10, <1>11, <2>2, <2>3, <2>7 DEF Fresh
    <3> QED
      BY <3>2, <3>3 DEF Fresh
  <2>10. Believed'
    <3>1. resting \ TickTraded = RestingIds \cup {order.id}
      BY <1>4, <1>6, <1>10, <1>11, <2>4 DEF Believed
    <3>2. resting' \ TickTraded' = RestingIds'
      BY <1>3, <1>6, <1>10, <1>11, <2>2, <2>3, <3>1 DEF Fresh
    <3> QED
      BY <1>3, <1>4, <1>10, <1>11, <2>3, <2>7, <3>2 DEF Believed
  <2> QED
    BY <2>2, <2>6, <2>9, <2>10
<1>13. ASSUME NEW price \in Price, fillIncoming(price)
       PROVE  FALSE
  <2> DEFINE d == book[Contra][price].orders
  <2>1. /\ Contra \in Side /\ price \in DOMAIN book[Contra] /\ ~IsEmpty(d) /\ WellFormed(d) /\ d \in Deque
        /\ Front(d).quantity > incoming.quantity /\ incoming.quantity > 0
    BY <1>4, <1>13, IncomingTyped DEF fillIncoming, BestLive, TypeOK, BookTyped, Level
  <2>2. d.begin \in Live(d) /\ Front(d) = d.slots[d.begin]
    BY <2>1, FrontTyped DEF Live, IsEmpty, Deque, WellFormed, Front
  <2>3. Front(d).quantity = QUANTITY
    BY <1>6, <2>1, <2>2 DEF Whole
  <2> QED
    BY <1>4, <1>6, <1>10, <2>1, <2>3 DEF Hand
<1>14. ASSUME restRemainder
       PROVE  (Distinct /\ Whole /\ Hand /\ Fresh /\ Believed)'
  <2>1. incoming.id \notin RestingIds /\ incoming.quantity \in {0, QUANTITY}
    BY <1>4, <1>6, <1>10, <1>11 DEF Fresh, Hand
  <2>2. /\ RestingIds' = IF incoming.quantity # 0 THEN RestingIds \cup {order.id} ELSE RestingIds
        /\ Distinct' /\ Whole'
    BY <1>4, <1>6, <1>10, <1>14, <2>1, RestIdsExact
  <2>3. lastTrades' = lastTrades /\ Idle'
    BY <1>14 DEF restRemainder, Idle
  <2>4. TickTraded' = TickTraded /\ Outstanding' = {} /\ Hand'
    BY <1>3, <1>4, <2>3 DEF TickTraded, Outstanding, Hand
  <2>5. \/ incoming.quantity = QUANTITY /\ order.id \notin TickTraded /\ incoming.quantity # 0
        \/ incoming.quantity = 0 /\ order.id \in TickTraded
    BY <1>4, <1>6, <1>10 DEF Hand
  <2>6. Fresh'
    BY <1>3, <1>6, <1>10, <1>11, <2>2, <2>4, <2>5 DEF Fresh
  <2>7. Believed'
    <3>1. resting \ TickTraded = RestingIds \cup ({order.id} \ TickTraded)
      BY <1>4, <1>6, <1>10, <1>11 DEF Believed
    <3>2. resting' \ TickTraded' = RestingIds'
      BY <1>3, <1>6, <2>2, <2>4, <2>5, <3>1 DEF Fresh
    <3> QED
      BY <1>3, <1>4, <1>11, <2>4, <3>2 DEF Believed
  <2> QED
    BY <2>2, <2>4, <2>6, <2>7
<1> QED
  BY <1>2, <1>11, <1>12, <1>13, <1>14 DEF Match

(* Its trades are read.                                                    *)
LEMMA DrainFlow ==
  ASSUME LoopInv, FlowInv, drain
  PROVE  FlowInv'
<1>1. BookSound /\ Scored /\ LoopShape
  BY LoopParts
<1>2. /\ applying /\ Idle /\ applying' = FALSE /\ events' = Tail(events) /\ events # <<>>
      /\ tickTrades' = tickTrades \o lastTrades
      /\ UNCHANGED <<bookVars, phase, nextId, flowVars, scoreVars, minted, intact>>
  BY <1>1 DEF drain, truth, LoopShape
<1>3. UNCHANGED <<book, incoming, lastTrades, resting, prevTrades, mmOrders>> /\ phase # "flow"
  BY <1>1, <1>2 DEF bookVars, flowVars, scoreVars, LoopShape
<1>4. SUFFICES ASSUME intact' PROVE (Distinct /\ Whole /\ Alone /\ Hand /\ Fresh /\ Believed)'
  BY DEF FlowInv
<1>5. Distinct /\ Whole /\ Alone /\ Hand /\ Fresh /\ Believed
  BY <1>2, <1>4 DEF FlowInv
<1>6. events' = <<>> /\ Len(events') = 0 /\ Adding' = {}
  <2>1. events' = <<>>
    BY <1>1, <1>2, <1>5, OneEvent DEF LoopShape, Alone
  <2> QED
    BY <2>1 DEF Adding
<1>7. TickTraded' = TickTraded
  <2>1. lastTrades \in Seq(Trade) /\ tickTrades \in Seq(Trade)
    BY <1>1 DEF BookSound, IInv, TypeOK, Scored
  <2>2. TradedIds(tickTrades') = TradedIds(tickTrades) \cup TradedIds(lastTrades)
    BY <1>2, <2>1, TradedConcat
  <2> QED
    BY <1>2, <2>2 DEF TickTraded
<1>8. RestingIds' = RestingIds /\ Distinct' /\ Whole' /\ Hand'
  <2>1. RestingIds' = RestingIds
    BY <1>3 DEF RestingIds, IdsOn
  <2>2. Distinct' /\ Whole'
    BY <1>3, <1>5 DEF Distinct, Whole, Unique, IdsIn
  <2>3. Hand'
    BY <1>2, <1>3 DEF Hand, Idle
  <2> QED
    BY <2>1, <2>2, <2>3
<1>9. /\ Outstanding = {} /\ Outstanding' = {} /\ Leaving = {} /\ Leaving' = {}
  BY <1>2, <1>6 DEF Outstanding, Leaving
<1>10. Alone'
  BY <1>2, <1>3, <1>5, <1>6 DEF Alone
<1>11. Fresh'
  BY <1>2, <1>5, <1>6, <1>7, <1>8, <1>9 DEF Fresh
<1>12. Believed'
  BY <1>2, <1>3, <1>5, <1>7, <1>8, <1>9 DEF Believed
<1> QED
  BY <1>8, <1>10, <1>11, <1>12

(* Nothing is quoted.                                                      *)
LEMMA QuoteFlow ==
  ASSUME MaxQuotes = 0, LoopInv, FlowInv,
         NEW cancels \in Cancels, NEW amends \in Amends, NEW quotes \in Quotes,
         quote(cancels, amends, quotes)
  PROVE  FlowInv'
<1>1. BookSound /\ Scored /\ LoopShape
  BY LoopParts
<1>2. /\ phase = "applyFlow" /\ events = <<>> /\ ~applying /\ phase' = "applyQuotes"
      /\ events' = Batch(cancels, amends, quotes)
      /\ nextId' = nextId + Len(quotes)
      /\ mmOrders' = registered({cancels[i] : i \in DOMAIN cancels}, quotes)
      /\ minted' = minted \cup {quotes[i].id : i \in DOMAIN quotes}
      /\ UNCHANGED <<bookVars, applying, flowVars, tickTrades, intact>>
  BY DEF quote, Batch
<1>3. UNCHANGED <<book, incoming, lastTrades, resting, prevTrades>> /\ Idle
  BY <1>1, <1>2 DEF bookVars, flowVars, LoopShape
<1>4. SUFFICES ASSUME intact' PROVE (Distinct /\ Whole /\ Alone /\ Hand /\ Fresh /\ Believed)'
  BY DEF FlowInv
<1>5. Distinct /\ Whole /\ Alone /\ Hand /\ Fresh /\ Believed
  BY <1>2, <1>4 DEF FlowInv
<1>6. DOMAIN cancels = {} /\ DOMAIN amends = {} /\ DOMAIN quotes = {}
  <2>1. mmOrders = {}
    BY <1>5 DEF Alone
  <2>2. ASSUME NEW n \in Nat, NEW f \in AtMost(n, {})
        PROVE  DOMAIN f = {}
    <3>1. PICK k \in 0..n : f \in [1..k -> {}]
      BY DEF AtMost
    <3> QED
      BY <3>1
  <2>3. {o \in Submissions : o.id >= nextId /\ o.id < nextId + MaxQuotes} = {}
    <3>1. \A o \in Submissions : o.id \in Nat
      BY SimAssumption, SubmissionsAssumption DEF Order
    <3>2. nextId \in Nat
      BY <1>1 DEF Scored
    <3> QED
      BY <3>1, <3>2
  <2> QED
    BY <2>1, <2>2, <2>3, SimAssumption DEF Cancels, Amends, Quotes
<1>7. events' = <<>> /\ Len(events') = 0 /\ mmOrders' = {} /\ minted' = {} /\ nextId' = nextId
  BY <1>1, <1>2, <1>5, <1>6 DEF Batch, registered, Alone, Scored
<1>8. Adding' = {} /\ TickTraded' = TickTraded /\ Adding = {}
  BY <1>2, <1>3, <1>7 DEF Adding, TickTraded
<1>9. RestingIds' = RestingIds /\ Distinct' /\ Whole' /\ Hand'
  <2>1. RestingIds' = RestingIds
    BY <1>3 DEF RestingIds, IdsOn
  <2>2. Distinct' /\ Whole'
    BY <1>3, <1>5 DEF Distinct, Whole, Unique, IdsIn
  <2>3. Hand'
    BY <1>3 DEF Hand, Idle
  <2> QED
    BY <2>1, <2>2, <2>3
<1>10. Outstanding = {} /\ Outstanding' = {} /\ Leaving = {} /\ Leaving' = {}
  BY <1>2, <1>7 DEF Outstanding, Leaving
<1>11. Alone'
  BY <1>7 DEF Alone
<1>12. Fresh' /\ Believed'
  BY <1>2, <1>3, <1>5, <1>7, <1>8, <1>9, <1>10 DEF Fresh, Believed
<1> QED
  BY <1>9, <1>11, <1>12

(* The tick is scored, and its trades are the next tick's to forget.       *)
LEMMA ScoreFlow ==
  ASSUME LoopInv, FlowInv, score
  PROVE  FlowInv'
<1>1. BookSound /\ Scored /\ LoopShape
  BY LoopParts
<1>2. /\ phase = "applyQuotes" /\ phase' = "flow" /\ events = <<>> /\ ~applying
      /\ prevTrades' = tickTrades /\ tickTrades' = <<>>
      /\ UNCHANGED <<bookVars, nextId, events, applying, resting, mmOrders, truth>>
  BY DEF score
<1>3. UNCHANGED <<book, incoming, minted, intact>> /\ Idle
  BY <1>1, <1>2 DEF bookVars, truth, LoopShape
<1>4. SUFFICES ASSUME intact' PROVE (Distinct /\ Whole /\ Alone /\ Hand /\ Fresh /\ Believed)'
  BY DEF FlowInv
<1>5. Distinct /\ Whole /\ Alone /\ Hand /\ Fresh /\ Believed
  BY <1>3, <1>4 DEF FlowInv
<1>6. Adding' = {} /\ TickTraded' = {} /\ TickTraded = TradedIds(tickTrades) /\ tracked' = resting \ TickTraded
  <2>1. TradedIds(<<>>) = {}
    BY DEF TradedIds
  <2>2. Adding' = {} /\ TickTraded' = {} /\ TickTraded = TradedIds(tickTrades)
    BY <1>2, <2>1 DEF Adding, TickTraded
  <2>3. tracked' = resting' \ TradedIds(prevTrades')
    BY DEF tracked
  <2> QED
    BY <1>2, <2>2, <2>3
<1>7. RestingIds' = RestingIds /\ Distinct' /\ Whole' /\ Hand'
  <2>1. RestingIds' = RestingIds
    BY <1>3 DEF RestingIds, IdsOn
  <2>2. Distinct' /\ Whole'
    BY <1>3, <1>5 DEF Distinct, Whole, Unique, IdsIn
  <2>3. Hand'
    BY <1>3 DEF Hand, Idle
  <2> QED
    BY <2>1, <2>2, <2>3
<1>8. Outstanding = {} /\ Outstanding' = {} /\ Leaving = {}
  BY <1>2 DEF Outstanding, Leaving
<1>9. Alone'
  BY <1>2, <1>3, <1>5 DEF Alone
<1>10. Fresh' /\ Believed'
  BY <1>2, <1>5, <1>6, <1>7, <1>8 DEF Fresh, Believed
<1> QED
  BY <1>7, <1>9, <1>10

(* The first state.                                                        *)
LEMMA FlowInitially == SimInit => FlowInv
<1> SUFFICES ASSUME SimInit PROVE Distinct /\ Whole /\ Alone /\ Hand /\ Fresh /\ Believed
  BY DEF FlowInv
<1>1. /\ events = <<>> /\ Len(events) = 0 /\ ~applying /\ tickTrades = <<>> /\ phase = "flow"
      /\ minted = {} /\ mmOrders = {} /\ resting = {} /\ prevTrades = <<>> /\ Idle /\ Init
  BY DEF SimInit, Init, Idle
<1>2. \A side \in Side : DOMAIN book[side] = {}
  BY <1>1 DEF Init
<1>3. RestingIds = {} /\ Distinct /\ Whole
  BY <1>2 DEF RestingIds, IdsOn, Distinct, Whole, Side
<1>4. Adding = {} /\ TickTraded = {} /\ tracked = {}
  <2>1. TradedIds(<<>>) = {}
    BY DEF TradedIds
  <2>2. Adding = {} /\ TickTraded = {}
    BY <1>1, <2>1 DEF Adding, TickTraded
  <2> QED
    BY <1>1, <2>2 DEF tracked
<1>5. Alone /\ Hand /\ Fresh /\ Believed
  BY <1>1, <1>3, <1>4 DEF Alone, Hand, Fresh, Believed, Outstanding
<1> QED
  BY <1>3, <1>5

LEMMA FlowInductive ==
  ASSUME MaxQuotes = 0, LoopInv, FlowInv, [SimNext]_vars
  PROVE  FlowInv'
<1>0. nextId \in Nat
  BY LoopParts DEF Scored
<1>1. CASE flowIdles
  <2> DEFINE out == <<>>
  <2>1. startTick(out) /\ nextId' = nextId /\ resting' = tracked
    BY <1>1 DEF flowIdles
  <2>2. out \in Seq(Event) /\ Len(out) <= 1 /\ out = <<>>
    OBVIOUS
  <2>3. nextId' \in Nat /\ nextId <= nextId'
    BY <1>0, <2>1
  <2> HIDE DEF out
  <2> QED
    BY <2>1, <2>2, <2>3, StartFlow
<1>2. ASSUME NEW order \in Submissions, flowAdds(order)
      PROVE  FlowInv'
  <2> DEFINE out == <<ADD(order)>>
  <2>1. /\ startTick(out) /\ order.id = nextId /\ order.type = "LIMIT" /\ order.quantity = QUANTITY
        /\ nextId' = nextId + 1 /\ resting' = tracked \cup {order.id}
    BY <1>2 DEF flowAdds
  <2>2. out \in Seq(Event) /\ Len(out) <= 1 /\ out = <<ADD(order)>>
    BY EventKinds
  <2>3. nextId' \in Nat /\ nextId <= nextId'
    BY <1>0, <2>1
  <2> HIDE DEF out
  <2> QED
    BY <2>1, <2>2, <2>3, StartFlow
<1>3. ASSUME NEW id \in OrderID, flowCancels(id)
      PROVE  FlowInv'
  <2> DEFINE out == <<CANCEL(id)>>
  <2>1. startTick(out) /\ id \in tracked /\ nextId' = nextId /\ resting' = tracked \ {id}
    BY <1>3 DEF flowCancels
  <2>2. out \in Seq(Event) /\ Len(out) <= 1 /\ out = <<CANCEL(id)>>
    BY EventKinds
  <2>3. nextId' \in Nat /\ nextId <= nextId'
    BY <1>0, <2>1
  <2> HIDE DEF out
  <2> QED
    BY <2>1, <2>2, <2>3, StartFlow
<1>4. CASE UNCHANGED vars
  <2>1. UNCHANGED <<book, incoming, lastTrades, phase, events, applying, resting, prevTrades, tickTrades,
                    mmOrders, minted, nextId, intact>>
    BY <1>4 DEF vars, bookVars, loopVars, flowVars, scoreVars, truth
  <2>2. /\ Adding' = Adding /\ TickTraded' = TickTraded /\ RestingIds' = RestingIds /\ Leaving' = Leaving
        /\ (Idle' <=> Idle) /\ tracked' = tracked
    BY <2>1 DEF Adding, IsAdd, TickTraded, RestingIds, IdsOn, Leaving, Idle, tracked
  <2>3. Outstanding' = Outstanding
    BY <2>1, <2>2 DEF Outstanding
  <2>4. (Distinct' <=> Distinct) /\ (Whole' <=> Whole)
    BY <2>1 DEF Distinct, Whole, Unique, IdsIn
  <2>5. (Alone' <=> Alone) /\ (Hand' <=> Hand)
    BY <2>1, <2>2 DEF Alone, Hand
  <2>6. (Fresh' <=> Fresh) /\ (Believed' <=> Believed)
    BY <2>1, <2>2, <2>3 DEF Fresh, Believed
  <2> QED
    BY <2>1, <2>4, <2>5, <2>6 DEF FlowInv
<1> QED
  BY <1>1, <1>2, <1>3, <1>4, ApplyFlow, MatchFlow, DrainFlow, QuoteFlow, ScoreFlow DEF SimNext

(* Without a market maker's quotes the flow knows between ticks exactly    *)
(* what it has on the book (zi_flow.cpp:49): every trade is of two whole   *)
(* orders, so an order that traded is gone.                                *)
THEOREM FlowKeepsTrack ==
  ASSUME MaxQuotes = 0
  PROVE  SimSpec => []FlowTracksBook
<1>1. SimInit => FlowInv
  BY FlowInitially
<1>2. LoopInv /\ FlowInv /\ [SimNext]_vars => FlowInv'
  BY FlowInductive
<1>3. FlowInv => FlowTracksBook
  BY DEF FlowInv, FlowTracksBook, Alone, Believed
<1> QED
  BY <1>1, <1>2, <1>3, LoopInvariance, PTL DEF SimSpec

-----------------------------------------------------------------------------
(* The flow cancels its oldest order, and so always the first of a level:  *)
(* alone, it keeps the index exact until a level outgrows its map.         *)

(* The orders of a queue are in the order of their ids.                    *)
Queued(d) == \A i, j \in Live(d) : i < j => d.slots[i].id < d.slots[j].id

(* The next id to join the book.                                           *)
NextUp == IF Outstanding = {} THEN nextId ELSE nextId - 1

Newest == Outstanding \subseteq {NextUp} /\ \A id \in RestingIds : id < NextUp

(* Every level is queued in the order its orders came.                     *)
InOrder ==
  \A s \in Side : \A p \in DOMAIN book[s] :
    Queued(book[s][p].orders)

Oldest == \A id \in Leaving : id \in RestingIds /\ \A other \in RestingIds : id <= other

OrderInv == intact /\ IndexExact /\ InOrder /\ Newest /\ Oldest

(* A queue that lost some of its orders, none of which has moved.          *)
Trimmed(e, d) ==
  /\ Live(e) \subseteq Live(d)
  /\ \A i \in Live(e) : e.slots[i].id = d.slots[i].id

NoneMoved ==
  \A s \in Side : \A p \in DOMAIN book'[s] :
    p \in DOMAIN book[s] /\ Trimmed(book'[s][p].orders, book[s][p].orders)

LEMMA EraseTrims ==
  ASSUME NEW d \in Deque, WellFormed(d), NEW pos \in Live(d), pos = d.begin
  PROVE  Trimmed(Erase(d, pos), d)
<1>1. /\ Live(Erase(d, pos)) = Live(d) \ {pos}
      /\ \A i \in Live(d) : Erase(d, pos).slots[i] = d.slots[i]
  BY EraseAtAnEnd
<1> QED
  BY <1>1 DEF Trimmed

LEMMA OrderStays ==
  ASSUME InOrder, NoneMoved
  PROVE  InOrder'
<1>1. ASSUME NEW s \in Side, NEW p \in DOMAIN book'[s]
      PROVE  Queued(book'[s][p].orders)
  <2> DEFINE e == book'[s][p].orders
             d == book[s][p].orders
  <2>1. Trimmed(e, d) /\ Queued(d)
    BY DEF NoneMoved, InOrder
  <2> HIDE DEF e, d
  <2>2. Queued(e)
    BY <2>1 DEF Queued, Trimmed
  <2> QED
    BY <2>2 DEF e
<1> QED
  BY <1>1 DEF InOrder, Queued, Live

(* The ids an exact index knows are those on the book.                     *)
LEMMA IndexedRest ==
  ASSUME TypeOK, IndexExact
  PROVE  DOMAIN orderMap = RestingIds
<1>1. ASSUME NEW id \in DOMAIN orderMap
      PROVE  id \in RestingIds
  <2> DEFINE ref == orderMap[id]
  <2>1. /\ ref.side \in Side /\ ref.price \in DOMAIN book[ref.side]
        /\ ref.iterator.slot \in Live(book[ref.side][ref.price].orders)
        /\ book[ref.side][ref.price].orders.slots[ref.iterator.slot].id = id
    BY EntryLeads
  <2> QED
    BY <2>1, OnALevel DEF IdsIn
<1>2. ASSUME NEW id \in RestingIds
      PROVE  id \in DOMAIN orderMap
  <2>1. PICK s \in Side : \E p \in DOMAIN book[s] : id \in IdsIn(book[s][p].orders)
    BY OnALevel
  <2>2. PICK p \in DOMAIN book[s] : id \in IdsIn(book[s][p].orders)
    BY <2>1
  <2> QED
    BY <2>2 DEF IdsIn, IndexExact, Indexed
<1> QED
  BY <1>1, <1>2

(* The oldest order is the first of its level, and its cancel moves none.  *)
LEMMA CancelOldest ==
  ASSUME TypeOK, IndexExact, InOrder, NEW id \in OrderID, cancelOrder(id),
         id \in RestingIds, \A other \in RestingIds : id <= other
  PROVE  IndexExact' /\ NoneMoved
<1> DEFINE ref   == orderMap[id]
           level == book[ref.side][ref.price]
           d     == level.orders
           pos   == ref.iterator.slot
           e     == Erase(d, pos)
<1>1. id \in DOMAIN orderMap
  BY IndexedRest
<1>2. /\ ref.side \in Side /\ ref.price \in DOMAIN book[ref.side]
      /\ d \in Deque /\ WellFormed(d)
      /\ pos \in Live(d) /\ d.slots[pos].id = id
      /\ EraseAt(d, ref.iterator) = {pos}
  BY <1>1, EntryLeads
<1>3. ASSUME NEW s \in Side, NEW p \in DOMAIN book[s], NEW i \in Live(book[s][p].orders),
             book[s][p].orders.slots[i].id = id
      PROVE  i = book[s][p].orders.begin
  <2> DEFINE q == book[s][p].orders
  <2>1. q \in Deque /\ WellFormed(q) /\ Queued(q)
    BY DEF TypeOK, BookTyped, Level, InOrder
  <2>2. q.slots[q.begin].id \in RestingIds /\ q.begin \in Live(q) /\ q.begin <= i
    <3>1. q.begin \in Live(q) /\ q.begin <= i
      BY <2>1 DEF Live, Deque
    <3> QED
      BY <3>1, OnALevel DEF IdsIn
  <2>3. id <= q.slots[q.begin].id /\ id \in Nat /\ q.slots[q.begin].id \in Nat
    <3>1. RestingIds \subseteq OrderID
      BY RestingAreIds
    <3> QED
      BY <2>2, <3>1, SimAssumption
  <2>4. CASE q.begin < i
    BY <1>3, <2>1, <2>2, <2>3, <2>4 DEF Queued
  <2>5. q.begin \in Int /\ i \in Int
    BY <2>1 DEF Deque, Live
  <2> QED
    BY <2>2, <2>4, <2>5
<1>4. AtAnEnd(id)
  BY <1>3 DEF AtAnEnd
<1>5. IndexExact'
  BY <1>4, CancelOrderExact
<1>6. pos = d.begin
  BY <1>2, <1>3
<1>7. PICK left : book' = StoreOrDrop(ref.side, ref.price, left) /\ left.orders = e
  <2>1. PICK erased, quantity :
          /\ erased \in EraseAt(d, ref.iterator)
          /\ book' = StoreOrDrop(ref.side, ref.price, [orders |-> Erase(d, erased), quantity |-> quantity])
    BY <1>1, <1>2 DEF cancelOrder
  <2>2. erased = pos
    BY <1>2, <2>1
  <2>3. [orders |-> Erase(d, erased), quantity |-> quantity].orders = e
    BY <2>2
  <2> QED
    BY <2>1, <2>3
<1>8. Trimmed(e, d)
  BY <1>2, <1>6, EraseTrims
<1>9. \A s \in Side : \A p \in DOMAIN book[s] : Trimmed(book[s][p].orders, book[s][p].orders)
  BY DEF Trimmed, TypeOK, BookTyped, Level, Deque
<1> HIDE DEF e, d, level
<1>10. CASE IsEmpty(left.orders)
  <2>1. book' = [book EXCEPT ![ref.side] = Without(@, {ref.price})]
    BY <1>7, <1>10 DEF StoreOrDrop
  <2>2. /\ book'[ref.side] = Without(book[ref.side], {ref.price})
        /\ \A s \in Side : s # ref.side => book'[s] = book[s]
    BY <1>2, <2>1 DEF TypeOK, BookTyped
  <2>3. \A s \in Side : \A p \in DOMAIN book'[s] : p \in DOMAIN book[s] /\ book'[s][p] = book[s][p]
    BY <2>2 DEF Without
  <2> QED
    BY <1>5, <1>9, <2>3 DEF NoneMoved
<1>11. CASE ~IsEmpty(left.orders)
  <2>1. book' = [book EXCEPT ![ref.side][ref.price] = left]
    BY <1>7, <1>11 DEF StoreOrDrop
  <2>2. Stores(ref.side, ref.price, left)
    BY <1>2, <2>1 DEF Stores, TypeOK, BookTyped
  <2>3. Trimmed(left.orders, book[ref.side][ref.price].orders)
    BY <1>7, <1>8 DEF d, level
  <2> QED
    BY <1>5, <1>9, <2>2, <2>3 DEF NoneMoved, Stores
<1> QED
  BY <1>10, <1>11

(* The first order of a level trades.                                      *)
LEMMA FillMovesNone ==
  ASSUME TypeOK, NEW price \in Price, fillResting(price)
  PROVE  NoneMoved
<1> DEFINE level == book[Contra][price]
           d     == level.orders
<1>1. Contra \in Side
  BY IncomingTyped DEF fillResting
<1>2. /\ price \in DOMAIN book[Contra] /\ ~IsEmpty(d) /\ WellFormed(d) /\ d \in Deque
  BY <1>1 DEF fillResting, BestLive, TypeOK, BookTyped, Level
<1>3. d.begin \in Live(d)
  BY <1>2 DEF Live, IsEmpty, Deque, WellFormed
<1>4. book' = [book EXCEPT ![Contra][price] = Consume(level)]
  BY <1>1, <1>2 DEF fillResting, TypeOK, BookTyped
<1>5. Stores(Contra, price, Consume(level))
  BY <1>1, <1>2, <1>4 DEF Stores, TypeOK, BookTyped
<1>6. Consume(level).orders = Erase(d, d.begin)
  BY DEF Consume
<1>7. Trimmed(Consume(level).orders, d)
  BY <1>2, <1>3, <1>6, EraseTrims
<1>8. \A s \in Side : \A p \in DOMAIN book[s] : Trimmed(book[s][p].orders, book[s][p].orders)
  BY DEF Trimmed, TypeOK, BookTyped, Level, Deque
<1> HIDE DEF d
<1> QED
  BY <1>5, <1>7, <1>8 DEF NoneMoved, Stores, d

(* No level has used so many slots that its map had to be replaced.        *)
InFirstMap ==
  \A s \in Side : \A p \in DOMAIN book[s] : \A n \in Regrow : Len(book[s][p].orders.slots) < n

(* With no order outstanding, every id on the book is below the next.      *)
LEMMA NoneOutstanding ==
  ASSUME Fresh, Outstanding = {}
  PROVE  Newest
BY DEF Newest, NextUp, Fresh

(* The order in hand, whole or exhausted, is the flow's newest.            *)
LEMMA FlowInHand ==
  ASSUME LoopInv, FlowInv, intact, ~Idle
  PROVE  /\ TypeOK /\ applying /\ Outstanding = {incoming.id}
         /\ incoming \in Order /\ incoming.type = "LIMIT" /\ incoming.quantity \in {0, QUANTITY}
         /\ incoming.id \notin RestingIds
<1>1. BookSound /\ LoopShape /\ Distinct /\ Whole /\ Alone /\ Hand /\ Fresh
  BY LoopParts DEF FlowInv
<1>2. TypeOK /\ applying /\ incoming.id \in Adding
  BY <1>1, InHand DEF BookSound, IInv
<1>3. /\ events \in Seq(Event) /\ Len(events) <= 1 /\ events # <<>> /\ OfFlow(events[1])
      /\ events[1].type = "ADD" /\ Adding = {events[1].order.id}
      /\ incoming = [events[1].order EXCEPT !.quantity = incoming.quantity]
  <2>1. /\ events \in Seq(Event) /\ events # <<>> /\ events[1].type = "ADD"
        /\ incoming = [events[1].order EXCEPT !.quantity = incoming.quantity]
    BY <1>1, <1>2 DEF LoopShape
  <2>2. Len(events) <= 1 /\ OfFlow(events[1])
    BY <1>1, <2>1 DEF Alone
  <2>3. Adding = {events[1].order.id}
    BY <2>1, <2>2, OneEvent
  <2> QED
    BY <2>1, <2>2, <2>3
<1>4. PICK order \in Submissions : /\ events[1] = ADD(order) /\ order.type = "LIMIT"
                                   /\ order.quantity = QUANTITY
  BY <1>3, FlowEvents
<1>5. events[1].order = order /\ order \in Order
  BY <1>4, SubmissionsAssumption DEF ADD
<1>6. incoming \in Order /\ incoming.type = "LIMIT" /\ incoming.id = order.id
  <2>1. incoming \in Order
    BY <1>2 DEF TypeOK, Idle
  <2>2. incoming.type = order.type /\ incoming.id = order.id
    BY <1>3, <1>5 DEF Order
  <2> QED
    BY <1>4, <2>1, <2>2
<1>7. incoming.quantity \in {0, QUANTITY}
  BY <1>1 DEF Hand
<1>8. Outstanding = {incoming.id}
  BY <1>2, <1>3, <1>5, <1>6 DEF Outstanding
<1>9. incoming.id \notin RestingIds
  BY <1>1, <1>8 DEF Fresh
<1> QED
  BY <1>2, <1>6, <1>7, <1>8, <1>9

(* No order on the book is larger than the one in hand.                    *)
LEMMA NeverPartial ==
  ASSUME LoopInv, FlowInv, intact, NEW price \in Price, fillIncoming(price)
  PROVE  FALSE
<1> DEFINE d == book[Contra][price].orders
<1>1. ~Idle
  BY DEF fillIncoming
<1>2. Whole /\ TypeOK /\ incoming.quantity \in {0, QUANTITY}
  BY <1>1, FlowInHand DEF FlowInv
<1>3. /\ Contra \in Side /\ price \in DOMAIN book[Contra] /\ ~IsEmpty(d) /\ WellFormed(d) /\ d \in Deque
      /\ Front(d).quantity > incoming.quantity /\ incoming.quantity > 0
  BY <1>2, IncomingTyped DEF fillIncoming, BestLive, TypeOK, BookTyped, Level
<1>4. d.begin \in Live(d) /\ Front(d) = d.slots[d.begin]
  BY <1>3, FrontTyped DEF Live, IsEmpty, Deque, WellFormed, Front
<1>5. Front(d).quantity = QUANTITY
  BY <1>2, <1>3, <1>4 DEF Whole
<1>6. QUANTITY \in Nat
  BY SimAssumption, TypesAssumption
<1> QED
  BY <1>2, <1>3, <1>5, <1>6

(* The level an order came to rest on had room for it.                     *)
LEMMA RestKeepsMap ==
  ASSUME TypeOK, restRemainder, InFirstMap', incoming.type = "LIMIT", incoming.quantity # 0
  PROVE  KeepsMap(incoming)
<1> DEFINE own   == incoming.side
           at    == incoming.price
           level == LevelAt(own, at)
           queue == PushBack(level.orders, incoming)
           added == [orders |-> queue, quantity |-> level.quantity + incoming.quantity]
           kept  == Without(book[Contra], EmptyFront(Contra))
<1> SUFFICES ASSUME at \in DOMAIN book[own]
             PROVE  book[own][at].orders.end \notin Regrow
  BY DEF KeepsMap
<1>1. Contra \in Side /\ Contra # own /\ own \in Side
  BY IncomingTyped DEF restRemainder, Order, Side
<1>2. book'[own] = With(book[own], at, added)
  <2>1. book' = [book EXCEPT ![Contra] = kept, ![own] = With(@, at, added)]
    BY DEF restRemainder
  <2> HIDE DEF kept, added
  <2> QED
    BY <1>1, <2>1 DEF TypeOK, BookTyped
<1>3. at \in DOMAIN book'[own] /\ book'[own][at].orders = queue
  BY <1>2 DEF With
<1>4. level.orders = book[own][at].orders
  BY DEF LevelAt
<1> DEFINE d == book[own][at].orders
<1>5. d \in Deque /\ WellFormed(d)
  BY <1>1 DEF TypeOK, BookTyped, Level
<1>6. \A n \in Regrow : Len(PushBack(d, incoming).slots) < n
  BY <1>1, <1>3, <1>4 DEF InFirstMap
<1> HIDE DEF d
<1>7. d.end \in Nat /\ d.end <= Len(d.slots) + 1 /\ Len(d.slots) \in Nat /\ d.slots \in Seq(Order)
  BY <1>5 DEF Deque, WellFormed
<1>8. d.end <= Len(PushBack(d, incoming).slots) /\ Len(PushBack(d, incoming).slots) \in Nat
  <2>1. CASE d.end <= Len(d.slots)
    <3>1. PushBack(d, incoming).slots = [d.slots EXCEPT ![d.end] = incoming]
      BY <2>1 DEF PushBack
    <3>2. Len(PushBack(d, incoming).slots) = Len(d.slots)
      BY <1>7, <3>1
    <3> QED
      BY <1>7, <2>1, <3>2
  <2>2. CASE ~(d.end <= Len(d.slots))
    <3>1. PushBack(d, incoming).slots = Append(d.slots, incoming)
      BY <2>2 DEF PushBack
    <3>2. Len(PushBack(d, incoming).slots) = Len(d.slots) + 1
      BY <1>7, <3>1
    <3> QED
      BY <1>7, <2>2, <3>2
  <2> QED
    BY <2>1, <2>2
<1>9. \A n \in Regrow : n \in Nat
  BY RegrowAssumption
<1>10. d.end \notin Regrow
  BY <1>6, <1>7, <1>8, <1>9
<1> QED
  BY <1>10 DEF d

(* The newest order joins the back of its level.                           *)
LEMMA RestInOrder ==
  ASSUME TypeOK, InOrder, restRemainder, incoming.type = "LIMIT",
         \A id \in RestingIds : id < incoming.id
  PROVE  InOrder'
<1> DEFINE own   == incoming.side
           at    == incoming.price
           level == LevelAt(own, at)
           queue == PushBack(level.orders, incoming)
           added == [orders |-> queue, quantity |-> level.quantity + incoming.quantity]
           kept  == Without(book[Contra], EmptyFront(Contra))
<1>1. /\ incoming \in Order /\ Contra \in Side /\ Contra # own
      /\ own \in Side /\ \A s \in Side : s = Contra \/ s = own
  BY IncomingTyped DEF restRemainder, Order, Side
<1>2. \A p \in DOMAIN book'[Contra] : Queued(book'[Contra][p].orders)
  <2>1. book'[Contra] = kept
    BY RestRemainderBook
  <2>2. \A p \in DOMAIN kept : p \in DOMAIN book[Contra] /\ kept[p] = book[Contra][p]
    BY DEF Without
  <2> HIDE DEF kept
  <2> QED
    BY <1>1, <2>1, <2>2 DEF InOrder
<1>3. CASE incoming.quantity # 0
  <2>1. level \in Level /\ WellFormed(level.orders) /\ level.orders \in Deque
    BY <1>1, EmptyDequeTyped DEF LevelAt, EmptyLevel, Level, TypeOK, BookTyped
  <2>2. book'[own] = With(book[own], at, added)
    <3>1. book' = [book EXCEPT ![Contra] = kept, ![own] = With(@, at, added)]
      BY <1>3 DEF restRemainder
    <3> HIDE DEF kept, added
    <3> QED
      BY <1>1, <3>1 DEF TypeOK, BookTyped
  <2>3. /\ at \in DOMAIN book[own] => level.orders = book[own][at].orders
        /\ at \notin DOMAIN book[own] => Live(level.orders) = {}
    BY DEF LevelAt, EmptyLevel, EmptyDeque, Live
  <2>4. Queued(level.orders)
    BY <1>1, <2>3 DEF Queued, InOrder
  <2>5. \A i \in Live(level.orders) : level.orders.slots[i].id < incoming.id
    BY <1>1, <2>3, OnALevel DEF IdsIn
  <2> DEFINE d == level.orders
  <2>6. Queued(queue)
    <3>1. /\ Live(queue) = Live(d) \cup {d.end}
          /\ queue.slots[d.end] = incoming
          /\ \A i \in Live(d) : queue.slots[i] = d.slots[i]
      BY <2>1, PushBackOrders
    <3>2. \A i \in Live(d) : i < d.end /\ i \in Int
      BY <2>1 DEF Live, Deque
    <3>3. d.end \in Int
      BY <2>1 DEF Deque
    <3> HIDE DEF d, queue, level
    <3>4. \A i, j \in Live(queue) : i < j => queue.slots[i].id < queue.slots[j].id
      <4> SUFFICES ASSUME NEW i \in Live(queue), NEW j \in Live(queue), i < j
                   PROVE  queue.slots[i].id < queue.slots[j].id
        OBVIOUS
      <4>1. i \in Live(d)
        BY <3>1, <3>2, <3>3
      <4>2. CASE j = d.end
        BY <2>5, <3>1, <4>1, <4>2 DEF d
      <4>3. CASE j \in Live(d)
        BY <2>4, <3>1, <4>1, <4>3 DEF Queued, d
      <4> QED
        BY <3>1, <4>2, <4>3
    <3> QED
      BY <3>4 DEF Queued
  <2>7. added.orders = queue
    OBVIOUS
  <2> HIDE DEF level, queue, added, d
  <2>8. \A p \in DOMAIN book'[own] : IF p = at THEN book'[own][p].orders = queue
                                     ELSE p \in DOMAIN book[own] /\ book'[own][p] = book[own][p]
    BY <2>2, <2>7 DEF With
  <2>9. \A p \in DOMAIN book'[own] : Queued(book'[own][p].orders)
    BY <1>1, <2>6, <2>8 DEF InOrder
  <2> QED
    BY <1>1, <1>2, <2>9 DEF InOrder, Queued, Live
<1>4. CASE incoming.quantity = 0
  <2>1. book'[own] = book[own]
    BY <1>1, <1>4, RestRemainderBook
  <2> HIDE DEF own
  <2>2. \A p \in DOMAIN book'[own] : Queued(book'[own][p].orders)
    BY <1>1, <2>1 DEF InOrder
  <2> QED
    BY <1>1, <1>2, <2>2 DEF InOrder, Queued, Live
<1> QED
  BY <1>3, <1>4

(* A step that leaves the levels and the index alone.                      *)
LEMMA SameBook ==
  ASSUME UNCHANGED <<book, orderMap>>, IndexExact, InOrder
  PROVE  IndexExact' /\ InOrder'
<1>1. IndexExact'
  BY ExactUnchanged
<1>2. InOrder'
  BY DEF InOrder, Queued, Live
<1> QED
  BY <1>1, <1>2

(* A tick starts, with the cancel of the oldest order or of none.          *)
LEMMA StartOrder ==
  ASSUME LoopInv, FlowInv, FlowInv', OrderInv, NEW out \in Seq(Event), startTick(out),
         nextId' = nextId, Adding' = {},
         \A id \in OrderID : out = <<CANCEL(id)>> => id \in tracked /\ \A other \in tracked : id <= other,
         \A id \in OrderID : out # <<>> /\ out[1] = CANCEL(id) => out = <<CANCEL(id)>>
  PROVE  OrderInv'
<1>1. /\ phase = "flow" /\ events' = out
      /\ UNCHANGED <<book, orderMap, intact, applying>>
  BY DEF startTick, truth, bookVars
<1>2. tracked = RestingIds
  BY <1>1 DEF FlowInv, OrderInv, Believed
<1>3. RestingIds' = RestingIds
  BY <1>1 DEF RestingIds, IdsOn
<1>4. Outstanding' = {} /\ Fresh'
  BY <1>1 DEF Outstanding, FlowInv, OrderInv
<1>5. Newest'
  BY <1>4 DEF Newest, NextUp, Fresh
<1>6. IndexExact' /\ InOrder'
  BY <1>1, SameBook DEF OrderInv
<1>7. Oldest'
  <2>1. ASSUME NEW id \in Leaving'
        PROVE  id \in RestingIds /\ \A other \in RestingIds : id <= other
    <3>1. id \in OrderID /\ out # <<>> /\ out[1] = CANCEL(id)
      BY <1>1 DEF Leaving
    <3> QED
      BY <1>2, <3>1
  <2> QED
    BY <1>3, <2>1 DEF Oldest
<1> QED
  BY <1>1, <1>5, <1>6, <1>7 DEF OrderInv

(* A tick starts with a new order.                                         *)
LEMMA StartAdding ==
  ASSUME LoopInv, FlowInv, OrderInv, NEW order \in Submissions, flowAdds(order)
  PROVE  OrderInv'
<1>1. /\ phase = "flow" /\ events' = <<ADD(order)>> /\ order.id = nextId /\ nextId' = nextId + 1
      /\ UNCHANGED <<book, orderMap, intact, applying, incoming>>
  BY DEF flowAdds, startTick, truth, bookVars
<1>2. Fresh /\ nextId \in Nat /\ ~applying
  BY <1>1, LoopParts DEF FlowInv, OrderInv, Scored, LoopShape
<1>3. RestingIds' = RestingIds
  BY <1>1 DEF RestingIds, IdsOn
<1>4. /\ events' # <<>> /\ DOMAIN events' = {1} /\ events'[1] = ADD(order)
      /\ ADD(order).type = "ADD" /\ ADD(order).order = order /\ \A id : ADD(order) # CANCEL(id)
  <2>1. events' # <<>> /\ DOMAIN events' = {1} /\ events'[1] = ADD(order)
    BY <1>1
  <2>2. ADD(order).type = "ADD" /\ ADD(order).order = order /\ \A id : ADD(order) # CANCEL(id)
    BY DEF ADD, CANCEL
  <2> QED
    BY <2>1, <2>2
<1>5. Outstanding' = {order.id} /\ Leaving' = {}
  BY <1>1, <1>2, <1>4 DEF Outstanding, Adding, IsAdd, Leaving
<1>6. NextUp' = nextId
  BY <1>1, <1>2, <1>5 DEF NextUp
<1>7. Newest'
  BY <1>1, <1>2, <1>3, <1>5, <1>6 DEF Newest, Fresh
<1>8. IndexExact' /\ InOrder'
  BY <1>1, SameBook DEF OrderInv
<1>9. Oldest'
  BY <1>5 DEF Oldest
<1> QED
  BY <1>1, <1>7, <1>8, <1>9 DEF OrderInv

(* The flow's event is handed to the book.                                 *)
LEMMA ApplyOrder ==
  ASSUME LoopInv, FlowInv, FlowInv', OrderInv, apply
  PROVE  OrderInv'
<1>1. BookSound /\ Scored /\ LoopShape
  BY LoopParts
<1>2. /\ ~applying /\ events # <<>> /\ dispatch(Head(events)) /\ applying' = TRUE
      /\ intact' = (intact /\ IndexExact)
      /\ UNCHANGED <<nextId, events>>
  BY DEF apply
<1>3. /\ intact /\ IndexExact /\ InOrder /\ Newest /\ Oldest /\ Alone /\ Fresh /\ Idle /\ TypeOK
      /\ Distinct /\ intact'
  BY <1>1, <1>2 DEF OrderInv, FlowInv, LoopShape, BookSound, IInv
<1>4. /\ events \in Seq(Event) /\ Len(events) <= 1 /\ OfFlow(events[1])
      /\ Head(events) = events[1] /\ events[1] \in Event
      /\ Adding = IF events[1].type = "ADD" THEN {events[1].order.id} ELSE {}
  BY <1>1, <1>2, <1>3, OneEvent DEF LoopShape, Alone
<1>5. Leaving' = {} /\ Oldest'
  BY <1>2 DEF Leaving, Oldest
<1>6. CASE events[1].type = "ADD"
  <2>1. PICK order \in Submissions : events[1] = ADD(order)
    BY <1>4, <1>6, FlowEvents
  <2>2. ADD(order).order = order /\ ADD(order).type = "ADD"
    BY DEF ADD
  <2>3. addOrder(order) /\ order \in Order
    <3>1. addOrder(events[1].order)
      BY <1>2, <1>4, <1>6 DEF Event, ADD, AMEND, CANCEL, dispatch
    <3> QED
      BY <2>1, <2>2, <3>1, SubmissionsAssumption
  <2>4. book' = book /\ orderMap' = orderMap /\ ~Idle'
    BY <2>3, TypesAssumption DEF addOrder, Idle
  <2>5. Outstanding' = Outstanding /\ RestingIds' = RestingIds
    BY <1>2, <2>4 DEF Outstanding, Adding, IsAdd, RestingIds, IdsOn
  <2>6. Newest'
    BY <1>2, <1>3, <2>5 DEF Newest, NextUp
  <2>7. IndexExact' /\ InOrder'
    BY <1>3, <2>4, SameBook
  <2> QED
    BY <1>3, <1>5, <2>6, <2>7 DEF OrderInv
<1>7. CASE events[1].type # "ADD"
  <2>1. PICK id \in OrderID : events[1] = CANCEL(id)
    BY <1>4, <1>7, FlowEvents
  <2>2. events[1].id = id /\ events[1].type = "CANCEL"
    BY <2>1 DEF CANCEL
  <2>3. cancelOrder(id)
    <3>1. cancelOrder(events[1].id)
      BY <1>2, <1>4, <1>7, <2>2 DEF Event, ADD, AMEND, CANCEL, dispatch
    <3> QED
      BY <2>2, <3>1
  <2>4. id \in Leaving
    BY <1>2, <2>1 DEF Leaving
  <2>5. id \in RestingIds /\ \A other \in RestingIds : id <= other
    BY <1>3, <2>4 DEF Oldest
  <2>6. IndexExact' /\ NoneMoved
    BY <1>3, <2>3, <2>5, CancelOldest
  <2>7. InOrder'
    BY <1>3, <2>6, OrderStays
  <2>8. Outstanding' = {}
    BY <1>2, <1>4, <1>7 DEF Outstanding, Adding, IsAdd
  <2>9. Fresh'
    BY <1>3 DEF FlowInv
  <2>10. Newest'
    BY <2>8, <2>9 DEF Newest, NextUp, Fresh
  <2> QED
    BY <1>3, <1>5, <2>6, <2>7, <2>10 DEF OrderInv
<1> QED
  BY <1>6, <1>7

(* The order in hand meets the book.                                       *)
LEMMA MatchOrder ==
  ASSUME LoopInv, FlowInv, FlowInv', OrderInv, InFirstMap', matching
  PROVE  OrderInv'
<1>1. BookSound /\ Scored /\ LoopShape
  BY LoopParts
<1>2. Match /\ UNCHANGED <<nextId, events, applying, intact>>
  BY DEF matching, Match, loopVars
<1>3. ~Idle
  BY <1>1, <1>2, Matched DEF BookSound
<1>4. /\ intact /\ IndexExact /\ InOrder /\ Newest /\ TypeOK /\ HusksAtFront /\ Distinct /\ Whole /\ intact'
  BY <1>1, <1>2 DEF OrderInv, FlowInv, BookSound, IInv
<1>5. /\ applying /\ Outstanding = {incoming.id}
      /\ incoming \in Order /\ incoming.type = "LIMIT" /\ incoming.quantity \in {0, QUANTITY}
      /\ incoming.id \notin RestingIds
  BY <1>3, <1>4, FlowInHand
<1>6. Leaving' = {} /\ Oldest'
  BY <1>2, <1>5 DEF Leaving, Oldest
<1>7. incoming.id = NextUp /\ \A id \in RestingIds : id < incoming.id
  BY <1>4, <1>5 DEF Newest
<1>8. ASSUME NEW price \in Price, fillResting(price)
      PROVE  OrderInv'
  <2>1. IndexExact'
    BY <1>4, <1>8, FillRestingExact
  <2>2. InOrder'
    BY <1>4, <1>8, FillMovesNone, OrderStays
  <2>3. PICK maker \in RestingIds : Loses(maker) /\ incoming'.id = incoming.id
    <3>1. PICK maker \in RestingIds :
            /\ Loses(maker)
            /\ incoming' = [incoming EXCEPT !.quantity = incoming.quantity - QUANTITY]
      BY <1>4, <1>8, FillRestingIds
    <3>2. incoming'.id = incoming.id
      BY <1>5, <3>1 DEF Order
    <3> QED
      BY <3>1, <3>2
  <2>4. RestingIds' \subseteq RestingIds
    BY <2>3, LosesId
  <2>5. Outstanding' = Outstanding
    <3>1. incoming' # NoOrder
      <4>1. incoming' \in Order
        BY <1>4, <1>5, <1>8, IncomingTyped, FillRestingTyped
      <4> QED
        BY <4>1, TypesAssumption
    <3> QED
      BY <1>2, <1>3, <3>1 DEF Outstanding, Adding, IsAdd, Idle
  <2>6. Newest'
    BY <1>2, <1>4, <2>4, <2>5 DEF Newest, NextUp
  <2> QED
    BY <1>4, <1>6, <2>1, <2>2, <2>6 DEF OrderInv
<1>9. ASSUME restRemainder
      PROVE  OrderInv'
  <2>1. InOrder'
    BY <1>4, <1>5, <1>7, <1>9, RestInOrder
  <2>2. Outstanding' = {}
    BY <1>2, <1>5, <1>9 DEF Outstanding, restRemainder, Idle
  <2>3. Fresh'
    BY <1>4 DEF FlowInv
  <2>4. Newest'
    BY <2>2, <2>3 DEF Newest, NextUp, Fresh
  <2>5. incoming.id \notin DOMAIN orderMap
    BY <1>4, <1>5, IndexedRest
  <2>6. IndexExact'
    <3>1. incoming.type = "LIMIT" /\ incoming.quantity # 0 => KeepsMap(incoming)
      BY <1>4, <1>9, RestKeepsMap
    <3> QED
      BY <1>4, <1>9, <2>5, <3>1, RestRemainderExact
  <2> QED
    BY <1>4, <1>6, <2>1, <2>4, <2>6 DEF OrderInv
<1>10. ASSUME NEW price \in Price, fillIncoming(price)
       PROVE  FALSE
  BY <1>4, <1>10, NeverPartial
<1> QED
  BY <1>2, <1>8, <1>9, <1>10 DEF Match

(* Any step at whose end nothing is outstanding or about to leave, and     *)
(* which does not touch the book, keeps its order.                         *)
LEMMA RestOrder ==
  ASSUME FlowInv', OrderInv, UNCHANGED <<book, orderMap, intact>>, Outstanding' = {}, Leaving' = {}
  PROVE  OrderInv'
<1>1. intact' /\ Fresh'
  BY DEF OrderInv, FlowInv
<1>2. Newest'
  BY <1>1 DEF Newest, NextUp, Fresh
<1>3. IndexExact' /\ InOrder'
  BY SameBook DEF OrderInv
<1>4. Oldest'
  BY DEF Oldest
<1> QED
  BY <1>1, <1>2, <1>3, <1>4 DEF OrderInv

LEMMA OrderInductive ==
  ASSUME MaxQuotes = 0, LoopInv, FlowInv, OrderInv, InFirstMap', [SimNext]_vars
  PROVE  OrderInv'
<1>0. FlowInv' /\ LoopShape /\ Alone
  BY FlowInductive, LoopParts DEF FlowInv, OrderInv
<1>1. CASE flowIdles
  <2> DEFINE out == <<>>
  <2>1. startTick(out) /\ nextId' = nextId
    BY <1>1 DEF flowIdles
  <2>2. out \in Seq(Event) /\ out = <<>> /\ \A id : out # <<CANCEL(id)>>
    OBVIOUS
  <2>3. Adding' = {}
    BY <2>1 DEF startTick, Adding
  <2> HIDE DEF out
  <2> QED
    BY <1>0, <2>1, <2>2, <2>3, StartOrder
<1>2. ASSUME NEW order \in Submissions, flowAdds(order)
      PROVE  OrderInv'
  BY <1>2, StartAdding
<1>3. ASSUME NEW id \in OrderID, flowCancels(id)
      PROVE  OrderInv'
  <2> DEFINE out == <<CANCEL(id)>>
  <2>1. /\ startTick(out) /\ id \in tracked /\ nextId' = nextId
        /\ \A other \in tracked : id <= other
    BY <1>3 DEF flowCancels
  <2>2. out \in Seq(Event) /\ out = <<CANCEL(id)>> /\ DOMAIN out = {1} /\ out[1] = CANCEL(id)
    BY EventKinds
  <2>3. CANCEL(id).type # "ADD" /\ \A other : CANCEL(other) = CANCEL(id) => other = id
    BY DEF CANCEL
  <2>4. Adding' = {}
    <3>1. events' = out
      BY <2>1 DEF startTick
    <3> HIDE DEF out
    <3> QED
      BY <2>2, <2>3, <3>1 DEF Adding, IsAdd
  <2>5. \A other : out[1] = CANCEL(other) => other = id
    BY <2>2, <2>3
  <2>6. \A other : out = <<CANCEL(other)>> => other = id
    BY <2>3
  <2> HIDE DEF out
  <2>7. /\ \A other \in OrderID : out = <<CANCEL(other)>> =>
             other \in tracked /\ \A third \in tracked : other <= third
        /\ \A other \in OrderID : out # <<>> /\ out[1] = CANCEL(other) => out = <<CANCEL(other)>>
    BY <2>1, <2>2, <2>5, <2>6
  <2> QED
    BY <1>0, <2>1, <2>2, <2>4, <2>7, StartOrder
<1>4. CASE apply
  BY <1>0, <1>4, ApplyOrder
<1>5. CASE matching
  BY <1>0, <1>5, MatchOrder
<1>6. CASE drain
  <2>1. /\ applying /\ events # <<>> /\ Idle /\ applying' = FALSE /\ events' = Tail(events)
        /\ UNCHANGED <<book, orderMap, intact>>
    BY <1>0, <1>6 DEF drain, bookVars, truth, LoopShape
  <2>2. events' = <<>>
    BY <1>0, <2>1, OneEvent DEF LoopShape, Alone
  <2>3. Outstanding' = {} /\ Leaving' = {}
    BY <2>2 DEF Outstanding, Leaving
  <2> QED
    BY <1>0, <2>1, <2>3, RestOrder
<1>7. ASSUME NEW cancels \in Cancels, NEW amends \in Amends, NEW quotes \in Quotes,
             quote(cancels, amends, quotes)
      PROVE  OrderInv'
  <2>1. phase' = "applyQuotes" /\ UNCHANGED <<book, orderMap, intact>>
    BY <1>7 DEF quote, bookVars
  <2>2. events' = <<>>
    BY <1>0, <2>1 DEF FlowInv, OrderInv, Alone
  <2>3. Outstanding' = {} /\ Leaving' = {}
    BY <2>2 DEF Outstanding, Leaving
  <2> QED
    BY <1>0, <2>1, <2>3, RestOrder
<1>8. CASE score
  <2>1. events = <<>> /\ UNCHANGED <<book, orderMap, intact, events>>
    BY <1>8 DEF score, bookVars, truth
  <2>2. Outstanding' = {} /\ Leaving' = {}
    BY <2>1 DEF Outstanding, Leaving
  <2> QED
    BY <1>0, <2>1, <2>2, RestOrder
<1>9. CASE UNCHANGED vars
  <2>1. UNCHANGED <<book, orderMap, incoming, events, applying, nextId, intact>>
    BY <1>9 DEF vars, bookVars, loopVars, truth
  <2>2. Adding' = Adding /\ RestingIds' = RestingIds /\ Leaving' = Leaving /\ (Idle' <=> Idle)
    BY <2>1 DEF Adding, IsAdd, RestingIds, IdsOn, Leaving, Idle
  <2>3. Outstanding' = Outstanding
    BY <2>1, <2>2 DEF Outstanding
  <2>4. (Newest' <=> Newest) /\ (Oldest' <=> Oldest)
    BY <2>1, <2>2, <2>3 DEF Newest, NextUp, Oldest
  <2>5. IndexExact' /\ InOrder'
    BY <2>1, SameBook DEF OrderInv
  <2> QED
    BY <2>1, <2>4, <2>5 DEF OrderInv
<1> QED
  BY <1>1, <1>2, <1>3, <1>4, <1>5, <1>6, <1>7, <1>8, <1>9 DEF SimNext

LEMMA OrderInitially == SimInit => OrderInv
<1> SUFFICES ASSUME SimInit PROVE OrderInv
  OBVIOUS
<1>1. events = <<>> /\ intact /\ Init
  BY DEF SimInit
<1>2. orderMap = <<>> /\ \A s \in Side : DOMAIN book[s] = {}
  BY <1>1 DEF Init
<1>3. IndexExact /\ InOrder
  BY <1>2 DEF IndexExact, InOrder
<1>4. RestingIds = {} /\ Outstanding = {} /\ Leaving = {}
  BY <1>1, <1>2 DEF RestingIds, IdsOn, Outstanding, Leaving, Side
<1> QED
  BY <1>1, <1>3, <1>4 DEF OrderInv, Newest, Oldest

(* Alone, the flow keeps the book's index exact (orderbook.h:32) for as    *)
(* long as no level outgrows its first map: it cancels its oldest order,   *)
(* the first of its level, and an erase there moves no other order.        *)
THEOREM FlowKeepsIndex ==
  ASSUME MaxQuotes = 0
  PROVE  SimSpec /\ []InFirstMap => []IndexExact
<1>1. SimInit => FlowInv /\ OrderInv
  BY FlowInitially, OrderInitially
<1>2. LoopInv /\ FlowInv /\ OrderInv /\ InFirstMap' /\ [SimNext]_vars => FlowInv' /\ OrderInv'
  BY FlowInductive, OrderInductive
<1>3. OrderInv => IndexExact
  BY DEF OrderInv
<1> QED
  BY <1>1, <1>2, <1>3, LoopInvariance, PTL DEF SimSpec

-----------------------------------------------------------------------------
(* A tick comes to its end: what is left of it falls with every step, for  *)
(* any strategy, also when the index is wrong.                             *)

(* The phases to come, the calls of the phase not yet made (a call that is *)
(* being made or whose trades are to be drained counts for half), and what *)
(* is left of the call being made.                                         *)
PhasesLeft == IF phase = "applyFlow" THEN 2 ELSE IF phase = "applyQuotes" THEN 1 ELSE 0
CallsLeft  == 2 * Len(events) - (IF applying THEN 1 ELSE 0)
CallLeft   == IF Idle THEN 0 ELSE ToDo + 1

Counts == PhasesLeft \in Nat /\ CallsLeft \in Nat /\ CallLeft \in Nat

LessOfTick ==
  \/ PhasesLeft' < PhasesLeft
  \/ PhasesLeft' = PhasesLeft /\ CallsLeft' < CallsLeft
  \/ PhasesLeft' = PhasesLeft /\ CallsLeft' = CallsLeft /\ CallLeft' < CallLeft

(* A step within a tick leaves less of it, in natural numbers.             *)
TickShrinks == [][phase # "flow" => Counts /\ Counts' /\ LessOfTick]_vars

LEMMA TickCounts ==
  ASSUME LoopInv
  PROVE  Counts
<1>1. LoopShape /\ BookSound
  BY LoopParts
<1>2. PhasesLeft \in Nat
  BY DEF PhasesLeft
<1>3. CallsLeft \in Nat
  <2>1. events \in Seq(Event) /\ (applying => events # <<>>)
    BY <1>1 DEF LoopShape
  <2>2. Len(events) \in Nat /\ (applying => Len(events) >= 1)
    BY <2>1
  <2> QED
    BY <2>2 DEF CallsLeft
<1>4. CallLeft \in Nat
  <2>1. EInv
    BY <1>1 DEF BookSound, EInv
  <2>2. ~Idle => Cardinality(Waiting) \in Nat
    BY <2>1, TypedQueues, WaitingFinite
  <2> QED
    BY <2>2 DEF CallLeft, ToDo
<1> QED
  BY <1>2, <1>3, <1>4 DEF Counts

LEMMA TickStep ==
  ASSUME LoopInv, LoopInv', SimNext, phase # "flow"
  PROVE  LessOfTick
<1>1. LoopShape /\ BookSound /\ events \in Seq(Event)
  BY LoopParts DEF LoopShape
<1>2. CASE apply
  <2>1. UNCHANGED <<phase, events>> /\ ~applying /\ applying' = TRUE
    BY <1>2 DEF apply
  <2>2. Len(events) \in Nat
    BY <1>1
  <2> QED
    BY <2>1, <2>2 DEF LessOfTick, PhasesLeft, CallsLeft
<1>3. CASE matching
  <2>1. UNCHANGED <<phase, events, applying>> /\ Match
    BY <1>3 DEF matching, Match, loopVars
  <2>2. EInv /\ ~Idle
    BY <1>1, <2>1 DEF BookSound, EInv, Match, fillResting, fillIncoming, restRemainder
  <2>3. LessToDo
    BY <2>1, <2>2, TypedQueues, OrderInHand, MatchShrinks
  <2>4. ToDo \in Nat
    <3>1. Cardinality(Waiting) \in Nat
      BY <2>2, TypedQueues, WaitingFinite
    <3> QED
      BY <3>1 DEF ToDo
  <2>5. CallLeft' < CallLeft
    BY <2>2, <2>3, <2>4 DEF CallLeft, LessToDo
  <2>6. PhasesLeft' = PhasesLeft /\ CallsLeft' = CallsLeft
    BY <2>1 DEF PhasesLeft, CallsLeft
  <2> QED
    BY <2>5, <2>6 DEF LessOfTick
<1>4. CASE drain
  <2>1. /\ UNCHANGED phase /\ applying /\ applying' = FALSE /\ events' = Tail(events)
        /\ events # <<>>
    BY <1>1, <1>4 DEF drain, LoopShape
  <2>2. Len(events) \in Nat /\ Len(events') = Len(events) - 1
    BY <1>1, <2>1
  <2> QED
    BY <2>1, <2>2 DEF LessOfTick, PhasesLeft, CallsLeft
<1>5. ASSUME NEW cancels, NEW amends, NEW quotes, quote(cancels, amends, quotes)
      PROVE  LessOfTick
  BY <1>5 DEF quote, LessOfTick, PhasesLeft
<1>6. CASE score
  BY <1>6 DEF score, LessOfTick, PhasesLeft
<1> QED
  BY <1>2, <1>3, <1>4, <1>5, <1>6 DEF SimNext, flowIdles, flowAdds, flowCancels, startTick

(* Whatever the flow draws and the market maker emits, a tick has only so  *)
(* many steps: the loops of run (sim.cpp) over its two batches end, and so *)
(* do those of the calls they make.                                        *)
THEOREM TicksAreFinite == SimSpec => TickShrinks
<1>1. LoopInv /\ LoopInv' /\ [SimNext]_vars => [phase # "flow" => LessOfTick]_vars
  BY TickStep
<1>2. LoopInv => Counts
  BY TickCounts
<1>3. Counts /\ Counts' /\ [phase # "flow" => LessOfTick]_vars =>
        [phase # "flow" => Counts /\ Counts' /\ LessOfTick]_vars
  OBVIOUS
<1> QED
  BY <1>1, <1>2, <1>3, LoopInvariance, PTL DEF SimSpec, TickShrinks
=============================================================================
