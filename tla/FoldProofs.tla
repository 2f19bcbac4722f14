----------------------------- MODULE FoldProofs -----------------------------
(***************************************************************************)
(* Induction and recursion over data in first-order form.  The induction   *)
(* theorems of the library take the predicate as an operator; here it is a *)
(* set, the numbers of which it holds, and what a fold computes follows    *)
(* from the well-foundedness of the numbers.                               *)
(***************************************************************************)
EXTENDS FiniteSetsExt, FiniteSetTheorems, SequenceTheorems, TLAPS

-----------------------------------------------------------------------------
(* Induction.                                                              *)

Less == {pair \in Nat \X Nat : pair[1] < pair[2]}

(* A set of numbers has a smallest one.                                    *)
LEMMA SmallestNat ==
  ASSUME NEW T \in SUBSET Nat, T # {}
  PROVE  \E m \in T : \A n \in T : m <= n
<1>1. IsWellFoundedOn(Less, Nat)
  BY NatLessThanWellFounded DEF OpToRel, Less
<1>2. PICK m \in T : \A n \in T : ~(<<n, m>> \in Less)
  BY <1>1, WFMin
<1>3. ASSUME NEW n \in T
      PROVE  m <= n
  <2>1. n \in Nat /\ m \in Nat
    OBVIOUS
  <2>2. ~(n < m)
    BY <1>2, <2>1 DEF Less
  <2> QED
    BY <2>1, <2>2
<1> QED
  BY <1>3

(* So a set that has 0, and with every number the next, has them all.      *)
LEMMA EveryNat ==
  ASSUME NEW P \in SUBSET Nat, 0 \in P, \A n \in P : n + 1 \in P
  PROVE  P = Nat
<1> DEFINE T == Nat \ P
<1>1. SUFFICES ASSUME T # {} PROVE FALSE
  OBVIOUS
<1>2. PICK m \in T : \A n \in T : m <= n
  <2>1. T \in SUBSET Nat
    OBVIOUS
  <2> HIDE DEF T
  <2> QED
    BY <1>1, <2>1, SmallestNat
<1>3. m \in Nat /\ m # 0
  OBVIOUS
<1>4. m - 1 \in Nat /\ ~(m <= m - 1)
  BY <1>3
<1>5. m - 1 \in P
  BY <1>2, <1>4
<1>6. (m - 1) + 1 = m
  BY <1>3
<1> QED
  BY <1>5, <1>6

-----------------------------------------------------------------------------
(* Folds of a finite set: ch says which element of a set comes first, st   *)
(* what an element makes of the value of the others.                       *)

Chooses(ch, S) == \A s \in SUBSET S : s # {} => ch[s] \in s

(* g is the fold of the subsets of S.                                      *)
Folds(g, S, base, ch, st) ==
  \A s \in SUBSET S : g[s] = IF s = {} THEN base ELSE st[<<ch[s], g[s \ {ch[s]}]>>]

UpTo(S, n) == {s \in SUBSET S : Cardinality(s) <= n}

(* Taking an element out makes a finite set smaller.                       *)
LEMMA OneLess ==
  ASSUME NEW S, IsFiniteSet(S), NEW s \in SUBSET S, NEW x \in s
  PROVE  /\ IsFiniteSet(s) /\ Cardinality(s) \in Nat \ {0}
         /\ s \ {x} \in SUBSET S /\ IsFiniteSet(s \ {x})
         /\ Cardinality(s \ {x}) = Cardinality(s) - 1
<1>1. IsFiniteSet(s)
  BY FS_Subset
<1>2. IsFiniteSet(s \ {x}) /\ Cardinality(s \ {x}) = Cardinality(s) - 1
  BY <1>1, FS_RemoveElement
<1>3. Cardinality(s) \in Nat /\ Cardinality(s) # 0
  BY <1>1, FS_CardinalityType, FS_EmptySet
<1> QED
  BY <1>1, <1>2, <1>3

(* A fold exists.                                                          *)
LEMMA FoldExists ==
  ASSUME NEW S, IsFiniteSet(S), NEW V, NEW base \in V, NEW ch, Chooses(ch, S),
         NEW st \in [S \X V -> V]
  PROVE  \E g \in [SUBSET S -> V] : Folds(g, S, base, ch, st)
<1> DEFINE Partly(g, n) ==
             \A s \in UpTo(S, n) : g[s] = IF s = {} THEN base ELSE st[<<ch[s], g[s \ {ch[s]}]>>]
           P == {n \in Nat : \E g \in [UpTo(S, n) -> V] : Partly(g, n)}
<1>0. \A s \in SUBSET S : IsFiniteSet(s) /\ Cardinality(s) \in Nat
  BY FS_Subset, FS_CardinalityType
<1>1. 0 \in P
  <2> DEFINE g == [s \in UpTo(S, 0) |-> base]
  <2>1. ASSUME NEW s \in UpTo(S, 0)
        PROVE  s = {}
    BY <1>0, FS_EmptySet DEF UpTo
  <2>2. g \in [UpTo(S, 0) -> V] /\ Partly(g, 0)
    BY <2>1
  <2> QED
    BY <2>2
<1>2. ASSUME NEW n \in P
      PROVE  n + 1 \in P
  <2>1. n \in Nat
    OBVIOUS
  <2>2. PICK g \in [UpTo(S, n) -> V] : Partly(g, n)
    OBVIOUS
  <2> DEFINE h == [s \in UpTo(S, n + 1) |-> IF s = {} THEN base ELSE st[<<ch[s], g[s \ {ch[s]}]>>]]
  <2>3. ASSUME NEW s \in UpTo(S, n + 1), s # {}
        PROVE  /\ ch[s] \in S /\ s \ {ch[s]} \in UpTo(S, n) /\ s \ {ch[s]} \in UpTo(S, n + 1)
               /\ g[s \ {ch[s]}] \in V
    <3> DEFINE c == ch[s]
    <3>1. s \in SUBSET S /\ c \in s
      BY <2>3 DEF UpTo, Chooses
    <3> HIDE DEF c
    <3>2. /\ Cardinality(s) \in Nat /\ s \ {c} \in SUBSET S
          /\ Cardinality(s \ {c}) = Cardinality(s) - 1
      BY <3>1, OneLess
    <3>3. s \ {c} \in UpTo(S, n) /\ s \ {c} \in UpTo(S, n + 1)
      BY <2>1, <3>1, <3>2 DEF UpTo
    <3> QED
      BY <2>2, <3>1, <3>3 DEF c
  <2>4. h \in [UpTo(S, n + 1) -> V]
    BY <2>3
  <2>5. ASSUME NEW s \in UpTo(S, n)
        PROVE  s \in UpTo(S, n + 1) /\ h[s] = g[s]
    <3>1. s \in UpTo(S, n + 1)
      BY <1>0, <2>1 DEF UpTo
    <3> QED
      BY <2>2, <3>1
  <2>6. Partly(h, n + 1)
    <3> SUFFICES ASSUME NEW s \in UpTo(S, n + 1)
                 PROVE  h[s] = IF s = {} THEN base ELSE st[<<ch[s], h[s \ {ch[s]}]>>]
      OBVIOUS
    <3>1. CASE s = {}
      BY <3>1
    <3>2. CASE s # {}
      <4>1. h[s \ {ch[s]}] = g[s \ {ch[s]}]
        BY <2>3, <2>5, <3>2
      <4> QED
        BY <3>2, <4>1
    <3> QED
      BY <3>1, <3>2
  <2> HIDE DEF h, Partly
  <2> QED
    BY <2>1, <2>4, <2>6
<1>3. Cardinality(S) \in P
  <2>1. P \in SUBSET Nat
    OBVIOUS
  <2> HIDE DEF P
  <2>2. P = Nat
    BY <1>1, <1>2, <2>1, EveryNat
  <2> QED
    BY <1>0, <2>2
<1>4. UpTo(S, Cardinality(S)) = SUBSET S
  BY FS_Subset DEF UpTo
<1> QED
  BY <1>3, <1>4 DEF Folds

(* h obeys the fold's recursion below T.                                   *)
Recurs(h, T, V, base, ch, st) ==
  \A s \in SUBSET T :
    /\ s = {} => h[s] = base
    /\ s # {} /\ h[s \ {ch[s]}] \in V => h[s] = st[<<ch[s], h[s \ {ch[s]}]>>]

(* Whatever obeys the fold's recursion is the fold.                        *)
LEMMA FoldSame ==
  ASSUME NEW S, IsFiniteSet(S), NEW V, NEW base, NEW ch, Chooses(ch, S), NEW st,
         NEW g \in [SUBSET S -> V], Folds(g, S, base, ch, st),
         NEW T \in SUBSET S, NEW h, Recurs(h, T, V, base, ch, st)
  PROVE  \A s \in SUBSET T : h[s] = g[s]
<1> DEFINE P == {n \in Nat : \A s \in SUBSET T : Cardinality(s) = n => h[s] = g[s]}
<1>0. \A s \in SUBSET T : IsFiniteSet(s) /\ Cardinality(s) \in Nat /\ s \in SUBSET S
  BY FS_Subset, FS_CardinalityType
<1>1. 0 \in P
  BY <1>0, FS_EmptySet DEF Folds, Recurs
<1>2. ASSUME NEW n \in P
      PROVE  n + 1 \in P
  <2>1. n \in Nat /\ \A s \in SUBSET T : Cardinality(s) = n => h[s] = g[s]
    OBVIOUS
  <2>2. ASSUME NEW s \in SUBSET T, Cardinality(s) = n + 1
        PROVE  h[s] = g[s]
    <3>1. s # {} /\ s \in SUBSET S /\ ch[s] \in s
      BY <1>0, <2>1, <2>2, FS_EmptySet DEF Chooses
    <3>2. s \ {ch[s]} \in SUBSET T /\ Cardinality(s \ {ch[s]}) = n
      <4> DEFINE c == ch[s]
      <4>1. c \in s
        BY <3>1
      <4> HIDE DEF c
      <4>2. Cardinality(s \ {c}) = Cardinality(s) - 1
        BY <3>1, <4>1, OneLess
      <4>3. Cardinality(s) = n + 1 /\ s \ {c} \in SUBSET T
        BY <2>2
      <4>4. Cardinality(s \ {c}) = n
        BY <2>1, <4>2, <4>3
      <4> QED
        BY <4>3, <4>4 DEF c
    <3>3. h[s \ {ch[s]}] = g[s \ {ch[s]}] /\ g[s \ {ch[s]}] \in V
      BY <2>1, <3>2
    <3> QED
      BY <3>1, <3>3 DEF Folds, Recurs
  <2> QED
    BY <2>1, <2>2
<1>3. P = Nat
  <2>1. P \in SUBSET Nat
    OBVIOUS
  <2> HIDE DEF P
  <2> QED
    BY <1>1, <1>2, <2>1, EveryNat
<1> QED
  BY <1>0, <1>3

(* g is the fold and h obeys its recursion.                                *)
BothFold(g, h, S, V, base, ch, st) ==
  /\ IsFiniteSet(S) /\ Chooses(ch, S)
  /\ g \in [SUBSET S -> V] /\ Folds(g, S, base, ch, st)
  /\ Recurs(h, S, V, base, ch, st)

(* Then they agree on the whole set.                                       *)
LEMMA FoldSameWhole ==
  ASSUME NEW S, NEW V, NEW base, NEW ch, NEW st, NEW g, NEW h,
         BothFold(g, h, S, V, base, ch, st)
  PROVE  h[S] = g[S]
<1>1. S \in SUBSET S
  OBVIOUS
<1>2. \A s \in SUBSET S : h[s] = g[s]
  BY <1>1, FoldSame DEF BothFold
<1> QED
  BY <1>1, <1>2

-----------------------------------------------------------------------------
(* What finite sets have.                                                  *)

(* A finite set of integers has a smallest element and a largest one.      *)
LEMMA Extremes ==
  ASSUME NEW S \in SUBSET Int, IsFiniteSet(S), S # {}
  PROVE  (\E m \in S : \A n \in S : m <= n) /\ (\E m \in S : \A n \in S : n <= m)
<1> DEFINE Low(s)  == \E m \in s : \A n \in s : m <= n
           High(s) == \E m \in s : \A n \in s : n <= m
           P == {k \in Nat : \A s \in SUBSET S :
                   Cardinality(s) = k /\ s # {} => Low(s) /\ High(s)}
<1>0. \A s \in SUBSET S : IsFiniteSet(s) /\ Cardinality(s) \in Nat
  BY FS_Subset, FS_CardinalityType
<1>1. 0 \in P
  BY <1>0, FS_EmptySet
<1>2. ASSUME NEW k \in P
      PROVE  k + 1 \in P
  <2>1. k \in Nat /\ \A s \in SUBSET S : Cardinality(s) = k /\ s # {} => Low(s) /\ High(s)
    OBVIOUS
  <2>2. ASSUME NEW s \in SUBSET S, Cardinality(s) = k + 1, s # {}
        PROVE  Low(s) /\ High(s)
    <3>1. PICK x \in s : TRUE
      BY <2>2
    <3> DEFINE rest == s \ {x}
    <3>2. x \in Int /\ rest \in SUBSET S /\ s = rest \cup {x} /\ \A n \in rest : n \in Int
      OBVIOUS
    <3>3. Cardinality(rest) = k
      <4>1. Cardinality(s \ {x}) = Cardinality(s) - 1
        BY OneLess
      <4>2. Cardinality(s) = k + 1
        BY <2>2
      <4> QED
        BY <2>1, <4>1, <4>2
    <3> HIDE DEF rest
    <3>4. CASE rest = {}
      BY <3>2, <3>4
    <3>5. CASE rest # {}
      <4>1. PICK low \in rest : \A n \in rest : low <= n
        BY <2>1, <3>2, <3>3, <3>5
      <4>2. PICK high \in rest : \A n \in rest : n <= high
        BY <2>1, <3>2, <3>3, <3>5
      <4>3. low \in Int /\ high \in Int /\ low \in s /\ high \in s /\ x \in s
        BY <3>2
      <4>4. Low(s)
        <5>1. CASE x <= low
          BY <3>2, <4>1, <4>3, <5>1
        <5>2. CASE ~(x <= low)
          BY <3>2, <4>1, <4>3, <5>2
        <5> QED
          BY <5>1, <5>2
      <4>5. High(s)
        <5>1. CASE high <= x
          BY <3>2, <4>2, <4>3, <5>1
        <5>2. CASE ~(high <= x)
          BY <3>2, <4>2, <4>3, <5>2
        <5> QED
          BY <5>1, <5>2
      <4> QED
        BY <4>4, <4>5
    <3> QED
      BY <3>4, <3>5
  <2> QED
    BY <2>1, <2>2
<1>3. P = Nat
  <2>1. P \in SUBSET Nat
    OBVIOUS
  <2> HIDE DEF P
  <2> QED
    BY <1>1, <1>2, <2>1, EveryNat
<1> QED
  BY <1>0, <1>3

(* The union of finitely many finite sets is finite.                       *)
LEMMA UnionsFinite ==
  ASSUME NEW S, IsFiniteSet(S), NEW f, \A x \in S : IsFiniteSet(f[x])
  PROVE  IsFiniteSet(UNION {f[x] : x \in S})
<1> DEFINE All(s) == UNION {f[x] : x \in s}
           P == {k \in Nat : \A s \in SUBSET S : Cardinality(s) = k => IsFiniteSet(All(s))}
<1>0. \A s \in SUBSET S : IsFiniteSet(s) /\ Cardinality(s) \in Nat /\ (Cardinality(s) = 0 => s = {})
  BY FS_Subset, FS_CardinalityType, FS_EmptySet
<1>1. 0 \in P
  <2>1. All({}) = {}
    OBVIOUS
  <2> QED
    BY <1>0, <2>1, FS_EmptySet
<1>2. ASSUME NEW k \in P
      PROVE  k + 1 \in P
  <2>1. k \in Nat /\ \A s \in SUBSET S : Cardinality(s) = k => IsFiniteSet(All(s))
    OBVIOUS
  <2>2. ASSUME NEW s \in SUBSET S, Cardinality(s) = k + 1
        PROVE  IsFiniteSet(All(s))
    <3>1. s # {}
      <4>1. k + 1 # 0
        BY <2>1
      <4> QED
        BY <2>2, <4>1, FS_EmptySet
    <3>2. PICK x \in s : TRUE
      BY <3>1
    <3>3. Cardinality(s \ {x}) = Cardinality(s) - 1
      BY OneLess
    <3>4. Cardinality(s \ {x}) = k /\ s \ {x} \in SUBSET S
      BY <2>1, <2>2, <3>3
    <3>5. IsFiniteSet(All(s \ {x})) /\ IsFiniteSet(f[x])
      BY <2>1, <3>4
    <3>6. All(s) = All(s \ {x}) \cup f[x]
      OBVIOUS
    <3> HIDE DEF All
    <3>7. IsFiniteSet(All(s \ {x}) \cup f[x])
      BY ONLY <3>5, FS_Union
    <3> QED
      BY <3>6, <3>7
  <2> QED
    BY <2>1, <2>2
<1>3. P = Nat
  <2>1. P \in SUBSET Nat
    OBVIOUS
  <2> HIDE DEF P
  <2> QED
    BY <1>1, <1>2, <2>1, EveryNat
<1> QED
  BY <1>0, <1>3

-----------------------------------------------------------------------------
(* Sums: the elements of S have weights.                                   *)

Adds(w, S) == [pair \in S \X Int |-> w[pair[1]] + pair[2]]

(* g gives the sums of the subsets of S, over a base.                      *)
Sums(g, S, base, w) ==
  /\ g \in [SUBSET S -> Int]
  /\ g[{}] = base
  /\ \A s \in SUBSET S : \A x \in s : g[s] = w[x] + g[s \ {x}]

(* In whichever order the weights are added.                               *)
LEMMA AddsCommute ==
  ASSUME NEW S, IsFiniteSet(S), NEW base \in Int, NEW ch, Chooses(ch, S), NEW w \in [S -> Int],
         NEW g \in [SUBSET S -> Int], Folds(g, S, base, ch, Adds(w, S))
  PROVE  Sums(g, S, base, w)
<1> DEFINE Sum(s) == \A x \in s : g[s] = w[x] + g[s \ {x}]
           P == {n \in Nat : \A s \in SUBSET S : Cardinality(s) = n => Sum(s)}
<1>0. \A s \in SUBSET S : IsFiniteSet(s) /\ Cardinality(s) \in Nat
  BY FS_Subset, FS_CardinalityType
<1>1. ASSUME NEW s \in SUBSET S, s # {}
      PROVE  ch[s] \in s /\ g[s] = w[ch[s]] + g[s \ {ch[s]}]
  <2>1. ch[s] \in s /\ s \ {ch[s]} \in SUBSET S
    BY <1>1 DEF Chooses
  <2>2. <<ch[s], g[s \ {ch[s]}]>> \in S \X Int
    BY <2>1
  <2> QED
    BY <1>1, <2>1, <2>2 DEF Folds, Adds
<1>2. 0 \in P
  BY <1>0, FS_EmptySet
<1>3. ASSUME NEW n \in P
      PROVE  n + 1 \in P
  <2>1. n \in Nat /\ \A s \in SUBSET S : Cardinality(s) = n => Sum(s)
    OBVIOUS
  <2>2. ASSUME NEW s \in SUBSET S, Cardinality(s) = n + 1, NEW x \in s
        PROVE  g[s] = w[x] + g[s \ {x}]
    <3> DEFINE c == ch[s]
    <3>1. c \in s /\ g[s] = w[c] + g[s \ {c}]
      BY <1>1
    <3> HIDE DEF c
    <3>2. CASE x = c
      BY <3>1, <3>2
    <3>3. CASE x # c
      <4>1. ASSUME NEW y \in s
            PROVE  s \ {y} \in SUBSET S /\ Cardinality(s \ {y}) = n
        <5>1. s \ {y} \in SUBSET S /\ Cardinality(s \ {y}) = Cardinality(s) - 1
          BY OneLess
        <5>2. Cardinality(s) = n + 1
          BY <2>2
        <5> QED
          BY <2>1, <5>1, <5>2
      <4>2. g[s \ {c}] = w[x] + g[(s \ {c}) \ {x}]
        BY <2>1, <3>1, <3>3, <4>1
      <4>3. g[s \ {x}] = w[c] + g[(s \ {x}) \ {c}]
        BY <2>1, <3>1, <3>3, <4>1
      <4>4. (s \ {c}) \ {x} = (s \ {x}) \ {c}
        OBVIOUS
      <4>5. /\ w[x] \in Int /\ w[c] \in Int /\ (s \ {c}) \ {x} \in SUBSET S
            /\ g[(s \ {c}) \ {x}] \in Int
        BY <3>1
      <4> DEFINE rest == g[(s \ {c}) \ {x}]
      <4>6. g[s] = w[c] + (w[x] + rest) /\ g[s \ {x}] = w[c] + rest
        BY <3>1, <4>2, <4>3, <4>4
      <4> HIDE DEF rest
      <4> QED
        BY <4>5, <4>6 DEF rest
    <3> QED
      BY <3>2, <3>3
  <2> QED
    BY <2>1, <2>2
<1>4. P = Nat
  <2>1. P \in SUBSET Nat
    OBVIOUS
  <2> HIDE DEF P
  <2> QED
    BY <1>2, <1>3, <2>1, EveryNat
<1>5. \A s \in SUBSET S : Sum(s)
  BY <1>0, <1>4
<1>6. g[{}] = base
  BY DEF Folds
<1> QED
  BY <1>5, <1>6 DEF Sums

-----------------------------------------------------------------------------
(* The total quantity of a set of orders.                                  *)

Total(S) == MapThenSumSet(LAMBDA o : o.quantity, S)

(* The quantities of orders as weights.                                    *)
Quantities(S) == [o \in S |-> o.quantity]

(* The totals of the subsets of S are sums of quantities.                  *)
LEMMA TotalsAreSums ==
  ASSUME NEW S, IsFiniteSet(S), Quantities(S) \in [S -> Int]
  PROVE  \E g : /\ Sums(g, S, 0, Quantities(S))
                /\ \A s \in SUBSET S : Total(s) = g[s]
<1> DEFINE first(s) == CHOOSE x \in s : TRUE
           ch == [s \in SUBSET S |-> first(s)]
           w  == Quantities(S)
           st == Adds(w, S)
           zero == 0
<1>1. Chooses(ch, S)
  BY DEF Chooses
<1>2. w \in [S -> Int] /\ st \in [S \X Int -> Int] /\ zero \in Int
  <2>1. w \in [S -> Int]
    OBVIOUS
  <2> HIDE DEF w
  <2> QED
    BY <2>1 DEF Adds
<1> HIDE DEF zero
<1>3. PICK g \in [SUBSET S -> Int] : Folds(g, S, zero, ch, st)
  <2> HIDE DEF ch, st
  <2> QED
    BY <1>1, <1>2, FoldExists
<1>4. Sums(g, S, zero, w)
  <2> HIDE DEF ch, w
  <2> QED
    BY <1>1, <1>2, <1>3, AddsCommute
<1>5. ASSUME NEW T \in SUBSET S
      PROVE  Total(T) = g[T]
  <2> DEFINE defines(it) ==
               it = [s \in SUBSET T |-> IF s = {} THEN 0 ELSE first(s).quantity + it[s \ {first(s)}]]
             h == CHOOSE it : defines(it)
  <2>1. Total(T) = h[T]
    BY DEF Total, MapThenSumSet, MapThenFoldSet
  <2>2. ASSUME NEW s \in SUBSET T, s # {}, NEW v \in Int
        PROVE  st[<<ch[s], v>>] = first(s).quantity + v
    <3>1. first(s) \in s /\ ch[s] = first(s)
      BY <2>2
    <3> QED
      BY <3>1 DEF Adds, Quantities
  <2>3. \E it : defines(it)
    <3> DEFINE f == [s \in SUBSET T |-> g[s]]
    <3>1. ASSUME NEW s \in SUBSET T
          PROVE  g[s] = IF s = {} THEN 0 ELSE first(s).quantity + f[s \ {first(s)}]
      <4>1. CASE s = {}
        BY <1>3, <4>1 DEF Folds, zero
      <4>2. CASE s # {}
        <5>1. f[s \ {first(s)}] = g[s \ {first(s)}] /\ g[s \ {first(s)}] \in Int
          OBVIOUS
        <5>2. g[s] = st[<<ch[s], g[s \ {ch[s]}]>>] /\ ch[s] = first(s)
          BY <1>3, <4>2 DEF Folds
        <5> QED
          BY <2>2, <4>2, <5>1, <5>2
      <4> QED
        BY <4>1, <4>2
    <3>2. defines(f)
      BY <3>1
    <3> QED
      BY <3>2
  <2>4. defines(h)
    <3> HIDE DEF defines
    <3> QED
      BY <2>3
  <2>5. Recurs(h, T, Int, zero, ch, st)
    <3> SUFFICES ASSUME NEW s \in SUBSET T
                 PROVE  /\ s = {} => h[s] = zero
                        /\ s # {} /\ h[s \ {ch[s]}] \in Int => h[s] = st[<<ch[s], h[s \ {ch[s]}]>>]
      BY DEF Recurs
    <3>1. h[s] = IF s = {} THEN 0 ELSE first(s).quantity + h[s \ {first(s)}]
      BY <2>4
    <3>2. ch[s] = first(s)
      OBVIOUS
    <3> QED
      BY <2>2, <3>1, <3>2 DEF zero
  <2> HIDE DEF h, st, ch
  <2>6. \A s \in SUBSET T : h[s] = g[s]
    BY <1>1, <1>3, <2>5, FoldSame
  <2> QED
    BY <2>1, <2>6
<1> QED
  BY <1>4, <1>5 DEF zero

(* What a set of orders totals, when it is empty and when one is added.    *)
LEMMA TotalProperties ==
  ASSUME NEW S, IsFiniteSet(S), \A o \in S : o.quantity \in Int
  PROVE  /\ Total(S) \in Int
         /\ Total({}) = 0
         /\ \A x \in S : Total(S) = x.quantity + Total(S \ {x})
<1>0. Quantities(S) \in [S -> Int]
  BY DEF Quantities
<1>1. PICK g : /\ Sums(g, S, 0, Quantities(S))
               /\ \A s \in SUBSET S : Total(s) = g[s]
  BY <1>0, TotalsAreSums
<1>2. S \in SUBSET S /\ {} \in SUBSET S
  OBVIOUS
<1>3. \A x \in S : Quantities(S)[x] = x.quantity /\ S \ {x} \in SUBSET S
  BY DEF Quantities
<1> QED
  BY <1>1, <1>2, <1>3 DEF Sums

-----------------------------------------------------------------------------
(* The total of a sequence of trades, over a base.                         *)

Traded(base, trades) == FoldFunction(LAMBDA trade, sum : trade.quantity + sum, base, trades)

(* The quantities of trades as weights of their positions.                 *)
Amounts(trades, S) == [i \in S |-> trades[i].quantity]

(* Sums over two bases differ by what the bases do.                        *)
LEMMA SumsShift ==
  ASSUME NEW S, IsFiniteSet(S), NEW w \in [S -> Int], NEW b \in Int, NEW c \in Int,
         NEW g, Sums(g, S, b, w), NEW h, Sums(h, S, c, w)
  PROVE  \A s \in SUBSET S : g[s] - b = h[s] - c
<1> DEFINE P == {n \in Nat : \A s \in SUBSET S : Cardinality(s) = n => g[s] - b = h[s] - c}
<1>0. \A s \in SUBSET S : /\ IsFiniteSet(s) /\ Cardinality(s) \in Nat
                          /\ g[s] \in Int /\ h[s] \in Int
  BY FS_Subset, FS_CardinalityType DEF Sums
<1>1. 0 \in P
  <2>1. g[{}] - b = h[{}] - c
    BY DEF Sums
  <2> QED
    BY <1>0, <2>1, FS_EmptySet
<1>2. ASSUME NEW n \in P
      PROVE  n + 1 \in P
  <2>1. n \in Nat /\ \A s \in SUBSET S : Cardinality(s) = n => g[s] - b = h[s] - c
    OBVIOUS
  <2>2. ASSUME NEW s \in SUBSET S, Cardinality(s) = n + 1
        PROVE  g[s] - b = h[s] - c
    <3>1. PICK x \in s : TRUE
      BY <1>0, <2>1, <2>2, FS_EmptySet
    <3> DEFINE rest == s \ {x}
    <3>2. rest \in SUBSET S /\ Cardinality(rest) = n
      <4>1. Cardinality(s \ {x}) = Cardinality(s) - 1
        BY OneLess
      <4>2. Cardinality(s) = n + 1
        BY <2>2
      <4> QED
        BY <2>1, <4>1, <4>2
    <3>3. g[s] = w[x] + g[rest] /\ h[s] = w[x] + h[rest] /\ w[x] \in Int
      BY DEF Sums
    <3> HIDE DEF rest
    <3>4. g[rest] - b = h[rest] - c /\ g[rest] \in Int /\ h[rest] \in Int
      BY <1>0, <2>1, <3>2
    <3> QED
      BY <3>3, <3>4
  <2> QED
    BY <2>1, <2>2
<1>3. P = Nat
  <2>1. P \in SUBSET Nat
    OBVIOUS
  <2> HIDE DEF P
  <2> QED
    BY <1>1, <1>2, <2>1, EveryNat
<1> QED
  BY <1>0, <1>3

(* The total is the sum of the quantities at all positions.                *)
LEMMA TradedIsSum ==
  ASSUME NEW trades, NEW S, S = DOMAIN trades, IsFiniteSet(S), NEW base \in Int,
         Amounts(trades, S) \in [S -> Int]
  PROVE  \E g : Sums(g, S, base, Amounts(trades, S)) /\ Traded(base, trades) = g[S]
<1> DEFINE first(s) == CHOOSE x \in s : TRUE
           ch == [s \in SUBSET S |-> first(s)]
           w  == Amounts(trades, S)
           st == Adds(w, S)
<1>1. Chooses(ch, S)
  BY DEF Chooses
<1>2. w \in [S -> Int] /\ st \in [S \X Int -> Int]
  <2>1. w \in [S -> Int]
    OBVIOUS
  <2> HIDE DEF w
  <2> QED
    BY <2>1 DEF Adds
<1>3. PICK g \in [SUBSET S -> Int] : Folds(g, S, base, ch, st)
  <2> HIDE DEF ch, st
  <2> QED
    BY <1>1, <1>2, FoldExists
<1>4. Sums(g, S, base, w)
  <2> HIDE DEF ch, w
  <2> QED
    BY <1>1, <1>2, <1>3, AddsCommute
<1>5. Traded(base, trades) = g[S]
  <2> DEFINE defines(it) ==
               it = [s \in SUBSET S |-> IF s = {} THEN base
                                        ELSE trades[first(s)].quantity + it[s \ {first(s)}]]
             h == CHOOSE it : defines(it)
  <2>1. Traded(base, trades) = h[S]
    BY DEF Traded, FoldFunction, FoldFunctionOnSet, MapThenFoldSet
  <2>2. ASSUME NEW s \in SUBSET S, s # {}, NEW v \in Int
        PROVE  st[<<ch[s], v>>] = trades[first(s)].quantity + v
    <3>1. first(s) \in s /\ ch[s] = first(s)
      BY <2>2
    <3> QED
      BY <3>1 DEF Adds, Amounts
  <2>3. \E it : defines(it)
    <3> DEFINE f == [s \in SUBSET S |-> g[s]]
    <3>1. ASSUME NEW s \in SUBSET S
          PROVE  g[s] = IF s = {} THEN base ELSE trades[first(s)].quantity + f[s \ {first(s)}]
      <4>1. CASE s = {}
        BY <1>3, <4>1 DEF Folds
      <4>2. CASE s # {}
        <5>1. f[s \ {first(s)}] = g[s \ {first(s)}] /\ g[s \ {first(s)}] \in Int
          OBVIOUS
        <5>2. g[s] = st[<<ch[s], g[s \ {ch[s]}]>>] /\ ch[s] = first(s)
          BY <1>3, <4>2 DEF Folds
        <5> QED
          BY <2>2, <4>2, <5>1, <5>2
      <4> QED
        BY <4>1, <4>2
    <3>2. defines(f)
      BY <3>1
    <3> QED
      BY <3>2
  <2>4. defines(h)
    <3> HIDE DEF defines
    <3> QED
      BY <2>3
  <2>5. Recurs(h, S, Int, base, ch, st)
    <3> SUFFICES ASSUME NEW s \in SUBSET S
                 PROVE  /\ s = {} => h[s] = base
                        /\ s # {} /\ h[s \ {ch[s]}] \in Int => h[s] = st[<<ch[s], h[s \ {ch[s]}]>>]
      BY DEF Recurs
    <3>1. h[s] = IF s = {} THEN base ELSE trades[first(s)].quantity + h[s \ {first(s)}]
      BY <2>4
    <3>2. ch[s] = first(s)
      OBVIOUS
    <3> HIDE DEF h, ch, st, first
    <3>3. CASE s = {}
      BY <3>1, <3>3
    <3>4. CASE s # {}
      <4>1. h[s] = trades[first(s)].quantity + h[s \ {first(s)}]
        BY <3>1, <3>4
      <4> QED
        BY <2>2, <3>2, <3>4, <4>1
    <3> QED
      BY <3>3, <3>4
  <2> HIDE DEF h, st, ch
  <2>6. \A s \in SUBSET S : h[s] = g[s]
    BY <1>1, <1>3, <2>5, FoldSame
  <2> QED
    BY <2>1, <2>6
<1> QED
  BY <1>4, <1>5

(* A trade more adds to the total what it takes off the base.              *)
LEMMA TradedAppend ==
  ASSUME NEW T, NEW trades \in Seq(T), NEW trade \in T, \A t \in T : t.quantity \in Int,
         NEW base \in Int
  PROVE  /\ Traded(base, <<>>) = base
         /\ Traded(base, trades) \in Int
         /\ Traded(base - trade.quantity, Append(trades, trade)) = Traded(base, trades)
<1> DEFINE longer == Append(trades, trade)
           n      == Len(trades)
           q      == trade.quantity
           rest   == base - q
           V      == Amounts(trades, 1..n)
           W      == Amounts(longer, 1..n + 1)
<1>1. /\ n \in Nat /\ DOMAIN trades = 1..n /\ q \in Int /\ rest \in Int
      /\ DOMAIN longer = 1..n + 1 /\ longer[n + 1] = trade
      /\ \A i \in 1..n : longer[i] = trades[i] /\ trades[i] \in T
  BY AppendProperties, LenProperties
<1>2. /\ IsFiniteSet(1..n) /\ IsFiniteSet(1..n + 1)
  BY <1>1, FS_Interval
<1> HIDE DEF longer, n, q, rest
<1>3. /\ V \in [1..n -> Int] /\ W \in [1..n + 1 -> Int]
      /\ \A i \in 1..n : V[i] = W[i]
      /\ W[n + 1] = q
  <2>1. \A i \in 1..n + 1 : i \in 1..n \/ i = n + 1
    BY <1>1
  <2>2. \A i \in 1..n : i \in 1..n + 1
    BY <1>1
  <2> QED
    BY <1>1, <2>1, <2>2 DEF Amounts, q
<1> HIDE DEF V, W
<1>4. PICK g : Sums(g, 1..n, base, V) /\ Traded(base, trades) = g[1..n]
  BY <1>1, <1>2, <1>3, TradedIsSum DEF V
<1>5. PICK h : Sums(h, 1..n + 1, rest, W) /\ Traded(rest, longer) = h[1..n + 1]
  BY <1>1, <1>2, <1>3, TradedIsSum DEF W
<1>6. h[1..n + 1] = q + h[1..n] /\ h[1..n] \in Int
  <2> DEFINE low  == 1..n
             high == 1..n + 1
             last == n + 1
  <2>1. last \in high /\ high \ {last} = low /\ low \in SUBSET high /\ W[last] = q
    BY <1>1, <1>3
  <2>2. Sums(h, high, rest, W)
    BY <1>5
  <2> HIDE DEF low, high, last
  <2>3. h[high] = W[last] + h[high \ {last}] /\ h[low] \in Int
    BY <2>1, <2>2 DEF Sums
  <2>4. h[high] = q + h[low] /\ h[low] \in Int
    BY <2>1, <2>3
  <2> QED
    BY <2>4 DEF low, high
<1>7. h[1..n] - rest = g[1..n] - base
  <2> DEFINE k == [s \in SUBSET (1..n) |-> h[s]]
  <2>1. Sums(k, 1..n, rest, V)
    <3>1. 1..n \subseteq 1..n + 1
      BY <1>1
    <3>2. k \in [SUBSET (1..n) -> Int] /\ k[{}] = rest
      BY <1>5, <3>1 DEF Sums
    <3>3. ASSUME NEW s \in SUBSET (1..n), NEW x \in s
          PROVE  k[s] = V[x] + k[s \ {x}]
      <4>1. s \in SUBSET (1..n + 1) /\ V[x] = W[x] /\ s \ {x} \in SUBSET (1..n)
        BY <1>3, <3>1
      <4>2. h[s] = W[x] + h[s \ {x}]
        BY <1>5, <4>1 DEF Sums
      <4> QED
        BY <4>1, <4>2
    <3> QED
      BY <3>2, <3>3 DEF Sums
  <2>2. k[1..n] = h[1..n] /\ 1..n \in SUBSET (1..n)
    OBVIOUS
  <2> HIDE DEF k
  <2> QED
    BY <1>1, <1>2, <1>3, <1>4, <2>1, <2>2, SumsShift
<1>8. g[1..n] \in Int
  BY <1>4 DEF Sums
<1>9. Traded(rest, longer) = Traded(base, trades) /\ Traded(base, trades) \in Int
  <2> DEFINE x == g[1..n]
             y == h[1..n]
  <2>1. /\ x \in Int /\ y \in Int /\ y - rest = x - base /\ rest = base - q
        /\ Traded(rest, longer) = q + y /\ Traded(base, trades) = x
    BY <1>4, <1>5, <1>6, <1>7, <1>8 DEF rest
  <2> HIDE DEF x, y
  <2> QED
    BY <1>1, <2>1
<1>10. Traded(base, <<>>) = base
  <2> DEFINE none == <<>>
             void == {}
  <2>1. DOMAIN none = void /\ IsFiniteSet(void) /\ Amounts(none, void) \in [void -> Int]
    BY FS_EmptySet DEF Amounts
  <2> HIDE DEF none, void
  <2>2. PICK e : Sums(e, void, base, Amounts(none, void)) /\ Traded(base, none) = e[void]
    BY <2>1, TradedIsSum
  <2> QED
    BY <2>2 DEF Sums, none, void
<1> QED
  BY <1>9, <1>10 DEF rest, longer, q
-----------------------------------------------------------------------------
(* The elements of a finite set, counted off.                              *)

LEMMA CountedOff ==
  ASSUME NEW S, IsFiniteSet(S)
  PROVE  /\ Cardinality(S) \in Nat
         /\ \E f \in [1..Cardinality(S) -> S] :
              \A i, j \in 1..Cardinality(S) : f[i] = f[j] => i = j
<1> DEFINE n == Cardinality(S)
<1>1. n \in Nat /\ ExistsBijection(1..n, S)
  BY FS_CardinalityType
<1> HIDE DEF n
<1>2. \E f : f \in Injection(1..n, S)
  BY <1>1 DEF ExistsBijection, Bijection
<1>3. \E f \in [1..n -> S] : \A i, j \in 1..n : f[i] = f[j] => i = j
  BY <1>2 DEF Injection, IsInjective
<1> QED
  BY <1>1, <1>3 DEF n

(* None is left out if as many are counted as there are, each once.        *)
LEMMA AllCounted ==
  ASSUME NEW S, IsFiniteSet(S), NEW f \in [1..Cardinality(S) -> S],
         \A i, j \in 1..Cardinality(S) : f[i] = f[j] => i = j
  PROVE  \A s \in S : \E i \in 1..Cardinality(S) : f[i] = s
<1> DEFINE I == 1..Cardinality(S)
<1>1. Cardinality(S) \in Nat
  BY FS_CardinalityType
<1>2. IsFiniteSet(I) /\ Cardinality(I) = Cardinality(S)
  BY <1>1, FS_Interval
<1> HIDE DEF I
<1>3. SUFFICES ASSUME NEW s \in S, \A i \in I : f[i] # s
               PROVE  FALSE
  BY DEF I
<1>4. f \in [I -> S \ {s}]
  BY <1>3 DEF I
<1>5. IsFiniteSet(S \ {s}) /\ Cardinality(S \ {s}) < Cardinality(I)
  <2>1. IsFiniteSet(S \ {s}) /\ Cardinality(S \ {s}) = Cardinality(S) - 1
    BY FS_RemoveElement
  <2> QED
    BY <1>1, <1>2, <2>1
<1>6. \E i, j \in I : i # j /\ f[i] = f[j]
  BY <1>2, <1>4, <1>5, FS_PigeonHole
<1> QED
  BY <1>6 DEF I
=============================================================================
