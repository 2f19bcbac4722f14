--------------------------- MODULE JsonHeapProofs ---------------------------
(***************************************************************************)
(* Proofs about the values of engine/json.hpp as they lie in memory.       *)
(***************************************************************************)
EXTENDS JsonSession, JsonTextProofs, FoldProofs

-----------------------------------------------------------------------------
(* The heap is a forest under the root and what is held outside of it:     *)
(* every cell but these is an element of one container only, and is        *)
(* reached from them.                                                      *)

Closed(h, S) == \A x \in S : Children(h[x]) \subseteq S

Cells(h, n) ==
  /\ n \in Nat /\ DOMAIN h \subseteq 0..(n - 1) /\ ROOT \in DOMAIN h
  /\ \A a \in DOMAIN h : Children(h[a]) \subseteq DOMAIN h \ {ROOT}

SingleParent(h) ==
  \A a, b \in DOMAIN h : a # b => Children(h[a]) \cap Children(h[b]) = {}

Vector(cells) == cells \in Seq(Nat) /\ \A i, j \in 1..Len(cells) : cells[i] = cells[j] => i = j

Vectors(h) == \A a \in DOMAIN h : h[a][1] = "array" => Vector(h[a][2])

Reached(h, held) ==
  \A S \in SUBSET DOMAIN h : ROOT \in S /\ held \subseteq S /\ Closed(h, S) => S = DOMAIN h

Forest(h, n, held) == Cells(h, n) /\ SingleParent(h) /\ Vectors(h) /\ Reached(h, held)

-----------------------------------------------------------------------------
(* What is below an address.                                               *)

(* The least set with its children and with those of each of its cells.    *)
IsBelow(h, a, B) ==
  /\ B \in SUBSET DOMAIN h /\ Children(h[a]) \subseteq B /\ Closed(h, B)
  /\ \A S \in SUBSET DOMAIN h : Children(h[a]) \subseteq S /\ Closed(h, S) => B \subseteq S

(* f[n] is what is reached in n steps or less.                             *)
Reaching(h, a, m, f) ==
  f = [n \in 0..m |-> IF n = 0 THEN Children(h[a])
                      ELSE f[n - 1] \cup UNION {Children(h[x]) : x \in f[n - 1]}]

LEMMA ReachingExists ==
  ASSUME NEW h, NEW a, NEW m \in Nat
  PROVE  \E f : Reaching(h, a, m, f)
<1> DEFINE P == {k \in Nat : \E f : Reaching(h, a, k, f)}
<1>1. 0 \in P
  <2> DEFINE f == [n \in 0..0 |-> Children(h[a])]
  <2>1. Reaching(h, a, 0, f)
    BY DEF Reaching
  <2> HIDE DEF f
  <2> QED
    BY <2>1
<1>2. ASSUME NEW k \in P
      PROVE  k + 1 \in P
  <2>1. k \in Nat
    OBVIOUS
  <2>2. PICK f : Reaching(h, a, k, f)
    OBVIOUS
  <2> DEFINE g == [n \in 0..(k + 1) |->
                     IF n = 0 THEN Children(h[a])
                     ELSE f[n - 1] \cup UNION {Children(h[x]) : x \in f[n - 1]}]
  <2>3. ASSUME NEW n \in 0..k
        PROVE  g[n] = f[n]
    <3>1. n \in 0..(k + 1)
      BY <2>1
    <3>2. g[n] = IF n = 0 THEN Children(h[a])
                 ELSE f[n - 1] \cup UNION {Children(h[x]) : x \in f[n - 1]}
      BY <3>1
    <3>3. f[n] = IF n = 0 THEN Children(h[a])
                 ELSE f[n - 1] \cup UNION {Children(h[x]) : x \in f[n - 1]}
      BY <2>2 DEF Reaching
    <3> QED
      BY <3>2, <3>3
  <2>4. ASSUME NEW n \in 0..(k + 1), n # 0
        PROVE  g[n - 1] = f[n - 1]
    <3>1. n - 1 \in 0..k
      BY <2>1, <2>4
    <3> QED
      BY <3>1, <2>3
  <2>5. g = [n \in 0..(k + 1) |->
               IF n = 0 THEN Children(h[a])
               ELSE g[n - 1] \cup UNION {Children(h[x]) : x \in g[n - 1]}]
    BY <2>4
  <2>6. Reaching(h, a, k + 1, g)
    BY <2>5 DEF Reaching
  <2> HIDE DEF g
  <2> QED
    BY <2>1, <2>6
<1>3. P = Nat
  <2>1. P \in SUBSET Nat
    OBVIOUS
  <2> HIDE DEF P
  <2> QED
    BY <1>1, <1>2, <2>1, EveryNat
<1> QED
  BY <1>3

LEMMA ReachingSteps ==
  ASSUME NEW h, NEW a, NEW m \in Nat, NEW f, Reaching(h, a, m, f)
  PROVE  /\ f[0] = Children(h[a])
         /\ \A n \in Nat : n + 1 <= m => f[n + 1] = f[n] \cup UNION {Children(h[x]) : x \in f[n]}
<1>1. \A n \in 0..m : f[n] = IF n = 0 THEN Children(h[a])
                             ELSE f[n - 1] \cup UNION {Children(h[x]) : x \in f[n - 1]}
  BY DEF Reaching
<1>2. 0 \in 0..m
  OBVIOUS
<1>3. ASSUME NEW n \in Nat, n + 1 <= m
      PROVE  f[n + 1] = f[n] \cup UNION {Children(h[x]) : x \in f[n]}
  <2>1. n + 1 \in 0..m /\ n + 1 # 0 /\ (n + 1) - 1 = n
    BY <1>3
  <2> QED
    BY <1>1, <2>1
<1>4. f[0] = Children(h[a])
  BY <1>1, <1>2
<1> QED
  BY <1>3, <1>4

(* A set closed under children that has the first has what is reached.     *)
LEMMA ReachingLeast ==
  ASSUME NEW h, NEW a, NEW m \in Nat, NEW f, Reaching(h, a, m, f),
         NEW S, Children(h[a]) \subseteq S, Closed(h, S)
  PROVE  \A n \in 0..m : f[n] \subseteq S
<1> DEFINE P == {n \in Nat : n <= m => f[n] \subseteq S}
<1>0. /\ f[0] = Children(h[a])
      /\ \A n \in Nat : n + 1 <= m => f[n + 1] = f[n] \cup UNION {Children(h[x]) : x \in f[n]}
  BY ReachingSteps
<1>1. 0 \in P
  BY <1>0
<1>2. ASSUME NEW n \in P
      PROVE  n + 1 \in P
  <2>1. SUFFICES ASSUME n + 1 <= m PROVE f[n + 1] \subseteq S
    OBVIOUS
  <2>2. n \in Nat /\ n <= m /\ f[n] \subseteq S /\ n + 1 \in 0..m /\ n + 1 # 0 /\ (n + 1) - 1 = n
    BY <2>1
  <2>3. f[n + 1] = f[n] \cup UNION {Children(h[x]) : x \in f[n]}
    BY <1>0, <2>2
  <2> QED
    BY <2>2, <2>3 DEF Closed
<1>3. P = Nat
  <2>1. P \in SUBSET Nat
    OBVIOUS
  <2> HIDE DEF P
  <2> QED
    BY <1>1, <1>2, <2>1, EveryNat
<1> QED
  BY <1>3

(* As long as something new is reached, every step reaches one more.       *)
LEMMA ReachingGrows ==
  ASSUME NEW h, NEW m \in Nat, Cells(h, m), NEW a \in DOMAIN h, NEW f, Reaching(h, a, m, f)
  PROVE  \A n \in 0..m : Closed(h, f[n]) \/ Cardinality(f[n]) >= n + 1
<1> DEFINE P == {n \in Nat : n <= m => Closed(h, f[n]) \/ Cardinality(f[n]) >= n + 1}
<1>0. /\ f[0] = Children(h[a])
      /\ \A n \in Nat : n + 1 <= m => f[n + 1] = f[n] \cup UNION {Children(h[x]) : x \in f[n]}
  BY ReachingSteps
<1>f. IsFiniteSet(DOMAIN h)
  <2>1. IsFiniteSet(0..(m - 1))
    BY FS_Interval
  <2> QED
    BY <2>1, FS_Subset DEF Cells
<1>s. \A n \in 0..m : IsFiniteSet(f[n]) /\ Cardinality(f[n]) \in Nat
  <2>1. Children(h[a]) \subseteq DOMAIN h /\ Closed(h, DOMAIN h)
    BY DEF Cells, Closed
  <2>2. \A n \in 0..m : f[n] \subseteq DOMAIN h
    BY <2>1, ReachingLeast
  <2> QED
    BY <1>f, <2>2, FS_Subset, FS_CardinalityType
<1>1. 0 \in P
  <2>1. f[0] = Children(h[a]) /\ 0 \in 0..m /\ 0 + 1 = 1
    BY <1>0
  <2>2. CASE f[0] = {}
    BY <2>2 DEF Closed
  <2>3. CASE f[0] # {}
    <3>1. Cardinality(f[0]) # 0 /\ Cardinality(f[0]) \in Nat
      BY <1>s, <2>1, <2>3, FS_EmptySet
    <3> QED
      BY <3>1
  <2> QED
    BY <2>2, <2>3
<1>2. ASSUME NEW n \in P
      PROVE  n + 1 \in P
  <2>1. SUFFICES ASSUME n + 1 <= m PROVE Closed(h, f[n + 1]) \/ Cardinality(f[n + 1]) >= (n + 1) + 1
    OBVIOUS
  <2>2. n \in Nat /\ n <= m /\ n \in 0..m /\ n + 1 \in 0..m /\ n + 1 # 0 /\ (n + 1) - 1 = n
    BY <2>1
  <2>3. f[n + 1] = f[n] \cup UNION {Children(h[x]) : x \in f[n]}
    BY <1>0, <2>2
  <2>4. CASE Closed(h, f[n])
    <3>1. f[n + 1] = f[n]
      BY <2>3, <2>4 DEF Closed
    <3> QED
      BY <2>4, <3>1
  <2>5. CASE ~Closed(h, f[n])
    <3>1. PICK x \in f[n] : \E c \in Children(h[x]) : c \notin f[n]
      BY <2>5 DEF Closed
    <3>p. PICK c \in Children(h[x]) : c \notin f[n]
      BY <3>1
    <3>2. f[n] \cup {c} \subseteq f[n + 1]
      BY <2>3, <3>p
    <3>3. Cardinality(f[n] \cup {c}) = Cardinality(f[n]) + 1
      BY <1>s, <2>2, <3>p, FS_AddElement
    <3>4. Cardinality(f[n] \cup {c}) <= Cardinality(f[n + 1])
      BY <1>s, <2>2, <3>2, FS_Subset
    <3>5. Cardinality(f[n]) >= n + 1
      BY <2>2, <2>5
    <3>6. Cardinality(f[n]) \in Nat /\ Cardinality(f[n + 1]) \in Nat
      BY <1>s, <2>2
    <3> QED
      BY <2>2, <3>3, <3>4, <3>5, <3>6
  <2> QED
    BY <2>4, <2>5
<1>3. P = Nat
  <2>1. P \in SUBSET Nat
    OBVIOUS
  <2> HIDE DEF P
  <2> QED
    BY <1>1, <1>2, <2>1, EveryNat
<1> QED
  BY <1>3

(* So Below is what it should be.                                          *)
LEMMA BelowIs ==
  ASSUME Cells(heap, fresh), NEW a \in DOMAIN heap
  PROVE  IsBelow(heap, a, Below(a))
<1> DEFINE f == CHOOSE f : Reaching(heap, a, fresh, f)
<1>1. fresh \in Nat /\ Below(a) = f[fresh]
  BY DEF Cells, Below, Reaching
<1>2. Reaching(heap, a, fresh, f)
  BY <1>1, ReachingExists
<1> HIDE DEF f
<1>3. \A S : Children(heap[a]) \subseteq S /\ Closed(heap, S) => f[fresh] \subseteq S
  BY <1>1, <1>2, ReachingLeast
<1>4. f[fresh] \subseteq DOMAIN heap
  BY <1>3 DEF Cells, Closed
<1>5. Cardinality(f[fresh]) <= fresh
  <2>1. f[fresh] \subseteq 0..(fresh - 1)
    BY <1>4 DEF Cells
  <2>2. IsFiniteSet(0..(fresh - 1)) /\ Cardinality(0..(fresh - 1)) = fresh
    BY <1>1, FS_Interval
  <2> QED
    BY <2>1, <2>2, FS_Subset
<1>6. Closed(heap, f[fresh])
  <2>1. Closed(heap, f[fresh]) \/ Cardinality(f[fresh]) >= fresh + 1
    BY <1>1, <1>2, ReachingGrows
  <2>2. Cardinality(f[fresh]) \in Nat
    <3>1. IsFiniteSet(0..(fresh - 1))
      BY <1>1, FS_Interval
    <3>2. f[fresh] \subseteq 0..(fresh - 1)
      BY <1>4 DEF Cells
    <3> QED
      BY <3>1, <3>2, FS_Subset, FS_CardinalityType
  <2> QED
    BY <1>1, <1>5, <2>1, <2>2
<1>7. Children(heap[a]) \subseteq f[fresh]
  <2> DEFINE P == {n \in Nat : n <= fresh => Children(heap[a]) \subseteq f[n]}
  <2>0. /\ f[0] = Children(heap[a])
        /\ \A n \in Nat : n + 1 <= fresh => f[n + 1] = f[n] \cup UNION {Children(heap[x]) : x \in f[n]}
    BY <1>1, <1>2, ReachingSteps
  <2>1. 0 \in P
    BY <1>1, <2>0
  <2>2. ASSUME NEW n \in P
        PROVE  n + 1 \in P
    <3>1. SUFFICES ASSUME n + 1 <= fresh PROVE Children(heap[a]) \subseteq f[n + 1]
      OBVIOUS
    <3>2. n \in Nat /\ n <= fresh /\ n + 1 \in 0..fresh /\ n + 1 # 0 /\ (n + 1) - 1 = n
      BY <1>1, <3>1
    <3>3. f[n + 1] = f[n] \cup UNION {Children(heap[x]) : x \in f[n]}
      BY <2>0, <3>2
    <3> QED
      BY <3>2, <3>3
  <2>3. P = Nat
    <3>1. P \in SUBSET Nat
      OBVIOUS
    <3> HIDE DEF P
    <3> QED
      BY <2>1, <2>2, <3>1, EveryNat
  <2> QED
    BY <1>1, <2>3
<1> QED
  BY <1>1, <1>3, <1>4, <1>6, <1>7 DEF IsBelow

-----------------------------------------------------------------------------
(* In a forest nothing is below itself, and what is below has its parent   *)
(* there.                                                                  *)

LEMMA BelowParent ==
  ASSUME NEW h, NEW n, Cells(h, n), NEW a \in DOMAIN h, NEW B, IsBelow(h, a, B), NEW c \in B
  PROVE  \E p \in {a} \cup B : c \in Children(h[p])
<1> DEFINE S == {y \in B : \E p \in {a} \cup B : y \in Children(h[p])}
<1>1. S \in SUBSET DOMAIN h /\ Children(h[a]) \subseteq S /\ Closed(h, S)
  BY DEF IsBelow, Closed
<1>2. B \subseteq S
  <2> HIDE DEF S
  <2> QED
    BY <1>1 DEF IsBelow
<1> QED
  BY <1>2

LEMMA Acyclic ==
  ASSUME NEW h, NEW n, Forest(h, n, {}), NEW a \in DOMAIN h, NEW B, IsBelow(h, a, B)
  PROVE  a \notin B /\ ROOT \notin B
<1> USE DEF Forest
<1>1. ROOT \notin B
  BY BelowParent DEF Cells, IsBelow
<1>2. SUFFICES ASSUME a \in B PROVE FALSE
  BY <1>1
<1> DEFINE S == DOMAIN h \ B
<1>3. Closed(h, S)
  <2> SUFFICES ASSUME NEW x \in S, NEW c \in Children(h[x]), c \in B
               PROVE  FALSE
    BY DEF Closed, Cells
  <2>1. PICK p \in B : c \in Children(h[p])
    BY <1>2, BelowParent
  <2> QED
    BY <2>1 DEF SingleParent, IsBelow
<1>4. ROOT \in S /\ S \in SUBSET DOMAIN h
  BY <1>1 DEF Cells
<1>5. S = DOMAIN h
  <2> HIDE DEF S
  <2> QED
    BY <1>3, <1>4 DEF Reached
<1> QED
  BY <1>2, <1>5

(* No container is an element of itself.                                   *)
LEMMA NoSelf ==
  ASSUME NEW h, NEW n, Forest(h, n, {}), NEW a \in DOMAIN h
  PROVE  a \notin Children(h[a])
<1>1. SUFFICES ASSUME a \in Children(h[a]) PROVE FALSE
  OBVIOUS
<1> DEFINE S == DOMAIN h \ {a}
<1>2. ROOT \in S /\ S \in SUBSET DOMAIN h /\ {} \subseteq S
  BY <1>1 DEF Forest, Cells
<1>3. Closed(h, S)
  BY <1>1 DEF Closed, Forest, Cells, SingleParent
<1>4. S = DOMAIN h
  <2> HIDE DEF S
  <2> QED
    BY <1>2, <1>3 DEF Forest, Reached
<1> QED
  BY <1>4

(* So no cell is lost.                                                     *)
LEMMA ForestBelow ==
  ASSUME NEW h, NEW n, Forest(h, n, {}), NEW B, IsBelow(h, ROOT, B)
  PROVE  DOMAIN h = {ROOT} \cup B
<1> DEFINE S == {ROOT} \cup B
<1>1. S \in SUBSET DOMAIN h /\ ROOT \in S /\ {} \subseteq S /\ Closed(h, S)
  BY DEF Forest, Cells, IsBelow, Closed
<1> HIDE DEF S
<1>2. S = DOMAIN h
  BY <1>1 DEF Forest, Reached
<1> QED
  BY <1>2 DEF S

-----------------------------------------------------------------------------
(* Assigning to a cell: what was below it goes.                            *)

AfterAssign(h, a, B, v) == [x \in DOMAIN h \ B |-> IF x = a THEN v ELSE h[x]]

LEMMA AssignKeepsForest ==
  ASSUME NEW h, NEW n, Forest(h, n, {}), NEW a \in DOMAIN h, NEW B, IsBelow(h, a, B),
         NEW v, Children(v) = {}, v[1] = "array" => v[2] = <<>>
  PROVE  /\ Forest(AfterAssign(h, a, B, v), n, {})
         /\ \A x \in DOMAIN h \ B : x # a => Children(h[x]) \cap B = {}
<1> DEFINE g == AfterAssign(h, a, B, v)
<1>1. a \notin B /\ ROOT \notin B /\ B \subseteq DOMAIN h
  BY Acyclic DEF IsBelow
<1>2. ASSUME NEW x \in DOMAIN h \ B, x # a
      PROVE  Children(h[x]) \cap B = {}
  <2> SUFFICES ASSUME NEW c \in Children(h[x]), c \in B
               PROVE  FALSE
    OBVIOUS
  <2>1. PICK p \in {a} \cup B : c \in Children(h[p])
    BY BelowParent DEF Forest
  <2> QED
    BY <1>1, <1>2, <2>1 DEF Forest, SingleParent
<1>3. /\ DOMAIN g = DOMAIN h \ B /\ g[a] = v
      /\ \A x \in DOMAIN h \ B : x # a => g[x] = h[x]
  BY <1>1 DEF AfterAssign
<1> HIDE DEF g
<1>4. Cells(g, n)
  BY <1>1, <1>2, <1>3 DEF Forest, Cells
<1>5. SingleParent(g)
  BY <1>1, <1>3 DEF Forest, SingleParent
<1>6. Vectors(g)
  <2>1. Vector(<<>>)
    BY EmptySeq DEF Vector
  <2> QED
    BY <1>1, <1>3, <2>1 DEF Forest, Vectors
<1>7. Reached(g, {})
  <2> SUFFICES ASSUME NEW T \in SUBSET DOMAIN g, ROOT \in T, Closed(g, T)
               PROVE  T = DOMAIN g
    BY DEF Reached
  <2> DEFINE S == T \cup B
  <2>1. S \in SUBSET DOMAIN h /\ ROOT \in S /\ {} \subseteq S
    BY <1>1, <1>3
  <2>2. ASSUME NEW x \in S
        PROVE  Children(h[x]) \subseteq S
    <3>1. CASE x \in B
      BY <3>1 DEF IsBelow, Closed
    <3>2. CASE x = a
      BY <3>2 DEF IsBelow
    <3>3. CASE x \notin B /\ x # a
      BY <1>3, <3>3 DEF Closed
    <3> QED
      BY <3>1, <3>2, <3>3
  <2>3. S = DOMAIN h
    <3>1. Closed(h, S)
      BY <2>2 DEF Closed
    <3> HIDE DEF S
    <3> QED
      BY <2>1, <3>1 DEF Forest, Reached
  <2> QED
    BY <1>3, <2>3
<1> QED
  BY <1>2, <1>4, <1>5, <1>6, <1>7 DEF Forest, g

-----------------------------------------------------------------------------
(* A new last element of an array: its elements are moved or stay where    *)
(* they are, the new one comes to lie behind them.                         *)

AfterEmplace(h, C, moved, new, v) ==
  LET cells == h[C][2]
  IN [x \in (DOMAIN h \ Range(cells)) \cup Range(moved) \cup {new} |->
        CASE x = C             -> <<"array", Append(moved, new)>>
          [] x = new           -> v
          [] x \in Range(moved) -> h[cells[CHOOSE i \in DOMAIN cells : moved[i] = x]]
          [] OTHER             -> h[x]]

(* Nothing but the elements lay where they come to lie.                    *)
Moves(h, n, C, moved, new) ==
  /\ h[C][1] = "array"
  /\ Vector(moved) /\ Len(moved) = Len(h[C][2])
  /\ new \in Nat /\ new >= n /\ \A i \in 1..Len(moved) : moved[i] < new
  /\ Range(moved) \cap (DOMAIN h \ Range(h[C][2])) = {}

LEMMA VectorRange ==
  ASSUME NEW cells, Vector(cells)
  PROVE  /\ Len(cells) \in Nat /\ DOMAIN cells = 1..Len(cells)
         /\ Range(cells) = {cells[i] : i \in 1..Len(cells)} /\ Range(cells) \subseteq Nat
         /\ \A i \in 1..Len(cells) : cells[i] \in Nat /\ cells[i] \in Range(cells)
<1>1. cells \in Seq(Nat)
  BY DEF Vector
<1>2. Len(cells) \in Nat /\ DOMAIN cells = 1..Len(cells) /\ \A i \in 1..Len(cells) : cells[i] \in Nat
  BY <1>1, LenProperties, ElementOfSeq
<1> QED
  BY <1>2 DEF Range

LEMMA VectorAppend ==
  ASSUME NEW cells, Vector(cells), NEW e \in Nat, e \notin Range(cells)
  PROVE  Vector(Append(cells, e)) /\ Range(Append(cells, e)) = Range(cells) \cup {e}
<1> DEFINE longer == Append(cells, e)
           L == Len(cells)
<1>1. cells \in Seq(Nat)
  BY DEF Vector
<1>2. /\ longer \in Seq(Nat) /\ Len(longer) = L + 1 /\ longer[L + 1] = e
      /\ \A i \in 1..L : longer[i] = cells[i]
      /\ L \in Nat /\ DOMAIN longer = 1..(L + 1)
  BY <1>1, AppendProperties, LenProperties
<1>3. \A i \in 1..(L + 1) : i \in 1..L \/ i = L + 1
  BY <1>2
<1>4. Range(cells) = {cells[i] : i \in 1..L}
  BY VectorRange
<1> HIDE DEF longer, L
<1>5. Vector(longer)
  BY <1>2, <1>3, <1>4 DEF Vector, L
<1>6. Range(longer) = {longer[i] : i \in 1..(L + 1)}
  BY <1>2 DEF Range
<1>7. 1..(L + 1) = 1..L \cup {L + 1}
  BY <1>2
<1>8. Range(longer) = Range(cells) \cup {e}
  BY <1>2, <1>4, <1>6, <1>7
<1> QED
  BY <1>5, <1>8 DEF longer

(* What the heap is afterwards, cell by cell.                              *)
Emplaced(h, C, moved, new, v, g) ==
  LET cells == h[C][2]
      L == Len(cells)
  IN /\ Vector(cells) /\ Children(h[C]) = Range(cells)
     /\ L \in Nat /\ Len(moved) = L
     /\ Range(cells) = {cells[i] : i \in 1..L} /\ Range(moved) = {moved[i] : i \in 1..L}
     /\ C \notin Range(cells) /\ C \notin Range(moved) /\ C # new
     /\ new \notin DOMAIN h /\ new \notin Range(moved)
     /\ ROOT \notin Range(cells) /\ ROOT \notin Range(moved) /\ ROOT # new
     /\ Range(cells) \subseteq DOMAIN h
     /\ DOMAIN g = (DOMAIN h \ Range(cells)) \cup Range(moved) \cup {new}
     /\ g[C] = <<"array", Append(moved, new)>> /\ g[new] = v
     /\ Children(g[C]) = Range(moved) \cup {new} /\ Vector(g[C][2])
     /\ \A i \in 1..L : g[moved[i]] = h[cells[i]] /\ cells[i] \in DOMAIN h /\ cells[i] # C
     /\ \A x \in DOMAIN h \ Range(cells) : x # C => g[x] = h[x]

LEMMA EmplaceCells ==
  ASSUME NEW h, NEW n, Forest(h, n, {}), NEW C \in DOMAIN h, NEW moved, NEW new, Moves(h, n, C, moved, new),
         NEW v, NEW g, g = AfterEmplace(h, C, moved, new, v)
  PROVE  Emplaced(h, C, moved, new, v, g)
<1> DEFINE cells == h[C][2]
           L == Len(cells)
<1>1. Vector(cells) /\ Vector(moved) /\ Len(moved) = L
  BY DEF Forest, Vectors, Moves
<1>2. /\ L \in Nat /\ DOMAIN cells = 1..L /\ DOMAIN moved = 1..L
      /\ Range(cells) = {cells[i] : i \in 1..L} /\ Range(moved) = {moved[i] : i \in 1..L}
      /\ \A i \in 1..L : cells[i] \in Range(cells) /\ moved[i] \in Range(moved) /\ moved[i] \in Nat
  BY <1>1, VectorRange
<1>3. Children(h[C]) = Range(cells)
  BY DEF Children, isContainer, Moves
<1>4. C \notin Range(cells) /\ Range(cells) \subseteq DOMAIN h \ {ROOT}
  BY <1>3, NoSelf DEF Forest, Cells
<1>5. new \notin DOMAIN h /\ new \in Nat /\ n \in Nat /\ new >= n /\ \A i \in 1..L : moved[i] < new
  <2>1. new \in Nat /\ n \in Nat /\ new >= n /\ \A i \in 1..L : moved[i] < new
    BY <1>1 DEF Moves, Forest, Cells
  <2>2. new \notin 0..(n - 1)
    BY <2>1
  <2> QED
    BY <2>1, <2>2 DEF Forest, Cells
<1>6. ROOT \in DOMAIN h /\ C \in DOMAIN h
  BY DEF Forest, Cells
<1>7. new \notin Range(moved) /\ C \notin Range(moved) /\ ROOT \notin Range(moved)
  <2>1. \A i \in 1..L : moved[i] # new
    BY <1>2, <1>5
  <2>2. Range(moved) \cap (DOMAIN h \ Range(cells)) = {}
    BY DEF Moves
  <2> QED
    BY <1>2, <1>4, <1>6, <2>1, <2>2
<1> DEFINE D == (DOMAIN h \ Range(cells)) \cup Range(moved) \cup {new}
<1>8. /\ DOMAIN g = D
      /\ \A x \in D :
           g[x] = CASE x = C             -> <<"array", Append(moved, new)>>
                    [] x = new           -> v
                    [] x \in Range(moved) -> h[cells[CHOOSE i \in DOMAIN cells : moved[i] = x]]
                    [] OTHER             -> h[x]
  BY DEF AfterEmplace
<1>9. g[C] = <<"array", Append(moved, new)>> /\ g[new] = v
  <2>1. C \in D /\ new \in D /\ new # C
    BY <1>4, <1>5, <1>6
  <2> HIDE DEF D
  <2>2. g[C] = <<"array", Append(moved, new)>>
    BY <1>7, <1>8, <2>1
  <2>3. g[new] = v
    BY <1>7, <1>8, <2>1
  <2> QED
    BY <2>2, <2>3
<1>10. ASSUME NEW i \in 1..L
       PROVE  g[moved[i]] = h[cells[i]]
  <2>1. moved[i] \in D /\ moved[i] # C /\ moved[i] # new /\ moved[i] \in Range(moved)
    BY <1>2, <1>7
  <2>2. g[moved[i]] = h[cells[CHOOSE j \in DOMAIN cells : moved[j] = moved[i]]]
    BY <1>8, <2>1
  <2>3. (CHOOSE j \in DOMAIN cells : moved[j] = moved[i]) = i
    BY <1>1, <1>2 DEF Vector
  <2> QED
    BY <2>2, <2>3
<1>11. ASSUME NEW x \in DOMAIN h \ Range(cells), x # C
       PROVE  g[x] = h[x]
  <2>1. x \in D /\ x # new /\ x \notin Range(moved)
    BY <1>5 DEF Moves
  <2> QED
    BY <1>8, <1>11, <2>1
<1>12. Children(g[C]) = Range(moved) \cup {new} /\ Vector(g[C][2])
  BY <1>1, <1>5, <1>7, <1>9, VectorAppend DEF Children, isContainer
<1>13. \A i \in 1..L : cells[i] \in DOMAIN h /\ cells[i] # C
  BY <1>2, <1>4
<1>14. C # new /\ ROOT # new
  BY <1>5, <1>6
<1> HIDE DEF cells, L
<1>15. g[C] = <<"array", Append(moved, new)>> /\ DOMAIN g = (DOMAIN h \ Range(cells)) \cup Range(moved) \cup {new}
  BY <1>8, <1>9 DEF cells
<1> QED
  BY <1>1, <1>2, <1>3, <1>4, <1>5, <1>7, <1>9, <1>10, <1>11, <1>12, <1>13, <1>14, <1>15 DEF Emplaced, cells, L

LEMMA EmplaceKeepsForest ==
  ASSUME NEW h, NEW n, Forest(h, n, {}), NEW C \in DOMAIN h, NEW moved, NEW new, Moves(h, n, C, moved, new),
         NEW v, Children(v) = {}, v[1] = "array" => v[2] = <<>>
  PROVE  Forest(AfterEmplace(h, C, moved, new, v), new + 1, {})
<1> DEFINE g == AfterEmplace(h, C, moved, new, v)
           cells == h[C][2]
           L == Len(cells)
<1>0. g = AfterEmplace(h, C, moved, new, v)
  OBVIOUS
<1> HIDE DEF g
<1>e. Emplaced(h, C, moved, new, v, g)
  BY <1>0, EmplaceCells
<1>1. /\ Vector(cells) /\ Children(h[C]) = Range(cells)
      /\ L \in Nat /\ Len(moved) = L
      /\ Range(cells) = {cells[i] : i \in 1..L} /\ Range(moved) = {moved[i] : i \in 1..L}
      /\ C \notin Range(cells) /\ C \notin Range(moved) /\ C # new
      /\ new \notin DOMAIN h /\ new \notin Range(moved)
      /\ ROOT \notin Range(cells) /\ ROOT \notin Range(moved) /\ ROOT # new
      /\ Range(cells) \subseteq DOMAIN h
      /\ DOMAIN g = (DOMAIN h \ Range(cells)) \cup Range(moved) \cup {new}
      /\ g[C] = <<"array", Append(moved, new)>> /\ g[new] = v
      /\ Children(g[C]) = Range(moved) \cup {new} /\ Vector(g[C][2])
      /\ \A i \in 1..L : g[moved[i]] = h[cells[i]] /\ cells[i] \in DOMAIN h /\ cells[i] # C
      /\ \A x \in DOMAIN h \ Range(cells) : x # C => g[x] = h[x]
  BY <1>e DEF Emplaced
<1>m. /\ new \in Nat /\ n \in Nat /\ new >= n
      /\ \A i \in 1..L : moved[i] \in Nat /\ moved[i] < new
      /\ Range(moved) \cap (DOMAIN h \ Range(cells)) = {}
      /\ \A i, j \in 1..L : moved[i] = moved[j] => i = j
      /\ \A i, j \in 1..L : cells[i] = cells[j] => i = j
      /\ h[C][1] = "array"
  <2>1. n \in Nat /\ Vector(moved) /\ new \in Nat /\ new >= n
    BY DEF Moves, Forest, Cells
  <2>2. \A i \in 1..Len(moved) : moved[i] \in Nat
    BY <2>1, VectorRange
  <2> QED
    BY <1>1, <2>1, <2>2 DEF Moves, Vector
<1> HIDE DEF cells, L
(* Where what is in a cell was before.                                     *)
<1> DEFINE Was(y, x) == \/ y \in DOMAIN h \ Range(cells) /\ y # C /\ x = y
                        \/ \E i \in 1..L : y = moved[i] /\ x = cells[i]
<1>2. \A y \in DOMAIN g : y = C \/ y = new \/ \E x \in DOMAIN h \ {C} : Was(y, x)
  BY <1>1
<1>3. ASSUME NEW y, NEW x, Was(y, x)
      PROVE  /\ x \in DOMAIN h \ {C} /\ g[y] = h[x] /\ y \in DOMAIN g /\ y # C /\ y # new
             /\ Children(g[y]) \subseteq DOMAIN h \ (Range(cells) \cup {ROOT})
  <2>1. x \in DOMAIN h \ {C} /\ g[y] = h[x] /\ y \in DOMAIN g /\ y # C /\ y # new
    BY <1>1, <1>3
  <2>2. Children(h[x]) \cap Children(h[C]) = {} /\ Children(h[x]) \subseteq DOMAIN h \ {ROOT}
    BY <2>1 DEF Forest, SingleParent, Cells
  <2> QED
    BY <1>1, <2>1, <2>2
<1>4. ASSUME NEW y, NEW z, NEW x, Was(y, x), Was(z, x)
      PROVE  y = z
  BY <1>1, <1>m, <1>4
<1> HIDE DEF Was
<1>5. Cells(g, new + 1)
  <2>1. DOMAIN g \subseteq 0..((new + 1) - 1)
    <3>1. DOMAIN h \subseteq 0..new
      BY <1>m DEF Forest, Cells
    <3> QED
      BY <1>1, <1>m, <3>1
  <2>2. ROOT \in DOMAIN g
    BY <1>1 DEF Forest, Cells
  <2>3. ASSUME NEW y \in DOMAIN g
        PROVE  Children(g[y]) \subseteq DOMAIN g \ {ROOT}
    <3>1. CASE y = C
      BY <1>1, <3>1
    <3>2. CASE y = new
      BY <1>1, <3>2
    <3>3. CASE \E x \in DOMAIN h \ {C} : Was(y, x)
      BY <1>1, <1>3, <3>3
    <3> QED
      BY <1>2, <3>1, <3>2, <3>3
  <2> QED
    BY <1>m, <2>1, <2>2, <2>3 DEF Cells
<1>6. SingleParent(g)
  <2>1. ASSUME NEW y \in DOMAIN g, y # C
        PROVE  Children(g[y]) \cap Children(g[C]) = {}
    <3>1. CASE y = new
      BY <1>1, <3>1
    <3>2. CASE \E x \in DOMAIN h \ {C} : Was(y, x)
      <4>1. Children(g[y]) \subseteq DOMAIN h \ Range(cells)
        BY <1>3, <3>2
      <4>2. Children(g[y]) \cap Range(moved) = {}
        BY <1>m, <4>1 DEF cells
      <4> QED
        BY <1>1, <4>1, <4>2
    <3> QED
      BY <1>2, <2>1, <3>1, <3>2
  <2>2. ASSUME NEW y \in DOMAIN g, NEW z \in DOMAIN g, y # z, y # C, z # C
        PROVE  Children(g[y]) \cap Children(g[z]) = {}
    <3>1. CASE y = new \/ z = new
      BY <1>1, <3>1
    <3>2. CASE y # new /\ z # new
      <4>1. PICK x \in DOMAIN h \ {C} : Was(y, x)
        BY <1>2, <2>2, <3>2
      <4>2. PICK w \in DOMAIN h \ {C} : Was(z, w)
        BY <1>2, <2>2, <3>2
      <4>3. x # w
        BY <1>4, <2>2, <4>1, <4>2
      <4>4. g[y] = h[x] /\ g[z] = h[w]
        BY <1>3, <4>1, <4>2
      <4> QED
        BY <4>3, <4>4 DEF Forest, SingleParent
    <3> QED
      BY <3>1, <3>2
  <2> QED
    BY <2>1, <2>2 DEF SingleParent
<1>7. Vectors(g)
  <2>0. Vector(<<>>)
    BY EmptySeq DEF Vector
  <2>1. ASSUME NEW y \in DOMAIN g, g[y][1] = "array"
        PROVE  Vector(g[y][2])
    <3>1. CASE \E x \in DOMAIN h \ {C} : Was(y, x)
      BY <1>3, <2>1, <3>1 DEF Forest, Vectors
    <3> QED
      BY <1>1, <1>2, <2>0, <2>1, <3>1
  <2> QED
    BY <2>1 DEF Vectors
<1>8. Reached(g, {})
  <2> SUFFICES ASSUME NEW T \in SUBSET DOMAIN g, ROOT \in T, Closed(g, T)
               PROVE  T = DOMAIN g
    BY DEF Reached
  <2> DEFINE S == {x \in DOMAIN h : (x = C /\ C \in T) \/ \E y \in T : Was(y, x)}
  <2>1. ROOT \in S
    <3>1. ROOT \in DOMAIN h \ Range(cells)
      BY <1>1 DEF Forest, Cells
    <3>2. ROOT # C => Was(ROOT, ROOT)
      BY <3>1 DEF Was
    <3> QED
      BY <3>1, <3>2
  <2>2. ASSUME NEW x \in S
        PROVE  Children(h[x]) \subseteq S
    <3>1. CASE x = C /\ C \in T
      <4>1. Range(moved) \subseteq T
        BY <1>1, <3>1 DEF Closed
      <4>2. ASSUME NEW c \in Range(cells)
            PROVE  c \in S
        <5>1. PICK i \in 1..L : c = cells[i]
          BY <1>1
        <5>2. Was(moved[i], c) /\ moved[i] \in T
          BY <1>1, <4>1, <5>1 DEF Was
        <5> QED
          BY <1>1, <5>2
      <4> QED
        BY <1>1, <3>1, <4>2
    <3>2. CASE \E y \in T : Was(y, x)
      <4>1. PICK y \in T : Was(y, x)
        BY <3>2
      <4>2. g[y] = h[x] /\ Children(g[y]) \subseteq DOMAIN h \ Range(cells) /\ Children(g[y]) \subseteq T
        BY <1>3, <4>1 DEF Closed
      <4>3. ASSUME NEW c \in Children(h[x])
            PROVE  c \in S
        <5>1. c \in DOMAIN h \ Range(cells) /\ c \in T
          BY <4>2
        <5>2. c # C => Was(c, c)
          BY <5>1 DEF Was
        <5> QED
          BY <5>1, <5>2
      <4> QED
        BY <4>3
    <3> QED
      BY <3>1, <3>2
  <2>3. S = DOMAIN h
    <3>1. Closed(h, S) /\ S \in SUBSET DOMAIN h /\ {} \subseteq S
      BY <2>2 DEF Closed
    <3> HIDE DEF S
    <3> QED
      BY <2>1, <3>1 DEF Forest, Reached
  <2>4. C \in T
    <3>1. C \in S
      BY <2>3
    <3>2. ~\E y \in T : Was(y, C)
      BY <1>3
    <3> QED
      BY <3>1, <3>2
  <2>5. new \in T
    BY <1>1, <2>4 DEF Closed
  <2>6. ASSUME NEW y \in DOMAIN g, NEW x \in DOMAIN h \ {C}, Was(y, x)
        PROVE  y \in T
    <3>1. x \in S /\ x # C
      BY <2>3
    <3>2. PICK z \in T : Was(z, x)
      BY <3>1
    <3> QED
      BY <1>4, <2>6, <3>2
  <2> QED
    BY <1>2, <2>4, <2>5, <2>6
<1> QED
  BY <1>5, <1>6, <1>7, <1>8 DEF Forest, g

-----------------------------------------------------------------------------
(* A new node in the map of an object.                                     *)

AfterNode(h, C, name, new) ==
  LET members == h[C][2]
  IN [x \in DOMAIN h \cup {new} |->
        CASE x = C   -> <<"object", [m \in DOMAIN members \cup {name} |->
                                      IF m = name THEN new ELSE members[m]]>>
          [] x = new -> Null
          [] OTHER   -> h[x]]

Grew(h, n, C, g) ==
  /\ DOMAIN g = DOMAIN h \cup {n}
  /\ g[C][1] = "object" /\ n \in Children(g[C])
  /\ \A x \in DOMAIN h : x # C => g[x] = h[x]

LEMMA NodeKeepsForest ==
  ASSUME NEW h, NEW n, Forest(h, n, {}), NEW C \in DOMAIN h, h[C][1] = "object",
         NEW name, name \notin DOMAIN h[C][2], NEW g, g = AfterNode(h, C, name, n)
  PROVE  Forest(g, n + 1, {}) /\ Grew(h, n, C, g)
<1> DEFINE members == h[C][2]
           larger == [m \in DOMAIN members \cup {name} |-> IF m = name THEN n ELSE members[m]]
<1>1. n \in Nat /\ n \notin DOMAIN h /\ DOMAIN h \subseteq 0..(n - 1)
  BY DEF Forest, Cells
<1>2. /\ DOMAIN g = DOMAIN h \cup {n} /\ g[C] = <<"object", larger>> /\ g[n] = Null
      /\ \A x \in DOMAIN h : x # C => g[x] = h[x]
  BY <1>1 DEF AfterNode
<1>3. Range(larger) = Range(members) \cup {n}
  BY DEF Range
<1>4. /\ Children(g[C]) = Children(h[C]) \cup {n} /\ Children(g[n]) = {}
      /\ g[C][1] = "object" /\ g[n][1] = "null"
  BY <1>2, <1>3 DEF Children, isContainer, Null
<1>5. Cells(g, n + 1)
  <2>1. DOMAIN g \subseteq 0..((n + 1) - 1)
    BY <1>1, <1>2
  <2>2. n # ROOT
    BY <1>1 DEF Forest, Cells
  <2>3. ASSUME NEW x \in DOMAIN g
        PROVE  Children(g[x]) \subseteq DOMAIN g \ {ROOT}
    <3>1. Children(h[C]) \subseteq DOMAIN h \ {ROOT}
      BY DEF Forest, Cells
    <3> QED
      BY <1>2, <1>4, <2>2, <3>1 DEF Forest, Cells
  <2>4. n + 1 \in Nat /\ ROOT \in DOMAIN g
    BY <1>1, <1>2 DEF Forest, Cells
  <2> QED
    BY <2>1, <2>3, <2>4 DEF Cells
<1>6. SingleParent(g)
  <2>1. \A x \in DOMAIN h : n \notin Children(h[x])
    BY <1>1 DEF Forest, Cells
  <2>2. ASSUME NEW x \in DOMAIN h, x # C
        PROVE  Children(g[x]) \cap Children(g[C]) = {}
    <3>1. Children(h[x]) \cap Children(h[C]) = {}
      BY <2>2 DEF Forest, SingleParent
    <3> QED
      BY <1>2, <1>4, <2>1, <2>2, <3>1
  <2>3. ASSUME NEW x \in DOMAIN h, NEW y \in DOMAIN h, x # y, x # C, y # C
        PROVE  Children(g[x]) \cap Children(g[y]) = {}
    BY <1>2, <2>3 DEF Forest, SingleParent
  <2> QED
    BY <1>2, <1>4, <2>2, <2>3 DEF SingleParent
<1>7. Vectors(g)
  BY <1>2, <1>4 DEF Forest, Vectors
<1>8. Reached(g, {})
  <2> SUFFICES ASSUME NEW T \in SUBSET DOMAIN g, ROOT \in T, Closed(g, T)
               PROVE  T = DOMAIN g
    BY DEF Reached
  <2> DEFINE S == T \ {n}
  <2>1. S \in SUBSET DOMAIN h /\ {} \subseteq S /\ ROOT \in S
    BY <1>1, <1>2 DEF Forest, Cells
  <2>2. Closed(h, S)
    <3> SUFFICES ASSUME NEW x \in S, NEW c \in Children(h[x])
                 PROVE  c \in S
      BY DEF Closed
    <3>1. c \in Children(g[x]) /\ c # n
      BY <1>1, <1>2, <1>4, <2>1 DEF Forest, Cells
    <3> QED
      BY <3>1 DEF Closed
  <2>3. S = DOMAIN h
    <3> HIDE DEF S
    <3> QED
      BY <2>1, <2>2 DEF Forest, Reached
  <2>4. n \in T
    BY <1>4, <2>3 DEF Closed
  <2> QED
    BY <1>2, <2>3, <2>4
<1> QED
  BY <1>1, <1>2, <1>4, <1>5, <1>6, <1>7, <1>8 DEF Forest, Grew

-----------------------------------------------------------------------------
(* The containers that are being filled: a path from the root.             *)

Path(h, refs) ==
  /\ refs \in Seq(Nat)
  /\ refs # <<>> => refs[1] = ROOT
  /\ \A i \in 1..Len(refs) : refs[i] \in DOMAIN h /\ isContainer(h[refs[i]])
  /\ \A i \in 1..(Len(refs) - 1) : refs[i + 1] \in Children(h[refs[i]])

(* None of them is below the last.                                         *)
LEMMA PathNotBelow ==
  ASSUME NEW h, NEW n, Forest(h, n, {}), NEW refs, Path(h, refs), refs # <<>>,
         NEW B, IsBelow(h, refs[Len(refs)], B)
  PROVE  \A i \in 1..Len(refs) : refs[i] \notin B
<1> DEFINE L == Len(refs)
           P == {k \in Nat : k < L => refs[L - k] \notin B}
<1>1. L \in Nat /\ L # 0
  BY EmptySeq, LenProperties DEF Path
<1>2. 0 \in P
  <2>1. L \in 1..L /\ L - 0 = L
    BY <1>1
  <2>2. refs[L] \notin B
    BY <2>1, Acyclic DEF Path
  <2> QED
    BY <2>1, <2>2
<1>3. ASSUME NEW k \in P
      PROVE  k + 1 \in P
  <2>1. SUFFICES ASSUME k + 1 < L, refs[L - (k + 1)] \in B PROVE FALSE
    OBVIOUS
  <2> DEFINE i == L - (k + 1)
  <2>2. k \in Nat /\ k < L /\ i \in 1..(L - 1) /\ i + 1 = L - k
    BY <1>1, <2>1
  <2> HIDE DEF i
  <2>3. refs[i + 1] \in Children(h[refs[i]])
    BY <2>2 DEF Path
  <2>4. refs[i + 1] \in B
    BY <2>1, <2>3 DEF IsBelow, Closed, i
  <2> QED
    BY <2>2, <2>4
<1>4. P = Nat
  <2>1. P \in SUBSET Nat
    OBVIOUS
  <2> HIDE DEF P
  <2> QED
    BY <1>2, <1>3, <2>1, EveryNat
<1>5. ASSUME NEW i \in 1..L
      PROVE  refs[i] \notin B
  <2>1. L - i \in Nat /\ L - i < L /\ L - (L - i) = i
    BY <1>1
  <2> HIDE DEF L
  <2>2. L - i \in P
    BY <1>4, <2>1
  <2> QED
    BY <2>1, <2>2
<1> QED
  BY <1>5

(* g is h but for what is in B, and but for the elements of C.             *)
SameBut(h, g, B, C) ==
  /\ \A x \in DOMAIN h \ B : x # C => x \in DOMAIN g /\ g[x] = h[x]
  /\ C \in DOMAIN g /\ g[C][1] = h[C][1]

(* What happens below the last leaves the path as it is.                   *)
LEMMA PathKept ==
  ASSUME NEW h, NEW n, Forest(h, n, {}), NEW refs, Path(h, refs), refs # <<>>,
         NEW C, C = refs[Len(refs)], NEW B, IsBelow(h, C, B), NEW g, SameBut(h, g, B, C)
  PROVE  /\ Path(g, refs)
         /\ \A i \in 1..Len(refs) : g[refs[i]][1] = h[refs[i]][1]
<1> DEFINE L == Len(refs)
<1>1. L \in Nat /\ L # 0
  BY EmptySeq, LenProperties DEF Path
<1>2. \A i \in 1..L : refs[i] \notin B
  BY PathNotBelow
<1>3. ASSUME NEW i \in 1..(L - 1)
      PROVE  refs[i] # C
  <2>1. i + 1 \in 1..L /\ refs[i + 1] \in Children(h[refs[i]])
    BY <1>1 DEF Path
  <2> QED
    BY <1>2, <2>1 DEF IsBelow
<1>4. ASSUME NEW i \in 1..(L - 1)
      PROVE  refs[i] \in DOMAIN g /\ g[refs[i]] = h[refs[i]]
  <2>1. i \in 1..L
    BY <1>1
  <2> QED
    BY <1>2, <1>3, <2>1 DEF Path, SameBut
<1>5. \A i \in 1..L : i \in 1..(L - 1) \/ i = L
  BY <1>1
<1>6. ASSUME NEW i \in 1..L
      PROVE  refs[i] \in DOMAIN g /\ g[refs[i]][1] = h[refs[i]][1] /\ isContainer(g[refs[i]])
  BY <1>4, <1>5 DEF Path, isContainer, SameBut
<1> QED
  BY <1>4, <1>6 DEF Path

LEMMA PathPushed ==
  ASSUME NEW g, NEW refs, Path(g, refs), NEW a \in DOMAIN g, a \in Nat, isContainer(g[a]),
         refs = <<>> => a = ROOT,
         refs # <<>> => a \in Children(g[refs[Len(refs)]])
  PROVE  Path(g, Append(refs, a))
<1> DEFINE longer == Append(refs, a)
           L == Len(refs)
<1>1. refs \in Seq(Nat)
  BY DEF Path
<1>2. /\ longer \in Seq(Nat) /\ Len(longer) = L + 1 /\ longer[L + 1] = a
      /\ \A i \in 1..L : longer[i] = refs[i]
      /\ L \in Nat /\ (refs = <<>> <=> L = 0)
  BY <1>1, AppendProperties, LenProperties, EmptySeq
<1> HIDE DEF longer, L
<1>3. longer # <<>> => longer[1] = ROOT
  <2>1. CASE refs = <<>>
    BY <1>2, <2>1
  <2>2. CASE refs # <<>>
    <3>1. 1 \in 1..L
      BY <1>2, <2>2
    <3> QED
      BY <1>2, <2>2, <3>1 DEF Path
  <2> QED
    BY <2>1, <2>2
<1>4. \A i \in 1..(L + 1) : longer[i] \in DOMAIN g /\ isContainer(g[longer[i]])
  <2>1. \A i \in 1..(L + 1) : i \in 1..L \/ i = L + 1
    BY <1>2
  <2> QED
    BY <1>2, <2>1 DEF Path, L
<1>5. ASSUME NEW i \in 1..L
      PROVE  longer[i + 1] \in Children(g[longer[i]])
  <2>1. CASE i = L
    BY <1>2, <2>1 DEF L
  <2>2. CASE i # L
    <3>1. i \in 1..(L - 1) /\ i + 1 \in 1..L
      BY <1>2, <2>2
    <3> QED
      BY <1>2, <3>1 DEF Path, L
  <2> QED
    BY <2>1, <2>2
<1>6. (L + 1) - 1 = L
  BY <1>2
<1> QED
  BY <1>2, <1>3, <1>4, <1>5, <1>6 DEF Path, longer

(* The elements that are left when the last is taken off.                  *)
LEMMA Shorter ==
  ASSUME NEW S, NEW refs \in Seq(S), refs # <<>>
  PROVE  /\ SubSeq(refs, 1, Len(refs) - 1) \in Seq(S)
         /\ Len(SubSeq(refs, 1, Len(refs) - 1)) = Len(refs) - 1
         /\ \A i \in 1..(Len(refs) - 1) : SubSeq(refs, 1, Len(refs) - 1)[i] = refs[i]
<1> DEFINE L == Len(refs)
           n == L - 1
           shorter == SubSeq(refs, 1, n)
<1>1. L \in Nat /\ L # 0 /\ n \in Nat
  BY EmptySeq, LenProperties
<1>2. \A i \in 1..n : i \in 1..L /\ refs[i] \in S
  BY <1>1, ElementOfSeq
<1> HIDE DEF n, L
<1>3. 1 \in Int /\ n \in Int /\ (IF 1 <= n THEN n - 1 + 1 ELSE 0) = n
  BY <1>1
<1>4. \A i \in 1..n : 1 + i - 1 = i
  BY <1>1
<1>5. n - 1 + 1 = n
  BY <1>1
<1>6. /\ shorter \in Seq(S) /\ Len(shorter) = (IF 1 <= n THEN n - 1 + 1 ELSE 0)
      /\ \A i \in 1..(n - 1 + 1) : shorter[i] = refs[1 + i - 1]
  BY <1>2, <1>3, SubSeqProperties
<1> QED
  BY <1>3, <1>4, <1>5, <1>6 DEF n, L

LEMMA PathPopped ==
  ASSUME NEW h, NEW refs, Path(h, refs), refs # <<>>
  PROVE  /\ Path(h, SubSeq(refs, 1, Len(refs) - 1))
         /\ Len(SubSeq(refs, 1, Len(refs) - 1)) = Len(refs) - 1
         /\ \A i \in 1..(Len(refs) - 1) : SubSeq(refs, 1, Len(refs) - 1)[i] = refs[i]
<1> DEFINE L == Len(refs)
           n == L - 1
           shorter == SubSeq(refs, 1, n)
<1>1. refs \in Seq(Nat) /\ L \in Nat /\ L # 0 /\ n \in Nat
  <2>1. refs \in Seq(Nat)
    BY DEF Path
  <2> QED
    BY <2>1, EmptySeq, LenProperties
<1>2. \A i \in 1..n : i \in 1..L
  BY <1>1
<1>4. /\ shorter \in Seq(Nat) /\ Len(shorter) = n
      /\ \A i \in 1..n : shorter[i] = refs[i]
  BY <1>1, Shorter
<1> HIDE DEF n, L, shorter
<1>5. shorter # <<>> => shorter[1] = ROOT
  <2>1. shorter # <<>> => n # 0
    BY <1>4, EmptySeq
  <2>2. n # 0 => 1 \in 1..n
    BY <1>1
  <2> QED
    BY <1>4, <2>1, <2>2 DEF Path
<1>6. \A i \in 1..n : shorter[i] \in DOMAIN h /\ isContainer(h[shorter[i]])
  BY <1>2, <1>4 DEF Path, L
<1>7. ASSUME NEW i \in 1..(n - 1)
      PROVE  shorter[i + 1] \in Children(h[shorter[i]])
  <2>1. i \in 1..n /\ i + 1 \in 1..n /\ i \in 1..(L - 1)
    BY <1>1 DEF n
  <2> QED
    BY <1>4, <2>1 DEF Path, L
<1>8. Path(h, shorter)
  BY <1>4, <1>5, <1>6, <1>7 DEF Path
<1> QED
  BY <1>4, <1>8 DEF n, L, shorter

-----------------------------------------------------------------------------
(* What handle_value and key do to the heap.                               *)

(* Where a value goes is known: the parser is at the root, in an array, or *)
(* has read a key.                                                         *)
Placed ==
  ref_stack # <<>> /\ heap[container][1] # "array" => object_element \in Children(heap[container])

(* What the value of a scalar or of a new container is.                    *)
NoChildren(v) == Children(v) = {} /\ (v[1] = "array" => v[2] = <<>>)

LEMMA AssignedIs ==
  ASSUME Forest(heap, fresh, {}), NEW a \in DOMAIN heap, NEW v
  PROVE  Assigned(a, v) = AfterAssign(heap, a, Below(a), v)
<1>1. IsBelow(heap, a, Below(a))
  BY BelowIs DEF Forest
<1>2. a \notin Below(a)
  BY <1>1, Acyclic
<1> QED
  BY <1>2 DEF Assigned, Freeing, Restrict, AfterAssign

(* A function on the first so many numbers is a sequence.                  *)
LEMMA FunctionSeq ==
  ASSUME NEW S, NEW n \in Nat, NEW f \in [1..n -> S]
  PROVE  f \in Seq(S) /\ Len(f) = n /\ DOMAIN f = 1..n
<1>1. f \in Seq(S)
  BY SeqDef
<1>2. DOMAIN f = 1..Len(f) /\ DOMAIN f = 1..n /\ Len(f) \in Nat
  BY <1>1, LenProperties
<1>3. ASSUME NEW m \in Nat, 1..m = 1..n
      PROVE  m = n
  <2>1. m > n => m \in 1..m /\ m \notin 1..n
    BY SMT
  <2>2. n > m => n \in 1..n /\ n \notin 1..m
    BY SMT
  <2> QED
    BY <1>3, <2>1, <2>2
<1> QED
  BY <1>1, <1>2, <1>3

LEMMA EmplaceIs ==
  ASSUME Forest(heap, fresh, {}), ref_stack # <<>>, container \in DOMAIN heap, heap[container][1] = "array",
         NEW v, emplace_back(v)
  PROVE  \E moved : /\ Moves(heap, fresh, container, moved, slot)
                    /\ heap' = AfterEmplace(heap, container, moved, slot, v)
                    /\ fresh' = slot + 1
<1> DEFINE cells == heap[container][2]
           L == Len(cells)
           moved == [i \in DOMAIN cells |-> IF Full(cells) THEN fresh + i - 1 ELSE cells[i]]
<1>1. Vector(cells) /\ Children(heap[container]) = Range(cells)
  BY DEF Forest, Vectors, Children, isContainer
<1>2. /\ L \in Nat /\ DOMAIN cells = 1..L /\ fresh \in Nat
      /\ \A i \in 1..L : cells[i] \in Nat /\ cells[i] \in DOMAIN heap
      /\ \A i, j \in 1..L : cells[i] = cells[j] => i = j
      /\ DOMAIN heap \subseteq 0..(fresh - 1)
  <2>1. L \in Nat /\ DOMAIN cells = 1..L /\ \A i \in 1..L : cells[i] \in Nat /\ cells[i] \in Range(cells)
    BY <1>1, VectorRange
  <2>2. Range(cells) \subseteq DOMAIN heap
    BY <1>1 DEF Forest, Cells
  <2> QED
    BY <1>1, <2>1, <2>2 DEF Forest, Cells, Vector
<1>3. slot = IF Full(cells) THEN fresh + L ELSE fresh
  BY DEF slot
<1> HIDE DEF cells, L
<1>4. /\ moved \in Seq(Nat) /\ Len(moved) = L /\ DOMAIN moved = 1..L
      /\ \A i \in 1..L : moved[i] = IF Full(cells) THEN fresh + i - 1 ELSE cells[i]
  <2>1. \A i \in 1..L : (IF Full(cells) THEN fresh + i - 1 ELSE cells[i]) \in Nat
    BY <1>2
  <2>2. moved \in [1..L -> Nat]
    BY <1>2, <2>1
  <2> QED
    BY <1>2, <2>2, FunctionSeq
<1> HIDE DEF moved
<1>5. CASE Full(cells)
  <2>1. \A i \in 1..L : moved[i] \notin DOMAIN heap /\ moved[i] < slot
    <3>0. \A i \in 1..L : moved[i] = fresh + i - 1
      BY <1>4, <1>5
    <3>1. ASSUME NEW i \in 1..L
          PROVE  moved[i] >= fresh /\ moved[i] < fresh + L /\ moved[i] \in Nat
      <4>1. fresh \in Nat /\ L \in Nat /\ i \in Nat /\ i >= 1 /\ i <= L
        BY <1>2
      <4> QED
        BY <3>0, <4>1
    <3>2. \A k \in Nat : k >= fresh => k \notin 0..(fresh - 1)
      BY <1>2
    <3> QED
      BY <1>2, <1>3, <1>5, <3>1, <3>2
  <2>2. \A i, j \in 1..L : moved[i] = moved[j] => i = j
    <3>1. ASSUME NEW i \in 1..L, NEW j \in 1..L, moved[i] = moved[j]
          PROVE  i = j
      <4>1. moved[i] = fresh + i - 1 /\ moved[j] = fresh + j - 1
        BY <1>4, <1>5
      <4>2. fresh \in Nat /\ i \in Nat /\ j \in Nat
        BY <1>2
      <4>3. fresh + i - 1 = fresh + j - 1
        BY ONLY <3>1, <4>1
      <4> QED
        BY ONLY <4>2, <4>3
    <3> QED
      BY <3>1
  <2>3. Range(moved) \cap (DOMAIN heap \ Range(cells)) = {}
    BY <1>4, <2>1 DEF Range
  <2>4. slot \in Nat /\ slot >= fresh
    BY <1>2, <1>3, <1>5
  <2>5. Moves(heap, fresh, container, moved, slot)
    BY <1>2, <1>4, <2>1, <2>2, <2>3, <2>4 DEF Moves, Vector, cells, L
  <2> QED
    BY <2>5 DEF emplace_back, AfterEmplace, moved, cells
<1>6. CASE ~Full(cells)
  <2>1. \A i \in 1..L : moved[i] = cells[i]
    BY <1>4, <1>6
  <2>2. slot = fresh /\ \A i \in 1..L : moved[i] < slot
    <3>1. \A k \in 0..(fresh - 1) : k < fresh
      BY <1>2
    <3> QED
      BY <1>2, <1>3, <1>6, <2>1, <3>1
  <2>3. Range(moved) = Range(cells)
    BY <1>2, <1>4, <2>1 DEF Range
  <2>4. slot \in Nat /\ slot >= fresh
    BY <1>2, <2>2
  <2>5. Moves(heap, fresh, container, moved, slot)
    BY <1>2, <1>4, <2>1, <2>2, <2>3, <2>4 DEF Moves, Vector, cells, L
  <2> QED
    BY <2>5 DEF emplace_back, AfterEmplace, moved, cells
<1> QED
  BY <1>5, <1>6

(* The path and the kinds of what is on it stay, the value is where it     *)
(* should be, and the heap remains a forest.                               *)
Handled(v) ==
  /\ Forest(heap', fresh', {}) /\ Path(heap', ref_stack)
  /\ \A i \in 1..Len(ref_stack) : heap'[ref_stack[i]][1] = heap[ref_stack[i]][1]
  /\ slot \in DOMAIN heap' /\ slot \in Nat /\ heap'[slot] = v
  /\ ref_stack = <<>> => slot = ROOT
  /\ ref_stack # <<>> => slot \in Children(heap'[container])

LEMMA ContainerIn ==
  ASSUME Path(heap, ref_stack), ref_stack # <<>>
  PROVE  /\ container \in DOMAIN heap /\ isContainer(heap[container])
         /\ Len(ref_stack) \in Nat \ {0} /\ Len(ref_stack) \in 1..Len(ref_stack)
<1>1. Len(ref_stack) \in Nat \ {0} /\ Len(ref_stack) \in 1..Len(ref_stack)
  <2>1. Len(ref_stack) \in Nat /\ Len(ref_stack) # 0
    BY EmptySeq, LenProperties DEF Path
  <2> QED
    BY <2>1
<1> QED
  BY <1>1 DEF Path, container

LEMMA AssignHandles ==
  ASSUME Forest(heap, fresh, {}), Path(heap, ref_stack), Placed,
         NEW v, NoChildren(v), handle_value(v), ref_stack = <<>> \/ heap[container][1] # "array"
  PROVE  Handled(v)
<1>1. slot = IF ref_stack = <<>> THEN ROOT ELSE object_element
  BY DEF slot
<1>2. slot \in DOMAIN heap /\ slot \in Nat
  <2>1. slot \in DOMAIN heap
    <3>1. CASE ref_stack = <<>>
      BY <1>1, <3>1 DEF Forest, Cells
    <3>2. CASE ref_stack # <<>>
      <4>1. Children(heap[container]) \subseteq DOMAIN heap
        BY <3>2, ContainerIn DEF Forest, Cells
      <4> QED
        BY <1>1, <3>2, <4>1 DEF Placed
    <3> QED
      BY <3>1, <3>2
  <2> QED
    BY <2>1 DEF Forest, Cells
<1> DEFINE B == Below(slot)
<1>3. IsBelow(heap, slot, B)
  BY <1>2, BelowIs DEF Forest
<1>4. heap' = AfterAssign(heap, slot, B, v) /\ fresh' = fresh
  BY <1>2, AssignedIs DEF handle_value
<1> HIDE DEF B
<1>5. Forest(heap', fresh', {}) /\ slot \notin B
  BY <1>2, <1>3, <1>4, AssignKeepsForest, Acyclic DEF NoChildren
<1>6. heap'[slot] = v /\ slot \in DOMAIN heap' /\ \A x \in DOMAIN heap \ B : x # slot => x \in DOMAIN heap' /\ heap'[x] = heap[x]
  BY <1>2, <1>4, <1>5 DEF AfterAssign
<1>7. CASE ref_stack = <<>>
  <2>1. Len(ref_stack) = 0
    BY <1>7, EmptySeq
  <2>2. Path(heap', ref_stack)
    BY <1>7, <2>1 DEF Path
  <2>3. \A i \in 1..Len(ref_stack) : heap'[ref_stack[i]][1] = heap[ref_stack[i]][1]
    BY <2>1
  <2> QED
    BY <1>1, <1>2, <1>5, <1>6, <1>7, <2>2, <2>3 DEF Handled
<1>8. CASE ref_stack # <<>>
  <2> DEFINE A == Below(container)
  <2>1. container \in DOMAIN heap /\ IsBelow(heap, container, A)
    BY <1>8, ContainerIn, BelowIs DEF Forest
  <2> HIDE DEF A
  <2>2. slot \in Children(heap[container]) /\ slot \in A /\ container \notin A
    BY <1>1, <1>8, <2>1, Acyclic DEF Placed, IsBelow
  <2>3. B \subseteq A
    BY <1>3, <2>1, <2>2 DEF IsBelow, Closed
  <2>4. heap'[container] = heap[container] /\ container \in DOMAIN heap'
    BY <1>6, <2>1, <2>2, <2>3
  <2>5. \A x \in DOMAIN heap \ A : x # container => x \in DOMAIN heap' /\ heap'[x] = heap[x]
    BY <1>6, <2>2, <2>3
  <2>6. /\ Path(heap', ref_stack)
        /\ \A i \in 1..Len(ref_stack) : heap'[ref_stack[i]][1] = heap[ref_stack[i]][1]
    <3>1. container = ref_stack[Len(ref_stack)]
      BY DEF container
    <3>2. SameBut(heap, heap', A, container)
      BY <2>4, <2>5 DEF SameBut
    <3> QED
      BY <1>8, <2>1, <3>1, <3>2, PathKept
  <2> QED
    BY <1>2, <1>5, <1>6, <1>8, <2>2, <2>4, <2>6 DEF Handled
<1> QED
  BY <1>7, <1>8

LEMMA EmplaceHandles ==
  ASSUME Forest(heap, fresh, {}), Path(heap, ref_stack), ref_stack # <<>>, heap[container][1] = "array",
         NEW v, NoChildren(v), handle_value(v)
  PROVE  Handled(v)
<1>1. container \in DOMAIN heap /\ container = ref_stack[Len(ref_stack)]
  BY ContainerIn DEF container
<1>2. PICK moved : /\ Moves(heap, fresh, container, moved, slot)
                   /\ heap' = AfterEmplace(heap, container, moved, slot, v)
                   /\ fresh' = slot + 1
  BY <1>1, EmplaceIs DEF handle_value
<1>3. Forest(heap', fresh', {})
  BY <1>1, <1>2, EmplaceKeepsForest DEF NoChildren
<1>4. Emplaced(heap, container, moved, slot, v, heap')
  BY <1>1, <1>2, EmplaceCells
<1> DEFINE A == Below(container)
<1>5. IsBelow(heap, container, A)
  BY <1>1, BelowIs DEF Forest
<1> HIDE DEF A
<1>s. heap'[container] = <<"array", Append(moved, slot)>> /\ Children(heap[container]) = Range(heap[container][2])
  BY <1>4 DEF Emplaced
<1>6. /\ Range(heap[container][2]) \subseteq A
      /\ DOMAIN heap' = (DOMAIN heap \ Range(heap[container][2])) \cup Range(moved) \cup {slot}
      /\ heap'[container][1] = "array" /\ heap'[slot] = v
      /\ Children(heap'[container]) = Range(moved) \cup {slot}
      /\ container \notin Range(heap[container][2])
      /\ \A x \in DOMAIN heap \ Range(heap[container][2]) : x # container => heap'[x] = heap[x]
  <2>1. Range(heap[container][2]) \subseteq A
    BY <1>s, <1>5 DEF IsBelow
  <2>2. heap'[container][1] = "array"
    BY <1>s
  <2> QED
    BY <1>4, <2>1, <2>2 DEF Emplaced
<1>7. \A x \in DOMAIN heap \ A : x # container => x \in DOMAIN heap' /\ heap'[x] = heap[x]
  BY <1>6
<1>8. container \in DOMAIN heap' /\ slot \in DOMAIN heap' /\ slot \in Children(heap'[container])
  BY <1>1, <1>6
<1>9. /\ Path(heap', ref_stack)
      /\ \A i \in 1..Len(ref_stack) : heap'[ref_stack[i]][1] = heap[ref_stack[i]][1]
  <2>1. SameBut(heap, heap', A, container)
    BY <1>6, <1>7, <1>8 DEF SameBut
  <2> QED
    BY <1>1, <1>5, <2>1, PathKept
<1>10. slot \in Nat
  BY <1>2 DEF Moves
<1> QED
  BY <1>3, <1>6, <1>8, <1>9, <1>10 DEF Handled

LEMMA HandleHandles ==
  ASSUME Forest(heap, fresh, {}), Path(heap, ref_stack), Placed, NEW v, NoChildren(v), handle_value(v)
  PROVE  Handled(v)
BY AssignHandles, EmplaceHandles

LEMMA KeyHandles ==
  ASSUME Forest(heap, fresh, {}), Path(heap, ref_stack), ref_stack # <<>>, heap[container][1] = "object",
         NEW name, key(name)
  PROVE  /\ Forest(heap', fresh', {}) /\ Path(heap', ref_stack)
         /\ \A i \in 1..Len(ref_stack) : heap'[ref_stack[i]][1] = heap[ref_stack[i]][1]
         /\ object_element' \in Children(heap'[container])
<1> DEFINE members == heap[container][2]
<1>1. container \in DOMAIN heap
  BY ContainerIn
<1>2. CASE name \in DOMAIN members
  <2>1. object_element' = members[name] /\ heap' = heap /\ fresh' = fresh
    BY <1>2 DEF key
  <2>2. members[name] \in Children(heap[container])
    BY <1>2 DEF Children, isContainer, Range
  <2> QED
    BY <2>1, <2>2
<1>3. CASE name \notin DOMAIN members
  <2>1. heap' = AfterNode(heap, container, name, fresh) /\ object_element' = fresh /\ fresh' = fresh + 1
    BY <1>3 DEF key, newNode, AfterNode
  <2>2. Forest(heap', fresh + 1, {}) /\ Grew(heap, fresh, container, heap')
    BY <1>1, <1>3, <2>1, NodeKeepsForest
  <2> DEFINE A == Below(container)
  <2>3. IsBelow(heap, container, A)
    BY <1>1, BelowIs DEF Forest
  <2> HIDE DEF A
  <2>4. /\ Path(heap', ref_stack)
        /\ \A i \in 1..Len(ref_stack) : heap'[ref_stack[i]][1] = heap[ref_stack[i]][1]
    <3>1. SameBut(heap, heap', A, container)
      BY <1>1, <2>2 DEF SameBut, Grew
    <3>2. container = ref_stack[Len(ref_stack)]
      BY DEF container
    <3> QED
      BY <2>3, <3>1, <3>2, PathKept
  <2> QED
    BY <2>1, <2>2, <2>4 DEF Grew
<1> QED
  BY <1>2, <1>3

-----------------------------------------------------------------------------
(* The parser: the containers it fills are of the kinds it believes.       *)

KindsAgree ==
  /\ \A i \in 1..Len(states) : heap[ref_stack[i]][1] = states[i]
  /\ pc \in {"openObject", "firstColon"} => heap[container][1] = "object"
  /\ pc = "openArray" => heap[container][1] = "array"

KeyRead == pc \in {"firstColon", "nextColon"} \/ (pc = "value" /\ Top(states, "object"))

HeapInv ==
  /\ Forest(heap, fresh, {})
  /\ pc # "failed" =>
       /\ Path(heap, ref_stack) /\ KindsAgree
       /\ pc \in {"strict", "accepted"} => states = <<>>
       /\ KeyRead => object_element \in Children(heap[container])

(* A single null value is a forest.                                        *)
LEMMA NullForest ==
  ASSUME NEW n \in Nat, n >= 1
  PROVE  Forest([a \in {ROOT} |-> Null], n, {})
<1> DEFINE h == [a \in {ROOT} |-> Null]
<1>1. DOMAIN h = {0} /\ \A a \in DOMAIN h : h[a] = <<"null">> /\ Children(h[a]) = {} /\ h[a][1] = "null"
  BY DEF ROOT, Null, Children, isContainer
<1> HIDE DEF h
<1>2. Forest(h, n, {})
  <2>1. Cells(h, n)
    BY <1>1 DEF Cells, ROOT
  <2>2. SingleParent(h) /\ Vectors(h)
    BY <1>1 DEF SingleParent, Vectors
  <2>3. Reached(h, {})
    BY <1>1 DEF Reached, ROOT
  <2> QED
    BY <2>1, <2>2, <2>3 DEF Forest
<1> QED
  BY <1>2 DEF h

LEMMA HeapInitially ==
  ASSUME NEW from, ParserInit(from)
  PROVE  HeapInv
<1>1. heap = [a \in {ROOT} |-> Null] /\ ref_stack = <<>> /\ states = <<>> /\ pc = "value"
  BY DEF ParserInit, DomInit
<1>2. fresh = 1
  <2>1. DOMAIN heap = {ROOT}
    BY <1>1
  <2> QED
    BY <2>1, FS_Singleton DEF ParserInit, DomInit
<1>3. Forest(heap, fresh, {})
  BY <1>1, <1>2, NullForest
<1>4. Path(heap, ref_stack)
  BY <1>1, EmptySeq DEF Path
<1>5. KindsAgree /\ ~KeyRead
  BY <1>1, EmptySeq DEF KindsAgree, KeyRead, Top
<1> QED
  BY <1>1, <1>3, <1>4, <1>5 DEF HeapInv

(* Which container the parser is in, from what its stacks say.             *)
LEMMA InContainer ==
  ASSUME StacksInv, HeapInv, pc # "failed"
  PROVE  /\ Len(states) \in Nat /\ Len(ref_stack) \in Nat /\ ref_stack \in Seq(Nat)
         /\ (states = <<>> <=> Len(states) = 0) /\ (ref_stack = <<>> <=> Len(ref_stack) = 0)
         /\ pc \in Opening => ref_stack # <<>> /\ Len(ref_stack) = Len(states) + 1
         /\ pc \notin Opening => Len(ref_stack) = Len(states)
         /\ pc \notin Opening /\ states # <<>> =>
              ref_stack # <<>> /\ heap[container][1] = states[Len(states)] /\ states[Len(states)] \in Kinds
<1>1. states \in Seq(Kinds) /\ ref_stack \in Seq(Nat)
  BY DEF StacksInv, HeapInv, Path
<1>2. /\ Len(states) \in Nat /\ Len(ref_stack) \in Nat
      /\ (states = <<>> <=> Len(states) = 0) /\ (ref_stack = <<>> <=> Len(ref_stack) = 0)
  BY <1>1, EmptySeq, LenProperties
<1>3. Len(ref_stack) = Len(states) + Ahead
  BY DEF StacksInv
<1>4. pc \in Opening => ref_stack # <<>> /\ Len(ref_stack) = Len(states) + 1
  BY <1>2, <1>3 DEF Ahead
<1>5. pc \notin Opening => Len(ref_stack) = Len(states)
  BY <1>2, <1>3 DEF Ahead
<1>6. ASSUME pc \notin Opening, states # <<>>
      PROVE  ref_stack # <<>> /\ heap[container][1] = states[Len(states)] /\ states[Len(states)] \in Kinds
  <2>1. Len(states) \in 1..Len(states)
    BY <1>2, <1>6
  <2>2. states[Len(states)] \in Kinds
    BY <1>1, <2>1, ElementOfSeq
  <2> QED
    BY <1>2, <1>5, <1>6, <2>1, <2>2 DEF HeapInv, KindsAgree, container
<1> QED
  BY <1>1, <1>2, <1>4, <1>5, <1>6

(* At a value it is clear where that goes.                                 *)
LEMMA ValuePlaced ==
  ASSUME StacksInv, HeapInv, pc = "value"
  PROVE  Placed
<1>1. SUFFICES ASSUME ref_stack # <<>>, heap[container][1] # "array"
               PROVE  object_element \in Children(heap[container])
  BY DEF Placed
<1>2. states # <<>> /\ states[Len(states)] \in Kinds /\ heap[container][1] = states[Len(states)]
  BY <1>1, InContainer DEF Opening
<1>3. Top(states, "object")
  BY <1>1, <1>2 DEF Top, Kinds
<1> QED
  BY <1>3 DEF HeapInv, KeyRead

(* A value is handled, and the containers are as they were.                *)
LEMMA HandledKinds ==
  ASSUME StacksInv, HeapInv, pc = "value", NEW v, Handled(v)
  PROVE  \A i \in 1..Len(states) : heap'[ref_stack[i]][1] = states[i]
<1>1. Len(ref_stack) = Len(states)
  BY InContainer DEF Opening
<1> QED
  BY <1>1 DEF HeapInv, KindsAgree, Handled

LEMMA ScalarNoChildren ==
  ASSUME NEW token \in Scalars, NEW bytes
  PROVE  NoChildren(scalar(token, bytes))
BY DEF Scalars, scalar, NoChildren, Children, isContainer, Null

LEMMA EmptyNoChildren ==
  ASSUME NEW type \in Kinds
  PROVE  NoChildren(EmptyOf(type)) /\ isContainer(EmptyOf(type)) /\ EmptyOf(type)[1] = type
<1>1. EmptyOf(type)[1] = type /\ EmptyOf(type)[2] = <<>>
  BY DEF EmptyOf
<1>2. Range(<<>>) = {}
  <2>1. DOMAIN <<>> = {}
    <3>1. <<>> \in Seq({}) /\ Len(<<>>) = 0
      BY EmptySeq
    <3> QED
      BY <3>1, LenProperties
  <2> QED
    BY <2>1 DEF Range
<1> QED
  BY <1>1, <1>2 DEF NoChildren, Children, isContainer, Kinds

(* start_object and start_array.                                           *)
LEMMA StartKeeps ==
  ASSUME StacksInv, HeapInv, pc = "value", NEW type \in Kinds, start(type), UNCHANGED <<object_element, states>>,
         pc' = IF type = "object" THEN "openObject" ELSE "openArray"
  PROVE  HeapInv'
<1> DEFINE v == EmptyOf(type)
<1>1. NoChildren(v) /\ isContainer(v) /\ v[1] = type
  BY EmptyNoChildren
<1>2. handle_value(v) /\ ref_stack' = Append(ref_stack, slot)
  BY DEF start
<1> HIDE DEF v
<1>3. Handled(v)
  BY <1>1, <1>2, ValuePlaced, HandleHandles DEF HeapInv
<1>4. Len(ref_stack) = Len(states) /\ Len(states) \in Nat /\ ref_stack \in Seq(Nat)
  BY InContainer DEF Opening
<1>5. Path(heap', ref_stack')
  <2>1. slot \in DOMAIN heap' /\ slot \in Nat /\ isContainer(heap'[slot]) /\ Path(heap', ref_stack)
    BY <1>1, <1>3 DEF Handled
  <2>2. ref_stack = <<>> => slot = ROOT
    BY <1>3 DEF Handled
  <2>3. ref_stack # <<>> => slot \in Children(heap'[ref_stack[Len(ref_stack)]])
    BY <1>3 DEF Handled, container
  <2> QED
    BY <1>2, <2>1, <2>2, <2>3, PathPushed
<1>6. /\ \A i \in 1..Len(ref_stack) : ref_stack'[i] = ref_stack[i]
      /\ container' = slot
  <2>1. slot \in Nat
    BY <1>3 DEF Handled
  <2>2. Len(ref_stack') = Len(ref_stack) + 1 /\ ref_stack'[Len(ref_stack) + 1] = slot
        /\ \A i \in 1..Len(ref_stack) : ref_stack'[i] = ref_stack[i]
    BY <1>2, <1>4, <2>1, AppendProperties
  <2> QED
    BY <2>2 DEF container
<1>7. KindsAgree'
  <2>1. \A i \in 1..Len(states') : heap'[ref_stack'[i]][1] = states'[i]
    BY <1>3, <1>4, <1>6, HandledKinds
  <2>2. heap'[container'][1] = type
    BY <1>1, <1>3, <1>6 DEF Handled
  <2> QED
    BY <2>1, <2>2 DEF KindsAgree, Kinds
<1>8. ~KeyRead'
  BY DEF KeyRead
<1> QED
  BY <1>3, <1>5, <1>7, <1>8 DEF HeapInv, Handled

(* end_object and end_array.                                               *)
LEMMA EndKeeps ==
  ASSUME StacksInv, HeapInv, pc # "failed", ref_stack # <<>>, end, UNCHANGED <<heap, fresh, object_element>>,
         pc' = "evaluate", Len(states') = Len(ref_stack) - 1,
         \A i \in 1..Len(states') : i \in 1..Len(states) /\ states'[i] = states[i]
  PROVE  HeapInv'
<1>1. /\ Path(heap, ref_stack') /\ \A i \in 1..(Len(ref_stack) - 1) : ref_stack'[i] = ref_stack[i]
  BY PathPopped DEF end, HeapInv
<1>2. KindsAgree' /\ ~KeyRead'
  BY <1>1 DEF KindsAgree, KeyRead, HeapInv
<1> QED
  BY <1>1, <1>2 DEF HeapInv

LEMMA HeapStep ==
  ASSUME StacksInv, HeapInv, Parse
  PROVE  HeapInv'
<1> USE DEF on, get_token, keepToken
<1>1. CASE Scan /\ lex # "token" /\ UNCHANGED <<buildVars, pc, states>>
  BY <1>1 DEF HeapInv, KindsAgree, KeyRead, Top, buildVars, container
<1>2. CASE parseScalar
  <2>1. PICK token \in Scalars : handle_value(scalar(token, token_buffer))
    BY <1>2 DEF parseScalar
  <2> DEFINE v == scalar(token, token_buffer)
  <2>2. NoChildren(v) /\ handle_value(v)
    BY <2>1, ScalarNoChildren
  <2> HIDE DEF v
  <2>3. pc = "value" /\ pc' = "evaluate" /\ UNCHANGED <<ref_stack, object_element, states>>
    BY <1>2 DEF parseScalar
  <2>4. Handled(v)
    BY <2>2, <2>3, ValuePlaced, HandleHandles DEF HeapInv
  <2>5. KindsAgree' /\ ~KeyRead'
    BY <2>3, <2>4, HandledKinds DEF KindsAgree, KeyRead
  <2> QED
    BY <2>3, <2>4, <2>5 DEF HeapInv, Handled
<1>3. CASE number_overflow
  BY <1>3 DEF number_overflow, HeapInv, buildVars
<1>4. CASE begin_object
  BY <1>4, StartKeeps DEF begin_object, Kinds
<1>5. CASE begin_array
  BY <1>5, StartKeeps DEF begin_array, Kinds
<1>6. CASE closeEmpty
  <2>1. pc \in Opening /\ pc # "failed" /\ end /\ pc' = "evaluate" /\ UNCHANGED <<heap, fresh, object_element, states>>
    BY <1>6 DEF closeEmpty, Opening
  <2>2. ref_stack # <<>> /\ Len(states) = Len(ref_stack) - 1
    BY <2>1, InContainer
  <2> QED
    BY <2>1, <2>2, EndKeeps
<1>7. CASE parseKey
  <2>1. pc \in {"openObject", "nextKey"} /\ key(token_buffer) /\ UNCHANGED <<ref_stack, states>>
        /\ pc' = IF pc = "openObject" THEN "firstColon" ELSE "nextColon"
    BY <1>7 DEF parseKey
  <2>2. ref_stack # <<>> /\ heap[container][1] = "object" /\ Len(states) <= Len(ref_stack) /\ Len(states) \in Nat
        /\ Len(ref_stack) \in Nat
    <3>1. CASE pc = "openObject"
      BY <3>1, InContainer DEF Opening, HeapInv, KindsAgree
    <3>2. CASE pc = "nextKey"
      <4>1. Top(states, "object")
        BY <3>2 DEF StacksInv
      <4> QED
        BY <3>2, <4>1, InContainer DEF Opening, Top
    <3> QED
      BY <2>1, <3>1, <3>2
  <2>3. /\ Forest(heap', fresh', {}) /\ Path(heap', ref_stack)
        /\ \A i \in 1..Len(ref_stack) : heap'[ref_stack[i]][1] = heap[ref_stack[i]][1]
        /\ object_element' \in Children(heap'[container])
    BY <2>1, <2>2, KeyHandles DEF HeapInv
  <2>4. KindsAgree'
    <3>1. \A i \in 1..Len(states) : i \in 1..Len(ref_stack)
      BY <2>2
    <3>2. Len(ref_stack) \in 1..Len(ref_stack)
      BY <2>1, <2>2, InContainer
    <3> QED
      BY <2>1, <2>2, <2>3, <3>1, <3>2 DEF KindsAgree, HeapInv, container
  <2> QED
    BY <2>1, <2>3, <2>4 DEF HeapInv, container
<1>8. CASE separator
  <2>1. UNCHANGED buildVars /\ pc' = "value"
    BY <1>8 DEF separator
  <2>2. CASE pc = "nextColon"
    <3>1. states' = states
      BY <1>8, <2>2 DEF separator
    <3> QED
      BY <2>1, <2>2, <3>1 DEF HeapInv, KindsAgree, KeyRead, Top, buildVars, container
  <2>3. CASE pc = "firstColon"
    <3>1. states' = Append(states, "object") /\ states \in Seq(Kinds) /\ "object" \in Kinds
      BY <1>8, <2>3 DEF separator, StacksInv, Kinds
    <3>2. Len(states') = Len(states) + 1 /\ states'[Len(states) + 1] = "object"
          /\ \A i \in 1..Len(states) : states'[i] = states[i]
      BY <3>1, AppendProperties
    <3>3. Len(ref_stack) = Len(states) + 1 /\ Len(states) \in Nat
      BY <2>3, InContainer DEF Opening
    <3>4. \A i \in 1..(Len(states) + 1) : i \in 1..Len(states) \/ i = Len(states) + 1
      BY <3>3
    <3>5. KindsAgree'
      BY <2>1, <2>3, <3>2, <3>3, <3>4 DEF HeapInv, KindsAgree, buildVars, container
    <3> QED
      BY <2>1, <2>3, <3>5 DEF HeapInv, KeyRead, buildVars, container
  <2> QED
    BY <1>8, <2>2, <2>3 DEF separator
<1>9. CASE firstElement
  <2>1. UNCHANGED buildVars /\ pc = "openArray" /\ pc' = "value"
        /\ states' = Append(states, "array") /\ states \in Seq(Kinds) /\ "array" \in Kinds
    BY <1>9 DEF firstElement, StacksInv, Kinds
  <2>2. Len(states') = Len(states) + 1 /\ states'[Len(states) + 1] = "array"
        /\ \A i \in 1..Len(states) : states'[i] = states[i]
    BY <2>1, AppendProperties
  <2>3. Len(ref_stack) = Len(states) + 1 /\ Len(states) \in Nat
    BY <2>1, InContainer DEF Opening
  <2>4. \A i \in 1..(Len(states) + 1) : i \in 1..Len(states) \/ i = Len(states) + 1
    BY <2>3
  <2>5. KindsAgree'
    BY <2>1, <2>2, <2>3, <2>4 DEF HeapInv, KindsAgree, buildVars, container
  <2>6. ~KeyRead'
    BY <2>1, <2>2 DEF KeyRead, Top
  <2> QED
    BY <2>1, <2>5, <2>6 DEF HeapInv, buildVars
<1>10. CASE evaluate
  BY <1>10 DEF evaluate, HeapInv, KindsAgree, KeyRead, buildVars, container
<1>11. CASE comma
  <2>1. UNCHANGED <<heap, fresh, ref_stack, object_element, states>>
    BY <1>11 DEF comma, buildVars
  <2>2. CASE pc = "inArray"
    <3>1. pc' = "value"
      BY <1>11, <2>2 DEF comma
    <3>2. ~KeyRead'
      BY <2>1, <2>2, <3>1 DEF KeyRead, Top, StacksInv
    <3> QED
      BY <2>1, <2>2, <3>1, <3>2 DEF HeapInv, KindsAgree, container
  <2>3. CASE pc = "inObject"
    <3>1. pc' = "nextKey"
      BY <1>11, <2>3 DEF comma
    <3> QED
      BY <2>1, <2>3, <3>1 DEF HeapInv, KindsAgree, KeyRead, container
  <2> QED
    BY <1>11, <2>2, <2>3 DEF comma
<1>12. CASE close
  <2>1. pc \in {"inArray", "inObject"} /\ end /\ pc' = "evaluate" /\ UNCHANGED <<heap, fresh, object_element>>
        /\ states' = SubSeq(states, 1, Len(states) - 1) /\ states # <<>>
    BY <1>12 DEF close, StacksInv, Top
  <2>2. ref_stack # <<>> /\ Len(states) = Len(ref_stack) /\ Len(states) \in Nat
    BY <2>1, InContainer DEF Opening
  <2>3. Len(states') = Len(states) - 1 /\ \A i \in 1..(Len(states) - 1) : states'[i] = states[i]
    BY <2>1, Shorter DEF StacksInv
  <2>4. \A i \in 1..(Len(states) - 1) : i \in 1..Len(states)
    BY <2>2
  <2> QED
    BY <2>1, <2>2, <2>3, <2>4, EndKeeps
<1>13. CASE accept
  BY <1>13 DEF accept, HeapInv, KindsAgree, KeyRead, buildVars, container
<1>14. CASE parse_error
  BY <1>14 DEF parse_error, HeapInv, buildVars
<1> QED
  BY <1>1, <1>2, <1>3, <1>4, <1>5, <1>6, <1>7, <1>8, <1>9, <1>10, <1>11, <1>12, <1>13, <1>14
  DEF Parse, Parsing

-----------------------------------------------------------------------------
(* Taking a value apart: the values that are moved out of its cells.       *)

(* The elements of a set in some order, each once.                         *)
LEMMA InSomeOrder ==
  ASSUME NEW S \in SUBSET Nat, IsFiniteSet(S)
  PROVE  Vector(SetToSeq(S)) /\ Range(SetToSeq(S)) = S
<1> DEFINE n == Cardinality(S)
           f == SetToSeq(S)
<1>1. f = CHOOSE e \in [1..n -> S] : IsInjective(e)
  BY DEF SetToSeq
<1> HIDE DEF f
<1>2. n \in Nat /\ \E e \in [1..n -> S] : \A i, j \in 1..n : e[i] = e[j] => i = j
  BY CountedOff
<1>3. \A e \in [1..n -> S] : \A s \in S :
        (\A i, j \in 1..n : e[i] = e[j] => i = j) => \E i \in 1..n : e[i] = s
  BY AllCounted
<1> HIDE DEF n
<1>4. \E e \in [1..n -> S] : IsInjective(e)
  BY <1>2 DEF IsInjective
<1>5. f \in [1..n -> S] /\ IsInjective(f)
  BY <1>1, <1>4
<1>6. \A i, j \in 1..n : f[i] = f[j] => i = j
  BY <1>5 DEF IsInjective
<1>7. f \in [1..n -> Nat]
  BY <1>5
<1>8. f \in Seq(Nat) /\ Len(f) = n /\ DOMAIN f = 1..n
  BY <1>2, <1>7, FunctionSeq
<1>9. Range(f) = S
  BY <1>3, <1>5, <1>6, <1>8 DEF Range
<1> QED
  BY <1>6, <1>8, <1>9 DEF Vector, f

(* The values in the cells, in order.                                      *)
Contents(h, cells) == [i \in 1..Len(cells) |-> h[cells[i]]]

LEMMA ValuesAre ==
  ASSUME Cells(heap, fresh), NEW v, Children(v) \subseteq DOMAIN heap, v[1] = "array" => Vector(v[2])
  PROVE  \E cells : Vector(cells) /\ Range(cells) = Children(v) /\ values(v) = Contents(heap, cells)
<1>1. CASE v[1] = "array"
  <2>1. Vector(v[2]) /\ Range(v[2]) = Children(v)
    BY <1>1 DEF Children, isContainer
  <2>2. DOMAIN v[2] = 1..Len(v[2])
    BY <2>1, VectorRange
  <2>3. values(v) = Contents(heap, v[2])
    BY <1>1, <2>2 DEF values, Contents
  <2> QED
    BY <2>1, <2>3
<1>2. CASE v[1] # "array"
  <2> DEFINE nodes == SetToSeq(Children(v))
  <2>1. Children(v) \in SUBSET (0..(fresh - 1)) /\ fresh \in Nat
    BY DEF Cells
  <2>2. IsFiniteSet(Children(v))
    <3>1. IsFiniteSet(0..(fresh - 1))
      BY <2>1, FS_Interval
    <3> QED
      BY <2>1, <3>1, FS_Subset
  <2>3. Vector(nodes) /\ Range(nodes) = Children(v)
    <3>1. Children(v) \in SUBSET Nat
      BY <2>1
    <3> QED
      BY <2>2, <3>1, InSomeOrder
  <2>4. values(v) = [i \in DOMAIN nodes |-> heap[nodes[i]]]
    BY <1>2 DEF values
  <2> HIDE DEF nodes
  <2>5. values(v) = Contents(heap, nodes)
    BY <2>3, <2>4, VectorRange DEF Contents
  <2> QED
    BY <2>3, <2>5
<1> QED
  BY <1>1, <1>2

-----------------------------------------------------------------------------
(* What the destructor holds outside of the heap: each cell is an element  *)
(* of one of the values it holds or of one container in the heap.          *)

Detached(h, v) ==
  /\ Children(v) \subseteq DOMAIN h \ {ROOT}
  /\ v[1] = "array" => Vector(v[2])
  /\ \A a \in DOMAIN h : Children(v) \cap Children(h[a]) = {}

Apart(held) == \A i, j \in 1..Len(held) : i # j => Children(held[i]) \cap Children(held[j]) = {}

HeldCells(held) == UNION {Children(held[i]) : i \in 1..Len(held)}

Trees(h, n) == Cells(h, n) /\ SingleParent(h) /\ Vectors(h)

Emptied(h, S) == \A a \in S : h[a] = Null

Destroying(h, n, held, item) ==
  /\ Trees(h, n)
  /\ Sequence(held) /\ Apart(held)
  /\ \A i \in 1..Len(held) : Detached(h, held[i]) /\ Children(held[i]) \cap Children(item) = {}
  /\ Detached(h, item) /\ Emptied(h, Children(item))
  /\ Emptied(h, Children(h[ROOT]))
  /\ Reached(h, HeldCells(held) \cup Children(item))

-----------------------------------------------------------------------------
(* The values in the cells of one are moved out of them.                   *)

AfterMove(h, v) == [a \in DOMAIN h |-> IF a \in Children(v) THEN Null ELSE h[a]]

Moving(h, n, v, cells) ==
  /\ Trees(h, n) /\ Vector(cells) /\ Range(cells) = Children(v) /\ Children(v) \subseteq DOMAIN h \ {ROOT}

LEMMA MoveKeepsTrees ==
  ASSUME NEW h, NEW n, NEW v, NEW cells, Moving(h, n, v, cells), NEW g, g = AfterMove(h, v)
  PROVE  /\ Trees(g, n) /\ Emptied(g, Children(v)) /\ g[ROOT] = h[ROOT]
         /\ Sequence(Contents(h, cells)) /\ Len(Contents(h, cells)) = Len(cells) /\ Len(cells) \in Nat
         /\ Apart(Contents(h, cells))
         /\ \A i \in 1..Len(cells) : Detached(g, Contents(h, cells)[i])
         /\ \A w : Detached(h, w) => Detached(g, w)
         /\ \A w : Detached(h, w) =>
              \A i \in 1..Len(cells) : Children(Contents(h, cells)[i]) \cap Children(w) = {}
         /\ HeldCells(Contents(h, cells)) = UNION {Children(h[a]) : a \in Children(v)}
<1> DEFINE k == Len(cells)
           moved == Contents(h, cells)
<1>1. /\ DOMAIN g = DOMAIN h /\ \A a \in Children(v) : g[a] = Null
      /\ \A a \in DOMAIN h : a \notin Children(v) => g[a] = h[a]
      /\ \A a \in DOMAIN h : g[a] = Null \/ g[a] = h[a]
      /\ ROOT \in DOMAIN h /\ ROOT \notin Children(v)
  BY DEF AfterMove, Moving, Trees, Cells
<1>2. Children(Null) = {} /\ Null[1] # "array"
  BY DEF Null, Children, isContainer
<1>3. \A a \in DOMAIN h : Children(g[a]) \subseteq Children(h[a])
  BY <1>1, <1>2
<1>4. k \in Nat /\ \A i \in 1..k : cells[i] \in Children(v) /\ cells[i] \in DOMAIN h
  BY VectorRange DEF Moving
<1>5. moved = [i \in 1..k |-> h[cells[i]]]
  BY DEF Contents
<1>6. moved \in Seq({h[a] : a \in DOMAIN h}) /\ Len(moved) = k
  <2> DEFINE T == {h[a] : a \in DOMAIN h}
  <2>1. moved \in [1..k -> T]
    BY <1>4, <1>5
  <2> HIDE DEF moved, k, T
  <2>2. moved \in Seq(T) /\ Len(moved) = k
    BY <1>4, <2>1, FunctionSeq
  <2> QED
    BY <2>2 DEF T
<1>7. \A i \in 1..k : moved[i] = h[cells[i]]
  BY <1>5
<1> HIDE DEF moved, k
<1>8. Trees(g, n)
  <2>1. Cells(g, n)
    BY <1>1, <1>3 DEF Moving, Trees, Cells
  <2>2. SingleParent(g)
    BY <1>1, <1>3 DEF Moving, Trees, SingleParent
  <2>3. Vectors(g)
    BY <1>1, <1>2 DEF Moving, Trees, Vectors
  <2> QED
    BY <2>1, <2>2, <2>3 DEF Trees
<1>9. Apart(moved)
  <2> SUFFICES ASSUME NEW i \in 1..k, NEW j \in 1..k, i # j
               PROVE  Children(moved[i]) \cap Children(moved[j]) = {}
    BY <1>6 DEF Apart
  <2>1. cells[i] # cells[j]
    BY DEF Moving, Vector, k
  <2> QED
    BY <1>4, <1>7, <2>1 DEF Moving, Trees, SingleParent
<1>10. ASSUME NEW i \in 1..k
       PROVE  Detached(g, moved[i])
  <2> DEFINE c == cells[i]
  <2>1. c \in Children(v) /\ c \in DOMAIN h /\ moved[i] = h[c]
    BY <1>4, <1>7
  <2> HIDE DEF c
  <2>2. Children(h[c]) \subseteq DOMAIN h \ {ROOT} /\ (h[c][1] = "array" => Vector(h[c][2]))
    BY <2>1 DEF Moving, Trees, Cells, Vectors
  <2>3. ASSUME NEW a \in DOMAIN h
        PROVE  Children(h[c]) \cap Children(g[a]) = {}
    <3>1. CASE a = c
      BY <1>1, <1>2, <2>1, <3>1
    <3>2. CASE a # c
      BY <1>3, <2>1, <3>2 DEF Moving, Trees, SingleParent
    <3> QED
      BY <3>1, <3>2
  <2> QED
    BY <1>1, <2>1, <2>2, <2>3 DEF Detached
<1>11. \A w : Detached(h, w) => Detached(g, w)
  BY <1>1, <1>3 DEF Detached
<1>12. \A w : Detached(h, w) => \A i \in 1..k : Children(moved[i]) \cap Children(w) = {}
  BY <1>4, <1>7 DEF Detached
<1>13. HeldCells(moved) = UNION {Children(h[a]) : a \in Children(v)}
  <2>1. Children(v) = {cells[i] : i \in 1..k}
    BY VectorRange DEF Moving, k
  <2> QED
    BY <1>6, <1>7, <2>1 DEF HeldCells
<1> QED
  BY <1>1, <1>4, <1>6, <1>8, <1>9, <1>10, <1>11, <1>12, <1>13 DEF Emptied, Sequence, moved, k

(* What is reached from what is held then: the cells that were.            *)
LEMMA MoveReaches ==
  ASSUME NEW h, NEW n, NEW v, NEW cells, Moving(h, n, v, cells), NEW g, g = AfterMove(h, v),
         NEW earlier, NEW later, Reached(h, earlier), earlier \subseteq later,
         HeldCells(Contents(h, cells)) \subseteq later
  PROVE  Reached(g, later)
<1> SUFFICES ASSUME NEW S \in SUBSET DOMAIN g, ROOT \in S, later \subseteq S, Closed(g, S)
             PROVE  S = DOMAIN g
  BY DEF Reached
<1>1. DOMAIN g = DOMAIN h /\ \A a \in DOMAIN h : a \notin Children(v) => g[a] = h[a]
  BY DEF AfterMove
<1>2. UNION {Children(h[a]) : a \in Children(v)} \subseteq S
  BY MoveKeepsTrees
<1>3. Closed(h, S)
  BY <1>1, <1>2 DEF Closed
<1> QED
  BY <1>1, <1>3 DEF Reached

-----------------------------------------------------------------------------
(* The steps of the destructor.                                            *)

(* Which element of two sequences one of the sequence of both is.          *)
LEMMA JoinedElements ==
  ASSUME NEW s, Sequence(s), NEW t, Sequence(t)
  PROVE  /\ Sequence(s \o t) /\ Len(s \o t) = Len(s) + Len(t) /\ Len(s) \in Nat /\ Len(t) \in Nat
         /\ \A i \in 1..Len(s) : (s \o t)[i] = s[i]
         /\ \A i \in 1..Len(s \o t) :
              i \in 1..Len(s) \/ (i - Len(s) \in 1..Len(t) /\ (s \o t)[i] = t[i - Len(s)])
         /\ \A i \in 1..Len(t) : Len(s) + i \in 1..Len(s \o t) /\ (s \o t)[Len(s) + i] = t[i]
<1>1. PICK S : s \in Seq(S)
  BY DEF Sequence
<1>2. PICK T : t \in Seq(T)
  BY DEF Sequence
<1> DEFINE U == S \cup T
           both == s \o t
<1>3. s \in Seq(U) /\ t \in Seq(U)
  <2>1. Seq(S) \subseteq Seq(S \cup T) /\ Seq(T) \subseteq Seq(S \cup T)
    BY SeqMonotonic
  <2> QED
    BY <1>1, <1>2, <2>1
<1> HIDE DEF U
<1>4. /\ both \in Seq(U) /\ Len(both) = Len(s) + Len(t) /\ Len(s) \in Nat /\ Len(t) \in Nat
      /\ \A i \in 1..(Len(s) + Len(t)) : both[i] = IF i <= Len(s) THEN s[i] ELSE t[i - Len(s)]
  BY <1>3, ConcatProperties, LenProperties
<1> HIDE DEF both
<1>5. \A i \in 1..Len(s) : i \in 1..(Len(s) + Len(t)) /\ both[i] = s[i]
  BY <1>4
<1>6. \A i \in 1..(Len(s) + Len(t)) :
        i \in 1..Len(s) \/ (i - Len(s) \in 1..Len(t) /\ both[i] = t[i - Len(s)])
  BY <1>4
<1>7. \A i \in 1..Len(t) : Len(s) + i \in 1..(Len(s) + Len(t)) /\ both[Len(s) + i] = t[i]
  <2> SUFFICES ASSUME NEW i \in 1..Len(t)
               PROVE  Len(s) + i \in 1..(Len(s) + Len(t)) /\ both[Len(s) + i] = t[i]
    OBVIOUS
  <2>1. Len(s) + i \in 1..(Len(s) + Len(t)) /\ ~(Len(s) + i <= Len(s)) /\ Len(s) + i - Len(s) = i
    BY <1>4
  <2> QED
    BY <1>4, <2>1
<1> QED
  BY <1>4, <1>5, <1>6, <1>7 DEF Sequence, both

(* Nothing is held in no item.                                             *)
LEMMA NothingHeld ==
  ASSUME NEW h, NEW n, Trees(h, n)
  PROVE  Children(NoItem) = {} /\ Detached(h, NoItem) /\ NoItem[1] # "array"
BY DEF NoItem, Children, isContainer, Detached, Trees, Cells

LEMMA DestroyBegins ==
  ASSUME Forest(heap, fresh, {}), stack = <<>>, current_item = NoItem, destroy
  PROVE  Destroying(heap', fresh', stack', current_item')
<1> DEFINE v == heap[ROOT]
<1>1. Trees(heap, fresh) /\ Children(v) \subseteq DOMAIN heap \ {ROOT} /\ (v[1] = "array" => Vector(v[2]))
  BY DEF Forest, Trees, Cells, Vectors
<1>2. PICK cells : Vector(cells) /\ Range(cells) = Children(v) /\ values(v) = Contents(heap, cells)
  BY <1>1, ValuesAre DEF Trees
<1>3. stack' = Contents(heap, cells) /\ heap' = AfterMove(heap, v) /\ fresh' = fresh /\ current_item' = NoItem
  BY <1>2 DEF destroy, movedFrom, AfterMove
<1>4. v = heap[ROOT]
  OBVIOUS
<1> HIDE DEF v
<1>5. Moving(heap, fresh, v, cells)
  BY <1>1, <1>2 DEF Moving
<1>6. /\ Trees(heap', fresh) /\ Emptied(heap', Children(v)) /\ heap'[ROOT] = v
      /\ Sequence(stack') /\ Apart(stack') /\ Len(stack') = Len(cells)
      /\ \A i \in 1..Len(cells) : Detached(heap', stack'[i])
  BY <1>3, <1>4, <1>5, MoveKeepsTrees
<1>7. Reached(heap', HeldCells(stack'))
  <2>1. Reached(heap, {})
    BY DEF Forest
  <2>2. {} \subseteq HeldCells(stack') /\ HeldCells(Contents(heap, cells)) \subseteq HeldCells(stack')
    BY <1>3
  <2> QED
    BY <1>3, <1>5, <2>1, <2>2, MoveReaches
<1>8. Children(NoItem) = {} /\ Detached(heap', NoItem)
  BY <1>6, NothingHeld
<1>9. HeldCells(stack') \cup Children(NoItem) = HeldCells(stack')
  BY <1>8
<1> QED
  BY <1>3, <1>6, <1>7, <1>8, <1>9 DEF Destroying, Emptied

LEMMA TakeItemKeeps ==
  ASSUME Destroying(heap, fresh, stack, current_item), takeItem
  PROVE  Destroying(heap', fresh', stack', current_item')
<1> DEFINE L == Len(stack)
           v == stack[L]
           rest == SubSeq(stack, 1, L - 1)
<1>1. /\ current_item = NoItem /\ stack # <<>> /\ current_item' = v
      /\ stack' = rest \o values(v) /\ heap' = movedFrom(v) /\ fresh' = fresh
  BY DEF takeItem, elementsToMove
<1>2. PICK T : stack \in Seq(T)
  BY DEF Destroying, Sequence
<1>3. L \in Nat /\ L # 0 /\ L \in 1..L /\ \A i \in 1..(L - 1) : i \in 1..L /\ i # L
  BY <1>1, <1>2, EmptySeq, LenProperties
<1>4. /\ Sequence(rest) /\ Len(rest) = L - 1
      /\ \A i \in 1..(L - 1) : rest[i] = stack[i]
  BY <1>1, <1>2, Shorter DEF Sequence
<1> HIDE DEF rest
<1>5. /\ Trees(heap, fresh) /\ Detached(heap, v) /\ Children(v) \subseteq DOMAIN heap \ {ROOT}
      /\ v[1] = "array" => Vector(v[2])
  BY <1>3 DEF Destroying, Detached
<1>6. PICK cells : Vector(cells) /\ Range(cells) = Children(v) /\ values(v) = Contents(heap, cells)
  BY <1>5, ValuesAre DEF Trees
<1> DEFINE moved == Contents(heap, cells)
           k == Len(cells)
           held == rest \o moved
<1>7. \A i \in 1..(L - 1) : Detached(heap, rest[i]) /\ Children(rest[i]) \cap Children(v) = {}
  BY <1>3, <1>4 DEF Destroying, Apart
<1>8. Apart(rest)
  BY <1>3, <1>4 DEF Destroying, Apart
<1>9. HeldCells(stack) \cup Children(current_item) = HeldCells(rest) \cup Children(v)
  <2>1. 1..L = 1..(L - 1) \cup {L}
    BY <1>3
  <2>2. Children(current_item) = {}
    BY <1>1 DEF NoItem, Children, isContainer
  <2>3. HeldCells(stack) = UNION {Children(stack[i]) : i \in 1..L}
    BY DEF HeldCells
  <2>4. HeldCells(rest) = UNION {Children(stack[i]) : i \in 1..(L - 1)}
    BY <1>4 DEF HeldCells
  <2> HIDE DEF L
  <2> QED
    BY <2>1, <2>2, <2>3, <2>4
<1> HIDE DEF v, L
<1>10. Moving(heap, fresh, v, cells) /\ heap' = AfterMove(heap, v)
  BY <1>1, <1>5, <1>6 DEF Moving, movedFrom, AfterMove
<1> HIDE DEF moved, k
<1>11. /\ Trees(heap', fresh) /\ Emptied(heap', Children(v)) /\ heap'[ROOT] = heap[ROOT]
       /\ Sequence(moved) /\ Len(moved) = k /\ k \in Nat /\ Apart(moved)
       /\ \A i \in 1..k : Detached(heap', moved[i])
       /\ \A w : Detached(heap, w) => Detached(heap', w)
       /\ \A w : Detached(heap, w) => \A i \in 1..k : Children(moved[i]) \cap Children(w) = {}
  BY <1>10, MoveKeepsTrees DEF moved, k
<1>12. /\ Sequence(held) /\ Len(held) = L - 1 + k
       /\ \A i \in 1..(L - 1) : held[i] = rest[i]
       /\ \A i \in 1..(L - 1 + k) :
            i \in 1..(L - 1) \/ (i - (L - 1) \in 1..k /\ held[i] = moved[i - (L - 1)])
       /\ \A i \in 1..k : L - 1 + i \in 1..(L - 1 + k) /\ held[L - 1 + i] = moved[i]
  <2>1. /\ Sequence(held) /\ Len(held) = Len(rest) + Len(moved)
        /\ \A i \in 1..Len(rest) : held[i] = rest[i]
        /\ \A i \in 1..Len(held) :
             i \in 1..Len(rest) \/ (i - Len(rest) \in 1..Len(moved) /\ held[i] = moved[i - Len(rest)])
        /\ \A i \in 1..Len(moved) : Len(rest) + i \in 1..Len(held) /\ held[Len(rest) + i] = moved[i]
    <3>1. Sequence(rest) /\ Sequence(moved)
      BY <1>4, <1>11
    <3> QED
      BY ONLY <3>1, JoinedElements
  <2> HIDE DEF held
  <2>2. Len(rest) = L - 1 /\ Len(moved) = k /\ Len(held) = L - 1 + k
    BY <1>4, <1>11, <2>1
  <2> QED
    BY <2>1, <2>2
<1> HIDE DEF held
<1>13. ASSUME NEW i \in 1..(L - 1 + k)
       PROVE  Detached(heap', held[i]) /\ Children(held[i]) \cap Children(v) = {}
  <2>1. CASE i \in 1..(L - 1)
    BY <1>7, <1>11, <1>12, <2>1
  <2>2. CASE i \notin 1..(L - 1)
    BY <1>5, <1>11, <1>12, <2>2
  <2> QED
    BY <2>1, <2>2
<1>14. Apart(held)
  <2> SUFFICES ASSUME NEW i \in 1..(L - 1 + k), NEW j \in 1..(L - 1 + k), i # j
               PROVE  Children(held[i]) \cap Children(held[j]) = {}
    BY <1>12 DEF Apart
  <2>1. CASE i \in 1..(L - 1) /\ j \in 1..(L - 1)
    BY <1>4, <1>8, <1>12, <2>1 DEF Apart
  <2>2. CASE i \in 1..(L - 1) /\ j \notin 1..(L - 1)
    BY <1>7, <1>11, <1>12, <2>2
  <2>3. CASE i \notin 1..(L - 1) /\ j \in 1..(L - 1)
    BY <1>7, <1>11, <1>12, <2>3
  <2>4. CASE i \notin 1..(L - 1) /\ j \notin 1..(L - 1)
    <3> DEFINE p == i - (L - 1)
               q == j - (L - 1)
    <3>1. p \in 1..k /\ q \in 1..k /\ held[i] = moved[p] /\ held[j] = moved[q]
      BY <1>12, <2>4
    <3>2. p # q
      BY <1>3, <1>11
    <3> HIDE DEF p, q
    <3> QED
      BY <1>11, <3>1, <3>2 DEF Apart
  <2> QED
    BY <2>1, <2>2, <2>3, <2>4
<1>15. Reached(heap', HeldCells(held) \cup Children(v))
  <2>1. HeldCells(moved) \subseteq HeldCells(held)
    BY <1>11, <1>12 DEF HeldCells
  <2>2. HeldCells(rest) \subseteq HeldCells(held)
    <3>1. \A i \in 1..(L - 1) : i \in 1..(L - 1 + k)
      BY <1>3, <1>11
    <3> QED
      BY <1>4, <1>12, <3>1 DEF HeldCells
  <2> DEFINE earlier == HeldCells(rest) \cup Children(v)
             later == HeldCells(held) \cup Children(v)
  <2>3. Reached(heap, earlier)
    BY <1>9 DEF Destroying
  <2>4. earlier \subseteq later /\ HeldCells(Contents(heap, cells)) \subseteq later
    BY <2>1, <2>2 DEF moved
  <2> HIDE DEF earlier, later
  <2>5. Reached(heap', later)
    BY <1>10, <2>3, <2>4, MoveReaches
  <2> QED
    BY <2>5 DEF later
<1>16. Emptied(heap', Children(heap'[ROOT]))
  <2>1. \A a \in DOMAIN heap : heap'[a] = Null \/ heap'[a] = heap[a]
    BY <1>10 DEF AfterMove
  <2>2. Children(heap[ROOT]) \subseteq DOMAIN heap
    BY <1>5 DEF Trees, Cells
  <2> QED
    BY <1>11, <2>1, <2>2 DEF Destroying, Emptied
<1>17. stack' = held /\ current_item' = v /\ fresh' = fresh
  BY <1>1, <1>6 DEF held, moved
<1> QED
  BY <1>5, <1>11, <1>12, <1>13, <1>14, <1>15, <1>16, <1>17 DEF Destroying

LEMMA DestroyItemKeeps ==
  ASSUME Destroying(heap, fresh, stack, current_item), destroyItem
  PROVE  Destroying(heap', fresh', stack', current_item')
<1> DEFINE B == Children(current_item)
<1>1. current_item' = NoItem /\ stack' = stack /\ fresh' = fresh /\ heap' = [a \in DOMAIN heap \ B |-> heap[a]]
  BY DEF destroyItem, Freeing, Restrict
<1>2. /\ Trees(heap, fresh) /\ Sequence(stack) /\ Apart(stack)
      /\ \A i \in 1..Len(stack) : Detached(heap, stack[i]) /\ Children(stack[i]) \cap B = {}
      /\ Detached(heap, current_item) /\ Emptied(heap, B) /\ Emptied(heap, Children(heap[ROOT]))
      /\ Reached(heap, HeldCells(stack) \cup B)
  BY DEF Destroying
<1>3. B \subseteq DOMAIN heap \ {ROOT} /\ \A a \in DOMAIN heap : B \cap Children(heap[a]) = {}
  BY <1>2 DEF Detached
<1> HIDE DEF B
<1>4. DOMAIN heap' = DOMAIN heap \ B /\ \A a \in DOMAIN heap \ B : heap'[a] = heap[a]
  BY <1>1
<1>5. ROOT \in DOMAIN heap' /\ heap'[ROOT] = heap[ROOT]
  BY <1>2, <1>3, <1>4 DEF Trees, Cells
<1>6. Trees(heap', fresh)
  <2>1. Cells(heap', fresh)
    BY <1>2, <1>3, <1>4, <1>5 DEF Trees, Cells
  <2>2. SingleParent(heap')
    BY <1>2, <1>4 DEF Trees, SingleParent
  <2>3. Vectors(heap')
    BY <1>2, <1>4 DEF Trees, Vectors
  <2> QED
    BY <2>1, <2>2, <2>3 DEF Trees
<1>7. \A i \in 1..Len(stack) : Detached(heap', stack[i])
  BY <1>2, <1>4 DEF Detached
<1>8. Emptied(heap', Children(heap'[ROOT]))
  BY <1>2, <1>3, <1>4, <1>5 DEF Emptied, Trees, Cells
<1>9. Reached(heap', HeldCells(stack))
  <2> SUFFICES ASSUME NEW S \in SUBSET DOMAIN heap', ROOT \in S, HeldCells(stack) \subseteq S, Closed(heap', S)
               PROVE  S = DOMAIN heap'
    BY DEF Reached
  <2> DEFINE T == S \cup B
  <2>1. T \in SUBSET DOMAIN heap /\ ROOT \in T /\ HeldCells(stack) \cup B \subseteq T
    BY <1>3, <1>4
  <2>2. Closed(heap, T)
    <3>1. \A a \in B : Children(heap[a]) = {}
      BY <1>2 DEF Emptied, Null, Children, isContainer
    <3> QED
      BY <1>4, <3>1 DEF Closed
  <2> HIDE DEF T
  <2>3. T = DOMAIN heap
    BY <1>2, <2>1, <2>2 DEF Reached
  <2> QED
    BY <1>4, <2>3 DEF T
<1>10. Children(NoItem) = {} /\ Detached(heap', NoItem)
  BY <1>6, NothingHeld
<1>11. HeldCells(stack) \cup Children(NoItem) = HeldCells(stack)
  BY <1>10
<1> QED
  BY <1>1, <1>2, <1>6, <1>7, <1>8, <1>9, <1>10, <1>11 DEF Destroying, Emptied

(* When the root goes, it alone is left, and it is null.                   *)
LEMMA DestroyRootEnds ==
  ASSUME Destroying(heap, fresh, stack, current_item), destroyRoot
  PROVE  /\ heap' = [a \in {ROOT} |-> Null] /\ Forest(heap', fresh', {})
         /\ fresh' = fresh /\ stack' = <<>> /\ current_item' = NoItem
<1>1. /\ current_item = NoItem /\ stack = <<>> /\ UNCHANGED <<fresh, stack, current_item>>
      /\ heap' = [[a \in DOMAIN heap \ Children(heap[ROOT]) |-> heap[a]] EXCEPT ![ROOT] = Null]
  BY DEF destroyRoot, Freeing, Restrict
<1>2. Cells(heap, fresh) /\ Emptied(heap, Children(heap[ROOT])) /\ Reached(heap, HeldCells(stack) \cup Children(current_item))
  BY DEF Destroying, Trees
<1>3. HeldCells(stack) \cup Children(current_item) = {}
  BY <1>1, EmptySeq DEF HeldCells, NoItem, Children, isContainer
<1> DEFINE S == {ROOT} \cup Children(heap[ROOT])
<1>4. S \in SUBSET DOMAIN heap /\ ROOT \in S /\ {} \subseteq S
  BY <1>2 DEF Cells
<1>5. Closed(heap, S)
  BY <1>2 DEF Closed, Emptied, Null, Children, isContainer
<1> HIDE DEF S
<1>6. S = DOMAIN heap
  BY <1>2, <1>3, <1>4, <1>5 DEF Reached
<1>7. DOMAIN heap \ Children(heap[ROOT]) = {ROOT}
  BY <1>2, <1>6 DEF S, Cells
<1>8. heap' = [a \in {ROOT} |-> Null]
  BY <1>1, <1>7
<1>9. fresh \in Nat /\ fresh >= 1
  BY <1>2 DEF Cells, ROOT
<1>10. Forest(heap', fresh, {})
  BY <1>8, <1>9, NullForest
<1> QED
  BY <1>1, <1>8, <1>10

-----------------------------------------------------------------------------
(* The session: a value is built, written, taken apart, and built again.   *)

Whole == Forest(heap, fresh, {}) /\ stack = <<>> /\ current_item = NoItem

SessionInv ==
  /\ stage \in {"parse", "dump", "destroy", "reparse", "clear", "done"}
  /\ stage \notin {"destroy", "clear"} => Whole
  /\ stage \in {"parse", "reparse"} => StacksInv /\ HeapInv
  /\ stage \in {"destroy", "clear"} => Destroying(heap, fresh, stack, current_item)
  /\ stage = "done" => heap[ROOT] = Null
  /\ stage = "parse" => out = <<>>
  /\ stage = "dump" \/ (stage = "destroy" /\ out # <<>>) => ref_stack = <<>>

(* A value that a program made: an object with one string.                 *)
LEMMA MadeForest ==
  ASSUME NEW string, NEW n, n = 2, NEW h, h = made(string)
  PROVE  Forest(h, n, {})
<1> DEFINE members == [k \in {<<107>>} |-> 1]
<1>1. Range(members) = {1}
  BY DEF Range
<1> HIDE DEF members
<1>2. DOMAIN h = {0, 1} /\ h[0] = <<"object", members>> /\ h[1] = <<"string", string>>
  BY DEF made, ROOT, members
<1>3. h[0][1] = "object" /\ h[0][2] = members /\ h[1][1] = "string"
  BY <1>2
<1>4. Children(h[0]) = {1} /\ Children(h[1]) = {}
  BY <1>1, <1>3 DEF Children, isContainer
<1>5. Cells(h, n)
  BY <1>2, <1>4 DEF Cells, ROOT
<1>6. SingleParent(h)
  BY <1>2, <1>4 DEF SingleParent
<1>7. Vectors(h)
  BY <1>2, <1>3 DEF Vectors
<1>8. Reached(h, {})
  <2> SUFFICES ASSUME NEW S \in SUBSET DOMAIN h, ROOT \in S, Closed(h, S)
               PROVE  S = DOMAIN h
    BY DEF Reached
  <2>1. 0 \in S
    BY DEF ROOT
  <2>2. 1 \in S
    BY <1>4, <2>1 DEF Closed
  <2> QED
    BY <1>2, <2>1, <2>2
<1> QED
  BY <1>5, <1>6, <1>7, <1>8 DEF Forest

LEMMA SessionInitially ==
  ASSUME SessionInit
  PROVE  SessionInv
<1>1. CASE parsing
  <2>1. PICK from \in Sources : ParserInit(from)
    BY <1>1 DEF parsing
  <2>2. HeapInv /\ StacksInv
    BY <2>1, HeapInitially, StacksInitially
  <2>3. stage = "parse" /\ out = <<>>
    BY <1>1 DEF parsing, DumpInit
  <2>4. stack = <<>> /\ current_item = NoItem
    BY <2>1 DEF ParserInit, DomInit
  <2> QED
    BY <2>2, <2>3, <2>4 DEF SessionInv, Whole, HeapInv
<1>2. CASE writing
  <2>1. PICK string \in Strings : DomInit(made(string))
    BY <1>2 DEF writing
  <2>2. /\ heap = made(string) /\ fresh = Cardinality(DOMAIN heap)
        /\ ref_stack = <<>> /\ stack = <<>> /\ current_item = NoItem
    BY <2>1 DEF DomInit
  <2>3. fresh = 2
    <3>1. DOMAIN heap = {0} \cup {1}
      BY <2>2 DEF made, ROOT
    <3>2. IsFiniteSet({0}) /\ Cardinality({0}) = 1
      BY FS_Singleton
    <3>3. Cardinality({0} \cup {1}) = 2
      BY <3>2, FS_AddElement
    <3> QED
      BY <2>2, <3>1, <3>3
  <2>4. Forest(heap, fresh, {})
    BY <2>2, <2>3, MadeForest
  <2> QED
    BY <1>2, <2>2, <2>4 DEF writing, SessionInv, Whole
<1> QED
  BY <1>1, <1>2 DEF SessionInit

LEMMA SessionStep ==
  ASSUME SessionInv, SessionNext
  PROVE  SessionInv'
<1>1. CASE parse
  <2>1. stage \in {"parse", "reparse"} /\ Parse /\ UNCHANGED <<destroyVars, dumpVars, stage, tree>>
    BY <1>1 DEF parse, onParser
  <2>2. StacksInv' /\ HeapInv'
    BY <2>1, StacksStep, HeapStep DEF SessionInv
  <2> QED
    BY <2>1, <2>2 DEF SessionInv, Whole, HeapInv, destroyVars, dumpVars
<1>2. CASE beginDump
  <2>1. stage = "parse" /\ pc = "accepted" /\ stage' = "dump" /\ UNCHANGED <<parserVars, destroyVars, out>>
    BY <1>2 DEF beginDump
  <2>2. StacksInv /\ states = <<>> /\ pc \notin Opening /\ pc # "failed"
    BY <2>1 DEF SessionInv, HeapInv, Opening
  <2>3. ref_stack = <<>>
    <3>1. PICK T : ref_stack \in Seq(T)
      BY <2>2 DEF StacksInv, Sequence
    <3>2. Len(states) = 0
      BY <2>2
    <3>3. Len(ref_stack) = 0
      BY <2>2, <3>2 DEF StacksInv, Ahead
    <3> QED
      BY <3>1, <3>3, EmptySeq
  <2> QED
    BY <2>1, <2>3 DEF SessionInv, Whole, destroyVars, parserVars, buildVars
<1>3. CASE dump
  BY <1>3 DEF dump, SessionInv, Whole, destroyVars, parserVars, buildVars
<1>4. CASE beginDestroy
  <2>1. /\ stage \in {"parse", "dump", "reparse"} /\ stage' \in {"destroy", "clear"}
        /\ destroy /\ UNCHANGED dumpVars
        /\ stage \in {"parse", "dump"} => stage' = "destroy"
        /\ stage = "reparse" => stage' = "clear"
    BY <1>4 DEF beginDestroy
  <2>2. Destroying(heap', fresh', stack', current_item')
    BY <2>1, DestroyBegins DEF SessionInv, Whole
  <2>3. out' = out /\ ref_stack' = ref_stack
    BY <2>1 DEF destroy, dumpVars
  <2> QED
    BY <2>1, <2>2, <2>3 DEF SessionInv
<1>5. CASE destroyStep
  <2>1. /\ stage \in {"destroy", "clear"} /\ stage' = stage /\ out' = out
        /\ takeItem \/ destroyItem
    BY <1>5 DEF destroyStep, dumpVars
  <2>2. Destroying(heap', fresh', stack', current_item')
    BY <2>1, TakeItemKeeps, DestroyItemKeeps DEF SessionInv
  <2>3. ref_stack' = ref_stack
    BY <2>1 DEF takeItem, destroyItem
  <2> QED
    BY <2>1, <2>2, <2>3 DEF SessionInv
<1>6. CASE endSession
  <2>1. stage \in {"destroy", "clear"} /\ destroyRoot /\ UNCHANGED <<dumpVars, tree>>
    BY <1>6 DEF endSession
  <2>2. /\ heap' = [a \in {ROOT} |-> Null] /\ Forest(heap', fresh', {})
        /\ stack' = <<>> /\ current_item' = NoItem
    BY <2>1, DestroyRootEnds DEF SessionInv
  <2>3. ref_stack' = ref_stack /\ out' = out
    BY <2>1 DEF destroyRoot, dumpVars
  <2>4. heap'[ROOT] = Null
    BY <2>2
  <2>5. CASE stage = "destroy" /\ out # <<>> /\ parseAgain
    <3>1. ref_stack' = <<>> /\ stage' = "reparse" /\ pc' = "value" /\ states' = <<>>
      BY <2>3, <2>5 DEF SessionInv, parseAgain
    <3>2. StacksInv'
      BY <3>1, EmptySeq DEF StacksInv, Sequence, Ahead, Opening
    <3>3. HeapInv'
      <4>1. Path(heap', ref_stack')
        BY <3>1, EmptySeq DEF Path
      <4>2. KindsAgree' /\ ~KeyRead'
        BY <3>1, EmptySeq DEF KindsAgree, KeyRead, Top
      <4> QED
        BY <2>2, <3>1, <4>1, <4>2 DEF HeapInv
    <3> QED
      BY <2>2, <3>1, <3>2, <3>3 DEF SessionInv, Whole
  <2>6. CASE stage' = "done"
    BY <2>2, <2>4, <2>6 DEF SessionInv, Whole
  <2> QED
    BY <1>6, <2>5, <2>6 DEF endSession
<1>7. CASE finished
  BY <1>7 DEF finished, sessionVars, parserVars, buildVars, destroyVars, dumpVars, SessionInv, Whole,
     StacksInv, HeapInv, Ahead, Top, KindsAgree, KeyRead, container
<1> QED
  BY <1>1, <1>2, <1>3, <1>4, <1>5, <1>6, <1>7 DEF SessionNext

LEMMA SessionAlways ==
  SessionSpec => []SessionInv
<1>1. SessionInit => SessionInv
  BY SessionInitially
<1>2. SessionInv /\ [SessionNext]_sessionVars => SessionInv'
  <2>1. SessionInv /\ UNCHANGED sessionVars => SessionInv'
    BY DEF sessionVars, parserVars, buildVars, destroyVars, dumpVars, SessionInv, Whole,
       StacksInv, HeapInv, Ahead, Top, KindsAgree, KeyRead, container
  <2> QED
    BY <2>1, SessionStep
<1> QED
  BY <1>1, <1>2, PTL DEF SessionSpec

(* The pointers that the DOM parser keeps into the value stay valid while  *)
(* vectors move and elements are overwritten under them: in any session,   *)
(* whatever the text.                                                      *)
THEOREM PointersStayValid ==
  SessionSpec => []ReferencesLive
<1>1. ASSUME SessionInv PROVE ReferencesLive
  <2> SUFFICES ASSUME onParser PROVE ReferencesLive
    BY DEF ReferencesLive
  <2>1. pc # "failed" /\ StacksInv /\ HeapInv
    BY <1>1 DEF onParser, SessionInv
  <2>2. Path(heap, ref_stack) /\ (KeyRead => object_element \in Children(heap[container]))
    BY <2>1 DEF HeapInv
  <2>3. ref_stack \in Seq(Nat) /\ Len(ref_stack) \in Nat /\ DOMAIN ref_stack = 1..Len(ref_stack)
    BY <2>2, LenProperties DEF Path
  <2>4. ASSUME NEW i \in DOMAIN ref_stack
        PROVE  /\ ref_stack[i] \in DOMAIN heap /\ isContainer(heap[ref_stack[i]])
               /\ IF i = 1 THEN ref_stack[i] = ROOT ELSE ref_stack[i] \in Children(heap[ref_stack[i - 1]])
    <3>1. i \in 1..Len(ref_stack) /\ ref_stack # <<>>
      BY <2>3, EmptySeq
    <3>2. i # 1 => i - 1 \in 1..(Len(ref_stack) - 1) /\ i - 1 + 1 = i
      BY <2>3
    <3> QED
      BY <2>2, <3>1, <3>2 DEF Path
  <2>5. \/ pc \in {"firstColon", "nextColon"}
        \/ pc = "value" /\ states # <<>> /\ states[Len(states)] = "object"
        => object_element \in Children(heap[container])
    BY <2>2 DEF KeyRead, Top
  <2> QED
    BY <2>4, <2>5 DEF ReferencesLive
<1> QED
  BY <1>1, SessionAlways, PTL

(* However the value was built, its destructor takes it apart without      *)
(* recursion.                                                              *)
THEOREM DestructionIsFlat ==
  SessionSpec => []FlatDestruction
<1>1. SessionInv => FlatDestruction
  BY DEF SessionInv, FlatDestruction, Destroying, Emptied
<1> QED
  BY <1>1, SessionAlways, PTL

(* No cell of a value is lost, in building it, when a text is refused, or  *)
(* in taking it apart.                                                     *)
THEOREM NoCellIsLost ==
  SessionSpec => []NothingLeaks
<1>1. ASSUME SessionInv PROVE NothingLeaks
  <2>1. stage = "done" => heap[ROOT] = Null
    BY <1>1 DEF SessionInv
  <2>2. ASSUME stage \notin {"destroy", "clear"}
        PROVE  DOMAIN heap = {ROOT} \cup Below(ROOT)
    <3>1. Forest(heap, fresh, {})
      BY <1>1, <2>2 DEF SessionInv, Whole
    <3>2. IsBelow(heap, ROOT, Below(ROOT))
      BY <3>1, BelowIs DEF Forest, Cells
    <3> QED
      BY <3>1, <3>2, ForestBelow
  <2> QED
    BY <2>1, <2>2 DEF NothingLeaks
<1> QED
  BY <1>1, SessionAlways, PTL
=============================================================================
