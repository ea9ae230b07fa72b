---------------------------- MODULE MijobsProofs ----------------------------
(***************************************************************************)
(* Proofs about Mijobs: what the normalizers make current (SourceFiles),   *)
(* and what holds of the commands (Reporting) holds of them in mijobs.     *)
(*                                                                         *)
(* Layers and sums are folds, recursive functions on sets.  That such a    *)
(* function exists, and what it computes, is proved by induction on the    *)
(* size of the sets: a set of numbers with 0 and the successor of each of  *)
(* its numbers holds all numbers (Counting), as < is well-founded.         *)
(***************************************************************************)
EXTENDS Mijobs, ReportProofs, SequenceTheorems

(* Induction on a set of numbers, which the provers can instantiate. *)
LEMMA Counting ==
  ASSUME NEW S, 0 \in S, \A n \in Nat : n \in S => n + 1 \in S
  PROVE  Nat \subseteq S
<1>1. SUFFICES ASSUME Nat \ S # {} PROVE FALSE
  OBVIOUS
<1>2. PICK m \in Nat \ S : \A k \in Nat \ S : <<k, m>> \notin OpToRel(<, Nat)
  <2>1. IsWellFoundedOn(OpToRel(<, Nat), Nat)
    BY NatLessThanWellFounded
  <2>2. Nat \ S \subseteq Nat
    OBVIOUS
  <2> QED
    BY <1>1, <2>1, <2>2, WFMin
<1>3. m # 0 /\ m - 1 \in Nat /\ m - 1 \notin S
  BY SMT
<1>4. <<m - 1, m>> \in OpToRel(<, Nat)
  BY <1>3, SMT DEF OpToRel
<1> QED
  BY <1>2, <1>3, <1>4

----------------------------------------------------------------------------
(* Layers. *)

LEMMA GreatestIs ==
  ASSUME NEW s \in SUBSET Int, NEW m \in s, \A k \in s : k <= m
  PROVE  Max(s) = m
<1>1. \A k \in s : (\A j \in s : k >= j) => k = m
  BY SMT
<1>2. \E k \in s : \A j \in s : k >= j
  OBVIOUS
<1> QED
  BY <1>1, <1>2 DEF Max

Unfolds(it, n, layers, known) ==
  it = [s \in SUBSET (1 .. n) |->
          IF s = {} THEN known ELSE Over(layers[Max(s)], it[s \ {Max(s)}])]

LEMMA UnfoldingExists ==
  ASSUME NEW layers, NEW known, NEW N \in Nat
  PROVE  \E it : Unfolds(it, N, layers, known)
<1> DEFINE F(m, x) == Over(layers[m], x)
           U(it, n) == it = [s \in SUBSET (1 .. n) |->
                               IF s = {} THEN known ELSE F(Max(s), it[s \ {Max(s)}])]
           S == {n \in Nat : \E it : U(it, n)}
<1> HIDE DEF F
<1>1. 0 \in S
  <2>1. SUBSET (1 .. 0) = {{}}
    OBVIOUS
  <2>2. U([s \in SUBSET (1 .. 0) |-> known], 0)
    BY <2>1
  <2> QED
    BY <2>2
<1>2. ASSUME NEW n \in Nat, n \in S
      PROVE  n + 1 \in S
  <2>1. PICK it : U(it, n)
    BY <1>2
  <2> DEFINE new == [s \in SUBSET (1 .. n + 1) |->
                       IF n + 1 \in s THEN F(n + 1, it[s \ {n + 1}]) ELSE it[s]]
  <2> HIDE DEF U
  <2>2. ASSUME NEW s \in SUBSET (1 .. n + 1)
        PROVE  new[s] = IF s = {} THEN known ELSE F(Max(s), new[s \ {Max(s)}])
    <3>1. CASE s = {}
      <4>1. it[{}] = known
        BY <2>1 DEF U
      <4> QED
        BY <3>1, <4>1
    <3>2. CASE n + 1 \in s
      <4>1. Max(s) = n + 1
        <5>1. \A k \in s : k <= n + 1
          BY SMT
        <5>2. s \in SUBSET Int
          BY SMT
        <5> QED
          BY <3>2, <5>1, <5>2, GreatestIs
      <4>2. s \ {n + 1} \in SUBSET (1 .. n + 1) /\ n + 1 \notin s \ {n + 1}
        OBVIOUS
      <4>3. new[s \ {n + 1}] = it[s \ {n + 1}]
        BY <4>2
      <4>4. new[s] = F(n + 1, it[s \ {n + 1}])
        BY <3>2
      <4> QED
        BY <3>2, <4>1, <4>3, <4>4, Zenon
    <3>3. CASE s # {} /\ n + 1 \notin s
      <4>1. s \in SUBSET (1 .. n)
        BY <3>3, SMT
      <4>2. it[s] = F(Max(s), it[s \ {Max(s)}])
        BY <2>1, <3>3, <4>1 DEF U
      <4>3. s \ {Max(s)} \in SUBSET (1 .. n + 1) /\ n + 1 \notin s \ {Max(s)}
        BY <3>3
      <4>4. new[s] = it[s] /\ new[s \ {Max(s)}] = it[s \ {Max(s)}]
        BY <3>3, <4>3
      <4> QED
        BY <3>3, <4>2, <4>4, Zenon
    <3> QED
      BY <3>1, <3>2, <3>3
  <2>3. U(new, n + 1)
    <3> DEFINE that == [s \in SUBSET (1 .. n + 1) |->
                          IF s = {} THEN known ELSE F(Max(s), new[s \ {Max(s)}])]
    <3> HIDE DEF F
    <3>1. \A s \in SUBSET (1 .. n + 1) : new[s] = that[s]
      <4> HIDE DEF new
      <4> QED
        BY <2>2
    <3>2. new = that
      BY <3>1, Zenon
    <3> QED
      BY <3>2 DEF U
  <2> QED
    BY <2>3
<1> HIDE DEF U, S
<1>3. N \in S
  BY <1>1, <1>2, Counting
<1> QED
  BY <1>3 DEF S, U, F, Unfolds

LEMMA LayeredUnfolds ==
  ASSUME NEW layers, NEW known, NEW N \in Nat, DOMAIN layers = 1 .. N
  PROVE  \E it : Unfolds(it, N, layers, known) /\ Layered(layers, known) = it[1 .. N]
<1> DEFINE Chosen == CHOOSE it : it = [s \in SUBSET (DOMAIN layers) |->
                        IF s = {} THEN known ELSE Over(layers[Max(s)], it[s \ {Max(s)}])]
<1>1. Layered(layers, known) = Chosen[DOMAIN layers]
  BY DEF Layered, FoldLeft, MapThenFoldSet
<1>3. \E it : Unfolds(it, N, layers, known)
  BY UnfoldingExists
<1>4. Unfolds(Chosen, N, layers, known)
  BY <1>3, Zenon DEF Unfolds
<1> QED
  BY <1>1, <1>4, Zenon

(* Layer upon layer. *)
LEMMA LayerByLayer ==
  ASSUME NEW layers, NEW known, NEW N \in Nat, DOMAIN layers = 1 .. N
  PROVE  \E f : /\ f[0] = known
                /\ \A n \in 1 .. N : f[n] = Over(layers[n], f[n - 1])
                /\ Layered(layers, known) = f[N]
<1>1. PICK it : Unfolds(it, N, layers, known) /\ Layered(layers, known) = it[1 .. N]
  BY LayeredUnfolds
<1> DEFINE f == [n \in 0 .. N |-> it[1 .. n]]
<1>2. f[0] = known
  <2>1. 1 .. 0 = {}
    OBVIOUS
  <2> QED
    BY <1>1, <2>1 DEF Unfolds
<1>3. ASSUME NEW n \in 1 .. N
      PROVE  f[n] = Over(layers[n], f[n - 1])
  <2>1. n \in Nat /\ n <= N /\ n # 0 /\ n \in 0 .. N /\ n - 1 \in 0 .. N
    BY SMT
  <2>2. 1 .. n \in SUBSET (1 .. N) /\ n \in 1 .. n
    BY <2>1, SMT
  <2>3. Max(1 .. n) = n
    <3>1. \A k \in 1 .. n : k <= n
      OBVIOUS
    <3>2. 1 .. n \in SUBSET Int
      BY SMT
    <3> QED
      BY <2>2, <3>1, <3>2, GreatestIs
  <2>4. (1 .. n) \ {n} = 1 .. n - 1
    BY <2>1, SMT
  <2>5. it[1 .. n] = Over(layers[Max(1 .. n)], it[(1 .. n) \ {Max(1 .. n)}])
    BY <1>1, <2>2, Zenon DEF Unfolds
  <2>6. f[n] = it[1 .. n] /\ f[n - 1] = it[1 .. n - 1]
    BY <2>1, Zenon
  <2> QED
    BY <2>3, <2>4, <2>5, <2>6, Zenon
<1>4. f[N] = it[1 .. N]
  OBVIOUS
<1> HIDE DEF f
<1> QED
  BY <1>1, <1>2, <1>3, <1>4

LEMMA OverProperties ==
  ASSUME NEW f, NEW g
  PROVE  /\ DOMAIN Over(f, g) = DOMAIN f \cup DOMAIN g
         /\ \A x \in DOMAIN f : Over(f, g)[x] = f[x]
         /\ \A x \in DOMAIN g \ DOMAIN f : Over(f, g)[x] = g[x]
  BY DEF Over

LEMMA OverAssociates ==
  ASSUME NEW f, NEW g, NEW h
  PROVE  Over(f, Over(g, h)) = Over(Over(f, g), h)
  BY DEF Over

(* The last layer that says anything of c counts. *)
SaysLast(f, layers, N) ==
  /\ \A c : c \in DOMAIN f <=> \E n \in 1 .. N : c \in DOMAIN layers[n]
  /\ \A n \in 1 .. N : \A c \in DOMAIN layers[n] :
       (\A m \in 1 .. N : c \in DOMAIN layers[m] => m <= n) => f[c] = layers[n][c]

LEMMA LayeredSays ==
  ASSUME NEW layers, NEW N \in Nat, DOMAIN layers = 1 .. N, NEW known, DOMAIN known = {}
  PROVE  SaysLast(Layered(layers, known), layers, N)
<1>1. PICK f : /\ f[0] = known
               /\ \A n \in 1 .. N : f[n] = Over(layers[n], f[n - 1])
               /\ Layered(layers, known) = f[N]
  BY LayerByLayer
<1> DEFINE Says(m, c) == \E n \in 1 .. m : c \in DOMAIN layers[n]
           Latest(n, c) == \A m \in 1 .. N : c \in DOMAIN layers[m] => m <= n
           Good(m) == /\ \A c : c \in DOMAIN f[m] <=> Says(m, c)
                      /\ \A n \in 1 .. m : \A c \in DOMAIN layers[n] :
                           Latest(n, c) => f[m][c] = layers[n][c]
           S == {m \in Nat : m <= N => Good(m)}
<1>2. 0 \in S
  BY <1>1
<1>3. ASSUME NEW m \in Nat, m \in S
      PROVE  m + 1 \in S
  <2>1. SUFFICES ASSUME m + 1 <= N PROVE Good(m + 1)
    BY DEF S
  <2>2. Good(m)
    BY <1>3, <2>1
  <2>3. m + 1 \in 1 .. N /\ (m + 1) - 1 = m /\ \A n : n \in 1 .. m + 1 <=> n \in 1 .. m \/ n = m + 1
    BY <2>1
  <2>4. f[m + 1] = Over(layers[m + 1], f[m])
    BY <1>1, <2>3
  <2>5. /\ DOMAIN f[m + 1] = DOMAIN layers[m + 1] \cup DOMAIN f[m]
        /\ \A c \in DOMAIN layers[m + 1] : f[m + 1][c] = layers[m + 1][c]
        /\ \A c \in DOMAIN f[m] \ DOMAIN layers[m + 1] : f[m + 1][c] = f[m][c]
    BY <2>4 DEF Over
  <2>6. ASSUME NEW c
        PROVE  c \in DOMAIN f[m + 1] <=> Says(m + 1, c)
    BY <2>2, <2>3, <2>5
  <2>7. ASSUME NEW n \in 1 .. m + 1, NEW c \in DOMAIN layers[n], Latest(n, c)
        PROVE  f[m + 1][c] = layers[n][c]
    <3>1. CASE n = m + 1
      BY <2>5, <3>1
    <3>2. CASE n \in 1 .. m
      <4>1. c \notin DOMAIN layers[m + 1]
        BY <2>3, <2>7, <3>2, SMT
      <4>2. c \in DOMAIN f[m] /\ f[m][c] = layers[n][c]
        BY <2>2, <2>7, <3>2
      <4> QED
        BY <2>5, <4>1, <4>2
    <3> QED
      BY <2>3, <3>1, <3>2
  <2> QED
    BY <2>6, <2>7
<1> HIDE DEF S
<1>4. N \in S
  BY <1>2, <1>3, Counting
<1> QED
  BY <1>1, <1>4 DEF S, SaysLast

----------------------------------------------------------------------------
(* Sums. *)

Pick(s) == CHOOSE x \in s : TRUE

(* it takes one element after the other from a subset of S. *)
Accumulates(it, D, f) ==
  it = [s \in D |-> IF s = {} THEN 0 ELSE f[Pick(s)] + it[s \ {Pick(s)}]]

LEMMA PickIn == ASSUME NEW s, s # {} PROVE Pick(s) \in s
  BY DEF Pick

LEMMA AddingExists ==
  ASSUME NEW S, IsFiniteSet(S), NEW f
  PROVE  \E it : Accumulates(it, SUBSET S, f)
<1> DEFINE F(x, y) == f[x] + y
           D(n) == {s \in SUBSET S : Cardinality(s) <= n}
           U(it, n) == it = [s \in D(n) |-> IF s = {} THEN 0 ELSE F(Pick(s), it[s \ {Pick(s)}])]
           T == {n \in Nat : \E it : U(it, n)}
<1>0. \A s \in SUBSET S : IsFiniteSet(s) /\ Cardinality(s) \in Nat
  BY FS_Subset, FS_CardinalityType
<1>a. \A s \in SUBSET S : \A x \in s : Cardinality(s \ {x}) = Cardinality(s) - 1
  BY <1>0, FS_RemoveElement
<1> HIDE DEF F
<1>1. 0 \in T
  <2>1. D(0) = {{}}
    <3>1. \A s \in SUBSET S : Cardinality(s) <= 0 <=> s = {}
      BY <1>0, FS_EmptySet
    <3> QED
      BY <3>1
  <2>2. U([s \in D(0) |-> 0], 0)
    BY <2>1
  <2> QED
    BY <2>2
<1>2. ASSUME NEW n \in Nat, n \in T
      PROVE  n + 1 \in T
  <2>1. PICK it : U(it, n)
    BY <1>2
  <2> DEFINE new == [s \in D(n + 1) |-> IF s \in D(n) THEN it[s] ELSE F(Pick(s), it[s \ {Pick(s)}])]
             that == [s \in D(n + 1) |-> IF s = {} THEN 0 ELSE F(Pick(s), new[s \ {Pick(s)}])]
  <2>2. ASSUME NEW s \in D(n + 1)
        PROVE  new[s] = that[s]
    <3>1. CASE s = {}
      <4>1. {} \in D(n)
        BY FS_EmptySet
      <4>2. it[{}] = 0
        BY <2>1, <4>1
      <4> QED
        BY <3>1, <4>1, <4>2
    <3>2. CASE s # {}
      <4>1. Pick(s) \in s
        BY <3>2, PickIn
      <4>2. s \ {Pick(s)} \in D(n) /\ s \ {Pick(s)} \in D(n + 1)
        BY <1>0, <1>a, <4>1
      <4>3. new[s \ {Pick(s)}] = it[s \ {Pick(s)}]
        BY <4>2
      <4>4. CASE s \in D(n)
        <5>1. it[s] = F(Pick(s), it[s \ {Pick(s)}])
          BY <2>1, <3>2, <4>4
        <5>2. new[s] = it[s]
          BY <4>4
        <5> QED
          BY <3>2, <4>3, <5>1, <5>2
      <4>5. CASE s \notin D(n)
        BY <3>2, <4>3, <4>5
      <4> QED
        BY <4>4, <4>5
    <3> QED
      BY <3>1, <3>2
  <2>3. new = that
    <3>1. DOMAIN new = D(n + 1) /\ DOMAIN that = D(n + 1)
      OBVIOUS
    <3> QED
      BY <2>2, Zenon
  <2>4. U(new, n + 1)
    BY <2>3, Zenon
  <2>5. n + 1 \in Nat
    OBVIOUS
  <2> HIDE DEF U, new
  <2> QED
    BY <2>4, <2>5
<1>3. Cardinality(S) \in T
  <2> HIDE DEF T
  <2> QED
    BY <1>0, <1>1, <1>2, Counting
<1>4. D(Cardinality(S)) = SUBSET S
  <2>1. \A s \in SUBSET S : Cardinality(s) <= Cardinality(S)
    BY FS_Subset
  <2> QED
    BY <2>1
<1>5. PICK it : U(it, Cardinality(S))
  BY <1>3
<1> QED
  BY <1>4, <1>5 DEF Accumulates, F

IntOn(f, S) == \A x \in S : f[x] \in Int

AnyOrder(it, f, S) ==
  /\ it[{}] = 0
  /\ \A s \in SUBSET S : it[s] \in Int /\ \A x \in s : it[s] = f[x] + it[s \ {x}]

(* Whatever the order: one element and the rest. *)
LEMMA AddsAnyOrder ==
  ASSUME NEW S, IsFiniteSet(S), NEW f, IntOn(f, S), NEW it, Accumulates(it, SUBSET S, f)
  PROVE  AnyOrder(it, f, S)
<1> DEFINE C(s) == Cardinality(s)
           Good(s) == it[s] \in Int /\ \A x \in s : it[s] = f[x] + it[s \ {x}]
           T == {n \in Nat : \A s \in SUBSET S : C(s) <= n => Good(s)}
<1> USE DEF IntOn
<1>0. \A s \in SUBSET S : IsFiniteSet(s) /\ C(s) \in Nat
  BY FS_Subset, FS_CardinalityType
<1>a. \A s \in SUBSET S : \A x \in s : C(s \ {x}) = C(s) - 1
  BY <1>0, FS_RemoveElement
<1>b. \A s \in SUBSET S : C(s) = 0 <=> s = {}
  BY <1>0, FS_EmptySet
<1>1. it[{}] = 0
  BY DEF Accumulates
<1>2. \A s \in SUBSET S : s # {} => Pick(s) \in s /\ it[s] = f[Pick(s)] + it[s \ {Pick(s)}]
  BY PickIn DEF Accumulates
<1>c. Good({})
  BY <1>1
<1> HIDE DEF Good, C
<1>3. 0 \in T
  <2>1. \A s \in SUBSET S : C(s) <= 0 => s = {}
    BY <1>0, <1>b
  <2> QED
    BY <1>c, <2>1
<1>4. ASSUME NEW n \in Nat, n \in T
      PROVE  n + 1 \in T
  <2>2. \A r \in SUBSET S : C(r) <= n => Good(r)
    BY <1>4
  <2>1. SUFFICES ASSUME NEW s \in SUBSET S, C(s) = n + 1
                 PROVE  Good(s)
    <3>1. \A s \in SUBSET S : C(s) <= n + 1 => C(s) <= n \/ C(s) = n + 1
      BY <1>0
    <3>2. \A s \in SUBSET S : C(s) <= n + 1 => Good(s)
      BY <2>2, <3>1
    <3> QED
      BY <3>2
  <2>3. s # {}
    BY <1>b, <2>1
  <2> DEFINE p == Pick(s)
  <2>4. p \in s /\ it[s] = f[p] + it[s \ {p}] /\ f[p] \in Int
    BY <1>2, <2>3
  <2> HIDE DEF p
  <2>8. \A x \in s : s \ {x} \in SUBSET S /\ C(s \ {x}) = n
    BY <1>a, <2>1
  <2>9. \A x \in s : Good(s \ {x})
    BY <2>2, <2>8
  <2>6. it[s] \in Int
    <3>1. it[s \ {p}] \in Int
      BY <2>4, <2>9 DEF Good
    <3> QED
      BY <2>4, <3>1
  <2>7. ASSUME NEW x \in s
        PROVE  it[s] = f[x] + it[s \ {x}]
    <3>1. CASE x = p
      BY <2>4, <3>1
    <3>2. CASE x # p
      <4> DEFINE r == (s \ {p}) \ {x}
      <4>2. it[s \ {p}] = f[x] + it[r]
        BY <2>4, <2>9, <3>2 DEF Good
      <4>3. r = (s \ {x}) \ {p}
        OBVIOUS
      <4>4. it[s \ {x}] = f[p] + it[r]
        BY <2>4, <2>9, <3>2, <4>3 DEF Good
      <4>5. it[r] \in Int
        <5>1. x \in s \ {p} /\ s \ {p} \in SUBSET S /\ r \in SUBSET S
          BY <3>2
        <5>2. C(r) = n - 1
          <6> DEFINE q == s \ {p}
          <6>1. q \in SUBSET S /\ x \in q /\ r = q \ {x}
            BY <5>1
          <6>2. C(q) = n
            BY <2>4, <2>8
          <6> HIDE DEF q, r
          <6>3. C(q \ {x}) = C(q) - 1
            BY <1>a, <6>1
          <6> QED
            BY <6>1, <6>2, <6>3
        <5>3. C(r) <= n
          BY <5>2
        <5> HIDE DEF r
        <5>4. Good(r)
          BY <2>2, <5>1, <5>3
        <5> QED
          BY <5>4 DEF Good
      <4>6. f[x] \in Int
        OBVIOUS
      <4> HIDE DEF r
      <4> QED
        BY <2>4, <4>2, <4>4, <4>5, <4>6
    <3> QED
      BY <3>1, <3>2
  <2> QED
    BY <2>6, <2>7 DEF Good
<1>6. \A s \in SUBSET S : C(s) <= C(S)
  BY FS_Subset DEF C
<1>5. C(S) \in T
  <2>1. C(S) \in Nat
    BY <1>0
  <2> HIDE DEF T
  <2> QED
    BY <1>3, <1>4, <2>1, Counting
<1>7. \A s \in SUBSET S : Good(s)
  BY <1>5, <1>6
<1> QED
  BY <1>1, <1>7 DEF Good, AnyOrder

Alike(f, g, S) == \A x \in S : f[x] = g[x]

(* Two that add up the same agree. *)
LEMMA AddsAgree ==
  ASSUME NEW S, IsFiniteSet(S), NEW f, NEW g, NEW it, NEW at, NEW B, NEW C,
         Accumulates(it, SUBSET B, f), Accumulates(at, SUBSET C, g), S \subseteq B, S \subseteq C, Alike(f, g, S)
  PROVE  it[S] = at[S]
<1>0. \A s \in SUBSET S : IsFiniteSet(s) /\ Cardinality(s) \in Nat
  BY FS_Subset, FS_CardinalityType
<1>a. \A s \in SUBSET S : \A x \in s : Cardinality(s \ {x}) = Cardinality(s) - 1
  BY <1>0, FS_RemoveElement
<1>2. \A s \in SUBSET S : s # {} => /\ Pick(s) \in s
                                  /\ it[s] = f[Pick(s)] + it[s \ {Pick(s)}]
                                  /\ at[s] = g[Pick(s)] + at[s \ {Pick(s)}]
  BY PickIn DEF Accumulates
<1>1. it[{}] = 0 /\ at[{}] = 0
  BY DEF Accumulates
<1> DEFINE T == {n \in Nat : \A s \in SUBSET S : Cardinality(s) <= n => it[s] = at[s]}
<1>3. 0 \in T
  <2>1. \A s \in SUBSET S : Cardinality(s) <= 0 => s = {}
    BY <1>0, FS_EmptySet
  <2> QED
    BY <1>1, <2>1
<1>4. ASSUME NEW n \in Nat, n \in T
      PROVE  n + 1 \in T
  <2>1. SUFFICES ASSUME NEW s \in SUBSET S, Cardinality(s) = n + 1
                 PROVE  it[s] = at[s]
    <3>1. \A s \in SUBSET S : Cardinality(s) <= n + 1 => Cardinality(s) <= n \/ Cardinality(s) = n + 1
      BY <1>0
    <3> QED
      BY <1>4, <3>1
  <2>3. s # {}
    <3>1. Cardinality({}) = 0
      BY FS_EmptySet
    <3>2. n + 1 # 0
      OBVIOUS
    <3> QED
      BY <2>1, <3>1, <3>2, Zenon
  <2> DEFINE p == Pick(s)
  <2>4. p \in s /\ it[s] = f[p] + it[s \ {p}] /\ at[s] = g[p] + at[s \ {p}] /\ f[p] = g[p]
    BY <1>2, <2>3 DEF Alike
  <2> HIDE DEF p
  <2>5. it[s \ {p}] = at[s \ {p}]
    BY <1>0, <1>a, <1>4, <2>1, <2>4
  <2> QED
    BY <2>4, <2>5
<1>5. Cardinality(S) \in T
  <2> HIDE DEF T
  <2> QED
    BY <1>0, <1>3, <1>4, Counting
<1> QED
  BY <1>0, <1>5

LEMMA SumIs ==
  ASSUME NEW f, IsFiniteSet(DOMAIN f)
  PROVE  \E it : Accumulates(it, SUBSET (DOMAIN f), f) /\ SumOf(f) = it[DOMAIN f]
<1> DEFINE Chosen == CHOOSE it : it = [s \in SUBSET (DOMAIN f) |->
                       IF s = {} THEN 0 ELSE f[CHOOSE x \in s : TRUE] + it[s \ {CHOOSE x \in s : TRUE}]]
<1>1. SumOf(f) = Chosen[DOMAIN f]
  BY DEF SumOf, MapThenSumSet, MapThenFoldSet
<1>2. \E it : Accumulates(it, SUBSET (DOMAIN f), f)
  BY AddingExists
<1>3. Accumulates(Chosen, SUBSET (DOMAIN f), f)
  BY <1>2, Zenon DEF Accumulates, Pick
<1> QED
  BY <1>1, <1>3, Zenon

Less(f, x) == [k \in DOMAIN f \ {x} |-> f[k]]

Summable(f) == IsFiniteSet(DOMAIN f) /\ \A k \in DOMAIN f : f[k] \in Int

LEMMA SumEmpty == ASSUME NEW f, DOMAIN f = {} PROVE SumOf(f) = 0
<1>1. IsFiniteSet(DOMAIN f)
  BY FS_EmptySet
<1>2. PICK it : Accumulates(it, SUBSET (DOMAIN f), f) /\ SumOf(f) = it[DOMAIN f]
  BY <1>1, SumIs
<1> QED
  BY <1>2 DEF Accumulates

LEMMA SumLess ==
  ASSUME NEW f, Summable(f)
  PROVE  /\ SumOf(f) \in Int
         /\ \A x \in DOMAIN f : /\ Summable(Less(f, x)) /\ SumOf(f) = f[x] + SumOf(Less(f, x))
                              /\ Cardinality(DOMAIN f) \in Nat
                              /\ Cardinality(DOMAIN Less(f, x)) = Cardinality(DOMAIN f) - 1
<1>1. PICK it : Accumulates(it, SUBSET (DOMAIN f), f) /\ SumOf(f) = it[DOMAIN f]
  BY SumIs DEF Summable
<1>2. /\ it[DOMAIN f] \in Int
      /\ \A x \in DOMAIN f : it[DOMAIN f] = f[x] + it[DOMAIN f \ {x}]
  <2> DEFINE S == DOMAIN f
  <2>1. IsFiniteSet(S) /\ IntOn(f, S) /\ Accumulates(it, SUBSET S, f)
    BY <1>1 DEF Summable, IntOn
  <2> HIDE DEF S
  <2>2. AnyOrder(it, f, S)
    BY <2>1, AddsAnyOrder
  <2>3. S \in SUBSET S
    OBVIOUS
  <2> QED
    BY <2>2, <2>3 DEF S, AnyOrder
<1>3. ASSUME NEW x \in DOMAIN f
      PROVE  /\ Summable(Less(f, x)) /\ SumOf(Less(f, x)) = it[DOMAIN f \ {x}]
             /\ Cardinality(DOMAIN f) \in Nat
             /\ Cardinality(DOMAIN Less(f, x)) = Cardinality(DOMAIN f) - 1
  <2>1. DOMAIN Less(f, x) = DOMAIN f \ {x} /\ \A k \in DOMAIN f \ {x} : Less(f, x)[k] = f[k]
    BY DEF Less
  <2>2. IsFiniteSet(DOMAIN Less(f, x)) /\ Cardinality(DOMAIN Less(f, x)) = Cardinality(DOMAIN f) - 1
    BY <2>1, FS_RemoveElement DEF Summable
  <2>3. PICK at : Accumulates(at, SUBSET (DOMAIN Less(f, x)), Less(f, x)) /\ SumOf(Less(f, x)) = at[DOMAIN Less(f, x)]
    BY <2>2, SumIs
  <2> DEFINE S == DOMAIN f \ {x}
             B == DOMAIN f
             g == Less(f, x)
  <2>4. IsFiniteSet(S) /\ S \subseteq B /\ S \subseteq S /\ Alike(f, g, S)
    BY <2>1, <2>2 DEF Alike
  <2>5. Accumulates(it, SUBSET B, f) /\ Accumulates(at, SUBSET S, g)
    BY <1>1, <2>1, <2>3
  <2> HIDE DEF S, B, g
  <2>6. it[S] = at[S]
    BY <2>4, <2>5, AddsAgree
  <2>7. Summable(Less(f, x))
    BY <2>1, <2>2 DEF Summable
  <2> QED
    BY <2>1, <2>2, <2>3, <2>6, <2>7, FS_CardinalityType DEF S, Summable
<1> QED
  BY <1>1, <1>2, <1>3

(* Counted along a bijection. *)
LEMMA SumAlong ==
  ASSUME NEW f, Summable(f), NEW g, NEW h, DOMAIN h = DOMAIN g,
         \A a \in DOMAIN g : h[a] \in DOMAIN f /\ g[a] = f[h[a]],
         \A b \in DOMAIN f : \E a \in DOMAIN g : h[a] = b,
         \A a, b \in DOMAIN g : h[a] = h[b] => a = b,
         IsFiniteSet(DOMAIN g)
  PROVE  SumOf(g) = SumOf(f)
<1> DEFINE Along(x, y, z) ==
             /\ Summable(x) /\ Summable(y)
             /\ \A a \in DOMAIN y : z[a] \in DOMAIN x /\ y[a] = x[z[a]]
             /\ \A b \in DOMAIN x : \E a \in DOMAIN y : z[a] = b
             /\ \A a, b \in DOMAIN y : z[a] = z[b] => a = b
           T == {n \in Nat : \A x, y, z : Along(x, y, z) /\ Cardinality(DOMAIN y) = n => SumOf(y) = SumOf(x)}
<1>1. 0 \in T
  <2>1. SUFFICES ASSUME NEW x, NEW y, NEW z, Along(x, y, z), Cardinality(DOMAIN y) = 0
                 PROVE  SumOf(y) = SumOf(x)
    OBVIOUS
  <2>2. DOMAIN y = {}
    BY <2>1, FS_EmptySet DEF Summable
  <2>3. DOMAIN x = {}
    BY <2>1, <2>2
  <2> QED
    BY <2>2, <2>3, SumEmpty
<1>2. ASSUME NEW n \in Nat, n \in T
      PROVE  n + 1 \in T
  <2>1. SUFFICES ASSUME NEW x, NEW y, NEW z, Along(x, y, z), Cardinality(DOMAIN y) = n + 1
                 PROVE  SumOf(y) = SumOf(x)
    BY DEF T
  <2>2. PICK a : a \in DOMAIN y
    <3>1. DOMAIN y # {}
      BY <2>1, FS_EmptySet
    <3> QED
      BY <3>1
  <2>3. /\ Summable(Less(y, a)) /\ SumOf(y) = y[a] + SumOf(Less(y, a))
        /\ Cardinality(DOMAIN Less(y, a)) = n
    BY <2>1, <2>2, SumLess
  <2>4. z[a] \in DOMAIN x /\ y[a] = x[z[a]] /\ Summable(Less(x, z[a])) /\ SumOf(x) = x[z[a]] + SumOf(Less(x, z[a]))
    BY <2>1, <2>2, SumLess
  <2>5. /\ DOMAIN Less(y, a) = DOMAIN y \ {a} /\ \A k \in DOMAIN y \ {a} : Less(y, a)[k] = y[k]
        /\ DOMAIN Less(x, z[a]) = DOMAIN x \ {z[a]}
        /\ \A k \in DOMAIN x \ {z[a]} : Less(x, z[a])[k] = x[k]
    BY DEF Less
  <2>6. Along(Less(x, z[a]), Less(y, a), z)
    BY <2>1, <2>2, <2>3, <2>4, <2>5
  <2>7. SumOf(Less(y, a)) = SumOf(Less(x, z[a]))
    <3> HIDE DEF Along
    <3> QED
      BY <1>2, <2>3, <2>6
  <2> QED
    BY <2>3, <2>4, <2>7
<1>3. Along(f, g, h)
  BY DEF Summable
<1>4. Cardinality(DOMAIN g) \in T
  <2>1. Cardinality(DOMAIN g) \in Nat
    BY FS_CardinalityType
  <2> HIDE DEF T
  <2> QED
    BY <1>1, <1>2, <2>1, Counting
<1> HIDE DEF Along
<1> QED
  BY <1>3, <1>4

(* Induction on the subsets of a finite set. *)
LEMMA Gathering ==
  ASSUME NEW S, IsFiniteSet(S), NEW G, {} \in G,
         \A s \in SUBSET S : \A x \in S \ s : s \in G => s \cup {x} \in G
  PROVE  S \in G
<1> DEFINE T == {n \in Nat : \A s \in SUBSET S : Cardinality(s) = n => s \in G}
<1>1. \A s \in SUBSET S : IsFiniteSet(s) /\ Cardinality(s) \in Nat
  BY FS_Subset, FS_CardinalityType
<1>2. \A s \in SUBSET S : Cardinality(s) = 0 => s = {}
  BY <1>1, FS_EmptySet
<1>3. 0 \in T
  BY <1>2
<1>4. ASSUME NEW n \in Nat, n \in T
      PROVE  n + 1 \in T
  <2>1. SUFFICES ASSUME NEW s \in SUBSET S, Cardinality(s) = n + 1
                 PROVE  s \in G
    OBVIOUS
  <2>2. PICK x : x \in s
    <3>1. Cardinality({}) = 0 /\ n + 1 # 0
      BY FS_EmptySet
    <3> QED
      BY <2>1, <3>1, Zenon
  <2>3. Cardinality(s \ {x}) = Cardinality(s) - 1
    BY <1>1, <2>2, FS_RemoveElement
  <2> DEFINE r == s \ {x}
  <2>4. r \in SUBSET S /\ x \in S \ r /\ s = r \cup {x}
    BY <2>2
  <2>5. Cardinality(r) = n
    BY <2>1, <2>3
  <2> HIDE DEF r
  <2>6. r \in G
    BY <1>4, <2>4, <2>5
  <2> QED
    BY <2>4, <2>6
<1> HIDE DEF T
<1>5. Cardinality(S) \in T
  BY <1>1, <1>3, <1>4, Counting
<1> QED
  BY <1>5 DEF T

SumOn(f, s) == SumOf([k \in s |-> f[k]])

LEMMA SumOnStep ==
  ASSUME NEW S, IsFiniteSet(S), NEW f, IntOn(f, S)
  PROVE  /\ SumOn(f, {}) = 0
         /\ \A s \in SUBSET S : SumOn(f, s) \in Int
         /\ \A s \in SUBSET S : \A x \in S \ s : SumOn(f, s \cup {x}) = f[x] + SumOn(f, s)
<1>1. SumOn(f, {}) = 0
  BY SumEmpty DEF SumOn
<1>2. ASSUME NEW s \in SUBSET S
      PROVE  Summable([k \in s |-> f[k]])
  BY FS_Subset DEF Summable, IntOn
<1>3. ASSUME NEW s \in SUBSET S, NEW x \in S \ s
      PROVE  SumOn(f, s \cup {x}) = f[x] + SumOn(f, s)
  <2> DEFINE t == [k \in s \cup {x} |-> f[k]]
             r == [k \in s |-> f[k]]
  <2>1. Summable(t)
    BY <1>2
  <2>2. x \in DOMAIN t /\ t[x] = f[x]
    OBVIOUS
  <2>3. Less(t, x) = r
    BY DEF Less
  <2> HIDE DEF t, r
  <2>4. SumOf(t) = t[x] + SumOf(Less(t, x))
    BY <2>1, <2>2, SumLess
  <2> QED
    BY <2>2, <2>3, <2>4 DEF SumOn, t, r
<1>4. ASSUME NEW s \in SUBSET S
      PROVE  SumOn(f, s) \in Int
  <2> DEFINE t == [k \in s |-> f[k]]
  <2>1. Summable(t)
    BY <1>2
  <2> HIDE DEF t
  <2>2. SumOf(t) \in Int
    BY <2>1, SumLess
  <2> QED
    BY <2>2 DEF SumOn, t
<1> QED
  BY <1>1, <1>3, <1>4

(* What is apart is added. *)
LEMMA SumApart ==
  ASSUME NEW S, IsFiniteSet(S), NEW f, IntOn(f, S), NEW a \in SUBSET S
  PROVE  SumOn(f, S) = SumOn(f, a) + SumOn(f, S \ a)
<1> DEFINE G == {s \in SUBSET (S \ a) : SumOn(f, a \cup s) = SumOn(f, a) + SumOn(f, s)}
           rest == S \ a
<1>1. /\ SumOn(f, {}) = 0
      /\ \A s \in SUBSET S : SumOn(f, s) \in Int
      /\ \A s \in SUBSET S : \A x \in S \ s : SumOn(f, s \cup {x}) = f[x] + SumOn(f, s)
  BY SumOnStep
<1>2. {} \in G
  <2>1. a \cup {} = a
    OBVIOUS
  <2> QED
    BY <1>1, <2>1
<1>3. ASSUME NEW s \in SUBSET rest, NEW x \in rest \ s, s \in G
      PROVE  s \cup {x} \in G
  <2>1. SumOn(f, s \cup {x}) = f[x] + SumOn(f, s)
    BY <1>1
  <2>2. SumOn(f, (a \cup s) \cup {x}) = f[x] + SumOn(f, a \cup s)
    BY <1>1
  <2>3. (a \cup s) \cup {x} = a \cup (s \cup {x})
    OBVIOUS
  <2>4. SumOn(f, a) \in Int /\ SumOn(f, s) \in Int /\ f[x] \in Int
    BY <1>1 DEF IntOn
  <2>5. SumOn(f, a \cup s) = SumOn(f, a) + SumOn(f, s)
    BY <1>3
  <2>6. SumOn(f, a \cup (s \cup {x})) = SumOn(f, a) + SumOn(f, s \cup {x})
    <3> DEFINE p == SumOn(f, a)
               q == SumOn(f, s)
    <3>1. SumOn(f, a \cup (s \cup {x})) = f[x] + (p + q)
      BY <2>2, <2>3, <2>5, Zenon
    <3> HIDE DEF p, q
    <3>2. f[x] + (p + q) = p + (f[x] + q)
      BY <2>4 DEF p, q
    <3> QED
      BY <2>1, <3>1, <3>2, Zenon DEF p, q
  <2> QED
    BY <2>6
<1>4. IsFiniteSet(rest)
  BY FS_Subset
<1> HIDE DEF G, rest
<1>5. rest \in G
  BY <1>2, <1>3, <1>4, Gathering
<1>6. a \cup rest = S
  BY DEF rest
<1> QED
  BY <1>5, <1>6 DEF G, rest

(* Parts that have nothing in common, each added up, and then all of them. *)
InParts(part, s) == UNION {part[k] : k \in s}

LEMMA SumByParts ==
  ASSUME NEW S, IsFiniteSet(S), NEW f, IntOn(f, S), NEW K, IsFiniteSet(K), NEW part,
         \A k \in K : part[k] \subseteq S,
         \A k, l \in K : k # l => part[k] \cap part[l] = {},
         NEW g, \A k \in K : g[k] = SumOn(f, part[k])
  PROVE  SumOn(g, K) = SumOn(f, InParts(part, K))
<1> DEFINE G == {s \in SUBSET K : SumOn(g, s) = SumOn(f, InParts(part, s))}
<1>1. SumOn(f, {}) = 0 /\ \A s \in SUBSET S : SumOn(f, s) \in Int
  BY SumOnStep
<1>2. IntOn(g, K)
  BY <1>1 DEF IntOn
<1>3. /\ SumOn(g, {}) = 0
      /\ \A s \in SUBSET K : \A x \in K \ s : SumOn(g, s \cup {x}) = g[x] + SumOn(g, s)
  BY <1>2, SumOnStep
<1>4. {} \in G
  <2>1. InParts(part, {}) = {}
    BY DEF InParts
  <2> QED
    BY <1>1, <1>3, <2>1
<1>5. ASSUME NEW s \in SUBSET K, NEW x \in K \ s, s \in G
      PROVE  s \cup {x} \in G
  <2> DEFINE before == InParts(part, s)
             all == InParts(part, s \cup {x})
  <2>1. all \subseteq S /\ before \in SUBSET all /\ all \ before = part[x]
    BY DEF InParts
  <2> HIDE DEF before, all
  <2>2. IsFiniteSet(all) /\ IntOn(f, all)
    BY <2>1, FS_Subset DEF IntOn
  <2>3. SumOn(f, all) = SumOn(f, before) + SumOn(f, part[x])
    <3>1. SumOn(f, all) = SumOn(f, before) + SumOn(f, all \ before)
      BY <2>1, <2>2, SumApart
    <3> QED
      BY <2>1, <3>1, Zenon
  <2>4. SumOn(f, before) \in Int /\ SumOn(f, part[x]) \in Int
    <3>1. before \in SUBSET S /\ part[x] \in SUBSET S
      BY <2>1
    <3> QED
      BY <1>1, <3>1
  <2>5. SumOn(g, s) = SumOn(f, before) /\ SumOn(g, s \cup {x}) = g[x] + SumOn(g, s)
        /\ g[x] = SumOn(f, part[x])
    BY <1>3, <1>5 DEF before
  <2> DEFINE p == SumOn(f, before)
             q == SumOn(f, part[x])
  <2>6. SumOn(g, s \cup {x}) = q + p /\ SumOn(f, all) = p + q
    BY <2>3, <2>5, Zenon
  <2>7. p \in Int /\ q \in Int
    BY <2>4
  <2> HIDE DEF p, q
  <2>8. SumOn(g, s \cup {x}) = SumOn(f, all)
    BY <2>6, <2>7
  <2> QED
    BY <2>8 DEF all
<1> HIDE DEF G
<1>6. K \in G
  BY <1>4, <1>5, Gathering
<1> QED
  BY <1>6 DEF G

(* A difference of multiples. *)
LEMMA SumLinear ==
  ASSUME NEW S, IsFiniteSet(S), NEW f, IntOn(f, S), NEW g, IntOn(g, S), NEW a \in Int, NEW b \in Int,
         NEW h, \A x \in S : h[x] = a * f[x] - b * g[x]
  PROVE  SumOn(h, S) = a * SumOn(f, S) - b * SumOn(g, S)
<1> DEFINE G == {s \in SUBSET S : SumOn(h, s) = a * SumOn(f, s) - b * SumOn(g, s)}
<1>0. IntOn(h, S)
  BY DEF IntOn
<1>1. /\ SumOn(f, {}) = 0 /\ SumOn(g, {}) = 0 /\ SumOn(h, {}) = 0
      /\ \A s \in SUBSET S : SumOn(f, s) \in Int /\ SumOn(g, s) \in Int
      /\ \A s \in SUBSET S : \A x \in S \ s :
           /\ SumOn(f, s \cup {x}) = f[x] + SumOn(f, s)
           /\ SumOn(g, s \cup {x}) = g[x] + SumOn(g, s)
           /\ SumOn(h, s \cup {x}) = h[x] + SumOn(h, s)
  BY <1>0, SumOnStep
<1>2. {} \in G
  BY <1>1
<1>3. ASSUME NEW s \in SUBSET S, NEW x \in S \ s, s \in G
      PROVE  s \cup {x} \in G
  <2> DEFINE p == SumOn(f, s)
             q == SumOn(g, s)
  <2>1. /\ SumOn(f, s \cup {x}) = f[x] + p /\ SumOn(g, s \cup {x}) = g[x] + q
        /\ SumOn(h, s \cup {x}) = (a * f[x] - b * g[x]) + (a * p - b * q)
    BY <1>1, <1>3
  <2>2. p \in Int /\ q \in Int /\ f[x] \in Int /\ g[x] \in Int
    BY <1>1 DEF IntOn
  <2> HIDE DEF p, q
  <2>3. (a * f[x] - b * g[x]) + (a * p - b * q) = a * (f[x] + p) - b * (g[x] + q)
    BY <2>2
  <2> QED
    BY <2>1, <2>3
<1> HIDE DEF G
<1>4. S \in G
  BY <1>2, <1>3, Gathering
<1> QED
  BY <1>4 DEF G

NatOn(f, S) == \A x \in S : f[x] \in Nat

LEMMA SumNatural ==
  ASSUME NEW S, IsFiniteSet(S), NEW f, NatOn(f, S)
  PROVE  SumOn(f, S) \in Nat /\ \A x \in S : f[x] <= SumOn(f, S)
<1> DEFINE G == {s \in SUBSET S : SumOn(f, s) \in Nat /\ \A x \in s : f[x] <= SumOn(f, s)}
<1>1. /\ SumOn(f, {}) = 0
      /\ \A s \in SUBSET S : \A x \in S \ s : SumOn(f, s \cup {x}) = f[x] + SumOn(f, s)
  <2>1. IntOn(f, S)
    BY DEF IntOn, NatOn
  <2> QED
    BY <2>1, SumOnStep
<1>2. {} \in G
  BY <1>1
<1>3. ASSUME NEW s \in SUBSET S, NEW x \in S \ s, s \in G
      PROVE  s \cup {x} \in G
  <2>1. SumOn(f, s \cup {x}) = f[x] + SumOn(f, s) /\ f[x] \in Nat /\ SumOn(f, s) \in Nat
    BY <1>1, <1>3 DEF NatOn
  <2>2. \A y \in s : f[y] \in Nat /\ f[y] <= SumOn(f, s)
    BY <1>3 DEF NatOn
  <2> QED
    BY <2>1, <2>2
<1> HIDE DEF G
<1>4. S \in G
  BY <1>2, <1>3, Gathering
<1> QED
  BY <1>4 DEF G

(* A sum of nothing has a part on either side. *)
LEMMA SumBalanced ==
  ASSUME NEW S, IsFiniteSet(S), S # {}, NEW f, IntOn(f, S), SumOn(f, S) = 0
  PROVE  (\E x \in S : f[x] <= 0) /\ (\E x \in S : f[x] >= 0)
<1>1. PICK y : y \in S
  OBVIOUS
<1>2. ASSUME \A x \in S : f[x] > 0
      PROVE  FALSE
  <2>1. NatOn(f, S)
    BY <1>2 DEF NatOn, IntOn
  <2>2. f[y] <= 0
    BY <1>1, <2>1, SumNatural
  <2> QED
    BY <1>1, <1>2, <2>2 DEF IntOn
<1>3. ASSUME \A x \in S : f[x] < 0
      PROVE  FALSE
  <2> DEFINE g == [x \in S |-> 0 * f[x] - 1 * f[x]]
  <2>1. NatOn(g, S) /\ \A x \in S : g[x] = 0 * f[x] - 1 * f[x]
    BY <1>3 DEF NatOn, IntOn
  <2> HIDE DEF g
  <2>2. SumOn(g, S) = 0 * SumOn(f, S) - 1 * SumOn(f, S)
    BY <2>1, SumLinear
  <2>3. SumOn(g, S) = 0
    BY <2>2
  <2>4. g[y] <= 0
    BY <1>1, <2>1, <2>3, SumNatural
  <2> QED
    BY <1>1, <1>3, <2>1, <2>4 DEF IntOn
<1> QED
  BY <1>2, <1>3 DEF IntOn

(* The ratio of two sums lies between the ratios of their terms. *)
LEMMA Between ==
  ASSUME NEW S, IsFiniteSet(S), S # {}, NEW f, IntOn(f, S), NEW g, IntOn(g, S)
  PROVE  /\ \E x \in S : SumOn(f, S) * g[x] <= f[x] * SumOn(g, S)
         /\ \E x \in S : SumOn(f, S) * g[x] >= f[x] * SumOn(g, S)
<1> DEFINE a == SumOn(g, S)
           b == SumOn(f, S)
           h == [x \in S |-> a * f[x] - b * g[x]]
<1>1. a \in Int /\ b \in Int
  BY SumOnStep
<1>2. IntOn(h, S) /\ \A x \in S : h[x] = a * f[x] - b * g[x]
  BY <1>1 DEF IntOn
<1> HIDE DEF h
<1>3. SumOn(h, S) = a * b - b * a
  <2> HIDE DEF a, b
  <2>1. SumOn(h, S) = a * SumOn(f, S) - b * SumOn(g, S)
    BY <1>1, <1>2, SumLinear
  <2> QED
    BY <2>1 DEF a, b
<1> HIDE DEF a, b
<1>4. SumOn(h, S) = 0
  BY <1>1, <1>3
<1>5. (\E x \in S : h[x] <= 0) /\ (\E x \in S : h[x] >= 0)
  BY <1>2, <1>4, SumBalanced
<1>6. \A x \in S : f[x] \in Int /\ g[x] \in Int /\ b * g[x] \in Int /\ f[x] * a \in Int /\ h[x] = f[x] * a - b * g[x]
  BY <1>1, <1>2 DEF IntOn
<1>7. (\E x \in S : b * g[x] >= f[x] * a) /\ (\E x \in S : b * g[x] <= f[x] * a)
  BY <1>5, <1>6
<1> QED
  BY <1>7 DEF a, b

----------------------------------------------------------------------------
(* What is current is what the last edition says. *)

(* The keys of the code tell apart what those who publish a file do, and   *)
(* what is counted by its place in the file has no number.                 *)
LEMMA NormalizersIdentify ==
  ASSUME NEW source \in DOMAIN Normalizers
  PROVE  /\ source # "indicators" =>
               Normalizers[source].layout # "tabular" /\ Normalizers[source].key = RowIdentity[source]
         /\ source = "indicators" =>
               Normalizers[source].layout = "tabular" /\ Normalizers[source].values = {"Emp", "HirA"}
         /\ Normalizers[source].indexed => Normalizers[source].number = "none"
<1>1. CASE source = "completions"
  BY <1>1 DEF Normalizers, Completions, Normalizer, Ipeds, RowIdentity
<1>2. CASE source = "enrollment"
  BY <1>2 DEF Normalizers, AnnualEnrollment, Normalizer, Ipeds, RowIdentity
<1>3. CASE source = "fall"
  BY <1>3 DEF Normalizers, FallEnrollment, Normalizer, Ipeds, RowIdentity
<1>4. CASE source = "directory"
  BY <1>4 DEF Normalizers, Directory, Normalizer, Ipeds, RowIdentity
<1>5. CASE source = "crosswalk"
  BY <1>5 DEF Normalizers, Crosswalk, Normalizer, Ipeds, RowIdentity
<1>6. CASE source = "ratings"
  BY <1>6 DEF Normalizers, Ratings, Normalizer, Json, Ipeds, RowIdentity
<1>7. CASE source = "software"
  BY <1>7 DEF Normalizers, SoftwareSkills, Normalizer, Json, Ipeds, RowIdentity
<1>8. CASE source = "series"
  BY <1>8 DEF Normalizers, Series, Normalizer, Json, Ipeds, RowIdentity
<1>9. CASE source = "scorecard"
  BY <1>9 DEF Normalizers, Scorecard, Normalizer, Json, Ipeds, RowIdentity
<1>10. CASE source = "indicators"
  BY <1>10 DEF Normalizers, Indicators, Normalizer, Json, Ipeds, RowIdentity
<1>11. CASE source = "projections"
  BY <1>11 DEF Normalizers, Projections, Normalizer, Workbook, Json, Ipeds, RowIdentity
<1>12. CASE source = "wages"
  BY <1>12 DEF Normalizers, WageSnapshot, Normalizer, Workbook, Json, Ipeds, RowIdentity
<1>13. source \in {"completions", "enrollment", "fall", "directory", "crosswalk", "ratings", "software",
                  "series", "scorecard", "indicators", "projections", "wages"}
  BY DEF Normalizers
<1> QED
  BY <1>1, <1>2, <1>3, <1>4, <1>5, <1>6, <1>7, <1>8, <1>9, <1>10, <1>11, <1>12, <1>13

LEMMA KeysIdentify ==
  ASSUME NEW source \in DOMAIN Normalizers, NEW row
  PROVE  KeyFields(source, row) = Identity(source, row)
  BY NormalizersIdentify DEF KeyFields, Identity

LEMMA IndexedHasNoNumber ==
  ASSUME NEW source \in DOMAIN Normalizers, NEW text, Normalizers[source].indexed
  PROVE  Number(source, text) = NoNumber
  BY NormalizersIdentify DEF Number

KeyFor(c, index) == [year |-> c.year, of |-> c.of, value |-> c.value, index |-> index]

CellOf(k) == [year |-> k.year, of |-> k.of, value |-> k.value]

(* Each current observation is about the cell that its key names, and has  *)
(* the number that was last stated of it.                                  *)
Faithful(source, current, stated) ==
  /\ \A k \in DOMAIN current :
       /\ k = KeyFor(current[k].cell, k.index) /\ current[k].cell = CellOf(k)
       /\ ~Normalizers[source].indexed => k.index = 0
       /\ Normalizers[source].indexed => current[k].number = NoNumber
       /\ current[k].cell \in DOMAIN stated
       /\ current[k].number = stated[current[k].cell]
  /\ \A c \in DOMAIN stated : \E k \in DOMAIN current : current[k].cell = c

LEMMA RecordedAndSaid ==
  ASSUME NEW source \in DOMAIN Normalizers, NEW year, NEW file, NEW n
  PROVE  Faithful(source, Recorded(source, year, file, n), Said(source, year, file, n))
<1> DEFINE row == Filled(file, file.rows[n])
           K(v) == KeyOfCell(source, year, row, n, v)
           C(v) == Cell(source, year, row, v)
           keys == {K(v) : v \in Read(source, row)}
           cells == {C(v) : v \in Read(source, row)}
           index == IF Normalizers[source].indexed THEN n ELSE 0
<1>1. CASE Skipped(source, row)
  BY <1>1 DEF Recorded, Said, Faithful
<1>2. CASE ~Skipped(source, row)
  <2>1. Recorded(source, year, file, n) =
          [k \in keys |-> [cell |-> C(k.value), number |-> Number(source, Text(row, k.value))]]
    BY <1>2 DEF Recorded
  <2>2. Said(source, year, file, n) = [c \in cells |-> Number(source, Text(row, c.value))]
    BY <1>2 DEF Said
  <2>3. \A v : K(v) = KeyFor(C(v), index) /\ K(v).value = v /\ C(v).value = v /\ K(v).index = index /\ C(v) = CellOf(K(v))
    BY KeysIdentify DEF KeyOfCell, Cell, KeyFor, CellOf
  <2> DEFINE rec == Recorded(source, year, file, n)
             said == Said(source, year, file, n)
  <2>4. \A k \in DOMAIN rec : k \in keys /\ rec[k].cell = C(k.value)
                              /\ rec[k].number = Number(source, Text(row, k.value))
    BY <2>1
  <2>5. \A c \in DOMAIN said : c \in cells /\ said[c] = Number(source, Text(row, c.value))
    BY <2>2
  <2>6. DOMAIN rec = keys /\ DOMAIN said = cells
    BY <2>1, <2>2
  <2> HIDE DEF rec, said, K, C, index
  <2>7. ASSUME NEW k \in DOMAIN rec
        PROVE  /\ k = KeyFor(rec[k].cell, k.index) /\ k.index = index /\ rec[k].cell = CellOf(k)
               /\ rec[k].cell \in DOMAIN said /\ rec[k].number = said[rec[k].cell]
    <3>1. PICK v \in Read(source, row) : k = K(v)
      BY <2>4
    <3>2. rec[k].cell = C(v) /\ C(v) \in cells
      BY <2>3, <2>4, <3>1
    <3> QED
      BY <2>3, <2>4, <2>5, <2>6, <3>1, <3>2
  <2>8. Normalizers[source].indexed => \A k \in DOMAIN rec : rec[k].number = NoNumber
    BY <2>4, IndexedHasNoNumber
  <2>9. ASSUME NEW c \in DOMAIN said
        PROVE  \E k \in DOMAIN rec : rec[k].cell = c
    <3>1. PICK v \in Read(source, row) : c = C(v)
      BY <2>5
    <3>2. K(v) \in DOMAIN rec
      BY <2>6
    <3> QED
      BY <2>3, <2>4, <3>1, <3>2
  <2>10. ~Normalizers[source].indexed => index = 0
    BY DEF index
  <2>11. Faithful(source, rec, said)
    BY <2>7, <2>8, <2>9, <2>10 DEF Faithful
  <2> QED
    BY <2>11 DEF rec, said
<1> QED
  BY <1>1, <1>2

LEMMA FaithfulOver ==
  ASSUME NEW source, NEW rec, NEW said, NEW current, NEW stated,
         Faithful(source, rec, said), Faithful(source, current, stated)
  PROVE  Faithful(source, Over(rec, current), Over(said, stated))
<1> DEFINE cur == Over(rec, current)
           sta == Over(said, stated)
<1>1. /\ DOMAIN cur = DOMAIN rec \cup DOMAIN current
      /\ \A k \in DOMAIN rec : cur[k] = rec[k]
      /\ \A k \in DOMAIN current \ DOMAIN rec : cur[k] = current[k]
  BY OverProperties
<1>2. /\ DOMAIN sta = DOMAIN said \cup DOMAIN stated
      /\ \A c \in DOMAIN said : sta[c] = said[c]
      /\ \A c \in DOMAIN stated \ DOMAIN said : sta[c] = stated[c]
  BY OverProperties
<1> HIDE DEF cur, sta
<1>3. ASSUME NEW k \in DOMAIN cur
      PROVE  /\ k = KeyFor(cur[k].cell, k.index) /\ cur[k].cell = CellOf(k)
             /\ ~Normalizers[source].indexed => k.index = 0
             /\ Normalizers[source].indexed => cur[k].number = NoNumber
             /\ cur[k].cell \in DOMAIN sta
             /\ cur[k].number = sta[cur[k].cell]
  <2>1. CASE k \in DOMAIN rec
    BY <1>1, <1>2, <2>1 DEF Faithful
  <2>2. CASE k \notin DOMAIN rec
    <3>1. k \in DOMAIN current /\ cur[k] = current[k]
      BY <1>1, <2>2
    <3>2. CASE current[k].cell \in DOMAIN said
      <4>1. PICK l \in DOMAIN rec : rec[l].cell = current[k].cell
        BY <3>2 DEF Faithful
      <4>2. Normalizers[source].indexed
        <5>1. SUFFICES ASSUME ~Normalizers[source].indexed PROVE FALSE
          OBVIOUS
        <5>2. k = KeyFor(current[k].cell, 0) /\ l = KeyFor(rec[l].cell, 0)
          BY <3>1, <5>1 DEF Faithful
        <5> QED
          BY <2>2, <4>1, <5>2
      <4>3. rec[l].number = NoNumber /\ current[k].number = NoNumber /\ said[rec[l].cell] = rec[l].number
        BY <3>1, <4>2 DEF Faithful
      <4> QED
        BY <1>2, <3>1, <3>2, <4>1, <4>2, <4>3 DEF Faithful
    <3>3. CASE current[k].cell \notin DOMAIN said
      BY <1>2, <3>1, <3>3 DEF Faithful
    <3> QED
      BY <3>2, <3>3
  <2> QED
    BY <2>1, <2>2
<1>4. ASSUME NEW c \in DOMAIN sta
      PROVE  \E k \in DOMAIN cur : cur[k].cell = c
  <2>1. CASE c \in DOMAIN said
    BY <1>1, <2>1 DEF Faithful
  <2>2. CASE c \notin DOMAIN said
    <3>1. PICK k \in DOMAIN current : current[k].cell = c
      BY <1>2, <2>2 DEF Faithful
    <3>2. k \notin DOMAIN rec
      <4>1. SUFFICES ASSUME k \in DOMAIN rec PROVE FALSE
        OBVIOUS
      <4>2. rec[k].cell = CellOf(k) /\ c = CellOf(k) /\ rec[k].cell \in DOMAIN said
        BY <3>1, <4>1 DEF Faithful
      <4> QED
        BY <2>2, <4>2
    <3> QED
      BY <1>1, <3>1, <3>2
  <2> QED
    BY <2>1, <2>2
<1>5. Faithful(source, cur, sta)
  BY <1>3, <1>4 DEF Faithful
<1> QED
  BY <1>5 DEF cur, sta

LEMMA LayersFaithful ==
  ASSUME NEW source \in DOMAIN Normalizers, NEW year, NEW file, Len(file.rows) \in Nat,
         NEW current, NEW stated, Faithful(source, current, stated)
  PROVE  Faithful(source, Layered(Observations(source, year, file), current),
                  Over(Stated(source, year, file), stated))
<1> DEFINE N == Len(file.rows)
           says == [n \in 1 .. N |-> Said(source, year, file, n)]
           obs == Observations(source, year, file)
<1>1. PICK f : /\ f[0] = current
               /\ \A n \in 1 .. N : f[n] = Over(obs[n], f[n - 1])
               /\ Layered(obs, current) = f[N]
  <2>1. DOMAIN obs = 1 .. N
    BY DEF Observations
  <2> QED
    BY <2>1, LayerByLayer
<1>2. PICK g : /\ g[0] = <<>>
               /\ \A n \in 1 .. N : g[n] = Over(says[n], g[n - 1])
               /\ Layered(says, <<>>) = g[N]
  <2> DEFINE nothing == <<>>
  <2>1. DOMAIN says = 1 .. N
    OBVIOUS
  <2> HIDE DEF says, nothing
  <2>2. \E g : /\ g[0] = nothing
               /\ \A n \in 1 .. N : g[n] = Over(says[n], g[n - 1])
               /\ Layered(says, nothing) = g[N]
    BY <2>1, LayerByLayer
  <2> QED
    BY <2>2 DEF nothing
<1>3. \A n \in 1 .. N : obs[n] = Recorded(source, year, file, n) /\ says[n] = Said(source, year, file, n)
  BY DEF Observations
<1>4. Stated(source, year, file) = g[N]
  BY <1>2 DEF Stated
<1> HIDE DEF obs, says
<1> DEFINE S == {n \in Nat : n <= N => Faithful(source, f[n], Over(g[n], stated))}
<1>5. 0 \in S
  <2>1. Over(<<>>, stated) = [k \in DOMAIN stated |-> stated[k]]
    BY DEF Over
  <2>2. Faithful(source, current, [k \in DOMAIN stated |-> stated[k]])
    BY DEF Faithful
  <2> QED
    BY <1>1, <1>2, <2>1, <2>2
<1>6. ASSUME NEW n \in Nat, n \in S
      PROVE  n + 1 \in S
  <2>1. SUFFICES ASSUME n + 1 <= N
                 PROVE  Faithful(source, f[n + 1], Over(g[n + 1], stated))
    BY DEF S
  <2>2. Faithful(source, f[n], Over(g[n], stated))
    BY <1>6, <2>1
  <2>3. n + 1 \in 1 .. N /\ (n + 1) - 1 = n
    BY <2>1
  <2>4. f[n + 1] = Over(obs[n + 1], f[n]) /\ g[n + 1] = Over(says[n + 1], g[n])
    BY <1>1, <1>2, <2>3
  <2>5. Faithful(source, obs[n + 1], says[n + 1])
    BY <1>3, <2>3, RecordedAndSaid
  <2>6. Faithful(source, Over(obs[n + 1], f[n]), Over(says[n + 1], Over(g[n], stated)))
    BY <2>2, <2>5, FaithfulOver
  <2>7. Over(says[n + 1], Over(g[n], stated)) = Over(Over(says[n + 1], g[n]), stated)
    BY OverAssociates
  <2> QED
    BY <2>4, <2>6, <2>7
<1> HIDE DEF S
<1>7. N \in S
  BY <1>5, <1>6, Counting
<1>8. Faithful(source, f[N], Over(g[N], stated))
  BY <1>7 DEF S
<1> QED
  BY <1>1, <1>4, <1>8 DEF obs

LEMMA LastEdition ==
  ASSUME NEW source, NEW current, NEW stated, Faithful(source, current, stated)
  PROVE  \A c \in DOMAIN stated :
           {current[k].number : k \in {l \in DOMAIN current : current[l].cell = c}} = {stated[c]}
  BY DEF Faithful

----------------------------------------------------------------------------
(* Awards. *)

(* What row n of a file of completions says. *)
AwardsCell(year, file, n) == Cell("completions", year, Filled(file, file.rows[n]), "CTOTALT")

LEMMA AcceptedFields ==
  ASSUME NEW file, ~Refused("completions", file)
  PROVE  {"UNITID", "CIPCODE", "AWLEVEL", "CTOTALT"} \subseteq file.fields
  BY DEF Refused, Normalizers, Completions, Normalizer, Ipeds

LEMMA CompletionsSaid ==
  ASSUME NEW file, ~Refused("completions", file), NEW year, NEW n
  PROVE  LET row == Filled(file, file.rows[n])
             said == Said("completions", year, file, n)
         IN  /\ row["UNITID"] \notin Wanted => DOMAIN said = {}
             /\ row["UNITID"] \in Wanted =>
                  /\ DOMAIN said = {AwardsCell(year, file, n)}
                  /\ said[AwardsCell(year, file, n)] =
                       IF Counted(file, n) \in {Marker, Blank} THEN NoNumber ELSE Counted(file, n)
<1> DEFINE row == Filled(file, file.rows[n])
<1>1. /\ Normalizers["completions"].layout = "csv" /\ Normalizers["completions"].wanted
      /\ Normalizers["completions"].values = {"CTOTALT"} /\ Normalizers["completions"].number = "read"
  BY DEF Normalizers, Completions, Normalizer, Ipeds
<1>2. Skipped("completions", row) <=> row["UNITID"] \notin Wanted
  BY <1>1 DEF Skipped
<1>3. Read("completions", row) = {"CTOTALT"}
  BY <1>1 DEF Read
<1>4. \A text : Number("completions", text) = IF text \in {Marker, Blank} THEN NoNumber ELSE text
  BY <1>1 DEF Number
<1>5. AwardsCell(year, file, n).value = "CTOTALT"
  BY DEF AwardsCell, Cell
<1>6. CASE row["UNITID"] \notin Wanted
  BY <1>2, <1>6 DEF Said
<1>7. CASE row["UNITID"] \in Wanted
  <2> DEFINE c == AwardsCell(year, file, n)
  <2>1. {Cell("completions", year, row, v) : v \in Read("completions", row)} = {c}
    BY <1>3 DEF AwardsCell
  <2>2. Said("completions", year, file, n) = [d \in {c} |-> Number("completions", Text(row, d.value))]
    BY <1>2, <1>7, <2>1 DEF Said
  <2> HIDE DEF c, row
  <2>3. DOMAIN Said("completions", year, file, n) = {c}
        /\ Said("completions", year, file, n)[c] = Number("completions", Text(row, c.value))
    BY <2>2
  <2> QED
    BY <1>4, <1>5, <1>7, <2>3 DEF c, row, Counted
<1> QED
  BY <1>6, <1>7

(* What the cell of a row says of the row. *)
LEMMA CellSays ==
  ASSUME NEW file, ~Refused("completions", file), NEW year, NEW n
  PROVE  LET row == Filled(file, file.rows[n])
             c == AwardsCell(year, file, n)
         IN  /\ c.year = year
             /\ c.of["UNITID"] = row["UNITID"] /\ c.of["CIPCODE"] = row["CIPCODE"]
             /\ c.of["AWLEVEL"] = row["AWLEVEL"]
             /\ Major(c) = "1" <=> ("MAJORNUM" \in DOMAIN row => row["MAJORNUM"] = "1")
<1> DEFINE row == Filled(file, file.rows[n])
           c == AwardsCell(year, file, n)
           names == {"UNITID", "CIPCODE", "AWLEVEL", "MAJORNUM"} \cap DOMAIN row
<1>1. DOMAIN row = file.fields
  BY DEF Filled
<1>2. {"UNITID", "CIPCODE", "AWLEVEL"} \subseteq DOMAIN row
  BY <1>1, AcceptedFields
<1>3. Identity("completions", row) = names
  BY DEF Identity, RowIdentity
<1>4. c.year = year /\ c.of = [x \in names |-> row[x]]
  BY <1>3 DEF AwardsCell, Cell, Normalizers, Completions, Normalizer, Ipeds, Restrict
<1> HIDE DEF row, c
<1>5. c.of["UNITID"] = row["UNITID"] /\ c.of["CIPCODE"] = row["CIPCODE"] /\ c.of["AWLEVEL"] = row["AWLEVEL"]
  BY <1>2, <1>4
<1>6. Major(c) = "1" <=> ("MAJORNUM" \in DOMAIN row => row["MAJORNUM"] = "1")
  BY <1>4 DEF Major
<1> QED
  BY <1>4, <1>5, <1>6 DEF row, c

(* What is current is what the file states of each cell that it states. *)
Agrees(current, stated, last) ==
  last # NoNumber =>
    LET said == Stated("completions", last.year, last.file)
    IN  /\ last.file \in Files["completions"] /\ ~Refused("completions", last.file)
        /\ Len(last.file.rows) \in Nat
        /\ \A c \in DOMAIN said : c \in DOMAIN stated /\ stated[c] = said[c]

(* The rows of programs, each with a cell of its own. *)
RowsApart(file, u) ==
  /\ \A l, m \in ProgramRows(file, u) :
       /\ Filled(file, file.rows[l])["CIPCODE"] = Filled(file, file.rows[m])["CIPCODE"]
       /\ Filled(file, file.rows[l])["AWLEVEL"] = Filled(file, file.rows[m])["AWLEVEL"]
       => l = m
  /\ \A m \in ProgramRows(file, u) : Counted(file, m) \in Int \cup {Marker, Blank}

LEMMA ProgramIs ==
  ASSUME NEW file, ~Refused("completions", file), NEW year, NEW u, NEW n \in 1 .. Len(file.rows)
  PROVE  LET c == AwardsCell(year, file, n)
         IN  n \in ProgramRows(file, u) <=>
               c.of["UNITID"] = u /\ c.of["CIPCODE"] \in Programs /\ Major(c) = "1"
  BY CellSays DEF ProgramRows

LEMMA StatedBy ==
  ASSUME NEW file, ~Refused("completions", file), Len(file.rows) \in Nat, NEW year
  PROVE  /\ \A c : c \in DOMAIN Stated("completions", year, file) <=>
                     \E n \in 1 .. Len(file.rows) : c \in DOMAIN Said("completions", year, file, n)
         /\ \A n \in 1 .. Len(file.rows) : \A c \in DOMAIN Said("completions", year, file, n) :
              (\A m \in 1 .. Len(file.rows) : c \in DOMAIN Said("completions", year, file, m) => m = n)
              => Stated("completions", year, file)[c] = Said("completions", year, file, n)[c]
<1> DEFINE N == Len(file.rows)
           says == [n \in 1 .. N |-> Said("completions", year, file, n)]
           nothing == <<>>
<1>1. DOMAIN says = 1 .. N /\ N \in Nat /\ DOMAIN nothing = {}
  OBVIOUS
<1>2. Stated("completions", year, file) = Layered(says, nothing)
  BY DEF Stated
<1>3. \A n \in 1 .. N : says[n] = Said("completions", year, file, n)
  OBVIOUS
<1> HIDE DEF says, nothing
<1>4. /\ \A c : c \in DOMAIN Layered(says, nothing) <=> \E n \in 1 .. N : c \in DOMAIN says[n]
      /\ \A n \in 1 .. N : \A c \in DOMAIN says[n] :
           (\A m \in 1 .. N : c \in DOMAIN says[m] => m = n) => Layered(says, nothing)[c] = says[n][c]
  <2>1. /\ \A c : c \in DOMAIN Layered(says, nothing) <=> \E n \in 1 .. N : c \in DOMAIN says[n]
        /\ \A n \in 1 .. N : \A c \in DOMAIN says[n] :
             (\A m \in 1 .. N : c \in DOMAIN says[m] => m <= n) => Layered(says, nothing)[c] = says[n][c]
    <3>1. SaysLast(Layered(says, nothing), says, N)
      BY <1>1, LayeredSays
    <3> QED
      BY <3>1 DEF SaysLast
  <2>2. \A n \in 1 .. N : n <= n
    BY <1>1
  <2> QED
    BY <2>1, <2>2
<1> QED
  BY <1>2, <1>3, <1>4

(* A program's row alone says what its cell is. *)
LEMMA ProgramStated ==
  ASSUME NEW file, ~Refused("completions", file), Len(file.rows) \in Nat, NEW year,
         NEW u \in Wanted, RowsApart(file, u), NEW n \in ProgramRows(file, u)
  PROVE  LET c == AwardsCell(year, file, n)
             said == Stated("completions", year, file)
         IN  /\ c \in DOMAIN said
             /\ said[c] = IF Counted(file, n) \in {Marker, Blank} THEN NoNumber ELSE Counted(file, n)
<1> DEFINE c == AwardsCell(year, file, n)
           Says(m) == Said("completions", year, file, m)
<1>1. n \in 1 .. Len(file.rows) /\ Filled(file, file.rows[n])["UNITID"] = u
  BY DEF ProgramRows
<1>2. c \in DOMAIN Says(n)
      /\ Says(n)[c] = IF Counted(file, n) \in {Marker, Blank} THEN NoNumber ELSE Counted(file, n)
  BY <1>1, CompletionsSaid
<1>3. ASSUME NEW m \in 1 .. Len(file.rows), c \in DOMAIN Says(m)
      PROVE  m = n
  <2>1. c = AwardsCell(year, file, m)
    BY <1>3, CompletionsSaid
  <2>2. m \in ProgramRows(file, u)
    BY <1>1, <2>1, ProgramIs
  <2>3. /\ Filled(file, file.rows[m])["CIPCODE"] = Filled(file, file.rows[n])["CIPCODE"]
        /\ Filled(file, file.rows[m])["AWLEVEL"] = Filled(file, file.rows[n])["AWLEVEL"]
    <3>1. /\ c.of["CIPCODE"] = Filled(file, file.rows[n])["CIPCODE"]
          /\ c.of["AWLEVEL"] = Filled(file, file.rows[n])["AWLEVEL"]
      BY CellSays
    <3>2. /\ AwardsCell(year, file, m).of["CIPCODE"] = Filled(file, file.rows[m])["CIPCODE"]
          /\ AwardsCell(year, file, m).of["AWLEVEL"] = Filled(file, file.rows[m])["AWLEVEL"]
      BY CellSays
    <3> QED
      BY <2>1, <3>1, <3>2
  <2> QED
    BY <2>2, <2>3 DEF RowsApart
<1> HIDE DEF c
<1>4. c \in DOMAIN Stated("completions", year, file)
      /\ Stated("completions", year, file)[c] = Says(n)[c]
  BY <1>1, <1>2, <1>3, StatedBy
<1> QED
  BY <1>2, <1>4 DEF c

(* Which keys are read as those of first majors: the rows of programs,     *)
(* one for one, when all are of cells that the file states.                *)
LEMMA FirstMajorsAre ==
  ASSUME Faithful("completions", archive.current, archive.stated),
         Agrees(archive.current, archive.stated, archive.last), archive.last # NoNumber,
         NEW u \in Wanted, RowsApart(archive.last.file, u),
         \A k \in FirstMajors(u, archive.last.year) :
           archive.current[k].cell \in DOMAIN Stated("completions", archive.last.year, archive.last.file)
  PROVE  LET file == archive.last.file
             year == archive.last.year
             h(m) == KeyFor(AwardsCell(year, file, m), 0)
             programs == ProgramRows(file, u)
         IN  /\ \A m \in programs :
                  /\ h(m) \in FirstMajors(u, year)
                  /\ archive.current[h(m)].number =
                       IF Counted(file, m) \in {Marker, Blank} THEN NoNumber ELSE Counted(file, m)
             /\ \A k \in FirstMajors(u, year) : \E m \in programs : h(m) = k
             /\ \A l, m \in programs : h(l) = h(m) => l = m
<1> DEFINE file == archive.last.file
           year == archive.last.year
           C(m) == AwardsCell(year, file, m)
           h(m) == KeyFor(C(m), 0)
           programs == ProgramRows(file, u)
           said == Stated("completions", year, file)
           current == archive.current
           stated == archive.stated
<1>1. /\ ~Refused("completions", file) /\ Len(file.rows) \in Nat
      /\ \A c \in DOMAIN said : c \in DOMAIN stated /\ stated[c] = said[c]
  BY DEF Agrees
<1>2. ~Normalizers["completions"].indexed
  BY DEF Normalizers, Completions, Normalizer, Ipeds
<1>3. /\ \A k \in DOMAIN current : /\ k = KeyFor(current[k].cell, 0)
                                   /\ current[k].number = stated[current[k].cell]
      /\ \A c \in DOMAIN stated : \E k \in DOMAIN current : current[k].cell = c
  BY <1>2 DEF Faithful
<1> HIDE DEF C
<1>4. ASSUME NEW m \in programs
      PROVE  /\ h(m) \in DOMAIN current /\ current[h(m)].cell = C(m)
             /\ h(m) \in FirstMajors(u, year)
             /\ current[h(m)].number =
                  IF Counted(file, m) \in {Marker, Blank} THEN NoNumber ELSE Counted(file, m)
  <2>1. C(m) \in DOMAIN said
        /\ said[C(m)] = IF Counted(file, m) \in {Marker, Blank} THEN NoNumber ELSE Counted(file, m)
    BY <1>1, ProgramStated DEF C
  <2>2. PICK k \in DOMAIN current : current[k].cell = C(m)
    BY <1>1, <1>3, <2>1
  <2>3. k = h(m)
    BY <1>3, <2>2
  <2>4. C(m).year = year /\ C(m).of["UNITID"] = u /\ C(m).of["CIPCODE"] \in Programs /\ Major(C(m)) = "1"
    <3>1. m \in 1 .. Len(file.rows)
      BY DEF ProgramRows
    <3> QED
      BY <1>1, <3>1, ProgramIs, CellSays DEF C
  <2>5. k \in FirstMajors(u, year)
    BY <2>2, <2>4 DEF FirstMajors
  <2> QED
    BY <1>1, <1>3, <2>1, <2>2, <2>3, <2>5
<1>5. ASSUME NEW k \in FirstMajors(u, year)
      PROVE  \E m \in programs : h(m) = k
  <2> DEFINE c == current[k].cell
  <2>1. k \in DOMAIN current /\ c.of["UNITID"] = u /\ c.of["CIPCODE"] \in Programs /\ Major(c) = "1"
    BY DEF FirstMajors
  <2>2. c \in DOMAIN said
    OBVIOUS
  <2>3. PICK m \in 1 .. Len(file.rows) : c \in DOMAIN Said("completions", year, file, m)
    BY <1>1, <2>2, StatedBy
  <2>4. c = C(m)
    <3> DEFINE saying == Said("completions", year, file, m)
    <3>1. DOMAIN saying = {} \/ DOMAIN saying = {AwardsCell(year, file, m)}
      BY <1>1, CompletionsSaid
    <3> HIDE DEF saying
    <3>2. c \in DOMAIN saying
      BY <2>3 DEF saying
    <3> QED
      BY <3>1, <3>2 DEF C
  <2>5. m \in programs
    BY <1>1, <2>1, <2>4, ProgramIs DEF C
  <2>6. k = h(m)
    BY <1>3, <2>1, <2>4
  <2> QED
    BY <2>5, <2>6
<1>6. ASSUME NEW l \in programs, NEW m \in programs, h(l) = h(m)
      PROVE  l = m
  <2>1. C(l) = C(m)
    BY <1>4, <1>6
  <2>2. /\ C(l).of["CIPCODE"] = Filled(file, file.rows[l])["CIPCODE"]
        /\ C(l).of["AWLEVEL"] = Filled(file, file.rows[l])["AWLEVEL"]
        /\ C(m).of["CIPCODE"] = Filled(file, file.rows[m])["CIPCODE"]
        /\ C(m).of["AWLEVEL"] = Filled(file, file.rows[m])["AWLEVEL"]
    BY <1>1, CellSays DEF C
  <2> QED
    BY <2>1, <2>2 DEF RowsApart
<1> QED
  BY <1>4, <1>5, <1>6 DEF C

LEMMA ProgramsSummed ==
  ASSUME Faithful("completions", archive.current, archive.stated),
         Agrees(archive.current, archive.stated, archive.last), archive.last # NoNumber,
         NEW u \in Wanted, RowsApart(archive.last.file, u),
         \A k \in FirstMajors(u, archive.last.year) :
           archive.current[k].cell \in DOMAIN Stated("completions", archive.last.year, archive.last.file)
  PROVE  LET file == archive.last.file
             programs == ProgramRows(file, u)
         IN  TotalAwards(u, archive.last.year) =
               IF programs # {} /\ (\A m \in programs : Counted(file, m) \in Int)
                 THEN SumOf([m \in programs |-> Counted(file, m)])
                 ELSE NoNumber
<1> DEFINE file == archive.last.file
           year == archive.last.year
           h == [m \in ProgramRows(file, u) |-> KeyFor(AwardsCell(year, file, m), 0)]
           programs == ProgramRows(file, u)
           selected == FirstMajors(u, year)
           number(k) == archive.current[k].number
           count(m) == Counted(file, m)
           total == TotalAwards(u, year)
<1>1. /\ \A m \in programs :
           /\ h[m] \in selected
           /\ number(h[m]) = IF count(m) \in {Marker, Blank} THEN NoNumber ELSE count(m)
      /\ \A k \in selected : \E m \in programs : h[m] = k
      /\ \A l, m \in programs : h[l] = h[m] => l = m
  BY FirstMajorsAre
<1>2. IsFiniteSet(programs)
  <2>1. Len(file.rows) \in Nat
    BY DEF Agrees
  <2>2. IsFiniteSet(1 .. Len(file.rows))
    <3> DEFINE N == Len(file.rows)
    <3>1. 1 \in Int /\ N \in Int
      BY <2>1
    <3> HIDE DEF N
    <3>2. IsFiniteSet(1 .. N)
      BY <3>1, FS_Interval
    <3> QED
      BY <3>2 DEF N
  <2>3. programs \subseteq 1 .. Len(file.rows)
    BY DEF ProgramRows
  <2> QED
    BY <2>2, <2>3, FS_Subset
<1>3. \A m \in programs : count(m) \in Int \cup {Marker, Blank}
  BY DEF RowsApart
<1>4. DOMAIN h = programs
  OBVIOUS
<1>5. total = IF selected = {} \/ NoNumber \in {number(k) : k \in selected} THEN NoNumber
                             ELSE SumOf([k \in selected |-> number(k)])
  BY DEF TotalAwards
<1> DEFINE that == IF programs # {} /\ (\A m \in programs : count(m) \in Int)
                     THEN SumOf([m \in programs |-> count(m)]) ELSE NoNumber
<1>9. SUFFICES total = that
  OBVIOUS
<1> HIDE DEF h, programs, selected, number, count, total
<1>6. CASE programs = {}
  BY <1>1, <1>5, <1>6
<1>7. CASE \E m \in programs : count(m) \notin Int
  <2>1. PICK m \in programs : count(m) \in {Marker, Blank}
    BY <1>3, <1>7
  <2>2. h[m] \in selected /\ number(h[m]) = NoNumber
    BY <1>1, <2>1
  <2> QED
    BY <1>5, <1>7, <2>2
<1>8. CASE programs # {} /\ \A m \in programs : count(m) \in Int
  <2>1. \A m \in programs : count(m) \notin {Marker, Blank} /\ number(h[m]) = count(m)
    BY <1>1, <1>8, FilesAssumption
  <2>2. NoNumber \notin {number(k) : k \in selected}
    BY <1>1, <1>8, <2>1, FilesAssumption
  <2>3. selected # {}
    BY <1>1, <1>8
  <2> DEFINE f == [k \in selected |-> number(k)]
             g == [m \in programs |-> count(m)]
  <2>4. IsFiniteSet(selected)
    <3>1. selected = {h[m] : m \in programs}
      BY <1>1
    <3> QED
      <4> DEFINE H == [m \in programs |-> h[m]]
      <4>1. H \in Surjection(programs, selected)
        BY <1>1, <3>1 DEF Surjection
      <4> QED
        BY <1>2, <4>1, FS_Surjection
  <2>5. Summable(f)
    BY <1>1, <1>8, <2>1, <2>4 DEF Summable
  <2>6. /\ DOMAIN h = DOMAIN g /\ IsFiniteSet(DOMAIN g)
        /\ \A a \in DOMAIN g : h[a] \in DOMAIN f /\ g[a] = f[h[a]]
        /\ \A b \in DOMAIN f : \E a \in DOMAIN g : h[a] = b
        /\ \A a, b \in DOMAIN g : h[a] = h[b] => a = b
    BY <1>1, <1>2, <1>4, <2>1
  <2> HIDE DEF f, g
  <2>7. SumOf(g) = SumOf(f)
    BY <2>5, <2>6, SumAlong
  <2> QED
    BY <1>5, <1>8, <2>2, <2>3, <2>7 DEF f, g
<1> QED
  BY <1>6, <1>7, <1>8

----------------------------------------------------------------------------
(* A normalizer at work. *)

(* The inductive invariant: what is current agrees with what was stated,   *)
(* and what the last file states is among that.                            *)
ArchiveOK ==
  /\ archive = [source |-> archive.source, given |-> archive.given, current |-> archive.current,
                stated |-> archive.stated, last |-> archive.last]
  /\ archive.source \in DOMAIN Files \cup {NoNumber}
  /\ archive.last # NoNumber => archive.source \in DOMAIN Files
  /\ Faithful(archive.source, archive.current, archive.stated)
  /\ archive.source = "completions" => Agrees(archive.current, archive.stated, archive.last)

LEMMA ArchiveStart == MijobsInit => ArchiveOK
<1> SUFFICES ASSUME MijobsInit PROVE ArchiveOK
  OBVIOUS
<1>1. archive = NoArchive \/ \E s \in DOMAIN Files : archive = [NoArchive EXCEPT !.source = s]
  BY DEF MijobsInit, ArchiveInit
<1>2. archive = [source |-> archive.source, given |-> archive.given, current |-> archive.current,
                 stated |-> archive.stated, last |-> archive.last]
  BY <1>1 DEF NoArchive
<1>3. /\ archive.current = <<>> /\ archive.stated = <<>> /\ archive.last = NoNumber
      /\ archive.source \in DOMAIN Files \cup {NoNumber}
  BY <1>1 DEF NoArchive
<1> QED
  BY <1>2, <1>3 DEF ArchiveOK, Faithful, Agrees

LEMMA IngestFaithful ==
  ASSUME ArchiveOK, Ingest
  PROVE  ArchiveOK'
<1>1. PICK file \in Files[archive.source], year \in Years :
        archive' =
         IF Refused(archive.source, file) THEN [archive EXCEPT !.given = @ + 1]
         ELSE [archive EXCEPT
                 !.given = @ + 1,
                 !.current = Layered(Observations(archive.source, year, file), @),
                 !.stated = Over(Stated(archive.source, year, file), @),
                 !.last = [year |-> year, file |-> file]]
  BY DEF Ingest
<1>2. archive.source \in DOMAIN Files
  BY DEF ArchiveOK, Ingest
<1>3. archive.source \in DOMAIN Normalizers /\ Len(file.rows) \in Nat
  BY <1>2, FilesAssumption
<1>4. Faithful(archive.source, Layered(Observations(archive.source, year, file), archive.current),
               Over(Stated(archive.source, year, file), archive.stated))
  BY <1>3, LayersFaithful DEF ArchiveOK
<1>5. CASE Refused(archive.source, file)
  BY <1>1, <1>2, <1>5 DEF ArchiveOK
<1>6. CASE ~Refused(archive.source, file)
  <2> DEFINE said == Stated(archive.source, year, file)
             known == archive.stated
             current == Layered(Observations(archive.source, year, file), archive.current)
  <2>1. \A c \in DOMAIN said : c \in DOMAIN Over(said, known) /\ Over(said, known)[c] = said[c]
    BY DEF Over
  <2>2. archive' = [archive EXCEPT !.given = @ + 1, !.current = current, !.stated = Over(said, known),
                                   !.last = [year |-> year, file |-> file]]
    BY <1>1, <1>6
  <2> HIDE DEF said, known, current
  <2>3. /\ archive' = [source |-> archive'.source, given |-> archive'.given, current |-> archive'.current,
                       stated |-> archive'.stated, last |-> archive'.last]
        /\ archive'.source = archive.source /\ archive'.current = current
        /\ archive'.stated = Over(said, known)
        /\ archive'.last.year = year /\ archive'.last.file = file
    BY <2>2 DEF ArchiveOK
  <2>4. ASSUME archive.source = "completions"
        PROVE  Agrees(current, Over(said, known), archive'.last)
    <3>1. said = Stated("completions", archive'.last.year, archive'.last.file)
      BY <2>3, <2>4 DEF said
    <3> QED
      BY <1>3, <1>6, <2>1, <2>3, <2>4, <3>1 DEF Agrees
  <2>6. Faithful(archive.source, current, Over(said, known))
    BY <1>4 DEF said, known, current
  <2> QED
    BY <1>2, <2>3, <2>4, <2>6 DEF ArchiveOK
<1> QED
  BY <1>5, <1>6

LEMMA ArchiveInvariance == MijobsSpec => []ArchiveOK
<1>1. ArchiveOK /\ [MijobsNext]_mijobsVars => ArchiveOK'
  <2> SUFFICES ASSUME ArchiveOK, [MijobsNext]_mijobsVars PROVE ArchiveOK'
    OBVIOUS
  <2>1. Ingest \/ UNCHANGED archive
    BY DEF MijobsNext, mijobsVars
  <2>2. CASE UNCHANGED archive
    BY <2>2 DEF ArchiveOK
  <2> QED
    BY <2>1, <2>2, IngestFaithful
<1> QED
  BY <1>1, ArchiveStart, PTL DEF MijobsSpec

(* Of every cell, what is current is what the last edition that states it  *)
(* says, one number or none, for any files whose rows have a length and    *)
(* any number of editions: the key that each normalizer puts together      *)
(* tells apart what the publisher tells apart, and nothing else.           *)
THEOREM EditionsAreCurrent == MijobsSpec => []CurrentIsLastEdition
<1>1. ArchiveOK => CurrentIsLastEdition
  BY LastEdition DEF ArchiveOK, CurrentIsLastEdition
<1> QED
  BY <1>1, ArchiveInvariance, PTL

(* The rows of all programs: each level is added up once.                  *)
LEMMA LevelsAddUp ==
  ASSUME NEW file, Len(file.rows) \in Nat, NEW u \in Wanted, TotalsAddUp(file),
         TotalRows(file, u) # {},
         {Level(file, m) : m \in ProgramRows(file, u)} \subseteq {Level(file, n) : n \in TotalRows(file, u)},
         \A m \in ProgramRows(file, u) : Counted(file, m) \in Int
  PROVE  SumOf([m \in ProgramRows(file, u) |-> Counted(file, m)])
           = SumOf([n \in TotalRows(file, u) |-> Counted(file, n)])
<1> DEFINE S == ProgramRows(file, u)
           K == TotalRows(file, u)
           f == [m \in S |-> Counted(file, m)]
           g == [n \in K |-> Counted(file, n)]
           part == [n \in K |-> OfLevelOf(file, n, u)]
           level(n) == Level(file, n)
<1>1. S \subseteq 1 .. Len(file.rows) /\ K \subseteq 1 .. Len(file.rows)
  BY DEF ProgramRows, TotalRows
<1>2. IsFiniteSet(S) /\ IsFiniteSet(K)
  <2> DEFINE N == Len(file.rows)
  <2>1. 1 \in Int /\ N \in Int
    OBVIOUS
  <2>2. S \subseteq 1 .. N /\ K \subseteq 1 .. N
    BY <1>1
  <2> HIDE DEF N, S, K
  <2>3. IsFiniteSet(1 .. N)
    BY <2>1, FS_Interval
  <2> QED
    BY <2>2, <2>3, FS_Subset
<1>3. /\ \A l, m \in K : level(l) = level(m) => l = m
      /\ \A n \in K : AddsUp(file, n, u)
  BY DEF TotalsAddUp
<1>4. IntOn(f, S)
  BY DEF IntOn
<1>5. \A n \in K : part[n] = {m \in S : level(m) = level(n)}
  BY DEF OfLevelOf
<1>6. ASSUME NEW n \in K PROVE g[n] = SumOn(f, part[n])
  <2> DEFINE own == OfLevelOf(file, n, u)
  <2>1. own \subseteq S
    BY DEF OfLevelOf
  <2>2. Counted(file, n) = SumOf([m \in own |-> Counted(file, m)])
    BY <1>3, <2>1 DEF AddsUp
  <2>3. [m \in own |-> Counted(file, m)] = [m \in own |-> f[m]]
    BY <2>1
  <2>4. part[n] = own /\ g[n] = Counted(file, n)
    OBVIOUS
  <2> HIDE DEF own, f, g, part
  <2> QED
    BY <2>2, <2>3, <2>4, Zenon DEF SumOn
<1>7. \A m \in S : \E n \in K : level(m) = level(n)
  OBVIOUS
<1> HIDE DEF S, K, f, g, part, level
<1>8. /\ \A n \in K : part[n] \subseteq S
      /\ \A k, l \in K : k # l => part[k] \cap part[l] = {}
  BY <1>3, <1>5
<1>9. InParts(part, K) = S
  BY <1>5, <1>7 DEF InParts
<1>10. SumOn(g, K) = SumOn(f, InParts(part, K))
  BY <1>2, <1>4, <1>6, <1>8, SumByParts
<1>11. SumOn(g, K) = SumOn(f, S)
  BY <1>9, <1>10
<1>12. [k \in K |-> g[k]] = g /\ [m \in S |-> f[m]] = f
  BY DEF f, g
<1>13. SumOf(g) = SumOf(f)
  BY <1>11, <1>12 DEF SumOn
<1> QED
  BY <1>13 DEF f, g, S, K

(* The total of first majors that the university report computes from what *)
(* is current is the sum of those that the institution states itself, one  *)
(* for each award level, or none where a program's number is missing, for  *)
(* any files that add up level by level (AwardsAssumption).                *)
THEOREM AwardsAreCountedOnce == MijobsSpec => []AwardsCountedOnce
<1>1. ASSUME ArchiveOK, archive.source = "completions", archive.last # NoNumber
      PROVE  AwardsCountedOnce
  <2> DEFINE file == archive.last.file
             year == archive.last.year
             Complete(u) == /\ ProgramRows(file, u) # {}
                            /\ \A m \in ProgramRows(file, u) : Counted(file, m) \notin {Marker, Blank}
  <2>1. Faithful("completions", archive.current, archive.stated)
        /\ Agrees(archive.current, archive.stated, archive.last)
    BY <1>1 DEF ArchiveOK
  <2>2. TotalsAddUp(file) /\ Len(file.rows) \in Nat
    <3>1. "completions" \in DOMAIN Files
      BY <1>1 DEF ArchiveOK
    <3> QED
      BY <1>1, <2>1, <3>1, AwardsAssumption DEF Agrees
  <2>3. SUFFICES ASSUME NEW u \in Wanted, TotalRows(file, u) # {},
                        {Level(file, m) : m \in ProgramRows(file, u)}
                          \subseteq {Level(file, n) : n \in TotalRows(file, u)},
                        \A k \in FirstMajors(u, year) :
                          archive.current[k].cell \in DOMAIN Stated("completions", year, file)
                 PROVE  TotalAwards(u, year) =
                          IF Complete(u) THEN SumOf([n \in TotalRows(file, u) |-> Counted(file, n)])
                                         ELSE NoNumber
    BY DEF AwardsCountedOnce
  <2> DEFINE programs == ProgramRows(file, u)
             total == TotalAwards(u, year)
             sum == SumOf([m \in programs |-> Counted(file, m)])
             stated == SumOf([n \in TotalRows(file, u) |-> Counted(file, n)])
             count(m) == Counted(file, m)
  <2>4. RowsApart(file, u)
    BY <2>2, <2>3 DEF TotalsAddUp, RowsApart, Level
  <2>5. total = IF programs # {} /\ (\A m \in programs : count(m) \in Int) THEN sum ELSE NoNumber
    BY <1>1, <2>1, <2>3, <2>4, ProgramsSummed
  <2>6. (\A m \in programs : count(m) \in Int) => stated = sum
    BY <2>2, <2>3, LevelsAddUp
  <2>7. \A m \in programs : count(m) \in Int \cup {Marker, Blank}
    BY <2>4 DEF RowsApart
  <2>8. Complete(u) <=> programs # {} /\ \A m \in programs : count(m) \notin {Marker, Blank}
    OBVIOUS
  <2> HIDE DEF programs, sum, stated, count, Complete, total
  <2>9. Complete(u) <=> programs # {} /\ \A m \in programs : count(m) \in Int
    BY <2>7, <2>8, FilesAssumption
  <2>10. total = IF Complete(u) THEN stated ELSE NoNumber
    BY <2>5, <2>6, <2>9
  <2> QED
    BY <2>10 DEF total, stated
<1>2. ArchiveOK => AwardsCountedOnce
  BY <1>1 DEF AwardsCountedOnce
<1> QED
  BY <1>2, ArchiveInvariance, PTL

----------------------------------------------------------------------------
(* A calculator at work: fractions, in parts of Whole. *)

(* What is multiplied is divided without a remainder. *)
LEMMA DivMul == ASSUME NEW x \in Int, NEW w \in Nat \ {0} PROVE (x * w) \div w = x
<1> DEFINE q == (x * w) \div w
<1>1. q \in Int /\ q * w <= x * w /\ x * w < (q + 1) * w
  OBVIOUS
<1> HIDE DEF q
<1>2. CASE q < x
  <2>1. q + 1 <= x
    BY <1>1, <1>2
  <2>2. (q + 1) * w <= x * w
    BY <1>1, <2>1
  <2> QED
    BY <1>1, <2>2
<1>3. CASE q > x
  <2>1. q - x >= 1 /\ (q - x) * w >= 1 * w
    BY <1>1, <1>3
  <2>2. (q - x) * w = q * w - x * w
    BY <1>1
  <2> QED
    BY <1>1, <2>1, <2>2
<1> QED
  BY <1>1, <1>2, <1>3 DEF q

(* Products grow with their factors. *)
LEMMA MulMono ==
  ASSUME NEW a \in Nat, NEW b \in Nat, NEW c \in Nat, NEW d \in Nat, a <= b, c <= d
  PROVE  a * c <= b * d /\ a * c \in Nat
<1>1. a * c \in Nat
  OBVIOUS
<1>2. b * d - a * c = (b - a) * d + a * (d - c)
  OBVIOUS
<1>3. (b - a) * d >= 0 /\ a * (d - c) >= 0
  OBVIOUS
<1> QED
  BY <1>1, <1>2, <1>3

(* Whoever is counted in parts of Whole has a share that is a number. *)
LEMMA ShareIs ==
  ASSUME NEW x \in Int, NEW rate \in Int
  PROVE  Share(x * Whole, rate) = x * rate
<1>1. Whole \in Nat \ {0}
  BY CalculatorsAssumption
<1>2. (x * Whole) * rate = (x * rate) * Whole /\ x * rate \in Int
  BY <1>1
<1> QED
  BY <1>1, <1>2, DivMul DEF Share

(* Whoever is retained is a resident who does not move away. *)
LEMMA RetentionRight ==
  ASSUME NEW p \in Payloads.retention, RetentionRisk(p) # Refusal
  PROVE  /\ RetentionAddsUp(p, RetentionRisk(p))
         /\ RetentionRisk(p).retained \in Int /\ RetentionRisk(p).graduates \in Int
<1> DEFINE g == p.graduates
           a == p.residents
           o == p.out_migration
           all == g * Whole * Whole
           r == RetentionRisk(p)
<1>1. Whole \in Nat \ {0} /\ g \in Int /\ a \in Int /\ o \in Int
  BY CalculatorsAssumption, PayloadsAssumption
<1>2. g >= 0 /\ a \in 0 .. Whole /\ o \in 0 .. Whole
  BY <1>1 DEF RetentionRisk
<1>3. /\ r.graduates = all /\ r.retained = Share(Share(all, a), Whole - o)
      /\ r.leaving = all - r.retained
  BY DEF RetentionRisk
<1> HIDE DEF r, g, a, o
<1>4. Share(all, a) = (g * a) * Whole
  <2>1. g * Whole \in Int
    BY <1>1
  <2>2. Share((g * Whole) * Whole, a) = (g * Whole) * a
    BY <1>1, <2>1, ShareIs
  <2>3. (g * Whole) * a = (g * a) * Whole
    BY <1>1
  <2> QED
    BY <2>2, <2>3
<1>5. r.retained = (g * a) * (Whole - o)
  <2>1. g * a \in Int /\ Whole - o \in Int
    BY <1>1
  <2>2. Share((g * a) * Whole, Whole - o) = (g * a) * (Whole - o)
    BY <2>1, ShareIs
  <2> QED
    BY <1>3, <1>4, <2>2, Zenon
<1>6. Share(all, o) = (g * Whole) * o
  <2>1. g * Whole \in Int
    BY <1>1
  <2> QED
    BY <1>1, <2>1, ShareIs
<1>7. r.retained >= 0 /\ r.retained \in Int /\ all \in Int
  BY <1>1, <1>2, <1>5, MulMono
<1>8. r.retained <= Share(all, a)
  <2>1. g * a \in Nat /\ Whole - o \in Nat /\ Whole - o <= Whole
    BY <1>1, <1>2
  <2>2. (g * a) * (Whole - o) <= (g * a) * Whole
    BY <1>1, <2>1, MulMono
  <2> QED
    BY <1>4, <1>5, <2>2
<1>9. r.retained <= all - Share(all, o)
  <2>1. g * a \in Nat /\ g * Whole \in Nat /\ Whole - o \in Nat
    BY <1>1, <1>2
  <2>2. g * a <= g * Whole
    BY <1>1, <1>2, MulMono
  <2>3. (g * a) * (Whole - o) <= (g * Whole) * (Whole - o)
    BY <2>1, <2>2, MulMono
  <2>4. (g * Whole) * (Whole - o) = all - (g * Whole) * o
    BY <1>1
  <2> QED
    BY <1>5, <1>6, <2>3, <2>4
<1> DEFINE sa == Share(all, a)
           so == Share(all, o)
<1>10. sa \in Int /\ so \in Int
  BY <1>1, <1>4, <1>6
<1>11. RetentionAddsUp(p, r)
  <2> HIDE DEF all, sa, so
  <2>1. /\ r.retained + r.leaving = all
        /\ r.leaving >= all - sa /\ r.leaving >= so
    BY <1>3, <1>7, <1>8, <1>9, <1>10 DEF sa, so
  <2> QED
    BY <1>3, <1>7, <2>1 DEF RetentionAddsUp, sa, so, a, o
<1> QED
  BY <1>3, <1>7, <1>11 DEF r

LEMMA LeastIs ==
  ASSUME NEW s \in SUBSET Int, NEW m \in s, \A k \in s : m <= k
  PROVE  Min(s) = m
<1>1. \A k \in s : (\A j \in s : k <= j) => k = m
  BY SMT
<1>2. \E k \in s : \A j \in s : k <= j
  OBVIOUS
<1> QED
  BY <1>1, <1>2 DEF Min

(* The greater of two. *)
LEMMA GreaterOf ==
  ASSUME NEW a \in Int, NEW b \in Int
  PROVE  Max({a, b}) = IF a >= b THEN a ELSE b
<1>1. CASE a >= b
  <2>1. \A k \in {a, b} : k <= a
    BY <1>1
  <2> QED
    BY <1>1, <2>1, GreatestIs
<1>2. CASE a < b
  <2>1. \A k \in {a, b} : k <= b
    BY <1>2
  <2> QED
    BY <1>2, <2>1, GreatestIs
<1> QED
  BY <1>1, <1>2

(* The lesser of two. *)
LEMMA LesserOf ==
  ASSUME NEW a \in Int, NEW b \in Int
  PROVE  Min({a, b}) = IF a <= b THEN a ELSE b
<1>1. CASE a <= b
  <2>1. \A k \in {a, b} : a <= k
    BY <1>1
  <2> QED
    BY <1>1, <2>1, LeastIs
<1>2. CASE a > b
  <2>1. \A k \in {a, b} : b <= k
    BY <1>2
  <2> QED
    BY <1>2, <2>1, LeastIs
<1> QED
  BY <1>1, <1>2

(* What an assumption comes to, in parts of PolicyUnit.                    *)
Reasonable(a) ==
  /\ a.seats \in Nat
  /\ \A r \in Rates : a[r] \in 0 .. Whole

Net(a) == (((a.seats * a["completion"]) * a["placement"]) * a["retention"]) * (Whole - a["counterfactual"])

(* Each stage is a share of the one before, and the net is the product. *)
LEMMA StagesAre ==
  ASSUME NEW gap \in Nat, NEW a, Reasonable(a)
  PROVE  LET r == EvaluateTrainingPolicy(gap, a)
         IN  /\ r.net \in Nat /\ r.net = Net(a)
             /\ r.net <= r.retained /\ r.retained <= r.placed /\ r.placed <= r.completers
             /\ r.completers <= a.seats * PolicyUnit
<1> DEFINE W == Whole
           s == a.seats
           c == a["completion"]
           p == a["placement"]
           t == a["retention"]
           f == W - a["counterfactual"]
           r == EvaluateTrainingPolicy(gap, a)
<1>1. W \in Nat \ {0} /\ s \in Nat /\ c \in 0 .. W /\ p \in 0 .. W /\ t \in 0 .. W /\ f \in 0 .. W
  BY CalculatorsAssumption DEF Reasonable, Rates
<1>2. /\ r.completers = Share(s * PolicyUnit, c)
      /\ r.placed = Share(r.completers, p)
      /\ r.retained = Share(r.placed, t)
      /\ r.net = Share(r.retained, f)
  BY DEF EvaluateTrainingPolicy
<1>a. Net(a) = (((s * c) * p) * t) * f
  BY DEF Net
<1> DEFINE w3 == W * W * W
           w2 == W * W
<1>3. \A x \in Int, rate \in Int : Share(x * W, rate) = x * rate
  BY ShareIs
<1> HIDE DEF s, c, p, t, f, r
<1>4. w3 \in Nat /\ w2 \in Nat /\ s * PolicyUnit = (s * w3) * W
  BY <1>1 DEF PolicyUnit
<1>5. \A x \in Nat, y \in 0 .. W : x * y <= x * W /\ x * y \in Nat
  BY <1>1, MulMono
<1>6. w3 = w2 * W /\ w2 = W * W
  BY <1>1
<1> HIDE DEF w3, w2
<1> HIDE DEF W
<1>7. r.completers = (s * w3) * c /\ r.completers <= s * PolicyUnit /\ s * w3 \in Nat
  <2>1. s * w3 \in Nat /\ c \in Int
    BY <1>1, <1>4
  <2> DEFINE x == s * w3
  <2> HIDE DEF x
  <2>2. Share(x * W, c) = x * c /\ x * c <= x * W
    BY <1>1, <1>3, <1>5, <2>1 DEF x
  <2>3. s * PolicyUnit = x * W /\ x \in Nat
    BY <1>4, <2>1 DEF x
  <2>4. r.completers = x * c /\ r.completers <= s * PolicyUnit /\ x \in Nat
    BY <1>2, <2>2, <2>3, Zenon
  <2> QED
    BY <2>4 DEF x
<1>8. r.completers = ((s * c) * w2) * W /\ (s * c) * w2 \in Nat /\ s * c \in Nat
  BY <1>1, <1>4, <1>6, <1>7
<1>9. r.placed = ((s * c) * w2) * p /\ r.placed <= r.completers
  <2> DEFINE x == (s * c) * w2
  <2>1. p \in Int /\ x \in Nat /\ r.completers = x * W
    BY <1>1, <1>8
  <2> HIDE DEF x
  <2>2. Share(x * W, p) = x * p /\ x * p <= x * W
    <3>1. x \in Nat /\ x \in Int /\ p \in Int /\ p \in 0 .. W
      BY <1>1, <2>1
    <3>2. Share(x * W, p) = x * p
      BY <1>3, <3>1, Zenon
    <3>3. x * p <= x * W /\ x * p \in Nat
      BY <1>5, <3>1, Zenon
    <3> QED
      BY <3>2, <3>3
  <2>3. r.placed = x * p /\ r.placed <= r.completers
    BY <1>2, <2>1, <2>2, Zenon
  <2> QED
    BY <2>3 DEF x
<1>10. r.placed = (((s * c) * p) * W) * W /\ ((s * c) * p) * W \in Nat /\ (s * c) * p \in Nat
  BY <1>1, <1>6, <1>8, <1>9
<1>11. r.retained = (((s * c) * p) * W) * t /\ r.retained <= r.placed
  <2> DEFINE x == ((s * c) * p) * W
  <2>1. t \in Int /\ x \in Nat /\ r.placed = x * W
    BY <1>1, <1>10
  <2> HIDE DEF x
  <2>2. Share(x * W, t) = x * t /\ x * t <= x * W
    <3>1. x \in Nat /\ x \in Int /\ t \in Int /\ t \in 0 .. W
      BY <1>1, <2>1
    <3>2. Share(x * W, t) = x * t
      BY <1>3, <3>1, Zenon
    <3>3. x * t <= x * W /\ x * t \in Nat
      BY <1>5, <3>1, Zenon
    <3> QED
      BY <3>2, <3>3
  <2>3. r.retained = x * t /\ r.retained <= r.placed
    BY <1>2, <2>1, <2>2, Zenon
  <2> QED
    BY <2>3 DEF x
<1>12. r.retained = (((s * c) * p) * t) * W /\ ((s * c) * p) * t \in Nat
  BY <1>1, <1>10, <1>11
<1>13. r.net = (((s * c) * p) * t) * f /\ r.net <= r.retained /\ r.net \in Nat
  <2> DEFINE x == ((s * c) * p) * t
  <2>1. f \in Int /\ x \in Nat /\ r.retained = x * W
    BY <1>1, <1>12
  <2> HIDE DEF x
  <2>2. Share(x * W, f) = x * f /\ x * f <= x * W /\ x * f \in Nat
    <3>1. x \in Nat /\ x \in Int /\ f \in Int /\ f \in 0 .. W
      BY <1>1, <2>1
    <3>2. Share(x * W, f) = x * f
      BY <1>3, <3>1, Zenon
    <3>3. x * f <= x * W /\ x * f \in Nat
      BY <1>5, <3>1, Zenon
    <3> QED
      BY <3>2, <3>3
  <2>3. r.net = x * f /\ r.net <= r.retained /\ r.net \in Nat
    BY <1>2, <2>1, <2>2, Zenon
  <2> QED
    BY <2>3 DEF x
<1> QED
  BY <1>7, <1>9, <1>11, <1>13, <1>a DEF r, s

(* Better assumptions, no smaller net. *)
LEMMA NetMonotone ==
  ASSUME NEW a, NEW b, Reasonable(a), Reasonable(b), a.seats >= b.seats,
         a["counterfactual"] <= b["counterfactual"],
         \A r \in Rates \ {"counterfactual"} : a[r] >= b[r]
  PROVE  Net(a) >= Net(b)
<1>1. /\ a.seats \in Nat /\ b.seats \in Nat /\ Whole \in Nat
      /\ \A r \in {"completion", "placement", "retention"} : a[r] \in Nat /\ b[r] \in Nat /\ b[r] <= a[r]
      /\ Whole - a["counterfactual"] \in Nat /\ Whole - b["counterfactual"] \in Nat
      /\ Whole - b["counterfactual"] <= Whole - a["counterfactual"]
  BY CalculatorsAssumption DEF Reasonable, Rates
<1> DEFINE x(k) == k.seats * k["completion"]
           y(k) == x(k) * k["placement"]
           z(k) == y(k) * k["retention"]
<1>2. x(b) <= x(a) /\ x(a) \in Nat /\ x(b) \in Nat
  BY <1>1, MulMono
<1> HIDE DEF x
<1>3. y(b) <= y(a) /\ y(a) \in Nat /\ y(b) \in Nat
  BY <1>1, <1>2, MulMono
<1> HIDE DEF y
<1>4. z(b) <= z(a) /\ z(a) \in Nat /\ z(b) \in Nat
  BY <1>1, <1>3, MulMono
<1> HIDE DEF z
<1>5. z(b) * (Whole - b["counterfactual"]) <= z(a) * (Whole - a["counterfactual"])
  BY <1>1, <1>4, MulMono
<1> QED
  BY <1>5 DEF Net, x, y, z

(* The three cases of a training scenario. *)
LEMMA PolicyRight ==
  ASSUME NEW p \in Payloads.policy, TrainingScenario(p) # Refusal
  PROVE  PolicyAddsUp(p, TrainingScenario(p))
<1> DEFINE r == TrainingScenario(p)
           E(c) == EvaluateTrainingPolicy(p.gap, p[c])
           unit == p.gap * PolicyUnit
<1>1. Cases \cup {"gap"} \subseteq DOMAIN p /\ \A c \in Cases : ~Unreasonable(p.gap, p[c])
  BY DEF TrainingScenario
<1>2. r = [c \in Cases |-> E(c)]
  BY DEF TrainingScenario
<1>3. p.gap \in Int /\ \A c \in Cases : \A amount \in DOMAIN p[c] : p[c][amount] \in Int
  BY <1>1, PayloadsAssumption DEF Cases
<1>4. p.gap \in Nat
  BY <1>1, <1>3 DEF Unreasonable, Cases
<1>5. \A c \in Cases : Reasonable(p[c])
  <2> SUFFICES ASSUME NEW c \in Cases PROVE Reasonable(p[c])
    OBVIOUS
  <2> DEFINE a == p[c]
  <2>1. /\ Rates \cup {"seats", "cost"} \subseteq DOMAIN a /\ ~(a.seats < 0)
        /\ \A s \in Rates : ~(a[s] < 0) /\ ~(a[s] > Whole)
    BY <1>1 DEF Unreasonable
  <2>2. \A amount \in DOMAIN a : a[amount] \in Int
    BY <1>3
  <2>3. Whole \in Nat
    BY CalculatorsAssumption
  <2> HIDE DEF a
  <2>4. \A s \in Rates : a[s] \in Int
    BY <2>1, <2>2
  <2>5. a["seats"] \in Int
    BY <2>1, <2>2
  <2>6. Reasonable(a)
    BY <2>1, <2>3, <2>4, <2>5 DEF Reasonable
  <2> QED
    BY <2>6 DEF a
<1>6. PolicyUnit \in Nat /\ unit \in Nat
  BY <1>4, CalculatorsAssumption DEF PolicyUnit
<1>7. \A c \in Cases : /\ E(c).residual = Max({0, unit - E(c).net})
                       /\ E(c).closed = IF p.gap > 0 THEN Min({unit, E(c).net}) ELSE 0
  BY DEF EvaluateTrainingPolicy
<1>8. \A c \in Cases : /\ E(c).net \in Nat /\ E(c).net = Net(p[c])
                       /\ E(c).net <= E(c).retained /\ E(c).retained <= E(c).placed
                       /\ E(c).placed <= E(c).completers /\ E(c).completers <= p[c].seats * PolicyUnit
  BY <1>4, <1>5, StagesAre
<1>9. p.gap <= 0 => unit = 0
  <2>1. p.gap <= 0 => p.gap = 0
    BY <1>4
  <2> QED
    BY <1>6, <2>1
<1>10. \A c \in Cases : /\ E(c).residual = IF 0 >= unit - E(c).net THEN 0 ELSE unit - E(c).net
                        /\ E(c).closed = IF unit <= E(c).net THEN unit ELSE E(c).net
  <2> SUFFICES ASSUME NEW c \in Cases
               PROVE  /\ E(c).residual = IF 0 >= unit - E(c).net THEN 0 ELSE unit - E(c).net
                      /\ E(c).closed = IF unit <= E(c).net THEN unit ELSE E(c).net
    OBVIOUS
  <2> DEFINE n == E(c).net
             d == unit - n
  <2>1. n \in Nat
    BY <1>8
  <2>2. E(c).residual = Max({0, d}) /\ E(c).closed = IF p.gap > 0 THEN Min({unit, n}) ELSE 0
    BY <1>7
  <2> HIDE DEF E, unit, n
  <2>3. d \in Int /\ unit \in Int /\ n \in Int /\ 0 \in Int
    BY <1>6, <2>1
  <2> HIDE DEF d
  <2>4. Max({0, d}) = IF 0 >= d THEN 0 ELSE d
    BY <2>3, GreaterOf
  <2>5. Min({unit, n}) = IF unit <= n THEN unit ELSE n
    BY <2>3, LesserOf
  <2> QED
    BY <1>4, <1>6, <1>9, <2>1, <2>2, <2>4, <2>5 DEF d, n
<1> HIDE DEF E, unit
<1>11. \A c \in Cases : E(c).residual + E(c).closed = unit
  BY <1>6, <1>8, <1>10
<1>12. ASSUME NEW c \in Cases, NEW d \in Cases, p[c].seats >= p[d].seats,
              p[c]["counterfactual"] <= p[d]["counterfactual"],
              \A rate \in Rates \ {"counterfactual"} : p[c][rate] >= p[d][rate]
       PROVE  E(c).residual <= E(d).residual
  <2>1. E(c).net >= E(d).net
    BY <1>5, <1>8, <1>12, NetMonotone
  <2> QED
    BY <1>6, <1>8, <1>10, <2>1
<1>13. \A c \in Cases : r[c] = E(c)
  BY <1>2
<1> HIDE DEF r
<1> QED
  BY <1>8, <1>11, <1>12, <1>13 DEF PolicyAddsUp, r, unit

(* A set of numbers has a least one. *)
LEMMA SmallestIs ==
  ASSUME NEW S \in SUBSET Nat, S # {}
  PROVE  \E m \in S : \A k \in S : m <= k
<1>1. IsWellFoundedOn(OpToRel(<, Nat), Nat)
  BY NatLessThanWellFounded
<1>2. PICK m \in S : \A k \in S : <<k, m>> \notin OpToRel(<, Nat)
  BY <1>1, WFMin
<1>3. ASSUME NEW k \in S, k < m
      PROVE  FALSE
  <2>1. <<k, m>> \in OpToRel(<, Nat)
    BY <1>3, SMT DEF OpToRel
  <2> QED
    BY <1>2, <2>1
<1> QED
  BY <1>3

(* A set of places of a list has a last one. *)
LEMMA GreatestExists ==
  ASSUME NEW N \in Nat, NEW S \in SUBSET (1 .. N), S # {}
  PROVE  \E m \in S : Max(S) = m /\ \A k \in S : k <= m
<1> DEFINE T == {N - k : k \in S}
<1>0. \A k \in S : N - k \in Nat
  OBVIOUS
<1>1. T \in SUBSET Nat /\ T # {}
  BY <1>0, Zenon
<1>2. PICK l \in T : \A k \in T : l <= k
  BY <1>1, SmallestIs
<1>3. PICK m \in S : l = N - m
  OBVIOUS
<1>4. \A k \in S : k <= m
  <2> SUFFICES ASSUME NEW k \in S PROVE k <= m
    OBVIOUS
  <2>1. l <= N - k
    BY <1>2
  <2> QED
    BY <1>3, <2>1
<1>5. S \in SUBSET Int
  OBVIOUS
<1>6. Max(S) = m
  BY <1>4, <1>5, GreatestIs
<1> QED
  BY <1>4, <1>6

(* What is asked for last. *)
LEMMA DemandIs ==
  ASSUME NEW p \in Payloads.degrees
  PROVE  /\ \A soc : soc \in DOMAIN DemandBySoc(p) <=> \E n \in DOMAIN p.demand : p.demand[n].soc = soc
         /\ \A soc \in DOMAIN DemandBySoc(p) :
              DemandBySoc(p)[soc] = LastDemand(p, soc) /\ LastDemand(p, soc) \in Int
<1> DEFINE N == Len(p.demand)
           layers == [n \in DOMAIN p.demand |-> [soc \in {p.demand[n].soc} |-> p.demand[n].openings]]
           nothing == <<>>
           demand == Layered(layers, nothing)
<1>1. DOMAIN p.demand = 1 .. N /\ N \in Nat /\ \A n \in 1 .. N : p.demand[n].openings \in Int
  BY PayloadsAssumption DEF IsList
<1>2. DOMAIN layers = 1 .. N /\ DOMAIN nothing = {}
  BY <1>1
<1>3. \A n \in 1 .. N : /\ DOMAIN layers[n] = {p.demand[n].soc}
                        /\ layers[n][p.demand[n].soc] = p.demand[n].openings
  BY <1>1
<1>4. DemandBySoc(p) = demand
  BY DEF DemandBySoc
<1> HIDE DEF layers, nothing, N
<1>5. /\ \A c : c \in DOMAIN demand <=> \E n \in 1 .. N : c \in DOMAIN layers[n]
      /\ \A n \in 1 .. N : \A c \in DOMAIN layers[n] :
           (\A m \in 1 .. N : c \in DOMAIN layers[m] => m <= n) => demand[c] = layers[n][c]
  <2>1. SaysLast(Layered(layers, nothing), layers, N)
    BY <1>1, <1>2, LayeredSays
  <2> QED
    BY <2>1 DEF SaysLast
<1> HIDE DEF demand
<1>6. ASSUME NEW soc \in DOMAIN demand
      PROVE  demand[soc] = LastDemand(p, soc) /\ LastDemand(p, soc) \in Int
  <2> DEFINE S == {n \in DOMAIN p.demand : p.demand[n].soc = soc}
  <2>1. S \in SUBSET (1 .. N) /\ S # {}
    BY <1>1, <1>3, <1>5
  <2>2. PICK m \in S : Max(S) = m /\ \A k \in S : k <= m
    BY <1>1, <2>1, GreatestExists
  <2>3. LastDemand(p, soc) = p.demand[m].openings
    BY <2>2 DEF LastDemand
  <2>4. m \in 1 .. N /\ p.demand[m].soc = soc
    BY <1>1
  <2>5. \A k \in 1 .. N : soc \in DOMAIN layers[k] => k <= m
    BY <1>1, <1>3, <2>2
  <2>6. demand[soc] = layers[m][soc]
    BY <1>3, <1>5, <2>4, <2>5
  <2> QED
    BY <1>1, <1>3, <2>3, <2>4, <2>6
<1> QED
  BY <1>1, <1>3, <1>4, <1>5, <1>6

(* A place of the occupations is of a program and an edge that leads from  *)
(* it to an occupation in demand.                                          *)
LEMMA PlacesAre ==
  ASSUME NEW p \in Payloads.degrees
  PROVE  LET occupations == MatchedOccupations(p)
         IN  /\ \A i \in DOMAIN occupations :
                  /\ i[1] \in DOMAIN p.completions /\ i[2] \in DOMAIN p.crosswalk /\ i = <<i[1], i[2]>>
                  /\ occupations[i].soc \in Reached(p, p.completions[i[1]])
                  /\ occupations[i].openings = LastDemand(p, occupations[i].soc)
                  /\ occupations[i].openings \in Int
             /\ \A n \in DOMAIN p.completions : \A soc \in Reached(p, p.completions[n]) :
                  \E i \in DOMAIN occupations : i[1] = n /\ occupations[i].soc = soc
<1> DEFINE demand == DemandBySoc(p)
           occupations == MatchedOccupations(p)
           places == {i \in (DOMAIN p.completions) \X (DOMAIN p.crosswalk) :
                       /\ p.crosswalk[i[2]].cip = p.completions[i[1]].cip
                       /\ p.crosswalk[i[2]].soc \in DOMAIN demand}
<1>1. /\ DOMAIN occupations = places
      /\ \A i \in places : /\ occupations[i].soc = p.crosswalk[i[2]].soc
                           /\ occupations[i].openings = demand[p.crosswalk[i[2]].soc]
  BY DEF MatchedOccupations
<1>2. /\ \A soc : soc \in DOMAIN demand <=> \E n \in DOMAIN p.demand : p.demand[n].soc = soc
      /\ \A soc \in DOMAIN demand : demand[soc] = LastDemand(p, soc) /\ LastDemand(p, soc) \in Int
  BY DemandIs
<1> HIDE DEF demand, occupations
<1>3. \A c, soc : soc \in Reached(p, c) <=>
        /\ soc \in DOMAIN demand
        /\ \E e \in DOMAIN p.crosswalk : p.crosswalk[e].cip = c.cip /\ p.crosswalk[e].soc = soc
  BY <1>2 DEF Reached, ToSet
<1>4. ASSUME NEW i \in places
      PROVE  /\ i[1] \in DOMAIN p.completions /\ i[2] \in DOMAIN p.crosswalk /\ i = <<i[1], i[2]>>
             /\ occupations[i].soc \in Reached(p, p.completions[i[1]])
             /\ occupations[i].openings = LastDemand(p, occupations[i].soc)
             /\ occupations[i].openings \in Int
  <2> DEFINE n == i[1]
             e == i[2]
             soc == p.crosswalk[e].soc
  <2>1. /\ n \in DOMAIN p.completions /\ e \in DOMAIN p.crosswalk /\ i = <<n, e>>
        /\ p.crosswalk[e].cip = p.completions[n].cip /\ soc \in DOMAIN demand
    OBVIOUS
  <2>2. occupations[i].soc = soc /\ occupations[i].openings = demand[soc]
    BY <1>1
  <2>3. soc \in Reached(p, p.completions[n])
    BY <1>3, <2>1
  <2>4. demand[soc] = LastDemand(p, soc) /\ LastDemand(p, soc) \in Int
    BY <1>2, <2>1
  <2> HIDE DEF places, n, e, soc
  <2>5. /\ occupations[i].soc \in Reached(p, p.completions[n])
        /\ occupations[i].openings = LastDemand(p, occupations[i].soc)
        /\ occupations[i].openings \in Int
    BY <2>2, <2>3, <2>4, Zenon
  <2> QED
    BY <2>1, <2>5, Zenon DEF n, e
<1>5. ASSUME NEW n \in DOMAIN p.completions, NEW soc \in Reached(p, p.completions[n])
      PROVE  \E i \in places : i[1] = n /\ occupations[i].soc = soc
  <2>1. soc \in DOMAIN demand
    BY <1>3
  <2>2. PICK e \in DOMAIN p.crosswalk :
             p.crosswalk[e].cip = p.completions[n].cip /\ p.crosswalk[e].soc = soc
    BY <1>3
  <2>3. <<n, e>> \in places /\ <<n, e>>[1] = n /\ <<n, e>>[2] = e
    BY <2>1, <2>2
  <2> HIDE DEF places
  <2>4. occupations[<<n, e>>].soc = soc
    BY <1>1, <2>2, <2>3
  <2> QED
    BY <2>3, <2>4
<1>6. DOMAIN occupations = places
  BY <1>1
<1> HIDE DEF places
<1> QED
  BY <1>4, <1>5, <1>6, Zenon DEF occupations

(* The awards of some programs and those of the others. *)
LEMMA AwardsOn ==
  ASSUME NEW p \in Payloads.degrees
  PROVE  /\ IsFiniteSet(DOMAIN p.completions)
         /\ Awards(p, DOMAIN p.completions) \in Int
         /\ \A s \in SUBSET DOMAIN p.completions :
              Awards(p, s) \in Int
              /\ Awards(p, DOMAIN p.completions) = Awards(p, s) + Awards(p, DOMAIN p.completions \ s)
<1> DEFINE D == DOMAIN p.completions
           f == [n \in D |-> p.completions[n].awards]
<1>1. D = 1 .. Len(p.completions) /\ Len(p.completions) \in Nat /\ \A n \in D : p.completions[n].awards \in Int
  BY PayloadsAssumption DEF IsList
<1>2. IsFiniteSet(D)
  BY <1>1, FS_Interval
<1>3. \A s \in SUBSET D : [k \in s |-> f[k]] = [k \in s |-> p.completions[k].awards]
  OBVIOUS
<1>4. \A s \in SUBSET D : Awards(p, s) = SumOn(f, s)
  BY <1>3 DEF Awards, SumOn
<1>5. IntOn(f, D)
  BY <1>1 DEF IntOn
<1> HIDE DEF f, D
<1>6. \A s \in SUBSET D : SumOn(f, s) \in Int
  BY <1>2, <1>5, SumOnStep
<1>7. \A s \in SUBSET D : SumOn(f, D) = SumOn(f, s) + SumOn(f, D \ s)
  BY <1>2, <1>5, SumApart
<1>8. \A s \in SUBSET D : Awards(p, s) \in Int /\ Awards(p, D) = Awards(p, s) + Awards(p, D \ s)
  <2> SUFFICES ASSUME NEW s \in SUBSET D
               PROVE  Awards(p, s) \in Int /\ Awards(p, D) = Awards(p, s) + Awards(p, D \ s)
    OBVIOUS
  <2>1. Awards(p, D \ s) = SumOn(f, D \ s) /\ Awards(p, D) = SumOn(f, D) /\ Awards(p, s) = SumOn(f, s)
    BY <1>4
  <2> QED
    BY <1>6, <1>7, <2>1
<1> QED
  BY <1>2, <1>8 DEF D

(* Each program with an occupation in demand is matched, once. *)
LEMMA DegreesRight ==
  ASSUME NEW p \in Payloads.degrees, DegreeRelevance(p) # Refusal
  PROVE  DegreesAddUp(p, DegreeRelevance(p))
<1> DEFINE D == DOMAIN p.completions
           occupations == MatchedOccupations(p)
           places == DOMAIN occupations
           found == {n \in D : \E i \in places : i[1] = n}
           matched == {n \in D : Reached(p, p.completions[n]) # {}}
           r == DegreeRelevance(p)
<1>1. r.matched = Awards(p, found) /\ r.unmatched = Awards(p, D) - Awards(p, found)
  BY DEF DegreeRelevance
<1>a. /\ \A i \in places : i[1] \in D /\ occupations[i].soc \in Reached(p, p.completions[i[1]])
      /\ \A n \in D : \A soc \in Reached(p, p.completions[n]) :
           \E i \in places : i[1] = n /\ occupations[i].soc = soc
  BY PlacesAre
<1> HIDE DEF places, r, occupations
<1>2. /\ \A i \in places : i[1] \in D /\ Reached(p, p.completions[i[1]]) # {}
      /\ \A n \in D : Reached(p, p.completions[n]) # {} => \E i \in places : i[1] = n
  BY <1>a
<1>3. found = matched
  BY <1>2
<1>4. \A s \in SUBSET D : Awards(p, s) \in Int /\ Awards(p, D) = Awards(p, s) + Awards(p, D \ s)
  BY AwardsOn
<1>5. matched \in SUBSET D
  OBVIOUS
<1> HIDE DEF found, matched
<1>6. /\ Awards(p, matched) \in Int /\ Awards(p, D \ matched) \in Int
      /\ Awards(p, D) = Awards(p, matched) + Awards(p, D \ matched)
  BY <1>4, <1>5
<1>7. r.matched = Awards(p, matched) /\ r.unmatched = Awards(p, D \ matched)
  BY <1>1, <1>3, <1>6
<1> QED
  BY <1>7 DEF DegreesAddUp, matched, r

Before(i, j) == i[1] < j[1] \/ (i[1] = j[1] /\ i[2] < j[2])

(* Of the places of an occupation one comes before all others. *)
LEMMA FirstPlace ==
  ASSUME NEW S, S # {}, \A i \in S : i[1] \in Nat /\ i[2] \in Nat
  PROVE  \E i \in S : \A j \in S : ~Before(j, i)
<1> DEFINE A == {i[1] : i \in S}
<1>1. A \in SUBSET Nat /\ A # {}
  OBVIOUS
<1>2. PICK a \in A : \A k \in A : a <= k
  BY <1>1, SmallestIs
<1> DEFINE T == {i \in S : i[1] = a}
           B == {i[2] : i \in T}
<1>3. B \in SUBSET Nat /\ B # {}
  OBVIOUS
<1>4. PICK b \in B : \A k \in B : b <= k
  BY <1>3, SmallestIs
<1>5. PICK i \in T : i[2] = b
  BY <1>4
<1>6. ASSUME NEW j \in S, Before(j, i)
      PROVE  FALSE
  <2>1. a <= j[1] /\ i[1] = a /\ j[1] \in Nat /\ a \in Nat
    BY <1>1, <1>2
  <2>2. ~(j[1] < i[1])
    BY <2>1
  <2>3. j[1] = i[1] /\ j[2] < i[2]
    BY <1>6, <2>2 DEF Before
  <2>4. j \in T
    BY <2>1, <2>3
  <2>5. b <= j[2] /\ b \in Nat /\ j[2] \in Nat
    BY <1>3, <1>4, <2>4
  <2> QED
    BY <1>5, <2>3, <2>5
<1> QED
  BY <1>5, <1>6

(* Of two places one is before the other. *)
LEMMA OneIsBefore ==
  ASSUME NEW i, NEW j, i = <<i[1], i[2]>>, j = <<j[1], j[2]>>,
         i[1] \in Nat, i[2] \in Nat, j[1] \in Nat, j[2] \in Nat, ~Before(i, j), ~Before(j, i)
  PROVE  i = j
<1>1. i[1] = j[1] /\ i[2] = j[2]
  BY DEF Before
<1> QED
  BY <1>1, Zenon

(* Each occupation in demand that a program leads to is counted once.      *)
LEMMA OpeningsOnce ==
  ASSUME NEW p \in Payloads.degrees
  PROVE  LET reached == UNION {Reached(p, c) : c \in ToSet(p.completions)}
         IN  /\ OpeningsMatched(MatchedOccupations(p)) = SumOf([soc \in reached |-> LastDemand(p, soc)])
             /\ OpeningsMatched(MatchedOccupations(p)) \in Int
<1> DEFINE occupations == MatchedOccupations(p)
           places == DOMAIN occupations
           reached == UNION {Reached(p, c) : c \in ToSet(p.completions)}
           Repeated(i) == \E j \in places : Before(j, i) /\ occupations[j].soc = occupations[i].soc
           first == {i \in places : ~Repeated(i)}
           f == [soc \in reached |-> LastDemand(p, soc)]
           g == [i \in first |-> occupations[i].openings]
           h == [i \in first |-> occupations[i].soc]
           D == DOMAIN p.completions
           E == DOMAIN p.crosswalk
<1>1. OpeningsMatched(occupations) = SumOf(g)
  BY DEF OpeningsMatched, Before
<1>2. /\ \A i \in places : /\ i[1] \in D /\ i[2] \in E /\ i = <<i[1], i[2]>>
                           /\ occupations[i].soc \in Reached(p, p.completions[i[1]])
                           /\ occupations[i].openings = LastDemand(p, occupations[i].soc)
                           /\ occupations[i].openings \in Int
      /\ \A n \in D : \A soc \in Reached(p, p.completions[n]) :
           \E i \in places : i[1] = n /\ occupations[i].soc = soc
  BY PlacesAre
<1>3. /\ \A soc \in reached : \E n \in D : soc \in Reached(p, p.completions[n])
      /\ \A n \in D : \A soc \in Reached(p, p.completions[n]) : soc \in reached
  BY DEF ToSet
<1>4. D = 1 .. Len(p.completions) /\ Len(p.completions) \in Nat
      /\ E = 1 .. Len(p.crosswalk) /\ Len(p.crosswalk) \in Nat
      /\ DOMAIN p.demand = 1 .. Len(p.demand) /\ Len(p.demand) \in Nat
  BY PayloadsAssumption DEF IsList
<1>5. IsFiniteSet(reached)
  <2> DEFINE T == {p.demand[n].soc : n \in DOMAIN p.demand}
             s == [n \in DOMAIN p.demand |-> p.demand[n].soc]
  <2>1. s \in Surjection(DOMAIN p.demand, T)
    BY DEF Surjection
  <2>2. IsFiniteSet(DOMAIN p.demand)
    BY <1>4, FS_Interval
  <2>3. IsFiniteSet(T)
    BY <2>1, <2>2, FS_Surjection
  <2>4. reached \subseteq T
    BY DEF Reached
  <2> QED
    BY <2>3, <2>4, FS_Subset
<1> HIDE DEF reached, occupations
<1>6. \A i \in places : i[1] \in Nat /\ i[2] \in Nat
  BY <1>2, <1>4
<1>7. IsFiniteSet(first)
  <2>0. \A n \in Nat : IsFiniteSet(1 .. n)
    BY FS_Interval
  <2>1. IsFiniteSet(D) /\ IsFiniteSet(E)
    BY <1>4, <2>0, Zenon
  <2> HIDE DEF D, E
  <2>2. IsFiniteSet(D \X E)
    BY <2>1, FS_Product
  <2>3. first \subseteq D \X E
    BY <1>2
  <2> QED
    BY <2>2, <2>3, FS_Subset
<1> HIDE DEF D, E
<1>8. Summable(f)
  <2>1. \A soc \in reached : LastDemand(p, soc) \in Int
    BY <1>2, <1>3
  <2> QED
    BY <1>5, <2>1 DEF Summable
<1>9. \A i \in first : h[i] \in reached /\ g[i] = f[h[i]]
  BY <1>2, <1>3
<1>10. ASSUME NEW soc \in reached
       PROVE  \E i \in first : h[i] = soc
  <2> DEFINE S == {i \in places : occupations[i].soc = soc}
  <2>1. S # {}
    BY <1>2, <1>3
  <2>2. \A i \in S : i[1] \in Nat /\ i[2] \in Nat
    BY <1>6
  <2>3. PICK i \in S : \A j \in S : ~Before(j, i)
    BY <2>1, <2>2, FirstPlace
  <2>4. i \in places /\ occupations[i].soc = soc /\ ~Repeated(i)
    BY <2>3
  <2> QED
    BY <2>4
<1>11. ASSUME NEW i \in first, NEW j \in first, h[i] = h[j]
       PROVE  i = j
  <2>1. i \in places /\ j \in places /\ occupations[i].soc = occupations[j].soc /\ ~Repeated(i) /\ ~Repeated(j)
    BY <1>11
  <2>2. ~Before(i, j) /\ ~Before(j, i)
    BY <2>1
  <2>3. /\ i = <<i[1], i[2]>> /\ j = <<j[1], j[2]>>
        /\ i[1] \in Nat /\ i[2] \in Nat /\ j[1] \in Nat /\ j[2] \in Nat
    BY <1>2, <1>6, <2>1
  <2> QED
    BY <2>2, <2>3, OneIsBefore
<1>12. DOMAIN f = reached /\ DOMAIN g = first /\ DOMAIN h = first
  OBVIOUS
<1> HIDE DEF f, g, h, first
<1>13. SumOf(g) = SumOf(f)
  BY <1>7, <1>8, <1>9, <1>10, <1>11, <1>12, SumAlong
<1>14. SumOf(f) \in Int
  BY <1>8, SumLess
<1> QED
  BY <1>1, <1>13, <1>14 DEF f, occupations, reached

(* What the caller keeps of a balance. *)
BalanceKept(r) ==
  /\ r.completions \in Int /\ r.openings \in Int /\ r.surplus \in Int /\ r.deficit \in Int
  /\ r.surplus - r.deficit = r.completions - r.openings
  /\ 0 \in {r.surplus, r.deficit}

(* Awards less openings are a surplus or a deficit. *)
LEMMA BalanceRight ==
  ASSUME NEW p \in Payloads.degrees, PipelineBalance(p) # Refusal
  PROVE  BalanceAddsUp(p, PipelineBalance(p)) /\ BalanceKept(PipelineBalance(p))
<1> DEFINE r == PipelineBalance(p)
           openings == OpeningsMatched(MatchedOccupations(p))
           completions == Awards(p, DOMAIN p.completions)
           net == completions - openings
           reached == UNION {Reached(p, c) : c \in ToSet(p.completions)}
<1>1. /\ r.completions = completions /\ r.openings = openings
      /\ r.surplus = Max({0, net}) /\ r.deficit = Max({0, -net})
  BY DEF PipelineBalance
<1>2. openings \in Int /\ openings = SumOf([soc \in reached |-> LastDemand(p, soc)])
  BY OpeningsOnce
<1>3. completions \in Int
  BY AwardsOn
<1> HIDE DEF r, openings, completions, reached
<1>4. net \in Int /\ -net \in Int /\ 0 \in Int
  BY <1>2, <1>3
<1> HIDE DEF net
<1>5. /\ Max({0, net}) = IF 0 >= net THEN 0 ELSE net
      /\ Max({0, -net}) = IF 0 >= -net THEN 0 ELSE -net
  BY <1>4, GreaterOf
<1>6. r.surplus - r.deficit = net /\ 0 \in {r.surplus, r.deficit} /\ r.surplus \in Int /\ r.deficit \in Int
  BY <1>1, <1>4, <1>5
<1>7. net = r.completions - r.openings /\ r.completions \in Int /\ r.openings \in Int
  BY <1>1, <1>2, <1>3 DEF net
<1> QED
  BY <1>1, <1>2, <1>6, <1>7 DEF BalanceAddsUp, BalanceKept, r, reached

(* A positive factor on both sides. *)
LEMMA Cancel ==
  ASSUME NEW a \in Int, NEW b \in Int, NEW w \in Nat \ {0}, a * w <= b * w
  PROVE  a <= b
<1>1. ASSUME a > b
      PROVE  FALSE
  <2>1. a - b \in Nat /\ 1 <= a - b /\ 1 \in Nat /\ w \in Nat
    BY <1>1
  <2>2. 1 * w <= (a - b) * w
    BY <2>1, MulMono
  <2>3. (a - b) * w = a * w - b * w
    OBVIOUS
  <2> QED
    BY <2>2, <2>3
<1> QED
  BY <1>1

SomeSignals == {"employment", "wage", "depth", "establishments"}

(* A signal is a part of a whole that is not nothing. *)
IsSignal(x) ==
  x.of \in Nat \ {0} /\ x.weight \in Nat \ {0} /\ x.value \in Nat /\ x.value <= x.of

(* Growth is cut off at nothing and at all. *)
LEMMA GrowthIsSignal ==
  ASSUME NEW now \in Int, now > 0, NEW then \in Int, NEW weight \in Nat \ {0}
  PROVE  IsSignal(Growth(now, then, weight))
<1> DEFINE gain == then - now
           all == 2 * now
           least == Min({gain, all})
           value == Max({0, least})
<1>1. gain \in Int /\ all \in Int /\ all > 0 /\ 0 \in Int
  OBVIOUS
<1> HIDE DEF gain, all
<1>2. least = IF gain <= all THEN gain ELSE all
  BY <1>1, LesserOf
<1> HIDE DEF least
<1>3. value = IF 0 >= least THEN 0 ELSE least
  BY <1>1, <1>2, GreaterOf
<1> HIDE DEF value
<1>4. value \in Nat /\ value <= all
  BY <1>1, <1>2, <1>3
<1>5. Growth(now, then, weight) = [value |-> value, of |-> all, weight |-> weight]
  BY DEF Growth, Signal, value, least, gain, all
<1> QED
  BY <1>1, <1>4, <1>5 DEF IsSignal

(* Each signal there is is a part of a whole. *)
LEMMA SignalsAre ==
  ASSUME NEW p \in Payloads.attraction, BusinessAttraction(p) # Refusal
  PROVE  /\ DOMAIN Signals(p) \subseteq SomeSignals
         /\ \A s \in DOMAIN Signals(p) : IsSignal(Signals(p)[s])
         /\ Signals(p) = [s \in DOMAIN Signals(p) |-> Signals(p)[s]]
<1> DEFINE wage == [competitive |-> 20, moderately_competitive |-> 12, below_target |-> 6]
           depth == [deep |-> 20, moderate |-> 10, shallow |-> 5]
           signals == Signals(p)
           w == WageCompetitiveness(p)
           d == WorkforceDepth(p)
           known == {s \in SomeSignals :
                       CASE s = "employment" -> p.employment[1] > 0
                         [] s = "wage" -> w \in DOMAIN wage
                         [] s = "depth" -> d \in DOMAIN depth
                         [] s = "establishments" -> p.establishments[1] > 0}
<1>1. signals = [s \in known |->
                   CASE s = "employment" -> Growth(p.employment[1], p.employment[2], 30)
                     [] s = "wage" -> Signal(wage[w], 20, 25)
                     [] s = "depth" -> Signal(depth[d], 20, 25)
                     [] s = "establishments" -> Growth(p.establishments[1], p.establishments[2], 20)]
  BY DEF Signals, SomeSignals
<1>2. \A n \in 1 .. 2 : p.employment[n] \in Int /\ p.establishments[n] \in Int
  BY PayloadsAssumption
<1>3. 1 \in 1 .. 2 /\ 2 \in 1 .. 2 /\ 30 \in Nat \ {0} /\ 20 \in Nat \ {0}
  OBVIOUS
<1>4. ASSUME w \in DOMAIN wage
      PROVE  IsSignal(Signal(wage[w], 20, 25))
  <2>1. wage[w] \in {20, 12, 6}
    BY <1>4
  <2> QED
    BY <2>1 DEF IsSignal, Signal
<1>5. ASSUME d \in DOMAIN depth
      PROVE  IsSignal(Signal(depth[d], 20, 25))
  <2>1. depth[d] \in {20, 10, 5}
    BY <1>5
  <2> QED
    BY <2>1 DEF IsSignal, Signal
<1>6. p.employment[1] > 0 => IsSignal(Growth(p.employment[1], p.employment[2], 30))
  BY <1>2, <1>3, GrowthIsSignal
<1>7. p.establishments[1] > 0 => IsSignal(Growth(p.establishments[1], p.establishments[2], 20))
  BY <1>2, <1>3, GrowthIsSignal
<1> HIDE DEF wage, depth, w, d, signals
<1>8. DOMAIN signals = known /\ signals = [s \in DOMAIN signals |-> signals[s]]
  <2> DEFINE Value(s) ==
               CASE s = "employment" -> Growth(p.employment[1], p.employment[2], 30)
                 [] s = "wage" -> Signal(wage[w], 20, 25)
                 [] s = "depth" -> Signal(depth[d], 20, 25)
                 [] s = "establishments" -> Growth(p.establishments[1], p.establishments[2], 20)
  <2>1. signals = [s \in known |-> Value(s)]
    BY <1>1
  <2> HIDE DEF Value, known
  <2> QED
    BY <2>1
<1>9. ASSUME NEW s \in known
      PROVE  IsSignal(signals[s])
  <2>1. CASE s = "employment"
    <3>1. p.employment[1] > 0 /\ signals[s] = Growth(p.employment[1], p.employment[2], 30)
      BY <1>1, <2>1
    <3> QED
      BY <1>6, <3>1
  <2>2. CASE s = "wage"
    <3>1. w \in DOMAIN wage /\ signals[s] = Signal(wage[w], 20, 25)
      BY <1>1, <2>2
    <3> QED
      BY <1>4, <3>1
  <2>3. CASE s = "depth"
    <3>1. d \in DOMAIN depth /\ signals[s] = Signal(depth[d], 20, 25)
      BY <1>1, <2>3
    <3> QED
      BY <1>5, <3>1
  <2>4. CASE s = "establishments"
    <3>1. p.establishments[1] > 0 /\ signals[s] = Growth(p.establishments[1], p.establishments[2], 20)
      BY <1>1, <2>4
    <3> QED
      BY <1>7, <3>1
  <2> QED
    BY <2>1, <2>2, <2>3, <2>4 DEF SomeSignals
<1> QED
  BY <1>8, <1>9 DEF signals

LEMMA SignalsFinite == IsFiniteSet(SomeSignals)
<1>1. IsFiniteSet({"employment"}) /\ IsFiniteSet({"wage"}) /\ IsFiniteSet({"depth"}) /\ IsFiniteSet({"establishments"})
  BY FS_Singleton
<1>2. IsFiniteSet({"employment"} \cup {"wage"}) /\ IsFiniteSet({"depth"} \cup {"establishments"})
  BY <1>1, FS_Union
<1>3. IsFiniteSet(({"employment"} \cup {"wage"}) \cup ({"depth"} \cup {"establishments"}))
  BY <1>2, FS_Union
<1>4. SomeSignals = ({"employment"} \cup {"wage"}) \cup ({"depth"} \cup {"establishments"})
  BY DEF SomeSignals
<1> QED
  BY <1>3, <1>4, Zenon

(* A weighted mean of fractions lies between them; all are counted in the  *)
(* product of their denominators.                                         *)
LEMMA ScoreRight ==
  ASSUME NEW p \in Payloads.attraction, BusinessAttraction(p) # Refusal
  PROVE  ScoreIsMean(p, BusinessAttraction(p))
<1> DEFINE signals == Signals(p)
           S == DOMAIN signals
           Of(s) == IF s \in S THEN signals[s].of ELSE 1
           of == Of("employment") * Of("wage") * Of("depth") * Of("establishments")
           g == [s \in S |-> signals[s].weight]
           f == [s \in S |-> signals[s].weight * signals[s].value * (of \div signals[s].of)]
           weight == SumOf(g)
           value == SumOf(f)
           r == BusinessAttraction(p)
<1>1. r.value = value /\ r.of = IF weight > 0 THEN of * weight ELSE 1
  BY DEF BusinessAttraction
<1>2. /\ S \subseteq SomeSignals
      /\ \A s \in S : IsSignal(signals[s])
      /\ signals = [s \in S |-> signals[s]]
  BY SignalsAre
<1>3. IsFiniteSet(S)
  BY <1>2, SignalsFinite, FS_Subset
<1> HIDE DEF signals, r
<1>4. ASSUME S = {}
      PROVE  signals = <<>> /\ r.value = 0
  <2>1. DOMAIN f = {}
    BY <1>4
  <2> HIDE DEF f
  <2>2. SumOf(f) = 0
    BY <2>1, SumEmpty
  <2>3. signals = <<>>
    BY <1>2, <1>4
  <2> QED
    BY <1>1, <2>2, <2>3
<1>5. S # {} => signals # <<>>
  OBVIOUS
<1>6. SUFFICES ASSUME S # {}
               PROVE  /\ \E s \in S : r.value * signals[s].of <= signals[s].value * r.of
                      /\ \E s \in S : r.value * signals[s].of >= signals[s].value * r.of
                      /\ 0 <= r.value /\ r.value <= r.of
  BY <1>4, <1>5 DEF ScoreIsMean, signals, r
<1>7. \A s \in SomeSignals : Of(s) \in Nat \ {0}
  BY <1>2 DEF IsSignal
<1> DEFINE c(s) == of \div signals[s].of
<1>8. ASSUME NEW s \in S
      PROVE  of \in Nat \ {0} /\ c(s) \in Nat \ {0} /\ of = c(s) * signals[s].of
  <2> DEFINE e == Of("employment")
             w == Of("wage")
             d == Of("depth")
             b == Of("establishments")
  <2>1. e \in Nat \ {0} /\ w \in Nat \ {0} /\ d \in Nat \ {0} /\ b \in Nat \ {0}
    BY <1>7 DEF SomeSignals
  <2>2. of = e * w * d * b
    OBVIOUS
  <2>3. signals[s].of = Of(s) /\ s \in SomeSignals
    BY <1>2
  <2>4. signals[s].of = e \/ signals[s].of = w \/ signals[s].of = d \/ signals[s].of = b
    BY <2>3 DEF SomeSignals
  <2> HIDE DEF e, w, d, b, of
  <2>5. /\ of \in Nat \ {0} /\ w * d * b \in Nat \ {0} /\ e * d * b \in Nat \ {0}
        /\ e * w * b \in Nat \ {0} /\ e * w * d \in Nat \ {0}
    BY <2>1, <2>2
  <2>6. /\ of = (w * d * b) * e /\ of = (e * d * b) * w /\ of = (e * w * b) * d /\ of = (e * w * d) * b
    BY <2>1, <2>2
  <2>7. PICK k \in Nat \ {0} : of = k * signals[s].of
    BY <2>4, <2>5, <2>6, Zenon
  <2>8. signals[s].of \in Nat \ {0} /\ k \in Int
    BY <1>2 DEF IsSignal
  <2>9. (k * signals[s].of) \div signals[s].of = k
    BY <2>8, DivMul
  <2> QED
    BY <2>5, <2>7, <2>9
<1> DEFINE o(s) == signals[s].of
           v(s) == signals[s].value
           w(s) == signals[s].weight
<1>9. \A s \in S : /\ o(s) \in Nat \ {0} /\ w(s) \in Nat \ {0} /\ v(s) \in Nat /\ v(s) <= o(s)
                   /\ g[s] = w(s) /\ f[s] = w(s) * v(s) * c(s)
  BY <1>2 DEF IsSignal
<1> HIDE DEF of, c, o, v, w, f, g
<1>10. \A s \in S : f[s] \in Nat
  BY <1>8, <1>9
<1>11. SumOn(g, S) = weight /\ SumOn(f, S) = value
  <2>1. [k \in S |-> g[k]] = g /\ [k \in S |-> f[k]] = f
    BY DEF f, g
  <2> QED
    BY <2>1 DEF SumOn
<1>12. NatOn(g, S) /\ NatOn(f, S) /\ IntOn(g, S) /\ IntOn(f, S)
  BY <1>9, <1>10 DEF NatOn, IntOn
<1>13. SumOn(g, S) \in Nat /\ (\A s \in S : g[s] <= SumOn(g, S)) /\ SumOn(f, S) \in Nat
  BY <1>3, <1>12, SumNatural
<1> HIDE DEF weight, value
<1>14. weight \in Nat /\ value \in Nat /\ weight > 0
  BY <1>6, <1>9, <1>11, <1>13
<1>15. r.value = value /\ r.of = of * weight
  BY <1>1, <1>14
<1>16. /\ \E s \in S : value * g[s] <= f[s] * weight
       /\ \E s \in S : value * g[s] >= f[s] * weight
  BY <1>3, <1>6, <1>11, <1>12, Between
<1>17. ASSUME NEW s \in S
       PROVE  /\ value * g[s] = value * w(s) /\ f[s] * weight = (v(s) * c(s) * weight) * w(s)
              /\ (v(s) * c(s) * weight) * o(s) = v(s) * (of * weight)
              /\ v(s) * c(s) * weight \in Nat
  <2>1. /\ o(s) \in Nat \ {0} /\ w(s) \in Nat \ {0} /\ v(s) \in Nat /\ v(s) <= o(s)
        /\ g[s] = w(s) /\ f[s] = w(s) * v(s) * c(s)
    BY <1>9
  <2>2. of \in Nat \ {0} /\ c(s) \in Nat \ {0} /\ of = c(s) * o(s)
    BY <1>8 DEF o
  <2>3. f[s] * weight = (v(s) * c(s) * weight) * w(s)
    BY <1>14, <2>1, <2>2
  <2>4. (v(s) * c(s) * weight) * o(s) = v(s) * ((c(s) * o(s)) * weight)
    BY <1>14, <2>1, <2>2
  <2>5. v(s) * c(s) * weight \in Nat
    BY <1>14, <2>1, <2>2
  <2> QED
    BY <2>1, <2>2, <2>3, <2>4, <2>5
<1>18. ASSUME NEW s \in S, value * g[s] <= f[s] * weight
       PROVE  value * o(s) <= v(s) * (of * weight)
  <2> DEFINE x == v(s) * c(s) * weight
  <2>1. /\ value * w(s) <= x * w(s) /\ x * o(s) = v(s) * (of * weight)
        /\ x \in Nat /\ w(s) \in Nat \ {0} /\ o(s) \in Nat
    BY <1>9, <1>17, <1>18
  <2> HIDE DEF x
  <2>2. value <= x
    BY <1>14, <2>1, Cancel
  <2>3. value * o(s) <= x * o(s)
    BY <1>14, <2>1, <2>2, MulMono
  <2> QED
    BY <2>1, <2>3
<1>19. ASSUME NEW s \in S, value * g[s] >= f[s] * weight
       PROVE  value * o(s) >= v(s) * (of * weight)
  <2> DEFINE x == v(s) * c(s) * weight
  <2>1. /\ x * w(s) <= value * w(s) /\ x * o(s) = v(s) * (of * weight)
        /\ x \in Nat /\ w(s) \in Nat \ {0} /\ o(s) \in Nat
    BY <1>9, <1>17, <1>19
  <2> HIDE DEF x
  <2>2. x <= value
    BY <1>14, <2>1, Cancel
  <2>3. x * o(s) <= value * o(s)
    BY <1>14, <2>1, <2>2, MulMono
  <2> QED
    BY <2>1, <2>3
<1>20. value <= of * weight
  <2>1. PICK s \in S : value * o(s) <= v(s) * (of * weight)
    BY <1>16, <1>18
  <2>2. v(s) \in Nat /\ o(s) \in Nat \ {0} /\ v(s) <= o(s)
    BY <1>9
  <2>3. of * weight \in Nat
    BY <1>8, <1>14
  <2> DEFINE all == of * weight
  <2> HIDE DEF all
  <2>4. v(s) * all <= o(s) * all
    BY <2>2, <2>3, MulMono DEF all
  <2>5. value * o(s) <= all * o(s)
    <3>1. v(s) * all \in Int /\ o(s) * all = all * o(s) /\ o(s) * all \in Int /\ value * o(s) \in Int
      BY <1>14, <2>2, <2>3 DEF all
    <3>2. value * o(s) <= v(s) * all
      BY <2>1 DEF all
    <3> QED
      BY <2>4, <3>1, <3>2
  <2>6. value <= all
    BY <1>14, <2>2, <2>3, <2>5, Cancel DEF all
  <2> QED
    BY <2>6 DEF all
<1>21. /\ \E s \in S : value * o(s) <= v(s) * (of * weight)
       /\ \E s \in S : value * o(s) >= v(s) * (of * weight)
  BY <1>16, <1>18, <1>19
<1> QED
  BY <1>14, <1>15, <1>20, <1>21 DEF o, v

(* What the caller keeps of a retention risk. *)
RetentionKept(r) == r.retained \in Int /\ r.graduates \in Int

(* What the caller holds is what the calculators answered. *)
HeldOK ==
  /\ \E S : held \in Seq(S)
  /\ \A n \in DOMAIN held :
       /\ held[n].tool = "balance" => BalanceKept(held[n].result)
       /\ held[n].tool = "retention" => RetentionKept(held[n].result)

(* The results of one tool, by their places. *)
LEMMA HeldIs ==
  ASSUME HeldOK
  PROVE  /\ \A tool : DOMAIN Held(tool) = {n \in DOMAIN held : held[n].tool = tool}
         /\ \A tool : \A n \in DOMAIN Held(tool) : Held(tool)[n] = held[n].result
         /\ \A tool : IsFiniteSet(DOMAIN Held(tool))
<1>1. DOMAIN held = 1 .. Len(held) /\ Len(held) \in Nat
  BY DEF HeldOK
<1>2. IsFiniteSet(DOMAIN held)
  BY <1>1, FS_Interval
<1>3. \A tool : /\ DOMAIN Held(tool) = {n \in DOMAIN held : held[n].tool = tool}
                /\ \A n \in DOMAIN Held(tool) : Held(tool)[n] = held[n].result
  BY DEF Held
<1>4. \A tool : DOMAIN Held(tool) \subseteq DOMAIN held
  BY <1>3
<1> QED
  BY <1>2, <1>3, <1>4, FS_Subset

(* No result that is left out of a list is greater than one in it.         *)
LEMMA LargestListed ==
  ASSUME NEW results, IsFiniteSet(DOMAIN results), NEW size,
         \A n \in DOMAIN results : results[n][size] \in Int,
         NEW n \in DOMAIN results, results[n] \notin Largest(results, size), NEW l \in Largest(results, size)
  PROVE  results[n][size] <= l[size]
<1> DEFINE some == {i \in DOMAIN results : results[i][size] > 0}
           Ahead(i, k) ==
             \/ results[i][size] > results[k][size]
             \/ /\ results[i][size] = results[k][size]
                /\ \/ results[i].institution > results[k].institution
                   \/ results[i].institution = results[k].institution /\ i < k
           ahead(k) == {i \in some : Ahead(i, k)}
           list == {results[i] : i \in {k \in some : Cardinality(ahead(k)) < Top}}
<1>1. Largest(results, size) = list
  BY DEF Largest
<1>2. PICK k \in some : l = results[k] /\ Cardinality(ahead(k)) < Top
  BY <1>1
<1>3. CASE n \notin some
  <2>1. results[n][size] \in Int /\ results[k][size] \in Int
    OBVIOUS
  <2>2. ~(results[n][size] > 0) /\ results[k][size] > 0
    BY <1>3
  <2> QED
    BY <1>2, <2>1, <2>2
<1>4. CASE n \in some
  <2>1. ~(Cardinality(ahead(n)) < Top)
    BY <1>1, <1>4
  <2>2. SUFFICES ASSUME results[n][size] > results[k][size]
                 PROVE  FALSE
    <3>1. results[n][size] \in Int /\ results[k][size] \in Int
      OBVIOUS
    <3> QED
      BY <1>2, <3>1
  <2>3. \A i \in some : Ahead(i, n) => results[i][size] >= results[n][size]
    OBVIOUS
  <2>4. \A i \in some : Ahead(i, n) => results[i][size] > results[k][size]
    BY <2>2, <2>3
  <2>5. ahead(n) \subseteq ahead(k)
    BY <2>4
  <2>6. IsFiniteSet(ahead(k))
    BY FS_Subset
  <2>7. /\ Cardinality(ahead(n)) <= Cardinality(ahead(k))
        /\ Cardinality(ahead(n)) \in Nat /\ Cardinality(ahead(k)) \in Nat
    BY <2>5, <2>6, FS_Subset, FS_CardinalityType
  <2>8. Top \in Nat
    BY CalculatorsAssumption
  <2> HIDE DEF ahead
  <2> QED
    BY <1>2, <2>1, <2>7, <2>8
<1> QED
  BY <1>3, <1>4

(* What a summary says of the results that the caller holds. *)
LEMMA SummaryRight ==
  ASSUME HeldOK, WorkforceSummary(Held("balance"), Held("retention")) # Refusal
  PROVE  SummaryAddsUp(held, WorkforceSummary(Held("balance"), Held("retention")))
<1> DEFINE balances == Held("balance")
           retentions == Held("retention")
           B == DOMAIN balances
           R == DOMAIN retentions
           r == WorkforceSummary(balances, retentions)
           completions == [n \in B |-> balances[n]["completions"]]
           openings == [n \in B |-> balances[n]["openings"]]
           retained == [n \in R |-> retentions[n]["retained"]]
           graduates == [n \in R |-> retentions[n]["graduates"]]
           nets == [n \in B |-> held[n].result.surplus - held[n].result.deficit]
<1>1. /\ r.net = SumOf(completions) - SumOf(openings)
      /\ r.retained = SumOf(retained) /\ r.graduates = SumOf(graduates)
      /\ r.deficits = Largest(balances, "deficit") /\ r.surpluses = Largest(balances, "surplus")
  BY DEF WorkforceSummary
<1>2. /\ B = {n \in DOMAIN held : held[n].tool = "balance"}
      /\ R = {n \in DOMAIN held : held[n].tool = "retention"}
      /\ \A n \in B : balances[n] = held[n].result
      /\ \A n \in R : retentions[n] = held[n].result
      /\ IsFiniteSet(B) /\ IsFiniteSet(R)
  BY HeldIs
<1>3. /\ \A n \in B : BalanceKept(balances[n])
      /\ \A n \in R : RetentionKept(retentions[n])
  BY <1>2 DEF HeldOK
<1> HIDE DEF balances, retentions, r
<1>4. \A n \in B : /\ balances[n]["completions"] \in Int /\ balances[n]["openings"] \in Int
                   /\ balances[n]["surplus"] \in Int /\ balances[n]["deficit"] \in Int
                   /\ nets[n] = balances[n]["completions"] - balances[n]["openings"]
                   /\ 0 \in {balances[n]["surplus"], balances[n]["deficit"]}
  BY <1>2, <1>3 DEF BalanceKept
<1>5. \A n \in R : retentions[n]["retained"] \in Int /\ retentions[n]["graduates"] \in Int
                   /\ retentions[n] = held[n].result
  BY <1>2, <1>3 DEF RetentionKept
<1>6. r.net = SumOf(nets)
  <2>1. IntOn(completions, B) /\ IntOn(openings, B)
    BY <1>4 DEF IntOn
  <2>2. \A n \in B : nets[n] = 1 * completions[n] - 1 * openings[n]
    BY <1>4
  <2>3. /\ [k \in B |-> completions[k]] = completions /\ [k \in B |-> openings[k]] = openings
        /\ [k \in B |-> nets[k]] = nets
    OBVIOUS
  <2> HIDE DEF completions, openings, nets, B
  <2>4. SumOn(nets, B) = 1 * SumOn(completions, B) - 1 * SumOn(openings, B)
    BY <1>2, <2>1, <2>2, SumLinear
  <2>5. SumOf(nets) = 1 * SumOf(completions) - 1 * SumOf(openings)
    BY <2>3, <2>4 DEF SumOn
  <2>6. SumOn(completions, B) \in Int /\ SumOn(openings, B) \in Int
    BY <1>2, <2>1, SumOnStep
  <2>7. SumOf(completions) \in Int /\ SumOf(openings) \in Int
    BY <2>3, <2>6 DEF SumOn
  <2> QED
    BY <1>1, <2>5, <2>7
<1>7. ASSUME NEW size \in {"deficit", "surplus"}, NEW n \in B, NEW l \in Largest(balances, size)
      PROVE  balances[n] \in Largest(balances, size) \/ balances[n][size] <= l[size]
  <2>1. \A k \in DOMAIN balances : balances[k][size] \in Int
    BY <1>4
  <2> QED
    BY <1>2, <2>1, LargestListed
<1>8. Largest(balances, "deficit") \cap Largest(balances, "surplus") = {}
  <2> SUFFICES ASSUME NEW l \in Largest(balances, "deficit"), l \in Largest(balances, "surplus")
               PROVE  FALSE
    OBVIOUS
  <2>1. \E n \in B : l = balances[n] /\ balances[n]["deficit"] > 0
    BY DEF Largest
  <2>2. \E n \in B : l = balances[n] /\ balances[n]["surplus"] > 0
    BY DEF Largest
  <2> HIDE DEF B
  <2> QED
    BY <1>4, <2>1, <2>2
<1>9. ASSUME R # {}
      PROVE  /\ \E n \in R : r.retained * held[n].result.graduates <= held[n].result.retained * r.graduates
             /\ \E n \in R : r.retained * held[n].result.graduates >= held[n].result.retained * r.graduates
  <2>1. IntOn(retained, R) /\ IntOn(graduates, R)
    BY <1>5 DEF IntOn
  <2>2. [k \in R |-> retained[k]] = retained /\ [k \in R |-> graduates[k]] = graduates
    OBVIOUS
  <2>3. \A n \in R : retained[n] = held[n].result.retained /\ graduates[n] = held[n].result.graduates
    BY <1>5
  <2> HIDE DEF retained, graduates, R
  <2>4. /\ \E n \in R : SumOn(retained, R) * graduates[n] <= retained[n] * SumOn(graduates, R)
        /\ \E n \in R : SumOn(retained, R) * graduates[n] >= retained[n] * SumOn(graduates, R)
    BY <1>2, <1>9, <2>1, Between
  <2>5. SumOn(retained, R) = r.retained /\ SumOn(graduates, R) = r.graduates
    BY <1>1, <2>2 DEF SumOn
  <2> QED
    BY <2>3, <2>4, <2>5
<1> DEFINE Listed(list, size) ==
             \A n \in B : \A l \in list : held[n].result \in list \/ held[n].result[size] <= l[size]
<1>10. Listed(r.deficits, "deficit") /\ Listed(r.surpluses, "surplus")
  <2>1. \A n \in B : balances[n] = held[n].result
    BY <1>2
  <2> HIDE DEF B
  <2> QED
    BY <1>1, <1>7, <2>1
<1>11. r.deficits \cap r.surpluses = {}
  BY <1>1, <1>8
<1> DEFINE Of(tool) == {n \in DOMAIN held : held[n].tool = tool}
<1>12. B = Of("balance") /\ R = Of("retention")
  BY <1>2
<1> HIDE DEF B, R
<1> QED
  BY <1>6, <1>9, <1>10, <1>11, <1>12 DEF SummaryAddsUp, r, balances, retentions

(* What an outlook rests on: as many months as numbers, so each month has one. *)
LEMMA OutlookRight ==
  ASSUME NEW p \in Payloads.series
  PROVE  OutlookOfOneSeries(p, EconomicSeries(p))
<1> DEFINE rows == CurrentRows(p)
           newer(o) == {q \in rows : Newer(q, o)}
           selected == {o \in rows : Cardinality(newer(o)) < p.limit}
           r == EconomicSeries(p)
           used == {o \in selected : o.value # "none"}
           months == {o.month : o \in used}
<1>1. /\ r.points = selected
      /\ r.outlook <=> /\ selected # {}
                       /\ \A o, q \in selected : o.basis = "monthly" /\ o.series = q.series
                       /\ Supported(selected)
  BY DEF EconomicSeries
<1>2. /\ rows \subseteq p.rows /\ IsFiniteSet(p.rows) /\ p.limit \in Nat /\ \A o \in p.rows : o.month \in Int
      /\ \A o \in rows, q \in p.rows : q.key = o.key => q.version <= o.version
  BY PayloadsAssumption DEF CurrentRows
<1>3. IsFiniteSet(rows)
  BY <1>2, FS_Subset
<1>4. IsFiniteSet(used)
  <2>1. used \subseteq rows
    OBVIOUS
  <2> QED
    BY <1>3, <2>1, FS_Subset
<1> HIDE DEF r, rows
<1>5. SUFFICES ASSUME r.outlook
               PROVE  /\ \A o, q \in used : o.series = q.series /\ (o.month = q.month => o = q)
                      /\ \A o \in used, q \in p.rows : q.key = o.key => q.version <= o.version
                      /\ \A q \in rows \ selected, o \in used : q.month <= o.month
  BY <1>1 DEF OutlookOfOneSeries, r, rows
<1>6. Cardinality(months) = Cardinality(used)
  <2>1. Supported(selected)
    BY <1>1, <1>5
  <2> HIDE DEF selected
  <2> QED
    BY <2>1 DEF Supported
<1>7. \A o, q \in used : o.month = q.month => o = q
  <2> DEFINE month == [o \in used |-> o.month]
  <2>1. month \in Surjection(used, months)
    BY DEF Surjection
  <2> HIDE DEF months, month, used
  <2>2. month \in Injection(used, months)
    BY <1>4, <1>6, <2>1, FS_Surjection
  <2>3. \A o, q \in used : month[o] = month[q] => o = q
    BY <2>2 DEF Injection, IsInjective
  <2>4. \A o \in used : month[o] = o.month
    BY DEF month
  <2> QED
    BY <2>3, <2>4
<1>8. \A o, q \in used : o.series = q.series
  BY <1>1, <1>5
<1>9. \A o \in used, q \in p.rows : q.key = o.key => q.version <= o.version
  BY <1>2
<1>10. ASSUME NEW q \in rows \ selected, NEW o \in used
       PROVE  q.month <= o.month
  <2>1. q.month \in Int /\ o.month \in Int /\ o \in rows /\ q \in rows
    BY <1>2
  <2>2. SUFFICES ASSUME q.month > o.month PROVE FALSE
    BY <2>1
  <2>3. \A x \in rows : x.month \in Int
    BY <1>2
  <2>4. newer(q) \subseteq newer(o)
    BY <2>1, <2>2, <2>3 DEF Newer
  <2>5. IsFiniteSet(newer(o))
    BY <1>3, FS_Subset
  <2>6. /\ Cardinality(newer(q)) <= Cardinality(newer(o))
        /\ Cardinality(newer(q)) \in Nat /\ Cardinality(newer(o)) \in Nat
    BY <2>4, <2>5, FS_Subset, FS_CardinalityType
  <2>7. Cardinality(newer(o)) < p.limit /\ ~(Cardinality(newer(q)) < p.limit)
    BY <2>1
  <2> HIDE DEF newer
  <2> QED
    BY <1>2, <2>6, <2>7
<1> QED
  BY <1>7, <1>8, <1>9, <1>10

(* The inductive invariant: answers add up, and those that the caller may  *)
(* keep and those that it holds are what a summary can be made of.         *)
AnswersOK ==
  /\ AnswersAddUp
  /\ answer # NoAnswer /\ answer.result # Refusal =>
       /\ answer.tool = "balance" => BalanceKept(answer.result)
       /\ answer.tool = "retention" => RetentionKept(answer.result)
  /\ HeldOK

LEMMA AnswersStart == CalculatorsInit => AnswersOK
<1> SUFFICES ASSUME CalculatorsInit PROVE AnswersOK
  OBVIOUS
<1>1. answer = NoAnswer /\ held = <<>>
  BY DEF CalculatorsInit
<1>2. held \in Seq({}) /\ DOMAIN held = {}
  BY <1>1
<1> QED
  BY <1>1, <1>2 DEF AnswersOK, AnswersAddUp, HeldOK

(* An answer that adds up, and that a summary can be made of.              *)
LEMMA Answered ==
  ASSUME AnswersOK, NEW tool, NEW payload, NEW result, Replies(tool, payload, result),
         \/ result = Refusal
         \/ tool \in {"gap", "tightness"}
         \/ tool = "degrees" /\ DegreesAddUp(payload, result)
         \/ tool = "balance" /\ BalanceAddsUp(payload, result) /\ BalanceKept(result)
         \/ tool = "retention" /\ RetentionAddsUp(payload, result) /\ RetentionKept(result)
         \/ tool = "policy" /\ PolicyAddsUp(payload, result)
         \/ tool = "attraction" /\ ScoreIsMean(payload, result)
         \/ tool = "summary" /\ SummaryAddsUp(payload, result)
         \/ tool = "series" /\ OutlookOfOneSeries(payload, result)
  PROVE  AnswersOK'
<1>1. answer'.tool = tool /\ answer'.payload = payload /\ answer'.result = result /\ held' = held
  BY DEF Replies
<1>2. HeldOK'
  BY <1>1 DEF AnswersOK, HeldOK
<1>3. AnswersAddUp'
  BY <1>1 DEF AnswersAddUp
<1>4. answer'.result # Refusal =>
        /\ answer'.tool = "balance" => BalanceKept(answer'.result)
        /\ answer'.tool = "retention" => RetentionKept(answer'.result)
  BY <1>1
<1> QED
  BY <1>2, <1>3, <1>4 DEF AnswersOK

(* Keeping one more answer. *)
LEMMA KeptOK ==
  ASSUME AnswersOK, CallerKeeps
  PROVE  AnswersOK'
<1> DEFINE e == [tool |-> answer.tool, result |-> answer.result]
<1>1. held' = Append(held, e) /\ answer' = NoAnswer
  BY DEF CallerKeeps
<1>2. PICK S : held \in Seq(S)
  BY DEF AnswersOK, HeldOK
<1>3. /\ e.tool = "balance" => BalanceKept(e.result)
      /\ e.tool = "retention" => RetentionKept(e.result)
  BY DEF AnswersOK, CallerKeeps
<1> DEFINE T == S \cup {e}
<1> HIDE DEF e
<1>4. held \in Seq(T) /\ e \in T
  <2>1. S \subseteq T
    OBVIOUS
  <2>2. held \in Seq(T)
    BY <1>2, <2>1
  <2> QED
    BY <2>2
<1> HIDE DEF T
<1>5. /\ held' \in Seq(T)
      /\ DOMAIN held' = 1 .. Len(held) + 1
      /\ \A n \in 1 .. Len(held) : held'[n] = held[n]
      /\ held'[Len(held) + 1] = e
      /\ Len(held) \in Nat /\ DOMAIN held = 1 .. Len(held)
  BY <1>1, <1>4, AppendProperties
<1>6. ASSUME NEW n \in DOMAIN held'
      PROVE  /\ held'[n].tool = "balance" => BalanceKept(held'[n].result)
             /\ held'[n].tool = "retention" => RetentionKept(held'[n].result)
  <2>1. CASE n = Len(held) + 1
    BY <1>3, <1>5, <2>1
  <2>2. CASE n \in 1 .. Len(held)
    BY <1>5, <2>2 DEF AnswersOK, HeldOK
  <2> QED
    BY <1>5, <2>1, <2>2
<1>7. HeldOK'
  BY <1>5, <1>6 DEF HeldOK
<1> QED
  BY <1>1, <1>7 DEF AnswersOK, AnswersAddUp

LEMMA AnswersStep ==
  ASSUME AnswersOK, [CalculatorsNext]_calculatorVars
  PROVE  AnswersOK'
<1>1. CASE UNCHANGED calculatorVars
  BY <1>1 DEF calculatorVars, AnswersOK, AnswersAddUp, HeldOK
<1>2. CASE GapTrainingPipeline \/ GapMarketTightness
  BY <1>2, Answered DEF GapTrainingPipeline, GapMarketTightness, Asks
<1>3. CASE PolicyTrainingScenario
  BY <1>3, Answered, PolicyRight DEF PolicyTrainingScenario, Asks
<1>4. CASE UniversityDegreeRelevance
  BY <1>4, Answered, DegreesRight DEF UniversityDegreeRelevance, Asks
<1>5. CASE UniversityPipelineBalance
  BY <1>5, Answered, BalanceRight DEF UniversityPipelineBalance
<1>6. CASE UniversityRetentionRisk
  BY <1>6, Answered, RetentionRight DEF UniversityRetentionRisk, RetentionKept
<1>7. CASE BusinessAttractionSignal
  BY <1>7, Answered, ScoreRight DEF BusinessAttractionSignal, Asks
<1>8. CASE EconomicSeriesOf
  BY <1>8, Answered, OutlookRight DEF EconomicSeriesOf, Asks
<1>9. CASE UniversitySummary
  <2>1. HeldOK
    BY DEF AnswersOK
  <2> QED
    BY <1>9, <2>1, Answered, SummaryRight DEF UniversitySummary
<1>10. CASE CallerKeeps
  BY <1>10, KeptOK
<1> QED
  BY <1>1, <1>2, <1>3, <1>4, <1>5, <1>6, <1>7, <1>8, <1>9, <1>10 DEF CalculatorsNext

(* What the calculators answer agrees with what they were asked, for any   *)
(* payloads of numbers and lists, any rates, limits and number of results  *)
(* that the caller keeps and passes on: nobody is counted twice, flows,    *)
(* gaps and parts add up, scores and rates lie between those they are made *)
(* of, and an outlook rests on one series.                                 *)
THEOREM AnswersAlwaysAddUp == MijobsSpec => []AnswersAddUp
<1>1. MijobsInit => AnswersOK
  BY AnswersStart DEF MijobsInit
<1>2. AnswersOK /\ [MijobsNext]_mijobsVars => AnswersOK'
  <2> SUFFICES ASSUME AnswersOK, [MijobsNext]_mijobsVars PROVE AnswersOK'
    OBVIOUS
  <2>1. [CalculatorsNext]_calculatorVars
    BY DEF MijobsNext, mijobsVars
  <2> QED
    BY <2>1, AnswersStep
<1>3. AnswersOK => AnswersAddUp
  BY DEF AnswersOK
<1> QED
  BY <1>1, <1>2, <1>3, PTL DEF MijobsSpec

----------------------------------------------------------------------------
(* A command at work. *)

Commanded == process = "command"

(* A command is at work and nothing else, or nothing of the evidence       *)
(* database is touched.                                                    *)
LEMMA CommandOrNot ==
  MijobsSpec => ReportingSpec \/ ([]NoCommand /\ [][FALSE]_reportingVars)
<1>1. MijobsInit /\ Commanded => ReportingInit
  BY DEF MijobsInit, Commanded
<1>2. MijobsInit /\ ~Commanded => NoCommand
  BY DEF MijobsInit, Commanded
<1>3. Commanded /\ [MijobsNext]_mijobsVars => Commanded' /\ [ReportingNext]_reportingVars
  BY DEF MijobsNext, mijobsVars, Commanded
<1>4. ~Commanded /\ [MijobsNext]_mijobsVars => ~Commanded' /\ [FALSE]_reportingVars
  BY DEF MijobsNext, mijobsVars, Commanded
<1>5. NoCommand /\ [FALSE]_reportingVars => NoCommand'
  BY DEF NoCommand, reportingVars
<1>6. MijobsSpec /\ Commanded => ReportingSpec
  BY <1>1, <1>3, PTL DEF MijobsSpec, ReportingSpec
<1>7. MijobsSpec /\ ~Commanded => []NoCommand /\ [][FALSE]_reportingVars
  BY <1>2, <1>4, <1>5, PTL DEF MijobsSpec
<1> QED
  BY <1>6, <1>7

LEMMA NothingToReport ==
  NoCommand => /\ ValidMeansLedgered /\ RefusalHasCause /\ RestsOnLedgered /\ NewestYearApart
               /\ LoadedWhole /\ HeadCoversReport /\ ContextHonest /\ SourcesTraced
<1> SUFFICES ASSUME NoCommand
             PROVE  /\ ValidMeansLedgered /\ RefusalHasCause /\ RestsOnLedgered /\ NewestYearApart
                    /\ LoadedWhole /\ HeadCoversReport /\ ContextHonest /\ SourcesTraced
  OBVIOUS
<1>1. ValidMeansLedgered /\ RefusalHasCause
  BY DEF NoCommand, ValidMeansLedgered, RefusalHasCause, NewAudit
<1>2. RestsOnLedgered /\ NewestYearApart
  BY DEF NoCommand, RestsOnLedgered, NewestYearApart, ReportOff
<1>3. LoadedWhole
  <2>1. RowsOf(disk, {"source_artifact"}) = {}
    BY DEF NoCommand, Empty, RowsOf
  <2>2. \A n \in 1 .. Len(Feeds) : ~Loaded(Feeds[n], disk)
    BY <2>1 DEF Loaded
  <2> QED
    BY <2>2 DEF LoadedWhole, WholeLoad
<1>4. HeadCoversReport
  BY DEF NoCommand, HeadCoversReport, ViewOff
<1>5. ContextHonest /\ SourcesTraced
  <2>1. 1 .. Len(context.traces) = {}
    BY DEF NoCommand, ContextOff
  <2> QED
    BY <2>1 DEF ContextHonest, SourcesTraced
<1> QED
  BY <1>1, <1>2, <1>3, <1>4, <1>5

(* What AuditProofs and ReportProofs show of audits, reports, loads and    *)
(* contexts holds in mijobs, whichever of its processes runs: verdicts     *)
(* mean what they say, figures rest on ledgered rows and are a year apart, *)
(* the head covers the report, a context shows challenges and sources.     *)
THEOREM CommandsKeepTheirWord ==
  MijobsSpec => [](/\ ValidMeansLedgered /\ RefusalHasCause /\ RestsOnLedgered /\ NewestYearApart
                   /\ HeadCoversReport /\ ContextHonest /\ SourcesTraced)
<1>1. ReportingSpec => [](/\ ValidMeansLedgered /\ RefusalHasCause /\ RestsOnLedgered /\ NewestYearApart
                   /\ HeadCoversReport /\ ContextHonest /\ SourcesTraced)
  BY CommandsAuditFirst, ValidAlwaysMeansLedgered, RefusalAlwaysHasCause, ReportsRestOnLedgered,
     MetricsAreYearsApart, HeadAlwaysCovers, ContextsAreHonest, SourcesAreTraced, PTL
<1> QED
  BY <1>1, CommandOrNot, NothingToReport, PTL

(* No load of the four university files is committed in part, whichever    *)
(* process runs, if the database that a command finds has whole loads.     *)
THEOREM LoadsAreWholeOrNothing ==
  ASSUME \A c \in Commands : \A db \in Found[c] : WholeLoad(db)
  PROVE  MijobsSpec => []LoadedWhole
  BY LoadsAreWhole, CommandOrNot, NothingToReport, PTL

(* harvest-universities commits rows only with an audit that covers them,  *)
(* and no other process of mijobs commits any.                             *)
THEOREM OnlyAuditedIsCommitted == MijobsSpec => CommitsOnlyAudited
<1>1. [FALSE]_reportingVars => [load.pc # "loaded" /\ load'.pc = "loaded" => RowsLedgered(disk')]_<<auditVars, load>>
  BY DEF reportingVars, auditVars
<1> QED
  BY <1>1, LoadsCommitOnlyAudited, CommandOrNot, PTL DEF CommitsOnlyAudited
=============================================================================
