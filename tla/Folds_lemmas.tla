---------------------------- MODULE Folds_lemmas ----------------------------
(***************************************************************************)
(* Least and greatest numbers, and what they are needed for: a loop that   *)
(* goes through a sequence, written with FoldLeft, ends with a value that   *)
(* has the type, or the invariant, that every turn of it keeps.  A lemma   *)
(* cannot be about all operators; here the turns are given by a function,  *)
(* and by the values that the fold has after each.                         *)
(***************************************************************************)
EXTENDS Integers, SequencesExt, WellFoundedInduction, TLAPS

-----------------------------------------------------------------------------
(* Least and greatest numbers                                              *)

\* A set of natural numbers has a least one.
LEMMA LeastNumber ==
  ASSUME NEW T \in SUBSET Nat, T # {}
  PROVE  \E n \in T : \A m \in T : n =< m
<1> DEFINE R == {ss \in Nat \X Nat : ss[1] < ss[2]}
<1>1. IsWellFoundedOn(R, Nat)
  BY NatLessThanWellFounded, Zenon DEF OpToRel
<1> HIDE DEF R
<1>2. PICK n \in T : \A m \in T : ~(<<m, n>> \in R)
  BY <1>1, WFMin, Zenon
<1>3. ASSUME NEW m \in T PROVE n =< m
  <2>1. m \in Nat /\ n \in Nat
    OBVIOUS
  <2>2. m < n => <<m, n>> \in R
    BY <2>1 DEF R
  <2>3. QED
    BY <1>2, <2>1, <2>2
<1>4. QED
  BY <1>3

\* A set of numbers up to n has a greatest one.
LEMMA MaxInSet ==
  ASSUME NEW n \in Nat, NEW S \in SUBSET (1 .. n), S # {}
  PROVE  Max(S) \in S /\ \A y \in S : y =< Max(S)
<1> DEFINE R == {ss \in Nat \X Nat : ss[1] < ss[2]}
           T == {n - x : x \in S}
<1>1. IsWellFoundedOn(R, Nat)
  BY NatLessThanWellFounded, Zenon DEF OpToRel
<1> HIDE DEF R
<1>2. T \subseteq Nat /\ T # {}
  <2>1. \A x \in S : n - x \in Nat
    OBVIOUS
  <2>2. QED
    BY <2>1
<1>3. PICK t \in T : \A y \in T : ~(<<y, t>> \in R)
  BY <1>1, <1>2, WFMin, Zenon
<1>4. PICK x \in S : t = n - x
  BY <1>3
<1>5. ASSUME NEW y \in S PROVE y =< x
  <2>1. n - y \in T /\ n - y \in Nat /\ n - x \in Nat /\ x \in Int /\ y \in Int
    OBVIOUS
  <2>2. n - y < n - x => <<n - y, n - x>> \in R
    BY <2>1 DEF R
  <2>3. QED
    BY <1>3, <1>4, <2>1, <2>2
<1>6. x \in S /\ \A y \in S : x >= y
  BY <1>5
<1>7. QED
  BY <1>6 DEF Max

\* ... and a least one.
LEMMA MinInSet ==
  ASSUME NEW n \in Nat, NEW S \in SUBSET (1 .. n), S # {}
  PROVE  Min(S) \in S /\ \A y \in S : Min(S) =< y
<1> DEFINE R == {ss \in Nat \X Nat : ss[1] < ss[2]}
<1>1. IsWellFoundedOn(R, Nat)
  BY NatLessThanWellFounded, Zenon DEF OpToRel
<1> HIDE DEF R
<1>2. S \subseteq Nat
  OBVIOUS
<1>3. PICK x \in S : \A y \in S : ~(<<y, x>> \in R)
  BY <1>1, <1>2, WFMin, Zenon
<1>4. ASSUME NEW y \in S PROVE x =< y
  <2>1. x \in Nat /\ y \in Nat
    OBVIOUS
  <2>2. y < x => <<y, x>> \in R
    BY <2>1 DEF R
  <2>3. QED
    BY <1>3, <2>1, <2>2
<1>5. x \in S /\ \A y \in S : x =< y
  BY <1>4
<1>6. QED
  BY <1>5 DEF Min

-----------------------------------------------------------------------------
(* Folds                                                                   *)

\* The values of a fold over 1..n that begins with b and takes the turns G: h
\* has one for every set of positions, as MapThenFoldSet defines them.
Turns(n, b, G, h) ==
  h = [S \in SUBSET (1 .. n) |->
         IF S = {} THEN b ELSE G[<<h[S \ {Max(S)}], Max(S)>>]]

\* Among the sets of positions up to k, k is the last one of those that have it.
LEMMA LastPosition ==
  ASSUME NEW k \in Nat \ {0}, NEW S \in SUBSET (1 .. k), k \in S
  PROVE  Max(S) = k /\ S \ {k} \in SUBSET (1 .. (k - 1))
<1>1. Max(S) \in S /\ \A y \in S : y =< Max(S)
  BY MaxInSet
<1>2. Max(S) = k
  <2>1. Max(S) \in 1 .. k /\ k =< Max(S)
    BY <1>1
  <2>2. QED
    BY <2>1
<1>3. QED
  BY <1>2

\* A fold whose turns stay in X has a value in X for every set of positions.
LEMMA FoldExists ==
  ASSUME NEW X, NEW b \in X, NEW n \in Nat, NEW G \in [X \X (1 .. n) -> X]
  PROVE  \E h \in [SUBSET (1 .. n) -> X] : Turns(n, b, G, h)
<1> DEFINE Folded(k, h) == h \in [SUBSET (1 .. k) -> X] /\ Turns(k, b, G, h)
           T == {k \in 0 .. n : ~ \E h : Folded(k, h)}
<1>1. T = {}
  <2>1. SUFFICES ASSUME T # {} PROVE FALSE
    OBVIOUS
  <2>2. T \in SUBSET Nat
    OBVIOUS
  <2>3. PICK k \in T : \A m \in T : k =< m
    <3> HIDE DEF T
    <3> QED BY <2>1, <2>2, LeastNumber
  <2>4. k \in 0 .. n /\ ~ \E h : Folded(k, h)
    OBVIOUS
  <2>5. k # 0
    <3>1. SUFFICES ASSUME k = 0 PROVE FALSE
      OBVIOUS
    <3>2. PICK h : h = [S \in SUBSET (1 .. 0) |-> b]
      OBVIOUS
    <3>3. \A S \in SUBSET (1 .. 0) : S = {}
      OBVIOUS
    <3>4. h \in [SUBSET (1 .. 0) -> X]
      BY <3>2
    <3>5. Turns(0, b, G, h)
      BY <3>2, <3>3 DEF Turns
    <3>6. QED
      BY <2>4, <3>1, <3>4, <3>5
  <2>6. k \in Nat \ {0} /\ k - 1 \in 0 .. n /\ k - 1 < k
    BY <2>4, <2>5
  <2>7. PICK g : Folded(k - 1, g)
    <3>1. k - 1 \notin T
      <4>1. ~(k =< k - 1)
        BY <2>6
      <4> HIDE DEF T
      <4>2. QED
        BY <2>3, <4>1
    <3>2. \E h : Folded(k - 1, h)
      BY <2>6, <3>1
    <3>3. QED
      BY <3>2
  <2>8. PICK h : h = [S \in SUBSET (1 .. k) |->
                        IF k \in S THEN G[<<g[S \ {k}], k>>] ELSE g[S]]
    OBVIOUS
  <2>9. k \in 1 .. n /\ g \in [SUBSET (1 .. (k - 1)) -> X] /\ Turns(k - 1, b, G, g)
    BY <2>4, <2>5, <2>7
  <2>10. \A S \in SUBSET (1 .. k) : k \notin S => S \in SUBSET (1 .. (k - 1))
    BY <2>6
  <2>11. \A S \in SUBSET (1 .. k) : h[S] \in X
    <3>1. TAKE S \in SUBSET (1 .. k)
    <3>2. CASE k \in S
      <4>1. S \ {k} \in SUBSET (1 .. (k - 1))
        BY <2>6, <3>2, LastPosition
      <4>2. <<g[S \ {k}], k>> \in X \X (1 .. n)
        BY <2>9, <4>1
      <4>3. QED
        BY <2>8, <3>2, <4>2
    <3>3. CASE k \notin S
      BY <2>8, <2>9, <2>10, <3>3
    <3>4. QED
      BY <3>2, <3>3
  <2>12. \A S \in SUBSET (1 .. (k - 1)) : h[S] = g[S]
    <3>1. TAKE S \in SUBSET (1 .. (k - 1))
    <3>2. S \in SUBSET (1 .. k) /\ k \notin S
      BY <2>6
    <3>3. QED
      BY <2>8, <3>2
  <2>13. \A S \in SUBSET (1 .. k) :
           h[S] = IF S = {} THEN b ELSE G[<<h[S \ {Max(S)}], Max(S)>>]
    <3>1. TAKE S \in SUBSET (1 .. k)
    <3>2. CASE k \in S
      <4>1. Max(S) = k /\ S \ {k} \in SUBSET (1 .. (k - 1))
        BY <2>6, <3>2, LastPosition
      <4>2. h[S \ {k}] = g[S \ {k}]
        BY <2>12, <4>1
      <4>3. h[S] = G[<<g[S \ {k}], k>>] /\ S # {}
        BY <2>8, <3>2
      <4>4. QED
        BY <4>1, <4>2, <4>3
    <3>3. CASE k \notin S
      <4>1. S \in SUBSET (1 .. (k - 1)) /\ h[S] = g[S]
        BY <2>10, <2>12, <3>3
      <4>2. g[S] = IF S = {} THEN b ELSE G[<<g[S \ {Max(S)}], Max(S)>>]
        BY <2>9, <4>1 DEF Turns
      <4>3. S \ {Max(S)} \in SUBSET (1 .. (k - 1))
        BY <4>1
      <4>4. h[S \ {Max(S)}] = g[S \ {Max(S)}]
        BY <2>12, <4>3
      <4>5. QED
        BY <4>1, <4>2, <4>4
    <3>4. QED
      BY <3>2, <3>3
  <2>14. h \in [SUBSET (1 .. k) -> X]
    BY <2>8, <2>11
  <2>15. h = [S \in SUBSET (1 .. k) |-> h[S]]
    BY <2>14
  <2>16. Turns(k, b, G, h)
    BY <2>13, <2>15 DEF Turns
  <2>17. QED
    BY <2>4, <2>14, <2>16
<1>2. n \in 0 .. n
  OBVIOUS
<1>3. PICK h : Folded(n, h)
  <2>1. SUFFICES ASSUME ~ \E h : Folded(n, h) PROVE FALSE
    OBVIOUS
  <2>2. n \in T
    BY <1>2, <2>1
  <2> HIDE DEF T
  <2>3. QED
    BY <1>1, <2>2
<1>4. QED
  BY <1>3

\* What one turn after the other keeps, holds after the last one.
LEMMA FoldIn ==
  ASSUME NEW X, NEW n \in Nat, NEW f, f[{}] \in X,
         \A k \in 1 .. n : f[1 .. (k - 1)] \in X => f[1 .. k] \in X
  PROVE  f[1 .. n] \in X
<1> DEFINE T == {k \in 0 .. n : f[1 .. k] \notin X}
<1>1. T = {}
  <2>1. SUFFICES ASSUME T # {} PROVE FALSE
    OBVIOUS
  <2>2. T \in SUBSET Nat
    OBVIOUS
  <2>3. PICK k \in T : \A m \in T : k =< m
    <3> HIDE DEF T
    <3> QED BY <2>1, <2>2, LeastNumber
  <2>4. k \in 0 .. n /\ f[1 .. k] \notin X
    OBVIOUS
  <2>5. 1 .. 0 = {}
    OBVIOUS
  <2>6. k # 0
    BY <2>4, <2>5
  <2>7. k \in 1 .. n /\ k - 1 \in 0 .. n /\ ~(k =< k - 1)
    BY <2>4, <2>6
  <2>8. k - 1 \notin T
    BY <2>3, <2>7
  <2>9. f[1 .. (k - 1)] \in X
    BY <2>7, <2>8
  <2>10. QED
    BY <2>4, <2>7, <2>9
<1>2. n \notin T /\ n \in 0 .. n
  BY <1>1
<1>3. QED
  BY <1>2

\* The sets of positions that a fold over a sequence goes through.
LEMMA Segments ==
  ASSUME NEW n \in Nat, NEW k \in 1 .. n
  PROVE  /\ 1 .. k \in SUBSET (1 .. n) /\ 1 .. (k - 1) \in SUBSET (1 .. n)
         /\ 1 .. k # {} /\ Max(1 .. k) = k /\ (1 .. k) \ {k} = 1 .. (k - 1)
<1>1. 1 .. k \in SUBSET (1 .. k) /\ k \in 1 .. k /\ k \in Nat \ {0}
  OBVIOUS
<1>2. Max(1 .. k) = k
  BY <1>1, LastPosition
<1>3. (1 .. k) \ {k} = 1 .. (k - 1)
  OBVIOUS
<1>4. QED
  BY <1>1, <1>2, <1>3

\* The value after each turn.
AfterTurns(n, b, G, e) == e[0] = b /\ \A k \in 1 .. n : e[k] = G[<<e[k - 1], k>>]

\* A recursive function over the positions of a sequence has a solution.
LEMMA TurnsExist ==
  ASSUME NEW X, NEW b \in X, NEW n \in Nat, NEW G \in [X \X (1 .. n) -> X]
  PROVE  \E e \in [0 .. n -> X] : AfterTurns(n, b, G, e)
<1>1. PICK h \in [SUBSET (1 .. n) -> X] : Turns(n, b, G, h)
  BY FoldExists
<1>2. PICK e : e = [k \in 0 .. n |-> h[1 .. k]]
  OBVIOUS
<1>3. \A k \in 0 .. n : 1 .. k \in SUBSET (1 .. n)
  OBVIOUS
<1>4. e \in [0 .. n -> X]
  BY <1>1, <1>2, <1>3
<1>5. 1 .. 0 = {} /\ {} \in SUBSET (1 .. n)
  OBVIOUS
<1>6. e[0] = b
  BY <1>1, <1>2, <1>5 DEF Turns
<1>7. ASSUME NEW k \in 1 .. n PROVE e[k] = G[<<e[k - 1], k>>]
  <2>1. /\ 1 .. k \in SUBSET (1 .. n) /\ 1 .. k # {} /\ Max(1 .. k) = k
        /\ (1 .. k) \ {k} = 1 .. (k - 1)
    BY Segments
  <2>2. h[1 .. k] = G[<<h[1 .. (k - 1)], k>>]
    BY <1>1, <2>1 DEF Turns
  <2>3. k \in 0 .. n /\ k - 1 \in 0 .. n
    OBVIOUS
  <2>4. QED
    BY <1>2, <2>2, <2>3
<1>8. QED
  BY <1>4, <1>6, <1>7 DEF AfterTurns

\* What FlattenSeq has put together up to each position.
Flattens(ss, g) ==
  g = [i \in 1 .. Len(ss) |-> IF i = 1 THEN ss[i] ELSE g[i - 1] \o ss[i]]

\* The parts of a sequence over S, put together, are one.
LEMMA FlattenTyped ==
  ASSUME NEW S, NEW ss \in Seq(Seq(S))
  PROVE  FlattenSeq(ss) \in Seq(S)
<1> DEFINE n == Len(ss)
           G == [p \in Seq(S) \X (1 .. n) |-> IF p[2] = 1 THEN ss[1] ELSE p[1] \o ss[p[2]]]
           f == CHOOSE f : Flattens(ss, f)
<1>1. n \in Nat /\ \A i \in 1 .. n : ss[i] \in Seq(S)
  OBVIOUS
<1>2. G \in [Seq(S) \X (1 .. n) -> Seq(S)]
  BY <1>1
<1>3. << >> \in Seq(S)
  OBVIOUS
<1>4. \E g : Flattens(ss, g)
  <2>1. PICK H : H = G
    OBVIOUS
  <2>2. PICK e \in [0 .. n -> Seq(S)] : AfterTurns(n, << >>, H, e)
    <3>1. H \in [Seq(S) \X (1 .. n) -> Seq(S)]
      BY <1>2, <2>1
    <3>2. PICK X : X = Seq(S)
      OBVIOUS
    <3>3. << >> \in X /\ H \in [X \X (1 .. n) -> X] /\ n \in Nat
      BY <1>1, <1>3, <3>1, <3>2
    <3>4. \E e \in [0 .. n -> X] : AfterTurns(n, << >>, H, e)
      <4> HIDE DEF n, G
      <4> QED BY <3>3, TurnsExist
    <3>5. QED
      BY <3>2, <3>4
  <2>3. PICK g : g = [k \in 1 .. n |-> e[k]]
    OBVIOUS
  <2>4. ASSUME NEW k \in 1 .. n
        PROVE  g[k] = IF k = 1 THEN ss[k] ELSE g[k - 1] \o ss[k]
    <3>0. k - 1 \in 0 .. n
      BY <1>1
    <3>01. e[k - 1] \in Seq(S)
      BY <3>0
    <3>1. <<e[k - 1], k>> \in Seq(S) \X (1 .. n)
      BY <3>01
    <3>2. e[k] = IF k = 1 THEN ss[1] ELSE e[k - 1] \o ss[k]
      BY <2>1, <2>2, <3>1 DEF AfterTurns
    <3>3. k # 1 => k - 1 \in 1 .. n
      OBVIOUS
    <3>4. QED
      BY <2>3, <3>2, <3>3
  <2>5. Flattens(ss, g)
    BY <2>3, <2>4 DEF Flattens
  <2>6. QED
    BY <2>5
<1>5. Flattens(ss, f)
  BY <1>4
<1>6. FlattenSeq(ss) = IF n = 0 THEN ss ELSE f[n]
  BY DEF FlattenSeq, Flattens
<1>7. PICK g : g = f
  OBVIOUS
<1> HIDE DEF f
<1>8. PICK h : h = [k \in SUBSET (1 .. n) |-> IF k = {} THEN << >> ELSE g[Max(k)]]
  OBVIOUS
<1>9. h[{}] = << >>
  BY <1>8
<1>10. ASSUME NEW k \in 1 .. n, h[1 .. (k - 1)] \in Seq(S) PROVE h[1 .. k] \in Seq(S)
  <2>1. 1 .. k \in SUBSET (1 .. n) /\ 1 .. k # {} /\ Max(1 .. k) = k
    BY <1>1, Segments
  <2>2. h[1 .. k] = g[k]
    BY <1>8, <2>1
  <2>3. g[k] = IF k = 1 THEN ss[k] ELSE g[k - 1] \o ss[k]
    BY <1>5, <1>7 DEF Flattens
  <2>4. CASE k = 1
    BY <1>1, <2>2, <2>3, <2>4
  <2>5. CASE k # 1
    <3>1. k - 1 \in 1 .. n
      BY <2>5
    <3>2. 1 .. (k - 1) \in SUBSET (1 .. n) /\ 1 .. (k - 1) # {} /\ Max(1 .. (k - 1)) = k - 1
      BY <1>1, <3>1, Segments
    <3>3. h[1 .. (k - 1)] = g[k - 1]
      BY <1>8, <3>2
    <3>4. ss[k] \in Seq(S) /\ g[k - 1] \in Seq(S)
      BY <1>1, <1>10, <3>3
    <3>5. g[k] = g[k - 1] \o ss[k]
      BY <2>3, <2>5
    <3>6. QED
      BY <2>2, <3>4, <3>5
  <2>6. QED
    BY <2>4, <2>5
<1>11. h[1 .. n] \in Seq(S)
  <2> HIDE DEF n
  <2> QED BY <1>1, <1>3, <1>9, <1>10, FoldIn
<1>12. CASE n = 0
  BY <1>3, <1>6, <1>12
<1>13. CASE n # 0
  <2>1. n \in 1 .. n
    BY <1>1, <1>13
  <2>2. 1 .. n \in SUBSET (1 .. n) /\ 1 .. n # {} /\ Max(1 .. n) = n
    BY <1>1, <2>1, Segments
  <2>3. h[1 .. n] = g[n]
    BY <1>8, <2>2
  <2>4. QED
    BY <1>6, <1>7, <1>11, <1>13, <2>3
<1>14. QED
  BY <1>12, <1>13

-----------------------------------------------------------------------------
(* Counting up                                                             *)

\* What holds of 0, and of every number up to n after the one before it, holds
\* of n.
LEMMA CountUp ==
  ASSUME NEW n \in Nat, NEW T, 0 \in T, \A k \in 1 .. n : k - 1 \in T => k \in T
  PROVE  n \in T
<1> DEFINE R == {k \in 0 .. n : k \notin T}
<1>1. SUFFICES ASSUME n \notin T PROVE FALSE
  OBVIOUS
<1>2. R \in SUBSET Nat
  OBVIOUS
<1>3. n \in R
  BY <1>1
<1>4. PICK k \in R : \A m \in R : k =< m
  <2> HIDE DEF R
  <2> QED BY <1>2, <1>3, LeastNumber
<1>5. k \in 0 .. n /\ k \notin T
  OBVIOUS
<1>6. k \in 1 .. n /\ k - 1 \in 0 .. n /\ ~(k =< k - 1)
  BY <1>5
<1>7. k - 1 \in T
  BY <1>4, <1>6
<1>8. QED
  BY <1>5, <1>6, <1>7

\* f has the value for every set of positions; each turn is G as long as the
\* value before is in X.
GoesAs(X, b, n, G, f) ==
  /\ f[{}] = b
  /\ \A k \in 1 .. n : f[1 .. (k - 1)] \in X => f[1 .. k] = G[<<f[1 .. (k - 1)], k>>]

\* e has the values of f after each turn.
GoneThrough(X, b, n, G, f, e) ==
  e \in [0 .. n -> X] /\ AfterTurns(n, b, G, e) /\ e[n] = f[1 .. n]

\* A fold whose turns stay in X goes through its values one after the other.
LEMMA FoldTrace ==
  ASSUME NEW X, NEW b \in X, NEW n \in Nat, NEW G \in [X \X (1 .. n) -> X], NEW f,
         GoesAs(X, b, n, G, f)
  PROVE  \E e : GoneThrough(X, b, n, G, f, e)
<1>1. PICK e : e = [k \in 0 .. n |-> f[1 .. k]]
  OBVIOUS
<1>2. 1 .. 0 = {}
  OBVIOUS
<1>3. e[0] = b /\ e[n] = f[1 .. n]
  BY <1>1, <1>2 DEF GoesAs
<1>4. \A k \in 1 .. n : k - 1 \in 0 .. n /\ e[k - 1] = f[1 .. (k - 1)] /\ e[k] = f[1 .. k]
  BY <1>1
<1>5. ASSUME NEW k \in 0 .. n PROVE e[k] \in X
  <2> DEFINE T == {j \in 0 .. n : e[j] \in X}
  <2>1. 0 \in T
    BY <1>3
  <2>2. ASSUME NEW j \in 1 .. k, j - 1 \in T PROVE j \in T
    <3>1. j \in 1 .. n /\ f[1 .. (j - 1)] \in X
      BY <1>4, <2>2
    <3>2. G[<<f[1 .. (j - 1)], j>>] \in X
      BY <3>1
    <3>3. e[j] \in X
      BY <1>4, <3>1, <3>2 DEF GoesAs
    <3>4. QED
      BY <3>1, <3>3
  <2> HIDE DEF T
  <2>3. k \in T
    BY <2>1, <2>2, CountUp
  <2>4. QED
    BY <2>3 DEF T
<1>6. e \in [0 .. n -> X]
  BY <1>1, <1>5
<1>7. \A k \in 1 .. n : e[k] = G[<<e[k - 1], k>>]
  BY <1>4, <1>5 DEF GoesAs
<1>8. QED
  BY <1>3, <1>6, <1>7 DEF AfterTurns, GoneThrough
=============================================================================
