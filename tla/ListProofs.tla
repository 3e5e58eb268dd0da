------------------------------ MODULE ListProofs ------------------------------
(***************************************************************************)
(* Induction over the natural numbers, for sets of numbers, and with it    *)
(* what Those does to a list of any length.                                *)
(***************************************************************************)
EXTENDS Lists, SequencesExt, FiniteSetTheorems, SequenceTheorems, TLAPS

\* a set of numbers that contains 0 and, with each number, the next contains
\* them all: otherwise adding 1 would map the part of it below a missing number
\* into itself without 0
LEMMA SetInduction ==
  ASSUME NEW S, 0 \in S, \A n \in Nat : n \in S => n + 1 \in S
  PROVE  Nat \subseteq S
<1>1. SUFFICES ASSUME NEW x \in Nat, x \notin S PROVE FALSE
  OBVIOUS
<1> DEFINE B == (0 .. x) \cap S
<1> DEFINE next == [n \in B |-> n + 1]
<1>2. IsFiniteSet(B) /\ 0 \in B
  <2>1. IsFiniteSet(0 .. x)
    BY FS_Interval
  <2>2. QED
    BY <2>1, FS_Subset
<1>3. next \in [B -> B \ {0}]
  BY <1>1
<1>4. IsFiniteSet(B \ {0}) /\ Cardinality(B \ {0}) < Cardinality(B)
  <2>1. Cardinality(B \ {0}) = Cardinality(B) - 1 /\ IsFiniteSet(B \ {0})
    BY <1>2, FS_RemoveElement
  <2>2. Cardinality(B) \in Nat
    BY <1>2, FS_CardinalityType
  <2>3. QED
    BY <2>1, <2>2
<1>5. \E n, m \in B : n # m /\ next[n] = next[m]
  <2> HIDE DEF next, B
  <2> QED
    BY <1>2, <1>3, <1>4, FS_PigeonHole
<1>6. QED
  BY <1>5

\* the same for the numbers up to m
LEMMA IntervalInduction ==
  ASSUME NEW m \in Nat, NEW S, 0 \in S, \A n \in 0 .. m - 1 : n \in S => n + 1 \in S
  PROVE  0 .. m \subseteq S
<1> DEFINE T == {n \in Nat : n \in S \/ n > m}
<1>1. Nat \subseteq T
  <2>1. 0 \in T
    OBVIOUS
  <2>2. ASSUME NEW n \in Nat, n \in T PROVE n + 1 \in T
    BY <2>2
  <2> HIDE DEF T
  <2>3. QED
    BY <2>1, <2>2, SetInduction
<1>2. QED
  BY <1>1

\* a set of numbers that is not empty has a least one
LEMMA LeastExists ==
  ASSUME NEW S \in SUBSET Nat, S # {}
  PROVE  Min(S) \in S /\ \A y \in S : Min(S) <= y
<1> DEFINE T == {n \in Nat : \A m \in 0 .. n : m \notin S}
<1>1. \E x \in S : \A y \in S : x <= y
  <2> SUFFICES ASSUME ~ \E x \in S : \A y \in S : x <= y PROVE FALSE
    OBVIOUS
  <2>1. 0 \in T
    OBVIOUS
  <2>2. ASSUME NEW n \in Nat, n \in T PROVE n + 1 \in T
    <3>1. \A y \in S : n + 1 <= y
      BY <2>2
    <3> QED
      BY <2>2, <3>1
  <2> HIDE DEF T
  <2>3. Nat \subseteq T
    BY <2>1, <2>2, SetInduction
  <2>4. \A n \in Nat : n \notin S
    BY <2>3 DEF T
  <2> QED
    BY <2>4
<1> QED
  BY <1>1 DEF Min

-----------------------------------------------------------------------------
Taken(f, list, S, n) ==
  IF n = 0 THEN <<>>
  ELSE IF list[n] \in S THEN Append(f[n - 1], list[n]) ELSE f[n - 1]

\* the function that Those defines recursively exists
LEMMA UpToExists ==
  ASSUME NEW list, NEW S, NEW m \in Nat
  PROVE  \E f : f = [n \in 0 .. m |-> Taken(f, list, S, n)]
<1> DEFINE Good == {k \in Nat : \E f : f = [n \in 0 .. k |-> Taken(f, list, S, n)]}
<1>1. 0 \in Good
  <2> DEFINE g == [n \in 0 .. 0 |-> <<>>]
  <2>1. g = [n \in 0 .. 0 |-> Taken(g, list, S, n)]
    BY DEF Taken
  <2> HIDE DEF g
  <2>2. QED
    BY <2>1
<1>2. ASSUME NEW k \in Nat, k \in Good PROVE k + 1 \in Good
  <2>1. PICK f : f = [n \in 0 .. k |-> Taken(f, list, S, n)]
    BY <1>2
  <2> DEFINE g == [n \in 0 .. k + 1 |-> IF n = k + 1 THEN Taken(f, list, S, k + 1) ELSE f[n]]
  <2>2. \A n \in 0 .. k + 1 : g[n] = Taken(g, list, S, n)
    <3>1. ASSUME NEW n \in 0 .. k + 1 PROVE Taken(g, list, S, n) = Taken(f, list, S, n)
      <4>1. n # 0 => g[n - 1] = f[n - 1]
        OBVIOUS
      <4> HIDE DEF g
      <4>2. QED
        BY <4>1 DEF Taken
    <3>2. ASSUME NEW n \in 0 .. k PROVE g[n] = f[n] /\ f[n] = Taken(f, list, S, n)
      BY <2>1
    <3>3. g[k + 1] = Taken(f, list, S, k + 1)
      OBVIOUS
    <3> HIDE DEF g
    <3>4. QED
      BY <3>1, <3>2, <3>3
  <2>3. g = [n \in 0 .. k + 1 |-> g[n]]
    OBVIOUS
  <2> HIDE DEF g
  <2>4. g = [n \in 0 .. k + 1 |-> Taken(g, list, S, n)]
    BY <2>2, <2>3
  <2>5. QED
    BY <2>4
<1> HIDE DEF Good
<1>3. m \in Good
  BY <1>1, <1>2, SetInduction
<1>4. QED
  BY <1>3 DEF Good

\* hence Those is its last value, and each value follows from the one before
LEMMA ThoseUnfolds ==
  ASSUME NEW list, NEW S, Len(list) \in Nat
  PROVE  \E f : /\ Those(list, S) = f[Len(list)]
                /\ f[0] = <<>>
                /\ \A n \in 1 .. Len(list) :
                     f[n] = IF list[n] \in S THEN Append(f[n - 1], list[n]) ELSE f[n - 1]
<1> DEFINE f == CHOOSE f : f = [n \in 0 .. Len(list) |-> Taken(f, list, S, n)]
<1>1. f = [n \in 0 .. Len(list) |-> Taken(f, list, S, n)]
  BY UpToExists
<1>2. Those(list, S) = f[Len(list)]
  BY DEF Those, Taken
<1> HIDE DEF f
<1>3. \A n \in 0 .. Len(list) : f[n] = Taken(f, list, S, n)
  BY <1>1
<1>4. QED
  BY <1>2, <1>3 DEF Taken

-----------------------------------------------------------------------------
\* the value after n elements: the elements of S among the first n, each as
\* often as there, and different if those are
Picked(q, list, S, A, n) ==
  /\ q \in Seq(A)
  /\ \A x : (\E i \in 1 .. Len(q) : q[i] = x) <=> x \in S /\ \E i \in 1 .. n : list[i] = x
  /\ Len(q) = Cardinality({i \in 1 .. n : list[i] \in S})
  /\ (\A i, j \in 1 .. n : list[i] = list[j] => i = j) =>
       \A i, j \in 1 .. Len(q) : q[i] = q[j] => i = j

LEMMA PickedNext ==
  ASSUME NEW A, NEW list \in Seq(A), NEW S, NEW n \in 0 .. Len(list) - 1, NEW q,
         Picked(q, list, S, A, n)
  PROVE  Picked(IF list[n + 1] \in S THEN Append(q, list[n + 1]) ELSE q, list, S, A, n + 1)
<1> DEFINE e == list[n + 1]
<1> DEFINE C == {i \in 1 .. n : list[i] \in S}
<1> DEFINE D == {i \in 1 .. n + 1 : list[i] \in S}
<1>1. e \in A /\ n \in Nat /\ n + 1 \in 1 .. Len(list) /\ q \in Seq(A) /\ Len(q) \in Nat
  BY DEF Picked
<1>2. IsFiniteSet(C)
  <2>1. IsFiniteSet(1 .. n) /\ C \subseteq 1 .. n
    BY <1>1, FS_Interval
  <2>2. QED
    BY <2>1, FS_Subset
<1>3. CASE e \in S
  <2> DEFINE r == Append(q, e)
  <2>1. D = C \cup {n + 1} /\ n + 1 \notin C
    BY <1>1, <1>3
  <2>2. Cardinality(D) = Cardinality(C) + 1
    BY <1>2, <2>1, FS_AddElement
  <2>3. /\ r \in Seq(A) /\ Len(r) = Len(q) + 1 /\ r[Len(q) + 1] = e
        /\ \A i \in 1 .. Len(q) : r[i] = q[i]
    BY <1>1
  <2>4. Len(r) = Cardinality(D)
    BY <2>2, <2>3 DEF Picked
  <2>5. \A x : (\E i \in 1 .. Len(r) : r[i] = x) <=>
               x \in S /\ \E i \in 1 .. n + 1 : list[i] = x
    <3>1. ASSUME NEW x, NEW i \in 1 .. Len(r), r[i] = x
          PROVE  x \in S /\ \E j \in 1 .. n + 1 : list[j] = x
      <4>1. CASE i = Len(q) + 1
        BY <1>1, <1>3, <2>3, <3>1, <4>1
      <4>2. CASE i \in 1 .. Len(q)
        <5>1. q[i] = x
          BY <2>3, <3>1, <4>2
        <5>2. x \in S /\ \E j \in 1 .. n : list[j] = x
          BY <4>2, <5>1 DEF Picked
        <5>3. QED
          BY <1>1, <5>2
      <4>3. QED
        BY <1>1, <2>3, <4>1, <4>2
    <3>2. ASSUME NEW x \in S, NEW j \in 1 .. n + 1, list[j] = x
          PROVE  \E i \in 1 .. Len(r) : r[i] = x
      <4>1. CASE j = n + 1
        BY <1>1, <2>3, <3>2, <4>1
      <4>2. CASE j \in 1 .. n
        <5>1. PICK i \in 1 .. Len(q) : q[i] = x
          BY <3>2, <4>2 DEF Picked
        <5>2. QED
          BY <1>1, <2>3, <5>1
      <4>3. QED
        BY <1>1, <4>1, <4>2
    <3>3. QED
      BY <3>1, <3>2
  <2>6. ASSUME \A i, j \in 1 .. n + 1 : list[i] = list[j] => i = j
        PROVE  \A i, j \in 1 .. Len(r) : r[i] = r[j] => i = j
    <3>1. \A i, j \in 1 .. Len(q) : q[i] = q[j] => i = j
      BY <1>1, <2>6 DEF Picked
    <3>2. ASSUME NEW i \in 1 .. Len(q) PROVE q[i] # e
      <4>1. \E j \in 1 .. n : list[j] = q[i]
        BY DEF Picked
      <4>2. QED
        BY <1>1, <2>6, <4>1
    <3>3. QED
      BY <1>1, <2>3, <3>1, <3>2
  <2> HIDE DEF r
  <2>7. Picked(r, list, S, A, n + 1)
    BY <2>3, <2>4, <2>5, <2>6 DEF Picked
  <2>8. QED
    BY <1>3, <2>7 DEF r
<1>4. CASE e \notin S
  <2>1. D = C
    BY <1>1, <1>4
  <2>2. \A x : (x \in S /\ \E i \in 1 .. n + 1 : list[i] = x) <=>
               (x \in S /\ \E i \in 1 .. n : list[i] = x)
    BY <1>1, <1>4
  <2>3. Len(q) = Cardinality(D)
    BY <2>1 DEF Picked
  <2>4. \A x : (\E i \in 1 .. Len(q) : q[i] = x) <=>
               x \in S /\ \E i \in 1 .. n + 1 : list[i] = x
    BY <2>2 DEF Picked
  <2>5. ASSUME \A i, j \in 1 .. n + 1 : list[i] = list[j] => i = j
        PROVE  \A i, j \in 1 .. Len(q) : q[i] = q[j] => i = j
    <3>1. \A i, j \in 1 .. n : list[i] = list[j] => i = j
      BY <1>1, <2>5
    <3>2. QED
      BY <3>1 DEF Picked
  <2>6. Picked(q, list, S, A, n + 1)
    BY <1>1, <2>3, <2>4, <2>5 DEF Picked
  <2>7. QED
    BY <1>4, <2>6
<1>5. QED
  BY <1>3, <1>4

LEMMA InToSet ==
  ASSUME NEW A, NEW q \in Seq(A)
  PROVE  \A x : x \in ToSet(q) <=> \E i \in 1 .. Len(q) : q[i] = x
BY DEF ToSet

\* Those keeps the elements of S and no others, as often as they occur, and
\* does not repeat what the list does not repeat
LEMMA ThoseProperties ==
  ASSUME NEW A, NEW list \in Seq(A), NEW S
  PROVE  /\ Those(list, S) \in Seq(A)
         /\ ToSet(Those(list, S)) = ToSet(list) \cap S
         /\ Len(Those(list, S)) = Cardinality({i \in 1 .. Len(list) : list[i] \in S})
         /\ (\A i, j \in 1 .. Len(list) : list[i] = list[j] => i = j) =>
              \A i, j \in 1 .. Len(Those(list, S)) :
                Those(list, S)[i] = Those(list, S)[j] => i = j
<1>1. Len(list) \in Nat /\ DOMAIN list = 1 .. Len(list)
  OBVIOUS
<1>2. PICK f : /\ Those(list, S) = f[Len(list)]
               /\ f[0] = <<>>
               /\ \A n \in 1 .. Len(list) :
                    f[n] = IF list[n] \in S THEN Append(f[n - 1], list[n]) ELSE f[n - 1]
  BY <1>1, ThoseUnfolds
<1> DEFINE Good == {n \in 0 .. Len(list) : Picked(f[n], list, S, A, n)}
<1>3. 0 \in Good
  <2>1. /\ <<>> \in Seq(A) /\ Len(<<>>) = 0 /\ 1 .. 0 = {}
        /\ {i \in 1 .. 0 : list[i] \in S} = {}
    OBVIOUS
  <2>2. Picked(<<>>, list, S, A, 0)
    BY <2>1, FS_EmptySet DEF Picked
  <2>3. QED
    BY <1>1, <1>2, <2>2
<1>4. ASSUME NEW n \in 0 .. Len(list) - 1, n \in Good PROVE n + 1 \in Good
  <2>1. f[n + 1] = IF list[n + 1] \in S THEN Append(f[n], list[n + 1]) ELSE f[n]
    BY <1>1, <1>2
  <2>2. Picked(f[n + 1], list, S, A, n + 1)
    BY <1>4, <2>1, PickedNext
  <2>3. QED
    BY <1>1, <2>2
<1> HIDE DEF Good
<1>5. Len(list) \in Good
  <2>1. 0 .. Len(list) \subseteq Good
    BY <1>1, <1>3, <1>4, IntervalInduction
  <2>2. QED
    BY <1>1, <2>1
<1>6. Picked(Those(list, S), list, S, A, Len(list))
  BY <1>2, <1>5 DEF Good
<1>7. ToSet(Those(list, S)) = ToSet(list) \cap S
  <2>1. Those(list, S) \in Seq(A)
    BY <1>6 DEF Picked
  <2>2. \A x : x \in ToSet(Those(list, S)) <=>
               \E i \in 1 .. Len(Those(list, S)) : Those(list, S)[i] = x
    BY <2>1, InToSet
  <2>3. \A x : x \in ToSet(list) <=> \E i \in 1 .. Len(list) : list[i] = x
    BY InToSet
  <2>4. \A x : (\E i \in 1 .. Len(Those(list, S)) : Those(list, S)[i] = x) <=>
               x \in S /\ \E i \in 1 .. Len(list) : list[i] = x
    BY <1>6 DEF Picked
  <2>5. \A x : x \in ToSet(Those(list, S)) <=> x \in ToSet(list) \cap S
    BY <2>2, <2>3, <2>4
  <2>6. QED
    BY <2>5
<1>8. QED
  BY <1>6, <1>7 DEF Picked

\* taking out every occurrence of an element, as std::list::remove does; if the
\* list does not repeat anything it gets one shorter
LEMMA TakingOut ==
  ASSUME NEW A, NEW list \in Seq(A), NEW x
  PROVE  /\ Without(list, x) \in Seq(A)
         /\ ToSet(Without(list, x)) = ToSet(list) \ {x}
         /\ (\A i, j \in 1 .. Len(list) : list[i] = list[j] => i = j) =>
              \A i, j \in 1 .. Len(Without(list, x)) :
                Without(list, x)[i] = Without(list, x)[j] => i = j
<1> DEFINE S == ToSet(list) \ {x}
<1>1. ToSet(list) \cap S = ToSet(list) \ {x}
  OBVIOUS
<1> HIDE DEF S
<1>2. /\ Those(list, S) \in Seq(A)
      /\ ToSet(Those(list, S)) = ToSet(list) \cap S
      /\ (\A i, j \in 1 .. Len(list) : list[i] = list[j] => i = j) =>
           \A i, j \in 1 .. Len(Those(list, S)) :
             Those(list, S)[i] = Those(list, S)[j] => i = j
  BY ThoseProperties
<1>3. Those(list, S) = Without(list, x)
  BY DEF S, Without
<1>4. QED
  BY <1>1, <1>2, <1>3

LEMMA TakingOutOne ==
  ASSUME NEW A, NEW list \in Seq(A), NEW k \in 1 .. Len(list),
         \A i, j \in 1 .. Len(list) : list[i] = list[j] => i = j
  PROVE  Len(Without(list, list[k])) = Len(list) - 1
<1> DEFINE S == ToSet(list) \ {list[k]}
<1>1. {i \in 1 .. Len(list) : list[i] \in S} = (1 .. Len(list)) \ {k}
  BY InToSet
<1>2. IsFiniteSet(1 .. Len(list)) /\ Cardinality(1 .. Len(list)) = Len(list)
  BY FS_Interval
<1>3. Cardinality((1 .. Len(list)) \ {k}) = Len(list) - 1
  BY <1>2, FS_RemoveElement
<1>4. Those(list, S) = Without(list, list[k])
  BY DEF Without
<1> HIDE DEF S
<1>5. Len(Those(list, S)) = Cardinality({i \in 1 .. Len(list) : list[i] \in S})
  BY ThoseProperties
<1>6. QED
  BY <1>1, <1>3, <1>4, <1>5

\* the elements of S in front, the others behind them, each in the list's order
LEMMA Separated ==
  ASSUME NEW A, NEW list \in Seq(A), NEW S,
         \A i, j \in 1 .. Len(list) : list[i] = list[j] => i = j
  PROVE  LET front == Those(list, S)
             q == front \o Those(list, A \ S)
         IN  /\ q \in Seq(A) /\ Len(q) = Len(list)
             /\ ToSet(q) = ToSet(list)
             /\ \A i, j \in 1 .. Len(q) : q[i] = q[j] => i = j
             /\ Len(front) \in 0 .. Len(q)
             /\ \A i \in 1 .. Len(q) : q[i] \in S <=> i <= Len(front)
<1> DEFINE R == A \ S
<1> DEFINE front == Those(list, S)
<1> DEFINE back == Those(list, R)
<1> DEFINE q == front \o back
<1> DEFINE I == {i \in 1 .. Len(list) : list[i] \in S}
<1> DEFINE J == {i \in 1 .. Len(list) : list[i] \in R}
<1>1. \A i \in 1 .. Len(list) : list[i] \in A /\ (list[i] \in R <=> list[i] \notin S)
  OBVIOUS
<1>2. J = (1 .. Len(list)) \ I /\ I \subseteq 1 .. Len(list)
  BY <1>1
<1> HIDE DEF R, front, back, q
<1>3. /\ front \in Seq(A) /\ ToSet(front) = ToSet(list) \cap S /\ Len(front) = Cardinality(I)
      /\ \A i, j \in 1 .. Len(front) : front[i] = front[j] => i = j
  <2> HIDE DEF I
  <2>1. /\ Those(list, S) \in Seq(A)
        /\ ToSet(Those(list, S)) = ToSet(list) \cap S
        /\ Len(Those(list, S)) = Cardinality({i \in 1 .. Len(list) : list[i] \in S})
        /\ (\A i, j \in 1 .. Len(list) : list[i] = list[j] => i = j) =>
             \A i, j \in 1 .. Len(Those(list, S)) :
               Those(list, S)[i] = Those(list, S)[j] => i = j
    BY ThoseProperties, Zenon
  <2> QED
    BY <2>1 DEF front, I
<1>4. /\ back \in Seq(A) /\ ToSet(back) = ToSet(list) \cap R /\ Len(back) = Cardinality(J)
      /\ \A i, j \in 1 .. Len(back) : back[i] = back[j] => i = j
  <2> HIDE DEF J
  <2>1. /\ Those(list, R) \in Seq(A)
        /\ ToSet(Those(list, R)) = ToSet(list) \cap R
        /\ Len(Those(list, R)) = Cardinality({i \in 1 .. Len(list) : list[i] \in R})
        /\ (\A i, j \in 1 .. Len(list) : list[i] = list[j] => i = j) =>
             \A i, j \in 1 .. Len(Those(list, R)) :
               Those(list, R)[i] = Those(list, R)[j] => i = j
    BY ThoseProperties, Zenon
  <2> QED
    BY <2>1 DEF back, J
<1> HIDE DEF I, J
<1>5. Len(front) + Len(back) = Len(list)
  <2>1. Len(list) \in Nat
    OBVIOUS
  <2>2. IsFiniteSet(1 .. Len(list))
        /\ Cardinality(1 .. Len(list)) = IF 1 > Len(list) THEN 0 ELSE Len(list) - 1 + 1
    BY <2>1, FS_Interval
  <2>3. Cardinality(J) = Cardinality(1 .. Len(list)) - Cardinality((1 .. Len(list)) \cap I)
    BY <1>2, <2>2, FS_Difference
  <2>4. (1 .. Len(list)) \cap I = I
    BY <1>2
  <2>5. Cardinality(I) \in Nat
    BY <1>2, <2>2, FS_Subset, FS_CardinalityType
  <2>6. Cardinality(1 .. Len(list)) = Len(list)
    BY <2>1, <2>2
  <2>7. Len(back) = Len(list) - Len(front) /\ Len(front) \in Nat
    BY <1>3, <1>4, <2>3, <2>4, <2>5, <2>6
  <2> QED
    BY <2>1, <2>7
<1>6. /\ q \in Seq(A) /\ Len(q) = Len(list) /\ Len(front) \in Nat /\ Len(back) \in Nat
      /\ \A i \in 1 .. Len(q) : q[i] = IF i <= Len(front) THEN front[i] ELSE back[i - Len(front)]
  BY <1>3, <1>4, <1>5 DEF q
<1>7. /\ \A i \in 1 .. Len(front) : front[i] \in S /\ front[i] \in ToSet(list)
      /\ \A i \in 1 .. Len(back) : back[i] \in R /\ back[i] \in ToSet(list)
  <2>1. \A i \in 1 .. Len(front) : front[i] \in ToSet(front)
    BY <1>3, InToSet
  <2>2. \A i \in 1 .. Len(back) : back[i] \in ToSet(back)
    BY <1>4, InToSet
  <2> QED
    BY <1>3, <1>4, <2>1, <2>2
<1>8. \A x \in ToSet(list) : x \in R <=> x \notin S
  <2>1. \A x \in ToSet(list) : \E i \in 1 .. Len(list) : list[i] = x
    BY InToSet
  <2> QED
    BY <1>1, <2>1
<1>9. \A i \in 1 .. Len(q) : \/ i \in 1 .. Len(front) /\ q[i] = front[i]
                             \/ i - Len(front) \in 1 .. Len(back) /\ q[i] = back[i - Len(front)]
                                /\ ~(i <= Len(front))
  BY <1>5, <1>6
<1>10. \A i \in 1 .. Len(q) : q[i] \in ToSet(list) /\ (q[i] \in S <=> i <= Len(front))
  <2> SUFFICES ASSUME NEW i \in 1 .. Len(q)
               PROVE  q[i] \in ToSet(list) /\ (q[i] \in S <=> i <= Len(front))
    OBVIOUS
  <2>1. CASE i \in 1 .. Len(front) /\ q[i] = front[i]
    BY <1>6, <1>7, <2>1
  <2>2. CASE /\ i - Len(front) \in 1 .. Len(back) /\ q[i] = back[i - Len(front)]
             /\ ~(i <= Len(front))
    BY <1>7, <1>8, <2>2
  <2> QED
    BY <1>9, <2>1, <2>2
<1>11. \A i, j \in 1 .. Len(q) : q[i] = q[j] => i = j
  <2> SUFFICES ASSUME NEW i \in 1 .. Len(q), NEW j \in 1 .. Len(q), q[i] = q[j] PROVE i = j
    OBVIOUS
  <2>1. i <= Len(front) <=> j <= Len(front)
    BY <1>10
  <2>2. CASE i <= Len(front)
    BY <1>3, <1>9, <2>1, <2>2
  <2>3. CASE ~(i <= Len(front))
    <3>1. i - Len(front) = j - Len(front)
      BY <1>4, <1>6, <1>9, <2>1, <2>3
    <3> QED
      BY <1>6, <3>1
  <2> QED
    BY <2>2, <2>3
<1>12. ToSet(q) = ToSet(list)
  <2>1. \A x \in ToSet(list) : \E i \in 1 .. Len(q) : q[i] = x
    <3> SUFFICES ASSUME NEW x \in ToSet(list) PROVE \E i \in 1 .. Len(q) : q[i] = x
      OBVIOUS
    <3>1. CASE x \in S
      <4>1. PICK i \in 1 .. Len(front) : front[i] = x
        BY <1>3, <3>1, InToSet
      <4>2. i \in 1 .. Len(q) /\ q[i] = x
        BY <1>5, <1>6, <4>1
      <4> QED
        BY <4>2
    <3>2. CASE x \in R
      <4>1. PICK i \in 1 .. Len(back) : back[i] = x
        BY <1>4, <3>2, InToSet
      <4>2. i + Len(front) \in 1 .. Len(q) /\ q[i + Len(front)] = x
        BY <1>5, <1>6, <4>1
      <4> QED
        BY <4>2
    <3> QED
      BY <1>8, <3>1, <3>2
  <2>2. \A x : x \in ToSet(q) <=> \E i \in 1 .. Len(q) : q[i] = x
    BY <1>6, InToSet
  <2>3. \A x : x \in ToSet(q) <=> x \in ToSet(list)
    BY <1>10, <2>1, <2>2
  <2> QED
    BY <2>3
<1>13. Len(front) \in 0 .. Len(q)
  BY <1>5, <1>6
<1> QED
  BY <1>6, <1>10, <1>11, <1>12, <1>13 DEF q, front, back, R

\* Those keeps the order of the list
InOrder(q, list, n) ==
  /\ q \in Seq(ToSet(list))
  /\ \A p \in 1 .. Len(q) : \E i \in 1 .. n : list[i] = q[p]
  /\ \A p, r \in 1 .. Len(q) : p < r =>
       \E i, j \in 1 .. n : i < j /\ list[i] = q[p] /\ list[j] = q[r]

LEMMA ThoseOrdered ==
  ASSUME NEW A, NEW list \in Seq(A), NEW S
  PROVE  \A p, r \in 1 .. Len(Those(list, S)) : p < r =>
           \E i, j \in 1 .. Len(list) :
             i < j /\ list[i] = Those(list, S)[p] /\ list[j] = Those(list, S)[r]
<1>1. Len(list) \in Nat /\ DOMAIN list = 1 .. Len(list)
      /\ \A i \in 1 .. Len(list) : list[i] \in ToSet(list)
  BY InToSet
<1>2. PICK f : /\ Those(list, S) = f[Len(list)]
               /\ f[0] = <<>>
               /\ \A n \in 1 .. Len(list) :
                    f[n] = IF list[n] \in S THEN Append(f[n - 1], list[n]) ELSE f[n - 1]
  BY <1>1, ThoseUnfolds
<1> DEFINE Good == {n \in 0 .. Len(list) : InOrder(f[n], list, n)}
<1>3. 0 \in Good
  <2>1. <<>> \in Seq(ToSet(list)) /\ Len(<<>>) = 0 /\ 1 .. 0 = {}
    OBVIOUS
  <2>2. InOrder(<<>>, list, 0)
    BY <2>1 DEF InOrder
  <2> QED
    BY <1>1, <1>2, <2>2
<1>4. ASSUME NEW n \in 0 .. Len(list) - 1, n \in Good PROVE n + 1 \in Good
  <2> DEFINE q == f[n]
  <2> DEFINE e == list[n + 1]
  <2>1. f[n + 1] = IF e \in S THEN Append(q, e) ELSE q
    BY <1>1, <1>2
  <2>2. n \in Nat /\ n + 1 \in 1 .. Len(list) /\ e \in ToSet(list)
    BY <1>1
  <2>3. /\ q \in Seq(ToSet(list))
        /\ \A p \in 1 .. Len(q) : \E i \in 1 .. n : list[i] = q[p]
        /\ \A p, r \in 1 .. Len(q) : p < r =>
             \E i, j \in 1 .. n : i < j /\ list[i] = q[p] /\ list[j] = q[r]
    BY <1>4 DEF InOrder
  <2> HIDE DEF q, e
  <2>4. InOrder(q, list, n + 1)
    BY <2>2, <2>3 DEF InOrder
  <2>5. InOrder(Append(q, e), list, n + 1)
    <3> DEFINE u == Append(q, e)
    <3>1. u \in Seq(ToSet(list)) /\ Len(u) = Len(q) + 1 /\ Len(q) \in Nat
          /\ u[Len(q) + 1] = e /\ \A p \in 1 .. Len(q) : u[p] = q[p]
      BY <2>2, <2>3
    <3> HIDE DEF u
    <3>2. \A p \in 1 .. Len(u) : p \in 1 .. Len(q) \/ p = Len(q) + 1
      BY <3>1
    <3>3. \A i \in 1 .. n : i \in 1 .. n + 1 /\ i < n + 1
      BY <2>2
    <3>4. n + 1 \in 1 .. n + 1 /\ list[n + 1] = e
      BY <2>2 DEF e
    <3>5. ASSUME NEW p \in 1 .. Len(u) PROVE \E i \in 1 .. n + 1 : list[i] = u[p]
      <4>1. CASE p \in 1 .. Len(q)
        <5>1. PICK i \in 1 .. n : list[i] = q[p]
          BY <2>3, <4>1
        <5> QED
          BY <3>1, <3>3, <4>1, <5>1
      <4>2. CASE p = Len(q) + 1
        BY <3>1, <3>4, <4>2
      <4> QED
        BY <3>2, <4>1, <4>2
    <3>6. ASSUME NEW p \in 1 .. Len(u), NEW r \in 1 .. Len(u), p < r
          PROVE  \E i, j \in 1 .. n + 1 : i < j /\ list[i] = u[p] /\ list[j] = u[r]
      <4>1. p \in 1 .. Len(q)
        BY <3>1, <3>6
      <4>2. CASE r \in 1 .. Len(q)
        <5>1. PICK i \in 1 .. n, j \in 1 .. n : i < j /\ list[i] = q[p] /\ list[j] = q[r]
          BY <2>3, <3>6, <4>1, <4>2
        <5>2. u[p] = q[p] /\ u[r] = q[r] /\ i \in 1 .. n + 1 /\ j \in 1 .. n + 1
          BY <3>1, <3>3, <4>1, <4>2
        <5> QED
          BY <5>1, <5>2
      <4>3. CASE r = Len(q) + 1
        <5>1. PICK i \in 1 .. n : list[i] = q[p]
          BY <2>3, <4>1
        <5>2. u[p] = q[p] /\ u[r] = e /\ i \in 1 .. n + 1 /\ i < n + 1
          BY <3>1, <3>3, <4>1, <4>3
        <5> QED
          BY <3>4, <5>1, <5>2
      <4> QED
        BY <3>2, <4>2, <4>3
    <3> QED
      BY <3>1, <3>5, <3>6 DEF InOrder, u
  <2> QED
    BY <2>1, <2>2, <2>4, <2>5 DEF q
<1> HIDE DEF Good
<1>5. 0 .. Len(list) \subseteq Good
  BY <1>1, <1>3, <1>4, IntervalInduction
<1>6. Len(list) \in Good
  BY <1>1, <1>5
<1>7. InOrder(Those(list, S), list, Len(list))
  BY <1>2, <1>6, Zenon DEF Good
<1> QED
  BY <1>7, Zenon DEF InOrder

\* what the loops that take the head of a list, or append to one, rely on
LEMMA TailFacts ==
  ASSUME NEW A, NEW q \in Seq(A), q # <<>>
  PROVE  /\ Tail(q) \in Seq(A) /\ Head(q) \in A /\ Head(q) = q[1] /\ 1 \in DOMAIN q
         /\ ToSet(q) = {Head(q)} \cup ToSet(Tail(q))
         /\ DOMAIN q = 1 .. Len(q) /\ Len(q) \in Nat /\ Len(Tail(q)) \in Nat
         /\ DOMAIN Tail(q) = 1 .. Len(Tail(q))
         /\ \A i \in DOMAIN Tail(q) : i + 1 \in DOMAIN q /\ Tail(q)[i] = q[i + 1]
<1>1. /\ Tail(q) \in Seq(A) /\ Head(q) \in A /\ Head(q) = q[1] /\ 1 \in DOMAIN q
      /\ DOMAIN q = 1 .. Len(q) /\ Len(q) \in Nat /\ Len(Tail(q)) = Len(q) - 1
      /\ DOMAIN Tail(q) = 1 .. Len(Tail(q))
      /\ \A i \in 1 .. Len(q) - 1 : Tail(q)[i] = q[i + 1]
  OBVIOUS
<1>2. \A x : x \in ToSet(q) <=> \E i \in 1 .. Len(q) : q[i] = x
  BY InToSet
<1>3. \A x : x \in ToSet(Tail(q)) <=> \E i \in 1 .. Len(Tail(q)) : Tail(q)[i] = x
  BY <1>1, InToSet
<1>4. \A i \in 1 .. Len(q) : i = 1 \/ (i - 1 \in 1 .. Len(q) - 1 /\ q[i] = Tail(q)[i - 1])
  BY <1>1
<1>5. \A x : x \in ToSet(q) <=> x = Head(q) \/ x \in ToSet(Tail(q))
  <2>1. \A x : x \in ToSet(q) => x = Head(q) \/ x \in ToSet(Tail(q))
    BY <1>1, <1>2, <1>3, <1>4
  <2>2. \A i \in 1 .. Len(Tail(q)) : i + 1 \in 1 .. Len(q) /\ Tail(q)[i] = q[i + 1]
    BY <1>1
  <2>3. 1 \in 1 .. Len(q)
    BY <1>1
  <2>4. \A x : x \in ToSet(Tail(q)) => x \in ToSet(q)
    BY <1>2, <1>3, <2>2
  <2> QED
    BY <1>1, <1>2, <2>1, <2>3, <2>4
<1> QED
  BY <1>1, <1>5

LEMMA AppendFacts ==
  ASSUME NEW A, NEW q \in Seq(A), NEW x \in A
  PROVE  /\ Append(q, x) \in Seq(A) /\ Len(Append(q, x)) = Len(q) + 1 /\ Len(q) \in Nat
         /\ DOMAIN q = 1 .. Len(q) /\ DOMAIN Append(q, x) = 1 .. Len(q) + 1
         /\ Append(q, x)[Len(q) + 1] = x
         /\ \A i \in DOMAIN q : i \in DOMAIN Append(q, x) /\ Append(q, x)[i] = q[i]
         /\ \A i \in DOMAIN Append(q, x) : i \in DOMAIN q \/ i = Len(q) + 1
OBVIOUS
=============================================================================
