--------------------------- MODULE ClassFilesProofs --------------------------
(***************************************************************************)
(* ClassFiles for any documents, annotations and files: the generator's    *)
(* steps are steps of Namespace, the rules of its data types and its files *)
(* follow the model, and it fails for the reasons named.                   *)
(*                                                                         *)
(* Two recursions over a graph that may have cycles are at the core.       *)
(* getMembersOfType is a function of paths, which exists because a path    *)
(* that does not repeat a node is no longer than the list of nodes; what   *)
(* it returns is the union over the reachable nodes, or a failure exactly  *)
(* if one of them reaches itself.  buildEncoding is a stack of calls, each *)
(* below the one before it: a type that it uses while it is being built is *)
(* on a cycle.                                                             *)
(***************************************************************************)
EXTENDS ClassFiles, NamespaceProofs, ListProofs

\* the graph that sanitation leaves: all references lead from node to node
Graph ==
  /\ NamespaceTypeOK /\ Shape
  /\ \A n \in nodes : \A r \in references[n] : Target(r) \in nodes

(* The list of the references of a node has all of them.                   *)
LEMMA ReferenceListFacts ==
  ASSUME Graph, NEW n \in nodes
  PROVE  /\ ReferenceList(n) \in Seq(references[n]) /\ Len(ReferenceList(n)) \in Nat
         /\ \A i \in 1 .. Len(ReferenceList(n)) : ReferenceList(n)[i] \in references[n]
         /\ \A r \in references[n] : \E i \in 1 .. Len(ReferenceList(n)) : ReferenceList(n)[i] = r
<1> DEFINE all == [r \in DOMAIN pointers |-> r]
<1>1. DOMAIN pointers = 1 .. Len(pointers) /\ Len(pointers) \in Nat
  BY SequenceFacts DEF Graph, Shape
<1>2. references[n] \subseteq DOMAIN pointers
  BY DEF Graph, NamespaceTypeOK
<1>3. all \in Seq(DOMAIN pointers) /\ Len(all) = Len(pointers)
  BY <1>1
<1>4. \A x : x \in ToSet(all) <=> x \in DOMAIN pointers
  <2>1. \A i \in 1 .. Len(all) : all[i] = i
    BY <1>1, <1>3
  <2> HIDE DEF all
  <2> QED
    BY <1>1, <1>3, <2>1, InToSet
<1> HIDE DEF all
<1> DEFINE list == Those(all, references[n])
<1>5. list \in Seq(DOMAIN pointers) /\ ToSet(list) = ToSet(all) \cap references[n]
  BY <1>3, ThoseProperties
<1> HIDE DEF list
<1>6. \A x : x \in references[n] <=> \E i \in 1 .. Len(list) : list[i] = x
  BY <1>2, <1>4, <1>5, InToSet
<1>7. Len(list) \in Nat /\ \A i \in 1 .. Len(list) : list[i] \in references[n]
  BY <1>5, <1>6
<1>8. list \in Seq(references[n])
  BY <1>5, <1>7
<1>9. list = ReferenceList(n)
  BY DEF list, all, ReferenceList
<1> QED
  BY <1>6, <1>7, <1>8, <1>9

(* The nodes are finitely many, and the references lead to nodes.          *)
LEMMA GraphFacts ==
  ASSUME Graph
  PROVE  /\ nodes \subseteq Nat /\ IsFiniteSet(nodes) /\ Cardinality(nodes) \in Nat
         /\ \A n \in nodes : /\ Components(n) \subseteq nodes /\ SupertypeNodes(n) \subseteq nodes
                             /\ Data(n) \subseteq nodes /\ Objects(n) \subseteq nodes
                             /\ Methods(n) \subseteq nodes /\ MadeOf(n) \subseteq nodes
<1>1. DOMAIN heap = 1 .. Len(heap) /\ Len(heap) \in Nat
  BY SequenceFacts DEF Graph, Shape
<1>2. nodes \subseteq 1 .. Len(heap)
  BY <1>1 DEF Graph, NamespaceTypeOK
<1>3. IsFiniteSet(nodes) /\ Cardinality(nodes) \in Nat
  <2>1. IsFiniteSet(1 .. Len(heap))
    BY <1>1, FS_Interval
  <2>2. IsFiniteSet(nodes)
    BY <1>2, <2>1, FS_Subset
  <2> QED
    BY <2>2, FS_CardinalityType
<1>4. nodes \subseteq Nat
  BY <1>1, <1>2
<1>5. \A n \in nodes : Components(n) \subseteq nodes /\ SupertypeNodes(n) \subseteq nodes
  BY DEF Graph, Components, SupertypeNodes
<1> QED
  BY <1>3, <1>4, <1>5 DEF Data, Objects, Methods, MadeOf

-----------------------------------------------------------------------------
(* A function defined from 0 upwards exists: the loops.                    *)
IsLoop(f, m, T, base, step) ==
  /\ f \in [0 .. m -> T]
  /\ \A i \in 0 .. m : f[i] = IF i = 0 THEN base ELSE step[<<i, f[i - 1]>>]

LEMMA LoopExists ==
  ASSUME NEW m \in Nat, NEW T, NEW base \in T, NEW step \in [Nat \X T -> T]
  PROVE  \E f : IsLoop(f, m, T, base, step)
<1> DEFINE Good == {k \in Nat : \E f : IsLoop(f, k, T, base, step)}
<1>1. 0 \in Good
  <2> DEFINE f == [i \in 0 .. 0 |-> base]
  <2>1. IsLoop(f, 0, T, base, step)
    BY DEF IsLoop
  <2> QED
    BY <2>1
<1>2. ASSUME NEW k \in Nat, k \in Good PROVE k + 1 \in Good
  <2>1. PICK f : IsLoop(f, k, T, base, step)
    BY <1>2
  <2>2. f \in [0 .. k -> T]
    BY <2>1 DEF IsLoop
  <2> DEFINE g == [i \in 0 .. k + 1 |-> IF i = k + 1 THEN step[<<i, f[k]>>] ELSE f[i]]
  <2>3. step[<<k + 1, f[k]>>] \in T
    BY <2>2
  <2>4. g \in [0 .. k + 1 -> T]
    BY <2>2, <2>3
  <2>5. ASSUME NEW i \in 0 .. k + 1
        PROVE g[i] = IF i = 0 THEN base ELSE step[<<i, g[i - 1]>>]
    <3>1. CASE i = k + 1
      <4>1. i # 0 /\ i - 1 = k /\ k \in 0 .. k + 1 /\ k # k + 1
        BY <3>1
      <4>2. g[i] = step[<<i, f[k]>>] /\ g[k] = f[k]
        BY <3>1, <4>1
      <4> HIDE DEF g
      <4> QED
        BY <4>1, <4>2
    <3>2. CASE i \in 0 .. k
      <4>1. f[i] = IF i = 0 THEN base ELSE step[<<i, f[i - 1]>>]
        BY <2>1, <3>2 DEF IsLoop
      <4>2. g[i] = f[i] /\ (i # 0 => g[i - 1] = f[i - 1])
        BY <3>2
      <4> HIDE DEF g
      <4> QED
        BY <4>1, <4>2
    <3> QED
      BY <3>1, <3>2
  <2> HIDE DEF g
  <2>6. IsLoop(g, k + 1, T, base, step)
    BY <2>4, <2>5 DEF IsLoop
  <2> QED
    BY <2>6
<1> HIDE DEF Good
<1>3. m \in Good
  BY <1>1, <1>2, SetInduction
<1> QED
  BY <1>3 DEF Good

-----------------------------------------------------------------------------
(* Sets that grow in rounds: as many rounds as there are elements reach a  *)
(* set that another round does not change.                                 *)

IsRounds(f, m, U, base, G) ==
  /\ f \in [0 .. m -> SUBSET U] /\ f[0] = base
  /\ \A i \in 0 .. m - 1 : f[i + 1] = G[f[i]]

\* the equation of such a loop
Rounds(f, m, base, G) == f = [i \in 0 .. m |-> IF i = 0 THEN base ELSE G[f[i - 1]]]

Expands(f, m, G) == \A i \in 0 .. m : f[i] \subseteq G[f[i]]
Settles(f, m, G) == G[f[m]] = f[m]

\* a function that satisfies the equation of such a loop has rounds of this form
LEMMA RoundsUnfold ==
  ASSUME NEW U, NEW base \in SUBSET U, NEW G \in [SUBSET U -> SUBSET U], NEW m \in Nat, NEW f,
         DOMAIN f = 0 .. m, f[0] = base,
         \A i \in 1 .. m : f[i - 1] \in SUBSET U => f[i] = G[f[i - 1]],
         f = [i \in DOMAIN f |-> f[i]]
  PROVE  IsRounds(f, m, U, base, G)
<1> DEFINE Good == {i \in 0 .. m : f[i] \in SUBSET U}
<1>1. \A i \in 0 .. m - 1 : i + 1 \in 1 .. m /\ i + 1 - 1 = i /\ i + 1 \in 0 .. m
  OBVIOUS
<1>2. 0 \in Good
  OBVIOUS
<1>3. ASSUME NEW i \in 0 .. m - 1, i \in Good PROVE i + 1 \in Good
  <2>1. i + 1 \in 1 .. m /\ i + 1 - 1 = i /\ i + 1 \in 0 .. m
    BY <1>1
  <2>4. f[i] \in SUBSET U
    BY <1>3
  <2> DEFINE j == i + 1
  <2>5. j \in 1 .. m /\ j - 1 = i
    BY <2>1
  <2>6. f[j - 1] \in SUBSET U => f[j] = G[f[j - 1]]
    BY <2>5
  <2>2. f[i + 1] = G[f[i]]
    BY <2>4, <2>5, <2>6
  <2>3. G[f[i]] \in SUBSET U
    BY <2>4
  <2> QED
    BY <2>1, <2>2, <2>3
<1> HIDE DEF Good
<1>4. 0 .. m \subseteq Good
  BY <1>2, <1>3, IntervalInduction
<1>5. \A i \in 0 .. m : f[i] \in SUBSET U
  BY <1>4 DEF Good
<1>6. f \in [0 .. m -> SUBSET U]
  BY <1>5
<1>7. \A i \in 0 .. m - 1 : f[i + 1] = G[f[i]]
  <2> SUFFICES ASSUME NEW i \in 0 .. m - 1 PROVE f[i + 1] = G[f[i]]
    OBVIOUS
  <2>1. i + 1 \in 1 .. m /\ i + 1 - 1 = i /\ i \in 0 .. m
    OBVIOUS
  <2> QED
    BY <1>5, <2>1
<1> QED
  BY <1>6, <1>7 DEF IsRounds

\* and there is one
LEMMA RoundsExist ==
  ASSUME NEW U, NEW base \in SUBSET U, NEW G \in [SUBSET U -> SUBSET U], NEW m \in Nat
  PROVE  \E f : Rounds(f, m, base, G) /\ f \in [0 .. m -> SUBSET U]
<1> DEFINE T == SUBSET U
           step == [p \in Nat \X T |-> G[p[2]]]
<1>1. base \in T /\ step \in [Nat \X T -> T]
  OBVIOUS
<1> HIDE DEF T, step
<1>2. PICK f : IsLoop(f, m, T, base, step)
  BY <1>1, LoopExists
<1>3. f \in [0 .. m -> T] /\ \A i \in 0 .. m : f[i] = IF i = 0 THEN base ELSE step[<<i, f[i - 1]>>]
  BY <1>2 DEF IsLoop
<1>4. ASSUME NEW i \in 0 .. m PROVE f[i] = IF i = 0 THEN base ELSE G[f[i - 1]]
  <2>1. CASE i = 0
    BY <1>3, <2>1
  <2>2. CASE i # 0
    <3>1. i \in Nat /\ i - 1 \in 0 .. m
      BY <2>2
    <3>2. <<i, f[i - 1]>> \in Nat \X T
      BY <1>3, <3>1
    <3>3. step[<<i, f[i - 1]>>] = G[f[i - 1]]
      BY <3>2 DEF step
    <3> QED
      BY <1>3, <2>2, <3>3
  <2> QED
    BY <2>1, <2>2
<1> QED
  BY <1>3, <1>4 DEF T, Rounds

LEMMA RoundsClose ==
  ASSUME NEW U, IsFiniteSet(U), NEW base, NEW G \in [SUBSET U -> SUBSET U],
         NEW C, C = Cardinality(U), NEW f, IsRounds(f, C, U, base, G), Expands(f, C, G)
  PROVE  Settles(f, C, G)
<1>1. C \in Nat
  BY FS_CardinalityType
<1>2. /\ \A i \in 0 .. C : f[i] \in SUBSET U
      /\ \A i \in 0 .. C - 1 : f[i + 1] = G[f[i]]
      /\ \A i \in 0 .. C : f[i] \subseteq G[f[i]]
  BY DEF IsRounds, Expands
<1>3. C \in 0 .. C
  BY <1>1
<1>4. U = f[C] => G[f[C]] = f[C]
  <2>1. f[C] \in SUBSET U /\ f[C] \subseteq G[f[C]]
    BY <1>2, <1>3
  <2>2. G[f[C]] \in SUBSET U
    BY <2>1
  <2> QED
    BY <2>1, <2>2
<1> SUFFICES G[f[C]] = f[C]
  BY DEF Settles
<1>5. Cardinality(U) = C
  OBVIOUS
<1>6. \A i \in 0 .. C : IsFiniteSet(f[i]) /\ Cardinality(f[i]) \in Nat
  BY <1>2, FS_Subset, FS_CardinalityType
<1>7. CASE \A i \in 0 .. C - 1 : f[i + 1] # f[i]
  <2> DEFINE Good == {i \in 0 .. C : Cardinality(f[i]) >= i}
  <2>1. 0 \in Good
    BY <1>1, <1>6
  <2>2. ASSUME NEW i \in 0 .. C - 1, i \in Good PROVE i + 1 \in Good
    <3>1. i \in 0 .. C /\ i + 1 \in 0 .. C
      BY <1>1
    <3>2. f[i] \subseteq f[i + 1] /\ f[i] # f[i + 1]
      BY <1>2, <1>7, <3>1
    <3>3. Cardinality(f[i]) <= Cardinality(f[i + 1])
      BY <1>6, <3>1, <3>2, FS_Subset
    <3>4. Cardinality(f[i]) # Cardinality(f[i + 1])
      BY <1>6, <3>1, <3>2, FS_Subset
    <3>5. Cardinality(f[i]) >= i
      BY <2>2
    <3> QED
      BY <1>6, <3>1, <3>3, <3>4, <3>5
  <2> HIDE DEF Good
  <2>3. 0 .. C \subseteq Good
    BY <1>1, <2>1, <2>2, IntervalInduction
  <2>4. Cardinality(f[C]) >= C
    BY <1>3, <2>3 DEF Good
  <2>5. f[C] \subseteq U
    BY <1>2, <1>3
  <2>6. Cardinality(f[C]) <= C /\ (Cardinality(f[C]) = C => f[C] = U)
    BY <1>5, <2>5, FS_Subset
  <2>7. Cardinality(f[C]) = C
    BY <1>1, <1>3, <1>6, <2>4, <2>6
  <2> QED
    BY <1>4, <2>6, <2>7
<1>8. CASE \E j \in 0 .. C - 1 : f[j + 1] = f[j]
  <2>1. PICK j \in 0 .. C - 1 : f[j + 1] = f[j]
    BY <1>8
  <2> DEFINE Good == {i \in 0 .. C : i >= j => f[i] = f[j]}
  <2>2. 0 \in Good
    <3>1. 0 \in 0 .. C /\ (0 >= j => j = 0)
      BY <1>1
    <3> QED
      BY <3>1
  <2>3. ASSUME NEW i \in 0 .. C - 1, i \in Good PROVE i + 1 \in Good
    <3>1. i + 1 \in 0 .. C
      BY <1>1
    <3>2. CASE i >= j
      <4>1. f[i] = f[j]
        BY <2>3, <3>2
      <4>2. f[i + 1] = f[j + 1]
        BY <1>2, <4>1
      <4> QED
        BY <2>1, <3>1, <4>2
    <3>3. CASE i < j
      <4>1. i + 1 >= j => i + 1 = j
        BY <1>1, <3>3
      <4> QED
        BY <3>1, <4>1
    <3> QED
      BY <1>1, <3>2, <3>3
  <2> HIDE DEF Good
  <2>4. 0 .. C \subseteq Good
    BY <1>1, <2>2, <2>3, IntervalInduction
  <2>5. C >= j
    BY <1>1
  <2>6. f[C] = f[j]
    BY <1>3, <2>4, <2>5 DEF Good
  <2> QED
    BY <1>2, <2>1, <2>6
<1> QED
  BY <1>7, <1>8

-----------------------------------------------------------------------------
(* Reachable is what can be reached.                                       *)

Grown(next, S) == S \cup UNION {next[m] : m \in S}

Growing(next) == [S \in SUBSET nodes |-> Grown(next, S)]

LEMMA ReachableUnfolds ==
  ASSUME IsFiniteSet(nodes), NEW next \in [nodes -> SUBSET nodes], NEW start \in SUBSET nodes
  PROVE  \E f : /\ IsRounds(f, Cardinality(nodes), nodes, start, Growing(next))
                /\ Reachable(next, start) = f[Cardinality(nodes)]
<1> DEFINE C == Cardinality(nodes)
           G == Growing(next)
           Equation(f) == f = [i \in 0 .. C |-> IF i = 0 THEN start ELSE Grown(next, f[i - 1])]
<1>1. C \in Nat
  BY FS_CardinalityType
<1>2. G \in [SUBSET nodes -> SUBSET nodes] /\ \A S \in SUBSET nodes : G[S] = Grown(next, S)
  BY DEF Growing, Grown
<1>3. \E f : Equation(f)
  <2> HIDE DEF C, G, Equation
  <2>0. G \in [SUBSET nodes -> SUBSET nodes]
    BY <1>2
  <2>3. \E f : Rounds(f, C, start, G) /\ f \in [0 .. C -> SUBSET nodes]
    BY <1>1, <2>0, RoundsExist
  <2>1. PICK f : /\ f = [i \in 0 .. C |-> IF i = 0 THEN start ELSE G[f[i - 1]]]
                 /\ f \in [0 .. C -> SUBSET nodes]
    BY <2>3 DEF Rounds
  <2>2. ASSUME NEW i \in 0 .. C PROVE f[i] = IF i = 0 THEN start ELSE Grown(next, f[i - 1])
    <3>1. CASE i = 0
      BY <2>1, <3>1
    <3>2. CASE i # 0
      <4>1. i - 1 \in 0 .. C
        BY <1>1, <3>2
      <4>2. f[i] = G[f[i - 1]] /\ f[i - 1] \in SUBSET nodes
        BY <2>1, <3>2, <4>1
      <4> QED
        BY <1>2, <3>2, <4>2
    <3> QED
      BY <3>1, <3>2
  <2> QED
    BY <2>1, <2>2 DEF Equation
<1> DEFINE f == CHOOSE f : Equation(f)
<1>4. Equation(f)
  BY <1>3
<1>5. Reachable(next, start) = f[C]
  BY DEF Reachable, Grown
<1> HIDE DEF f
<1>6. /\ DOMAIN f = 0 .. C /\ f[0] = start /\ f = [i \in DOMAIN f |-> f[i]]
      /\ \A i \in 1 .. C : f[i] = Grown(next, f[i - 1])
  BY <1>1, <1>4
<1>7. \A i \in 1 .. C : f[i - 1] \in SUBSET nodes => f[i] = G[f[i - 1]]
  BY <1>2, <1>6
<1> HIDE DEF C, G
<1>8. IsRounds(f, C, nodes, start, G)
  BY <1>1, <1>2, <1>6, <1>7, RoundsUnfold
<1> QED
  BY <1>5, <1>8 DEF C, G

(* It holds where it starts and what follows from what it holds, and       *)
(* nothing else.                                                           *)
LEMMA ReachableFacts ==
  ASSUME IsFiniteSet(nodes), NEW next \in [nodes -> SUBSET nodes], NEW start \in SUBSET nodes
  PROVE  /\ start \subseteq Reachable(next, start) /\ Reachable(next, start) \subseteq nodes
         /\ \A m \in Reachable(next, start) : next[m] \subseteq Reachable(next, start)
         /\ \A S : start \subseteq S /\ (\A m \in S \cap nodes : next[m] \subseteq S) =>
              Reachable(next, start) \subseteq S
<1> DEFINE C == Cardinality(nodes)
           G == Growing(next)
<1>1. C \in Nat /\ 0 \in 0 .. C /\ C \in 0 .. C
  BY FS_CardinalityType
<1>2. PICK f : IsRounds(f, C, nodes, start, G) /\ Reachable(next, start) = f[C]
  BY ReachableUnfolds
<1>3. G \in [SUBSET nodes -> SUBSET nodes] /\ \A S \in SUBSET nodes : G[S] = Grown(next, S)
  BY DEF Growing, Grown
<1>4. /\ \A i \in 0 .. C : f[i] \in SUBSET nodes
      /\ f[0] = start
      /\ \A i \in 0 .. C - 1 : f[i + 1] = G[f[i]]
  BY <1>2 DEF IsRounds
<1>5. \A i \in 0 .. C : f[i] \subseteq G[f[i]]
  BY <1>3, <1>4 DEF Grown
<1>6. G[f[C]] = f[C]
  <2>1. G \in [SUBSET nodes -> SUBSET nodes]
    BY <1>3
  <2>2. IsRounds(f, C, nodes, start, G) /\ C = Cardinality(nodes)
    BY <1>2
  <2>3. Expands(f, C, G)
    BY <1>5 DEF Expands
  <2> HIDE DEF C, G
  <2>4. Settles(f, C, G)
    BY <2>1, <2>2, <2>3, RoundsClose, Zenon
  <2> QED
    BY <2>4 DEF Settles
<1>7. \A m \in f[C] : next[m] \subseteq f[C]
  <2>1. Grown(next, f[C]) = f[C]
    BY <1>1, <1>3, <1>4, <1>6
  <2> QED
    BY <2>1 DEF Grown
<1> HIDE DEF C, G
<1>8. start \subseteq f[C]
  <2> DEFINE Good == {i \in 0 .. C : start \subseteq f[i]}
  <2>1. 0 \in Good
    BY <1>1, <1>4
  <2>2. ASSUME NEW i \in 0 .. C - 1, i \in Good PROVE i + 1 \in Good
    <3>1. i \in 0 .. C /\ i + 1 \in 0 .. C
      BY <1>1
    <3>2. f[i] \subseteq f[i + 1]
      BY <1>4, <1>5, <3>1
    <3> QED
      BY <2>2, <3>1, <3>2
  <2> HIDE DEF Good
  <2>3. 0 .. C \subseteq Good
    BY <1>1, <2>1, <2>2, IntervalInduction
  <2> QED
    BY <1>1, <2>3 DEF Good
<1>9. ASSUME NEW S, start \subseteq S, \A m \in S \cap nodes : next[m] \subseteq S
      PROVE  f[C] \subseteq S
  <2> DEFINE Good == {i \in 0 .. C : f[i] \subseteq S}
  <2>1. 0 \in Good
    BY <1>1, <1>4, <1>9
  <2>2. ASSUME NEW i \in 0 .. C - 1, i \in Good PROVE i + 1 \in Good
    <3>1. i \in 0 .. C /\ i + 1 \in 0 .. C
      BY <1>1
    <3>2. f[i + 1] = Grown(next, f[i]) /\ f[i] \subseteq S \cap nodes
      BY <1>3, <1>4, <2>2, <3>1
    <3>3. Grown(next, f[i]) \subseteq S
      BY <1>9, <3>2 DEF Grown
    <3> QED
      BY <3>1, <3>2, <3>3
  <2> HIDE DEF Good
  <2>3. 0 .. C \subseteq Good
    BY <1>1, <2>1, <2>2, IntervalInduction
  <2> QED
    BY <1>1, <2>3 DEF Good
<1>10. Reachable(next, start) = f[C] /\ f[C] \subseteq nodes
  BY <1>1, <1>2, <1>4
<1> QED
  BY <1>7, <1>8, <1>9, <1>10

-----------------------------------------------------------------------------
(* The parts of a node are itself and the parts of what it is made of.     *)
LEMMA PartsFacts ==
  ASSUME Graph, NEW n \in nodes
  PROVE  /\ n \in Parts(n) /\ Parts(n) \subseteq nodes
         /\ \A m \in Parts(n) : MadeOf(m) \subseteq Parts(n) /\ Parts(m) \subseteq Parts(n)
         /\ Parts(n) = {n} \cup UNION {Parts(t) : t \in MadeOf(n)}
<1> DEFINE next == [m \in nodes |-> MadeOf(m)]
<1>1. next \in [nodes -> SUBSET nodes] /\ IsFiniteSet(nodes)
      /\ \A m \in nodes : next[m] = MadeOf(m) /\ MadeOf(m) \subseteq nodes
  BY GraphFacts
<1>2. ASSUME NEW k \in nodes
      PROVE  /\ k \in Parts(k) /\ Parts(k) \subseteq nodes
             /\ \A m \in Parts(k) : MadeOf(m) \subseteq Parts(k)
             /\ \A S : k \in S /\ (\A m \in S \cap nodes : MadeOf(m) \subseteq S) =>
                  Parts(k) \subseteq S
  <2> HIDE DEF next
  <2>1. {k} \in SUBSET nodes /\ Parts(k) = Reachable(next, {k})
    BY DEF Parts, next
  <2>2. /\ {k} \subseteq Parts(k) /\ Parts(k) \subseteq nodes
        /\ \A m \in Parts(k) : next[m] \subseteq Parts(k)
        /\ \A S : {k} \subseteq S /\ (\A m \in S \cap nodes : next[m] \subseteq S) =>
             Parts(k) \subseteq S
    BY <1>1, <2>1, ReachableFacts
  <2> QED
    BY <1>1, <2>2
<1>3. ASSUME NEW m \in Parts(n) PROVE Parts(m) \subseteq Parts(n)
  BY <1>2
<1> DEFINE S == {n} \cup UNION {Parts(t) : t \in MadeOf(n)}
<1>4. MadeOf(n) \subseteq nodes
  BY <1>1
<1>5. \A m \in S : MadeOf(m) \subseteq S
  <2> SUFFICES ASSUME NEW m \in S, NEW t \in MadeOf(m) PROVE t \in S
    OBVIOUS
  <2>1. CASE m = n
    <3>1. t \in nodes /\ t \in Parts(t)
      BY <1>2, <1>4, <2>1
    <3> QED
      BY <2>1, <3>1
  <2>2. CASE \E u \in MadeOf(n) : m \in Parts(u)
    <3>1. PICK u \in MadeOf(n) : m \in Parts(u)
      BY <2>2
    <3>2. t \in Parts(u)
      BY <1>2, <1>4, <3>1
    <3> QED
      BY <3>2
  <2> QED
    BY <2>1, <2>2
<1>6. n \in S
  OBVIOUS
<1>7. Parts(n) \subseteq S
  <2> HIDE DEF S
  <2> QED
    BY <1>2, <1>5, <1>6
<1>8. S \subseteq Parts(n)
  BY <1>2, <1>3
<1> QED
  BY <1>2, <1>3, <1>7, <1>8

-----------------------------------------------------------------------------
(* What the loop over the references of a node collects.                   *)

Members ==
  [variables : Seq(nodes), objects : Seq(nodes), methods : Seq(nodes), failed : BOOLEAN]

\* getMembersOfType is called for the target of r
Descends(r) ==
  \/ IsComponent(r) /\ (HoldsData(Target(r)) \/ heap[Target(r)].tag = "object")
  \/ IsSupertype(r)

IsUntyped(r) == IsComponent(r) /\ HoldsData(Target(r)) /\ TypeOf(Target(r)) = 0

\* the names and methods that members stand for, and what a reference adds itself
VariablesOf(m) == Codes(Range(m.variables))
ObjectsOf(m) == Codes(Range(m.objects))
MethodsOf(m) == Range(m.methods)

OwnVariables(r) ==
  Codes({t \in {Target(r)} : IsComponent(r) /\ HoldsData(t) /\ Translates(t)})
OwnObjects(r) == Codes({t \in {Target(r)} : IsComponent(r) /\ heap[t].tag = "object"})
OwnMethods(r) == {t \in {Target(r)} : IsComponent(r) /\ heap[t].tag = "method"}

LEMMA EmptyMembers ==
  /\ NoMembers \in Members /\ ~NoMembers.failed
  /\ VariablesOf(NoMembers) = {} /\ ObjectsOf(NoMembers) = {} /\ MethodsOf(NoMembers) = {}
  /\ Failed \in Members /\ Failed.failed
<1>1. <<>> \in Seq(nodes) /\ Range(<<>>) = {} /\ Codes({}) = {}
  BY DEF Range, Codes
<1>2. NoMembers \in Members /\ ~NoMembers.failed
  BY <1>1 DEF NoMembers, Members
<1>3. Failed \in Members /\ Failed.failed
  <2>1. ASSUME NEW m \in Members
        PROVE  [m EXCEPT !.failed = TRUE] \in Members /\ [m EXCEPT !.failed = TRUE].failed
    BY DEF Members
  <2> QED
    BY <1>2, <2>1 DEF Failed
<1> QED
  BY <1>1, <1>2, <1>3 DEF NoMembers, VariablesOf, ObjectsOf, MethodsOf

LEMMA JoinFacts ==
  ASSUME NEW a \in Members, NEW b \in Members
  PROVE  /\ Join(a, b) \in Members
         /\ VariablesOf(Join(a, b)) = VariablesOf(a) \cup VariablesOf(b)
         /\ ObjectsOf(Join(a, b)) = ObjectsOf(a) \cup ObjectsOf(b)
         /\ MethodsOf(Join(a, b)) = MethodsOf(a) \cup MethodsOf(b)
         /\ Join(a, b).failed = (a.failed \/ b.failed)
<1>1. ASSUME NEW s \in Seq(nodes), NEW t \in Seq(nodes)
      PROVE  s \o t \in Seq(nodes) /\ Range(s \o t) = Range(s) \cup Range(t)
  <2>1. /\ s \o t \in Seq(nodes) /\ DOMAIN (s \o t) = 1 .. Len(s) + Len(t)
        /\ Len(s) \in Nat /\ Len(t) \in Nat /\ DOMAIN s = 1 .. Len(s) /\ DOMAIN t = 1 .. Len(t)
    OBVIOUS
  <2>2. \A i \in DOMAIN s : i \in DOMAIN (s \o t) /\ (s \o t)[i] = s[i]
    BY <2>1
  <2>3. \A i \in DOMAIN t : i + Len(s) \in DOMAIN (s \o t) /\ (s \o t)[i + Len(s)] = t[i]
    BY <2>1
  <2>4. \A i \in DOMAIN (s \o t) : (s \o t)[i] \in Range(s) \cup Range(t)
    <3> SUFFICES ASSUME NEW i \in DOMAIN (s \o t) PROVE (s \o t)[i] \in Range(s) \cup Range(t)
      OBVIOUS
    <3>1. CASE i \in DOMAIN s
      BY <2>2, <3>1 DEF Range
    <3>2. CASE i \notin DOMAIN s
      <4>1. i - Len(s) \in DOMAIN t /\ i - Len(s) + Len(s) = i
        BY <2>1, <3>2
      <4> QED
        BY <2>3, <4>1 DEF Range
    <3> QED
      BY <3>1, <3>2
  <2>5. Range(s) \subseteq Range(s \o t)
    BY <2>2 DEF Range
  <2>6. Range(t) \subseteq Range(s \o t)
    BY <2>3 DEF Range
  <2>7. Range(s \o t) \subseteq Range(s) \cup Range(t)
    BY <2>4 DEF Range
  <2> QED
    BY <2>1, <2>5, <2>6, <2>7
<1>2. /\ a.variables \in Seq(nodes) /\ a.objects \in Seq(nodes) /\ a.methods \in Seq(nodes)
      /\ b.variables \in Seq(nodes) /\ b.objects \in Seq(nodes) /\ b.methods \in Seq(nodes)
      /\ a.failed \in BOOLEAN /\ b.failed \in BOOLEAN
  BY DEF Members
<1>3. /\ Join(a, b).variables = a.variables \o b.variables
      /\ Join(a, b).objects = a.objects \o b.objects
      /\ Join(a, b).methods = a.methods \o b.methods
      /\ Join(a, b).failed = (a.failed \/ b.failed)
  BY DEF Join
<1>4. Join(a, b) \in Members
  BY <1>1, <1>2 DEF Join, Members
<1>5. \A S, T : Codes(S \cup T) = Codes(S) \cup Codes(T)
  BY DEF Codes
<1>6. /\ Range(a.variables \o b.variables) = Range(a.variables) \cup Range(b.variables)
      /\ Range(a.objects \o b.objects) = Range(a.objects) \cup Range(b.objects)
      /\ Range(a.methods \o b.methods) = Range(a.methods) \cup Range(b.methods)
  BY <1>1, <1>2
<1> QED
  BY <1>3, <1>4, <1>5, <1>6 DEF VariablesOf, ObjectsOf, MethodsOf

LEMMA AppendedRange ==
  ASSUME NEW s \in Seq(nodes), NEW t \in nodes
  PROVE  Append(s, t) \in Seq(nodes) /\ Range(Append(s, t)) = Range(s) \cup {t}
<1>1. /\ Append(s, t) \in Seq(nodes) /\ Len(s) \in Nat
      /\ DOMAIN s = 1 .. Len(s) /\ DOMAIN Append(s, t) = 1 .. Len(s) + 1
      /\ Append(s, t)[Len(s) + 1] = t
      /\ \A i \in 1 .. Len(s) : Append(s, t)[i] = s[i]
  OBVIOUS
<1>2. \A i \in 1 .. Len(s) + 1 : i \in 1 .. Len(s) \/ i = Len(s) + 1
  BY <1>1
<1>3. Len(s) + 1 \in 1 .. Len(s) + 1 /\ \A i \in 1 .. Len(s) : i \in 1 .. Len(s) + 1
  BY <1>1
<1>4. Range(Append(s, t)) \subseteq Range(s) \cup {t}
  BY <1>1, <1>2 DEF Range
<1>5. Range(s) \subseteq Range(Append(s, t)) /\ t \in Range(Append(s, t))
  BY <1>1, <1>3 DEF Range
<1> QED
  BY <1>1, <1>4, <1>5

\* a name is not added twice, but it is there
LEMMA IncludeFacts ==
  ASSUME NEW s \in Seq(nodes), NEW t \in nodes
  PROVE  /\ Include(s, t) \in Seq(nodes)
         /\ Codes(Range(Include(s, t))) = Codes(Range(s)) \cup {CodeName(t)}
<1>1. CASE \E i \in DOMAIN s : CodeName(s[i]) = CodeName(t)
  <2>1. Include(s, t) = s
    BY <1>1 DEF Include
  <2>2. CodeName(t) \in Codes(Range(s))
    BY <1>1 DEF Codes, Range
  <2> QED
    BY <2>1, <2>2
<1>2. CASE ~ \E i \in DOMAIN s : CodeName(s[i]) = CodeName(t)
  <2>1. Include(s, t) = Append(s, t)
    BY <1>2 DEF Include
  <2>2. \A S : Codes(S \cup {t}) = Codes(S) \cup {CodeName(t)}
    BY DEF Codes
  <2> QED
    BY <2>1, <2>2, AppendedRange
<1> QED
  BY <1>1, <1>2

\* what the recursion contributes through r
Through(r, set) == IF Descends(r) THEN set ELSE {}

\* one turn of the loop
Extends(new, acc, r, inner) ==
  /\ new \in Members
  /\ new.failed => acc.failed \/ IsUntyped(r) \/ (Descends(r) /\ inner.failed)
  /\ ~new.failed =>
       /\ ~acc.failed /\ ~IsUntyped(r) /\ (Descends(r) => ~inner.failed)
       /\ VariablesOf(new) =
            VariablesOf(acc) \cup OwnVariables(r) \cup Through(r, VariablesOf(inner))
       /\ ObjectsOf(new) = ObjectsOf(acc) \cup OwnObjects(r) \cup Through(r, ObjectsOf(inner))
       /\ MethodsOf(new) = MethodsOf(acc) \cup OwnMethods(r) \cup Through(r, MethodsOf(inner))

LEMMA WithReferenceFacts ==
  ASSUME NEW acc \in Members, NEW inner \in Members, NEW r, Target(r) \in nodes
  PROVE  Extends(WithReference(acc, r, inner), acc, r, inner)
<1> DEFINE t == Target(r)
           new == WithReference(acc, r, inner)
<1>1. /\ acc.variables \in Seq(nodes) /\ acc.objects \in Seq(nodes) /\ acc.methods \in Seq(nodes)
      /\ acc.failed \in BOOLEAN /\ inner.failed \in BOOLEAN
  BY DEF Members
<1>2. CASE acc.failed
  <2>1. new = acc
    BY <1>2 DEF WithReference
  <2> QED
    BY <1>2, <2>1 DEF Extends
<1>3. CASE ~acc.failed /\ IsComponent(r) /\ HoldsData(t)
  <2>1. Descends(r) /\ heap[t].tag # "object" /\ heap[t].tag # "method"
    BY <1>3 DEF Descends, HoldsData
  <2>2. OwnObjects(r) = {} /\ OwnMethods(r) = {}
    BY <2>1 DEF OwnObjects, OwnMethods, Codes
  <2>3. OwnVariables(r) = IF Translates(t) THEN {CodeName(t)} ELSE {}
    BY <1>3 DEF OwnVariables, Codes
  <2>4. CASE TypeOf(t) = 0
    <3>1. new = Failed /\ IsUntyped(r)
      BY <1>3, <2>4 DEF WithReference, IsUntyped
    <3>2. Failed \in Members /\ Failed.failed
      BY EmptyMembers
    <3> QED
      BY <3>1, <3>2 DEF Extends
  <2>5. CASE TypeOf(t) # 0
    <3> DEFINE added ==
          IF Translates(t) THEN [acc EXCEPT !.variables = Include(@, t)] ELSE acc
    <3>1. new = Join(added, inner) /\ ~IsUntyped(r)
      BY <1>3, <2>5 DEF WithReference, IsUntyped
    <3>2. /\ added \in Members /\ added.failed = acc.failed
          /\ VariablesOf(added) = VariablesOf(acc) \cup OwnVariables(r)
          /\ ObjectsOf(added) = ObjectsOf(acc) /\ MethodsOf(added) = MethodsOf(acc)
      <4>1. CASE Translates(t)
        <5>1. /\ Include(acc.variables, t) \in Seq(nodes)
              /\ Codes(Range(Include(acc.variables, t))) =
                   Codes(Range(acc.variables)) \cup {CodeName(t)}
          BY <1>1, IncludeFacts
        <5>2. /\ added \in Members /\ added.failed = acc.failed
              /\ added.variables = Include(acc.variables, t)
              /\ added.objects = acc.objects /\ added.methods = acc.methods
          BY <4>1, <5>1 DEF Members
        <5> HIDE DEF added
        <5> QED
          BY <2>3, <4>1, <5>1, <5>2 DEF VariablesOf, ObjectsOf, MethodsOf
      <4>2. CASE ~Translates(t)
        BY <2>3, <4>2
      <4> QED
        BY <4>1, <4>2
    <3> HIDE DEF added, new, t
    <3>3. /\ new \in Members
          /\ VariablesOf(new) = VariablesOf(added) \cup VariablesOf(inner)
          /\ ObjectsOf(new) = ObjectsOf(added) \cup ObjectsOf(inner)
          /\ MethodsOf(new) = MethodsOf(added) \cup MethodsOf(inner)
          /\ new.failed = (added.failed \/ inner.failed)
      BY <3>1, <3>2, JoinFacts
    <3>4. Extends(new, acc, r, inner)
      BY <2>1, <2>2, <3>1, <3>2, <3>3 DEF Extends, Through
    <3> QED
      BY <3>4 DEF new
  <2> QED
    BY <2>4, <2>5
<1>4. CASE ~acc.failed /\ ~(IsComponent(r) /\ HoldsData(t)) /\ IsComponent(r) /\ heap[t].tag = "object"
  <2>1. Descends(r) /\ ~IsUntyped(r) /\ heap[t].tag # "method"
    BY <1>4 DEF Descends, IsUntyped
  <2>2. OwnVariables(r) = {} /\ OwnObjects(r) = {CodeName(t)} /\ OwnMethods(r) = {}
    BY <1>4, <2>1 DEF OwnVariables, OwnObjects, OwnMethods, Codes
  <2> DEFINE both == Join(acc, inner)
  <2>3. new = [both EXCEPT !.objects = Include(@, t)]
    BY <1>4 DEF WithReference
  <2>4. /\ both \in Members
        /\ VariablesOf(both) = VariablesOf(acc) \cup VariablesOf(inner)
        /\ ObjectsOf(both) = ObjectsOf(acc) \cup ObjectsOf(inner)
        /\ MethodsOf(both) = MethodsOf(acc) \cup MethodsOf(inner)
        /\ both.failed = (acc.failed \/ inner.failed)
    BY JoinFacts
  <2> HIDE DEF both, new
  <2>5. /\ Include(both.objects, t) \in Seq(nodes)
        /\ Codes(Range(Include(both.objects, t))) = Codes(Range(both.objects)) \cup {CodeName(t)}
    <3>1. both.objects \in Seq(nodes)
      BY <2>4 DEF Members
    <3> QED
      BY <3>1, IncludeFacts
  <2>6. /\ new \in Members /\ new.failed = both.failed /\ new.variables = both.variables
        /\ new.objects = Include(both.objects, t) /\ new.methods = both.methods
    BY <2>3, <2>4, <2>5 DEF Members
  <2>7. /\ VariablesOf(new) = VariablesOf(both) /\ MethodsOf(new) = MethodsOf(both)
        /\ ObjectsOf(new) = ObjectsOf(both) \cup {CodeName(t)}
    BY <2>5, <2>6 DEF VariablesOf, ObjectsOf, MethodsOf
  <2>8. Extends(new, acc, r, inner)
    BY <1>4, <2>1, <2>2, <2>4, <2>6, <2>7 DEF Extends, Through
  <2> QED
    BY <2>8 DEF new
<1>5. CASE /\ ~acc.failed /\ ~(IsComponent(r) /\ HoldsData(t))
           /\ ~(IsComponent(r) /\ heap[t].tag = "object")
           /\ IsComponent(r) /\ heap[t].tag = "method"
  <2>1. ~Descends(r) /\ ~IsUntyped(r)
    BY <1>5 DEF Descends, IsUntyped, IsComponent, IsSupertype
  <2>2. OwnVariables(r) = {} /\ OwnObjects(r) = {} /\ OwnMethods(r) = {t}
    BY <1>5 DEF OwnVariables, OwnObjects, OwnMethods, Codes
  <2>3. new = [acc EXCEPT !.methods = Append(@, t)]
    BY <1>5 DEF WithReference
  <2>4. Append(acc.methods, t) \in Seq(nodes) /\ Range(Append(acc.methods, t)) = Range(acc.methods) \cup {t}
    BY <1>1, AppendedRange
  <2>5. /\ new \in Members /\ new.failed = acc.failed /\ new.variables = acc.variables
        /\ new.objects = acc.objects /\ new.methods = Append(acc.methods, t)
    BY <2>3, <2>4 DEF Members
  <2> HIDE DEF new
  <2>6. Extends(new, acc, r, inner)
    BY <1>5, <2>1, <2>2, <2>4, <2>5 DEF Extends, Through, VariablesOf, ObjectsOf, MethodsOf
  <2> QED
    BY <2>6 DEF new
<1>6. CASE /\ ~acc.failed /\ ~(IsComponent(r) /\ HoldsData(t))
           /\ ~(IsComponent(r) /\ heap[t].tag = "object")
           /\ ~(IsComponent(r) /\ heap[t].tag = "method")
  <2>1. ~IsUntyped(r) /\ (Descends(r) <=> IsSupertype(r))
    BY <1>6 DEF Descends, IsUntyped
  <2>2. OwnVariables(r) = {} /\ OwnObjects(r) = {} /\ OwnMethods(r) = {}
    BY <1>6 DEF OwnVariables, OwnObjects, OwnMethods, Codes
  <2>3. CASE IsSupertype(r)
    <3>1. new = Join(acc, inner)
      BY <1>6, <2>3 DEF WithReference, WithSupertype
    <3> HIDE DEF new
    <3>2. /\ new \in Members
          /\ VariablesOf(new) = VariablesOf(acc) \cup VariablesOf(inner)
          /\ ObjectsOf(new) = ObjectsOf(acc) \cup ObjectsOf(inner)
          /\ MethodsOf(new) = MethodsOf(acc) \cup MethodsOf(inner)
          /\ new.failed = (acc.failed \/ inner.failed)
      BY <3>1, JoinFacts
    <3>3. Extends(new, acc, r, inner)
      BY <1>6, <2>1, <2>2, <2>3, <3>2 DEF Extends, Through
    <3> QED
      BY <3>3 DEF new
  <2>4. CASE ~IsSupertype(r)
    <3>1. new = acc
      BY <1>6, <2>4 DEF WithReference
    <3> HIDE DEF new
    <3>2. Extends(new, acc, r, inner)
      BY <1>6, <2>1, <2>2, <2>4, <3>1 DEF Extends, Through
    <3> QED
      BY <3>2 DEF new
  <2> QED
    BY <2>3, <2>4
<1> QED
  BY <1>1, <1>2, <1>3, <1>4, <1>5, <1>6

\* the loop, as a function of how many references it has visited
CollectedLoop(f, n, inner) ==
  /\ f \in [0 .. Len(ReferenceList(n)) -> Members]
  /\ Collected(n, inner) = f[Len(ReferenceList(n))]
  /\ f[0] = NoMembers
  /\ \A k \in 0 .. Len(ReferenceList(n)) - 1 :
       f[k + 1] =
         WithReference(f[k], ReferenceList(n)[k + 1], inner[ReferenceList(n)[k + 1]])

LEMMA CollectedUnfolds ==
  ASSUME Graph, NEW n \in nodes, NEW inner \in [references[n] -> Members]
  PROVE  \E f : CollectedLoop(f, n, inner)
<1> DEFINE list == ReferenceList(n)
           L == Len(list)
           Turn(k, acc) == WithReference(acc, list[k], inner[list[k]])
           step == [p \in Nat \X Members |-> IF p[1] \in 1 .. L THEN Turn(p[1], p[2]) ELSE p[2]]
           Equation(f) == f = [k \in 0 .. L |-> IF k = 0 THEN NoMembers ELSE Turn(k, f[k - 1])]
<1>1. L \in Nat /\ \A k \in 1 .. L : list[k] \in references[n]
  BY ReferenceListFacts
<1>2. NoMembers \in Members
  BY EmptyMembers
<1>3. \A k \in 1 .. L, acc \in Members : Turn(k, acc) \in Members
  <2> SUFFICES ASSUME NEW k \in 1 .. L, NEW acc \in Members PROVE Turn(k, acc) \in Members
    OBVIOUS
  <2>1. list[k] \in references[n]
    BY <1>1
  <2>2. Target(list[k]) \in nodes /\ inner[list[k]] \in Members
    BY <2>1 DEF Graph
  <2> QED
    BY <2>2, WithReferenceFacts DEF Extends
<1> HIDE DEF list, Turn
<1>4. step \in [Nat \X Members -> Members]
  BY <1>3
<1>5. \E f : Equation(f)
  <2>1. PICK f : IsLoop(f, L, Members, NoMembers, step)
    <3> HIDE DEF step, L
    <3> QED
      BY <1>1, <1>2, <1>4, LoopExists
  <2>2. f \in [0 .. L -> Members]
    BY <2>1 DEF IsLoop
  <2>3. ASSUME NEW k \in 0 .. L PROVE f[k] = IF k = 0 THEN NoMembers ELSE Turn(k, f[k - 1])
    <3>1. CASE k = 0
      BY <2>1, <3>1 DEF IsLoop
    <3>2. CASE k # 0
      <4>1. k \in Nat /\ k \in 1 .. L /\ k - 1 \in 0 .. L
        BY <1>1, <3>2
      <4>2. <<k, f[k - 1]>> \in Nat \X Members
        BY <2>2, <4>1
      <4>3. step[<<k, f[k - 1]>>] = Turn(k, f[k - 1])
        BY <4>1, <4>2
      <4> HIDE DEF step, L
      <4> QED
        BY <2>1, <3>2, <4>3 DEF IsLoop
    <3> QED
      BY <3>1, <3>2
  <2> HIDE DEF L
  <2> QED
    BY <2>2, <2>3
<1> DEFINE f == CHOOSE f : Equation(f)
<1>6. Equation(f)
  BY <1>5
<1>7. Collected(n, inner) = f[L]
  BY DEF Collected, list, Turn
<1> HIDE DEF f, L
<1>8. \A k \in 0 .. L : f[k] = IF k = 0 THEN NoMembers ELSE Turn(k, f[k - 1])
  BY <1>6
<1>9. DOMAIN f = 0 .. L
  BY <1>6
<1>10. \A k \in 0 .. L - 1 : f[k + 1] = Turn(k + 1, f[k])
  <2> SUFFICES ASSUME NEW k \in 0 .. L - 1 PROVE f[k + 1] = Turn(k + 1, f[k])
    OBVIOUS
  <2>1. k + 1 \in 0 .. L /\ k + 1 # 0 /\ k + 1 - 1 = k
    BY <1>1
  <2> QED
    BY <1>8, <2>1
<1>11. f[0] = NoMembers
  BY <1>1, <1>8
<1> DEFINE Good == {k \in 0 .. L : f[k] \in Members}
<1>12. 0 \in Good
  BY <1>1, <1>2, <1>11
<1>13. ASSUME NEW k \in 0 .. L - 1, k \in Good PROVE k + 1 \in Good
  <2>1. k + 1 \in 0 .. L /\ k + 1 \in 1 .. L
    BY <1>1
  <2> QED
    BY <1>3, <1>10, <1>13, <2>1
<1> HIDE DEF Good
<1>14. 0 .. L \subseteq Good
  BY <1>1, <1>12, <1>13, IntervalInduction
<1>15. f \in [0 .. L -> Members]
  <2>1. f = [k \in 0 .. L |-> f[k]]
    BY <1>6
  <2>2. \A k \in 0 .. L : f[k] \in Members
    BY <1>14 DEF Good
  <2> QED
    BY <2>1, <2>2
<1> QED
  BY <1>7, <1>10, <1>11, <1>15 DEF CollectedLoop, list, L, Turn

\* what Collected(n, inner) = m comes to
Unites(m, n, inner) ==
  /\ m \in Members
  /\ m.failed => \E r \in references[n] : IsUntyped(r) \/ (Descends(r) /\ inner[r].failed)
  /\ ~m.failed =>
       /\ \A r \in references[n] : ~IsUntyped(r) /\ (Descends(r) => ~inner[r].failed)
       /\ VariablesOf(m) =
            UNION {OwnVariables(r) \cup Through(r, VariablesOf(inner[r])) : r \in references[n]}
       /\ ObjectsOf(m) =
            UNION {OwnObjects(r) \cup Through(r, ObjectsOf(inner[r])) : r \in references[n]}
       /\ MethodsOf(m) =
            UNION {OwnMethods(r) \cup Through(r, MethodsOf(inner[r])) : r \in references[n]}

LEMMA CollectedFacts ==
  ASSUME Graph, NEW n \in nodes, NEW inner \in [references[n] -> Members]
  PROVE  Unites(Collected(n, inner), n, inner)
<1> DEFINE list == ReferenceList(n)
           L == Len(list)
           Seen(k) == {list[i] : i \in 1 .. k}
           Sofar(m, R) ==
             /\ m \in Members
             /\ m.failed => \E r \in R : IsUntyped(r) \/ (Descends(r) /\ inner[r].failed)
             /\ ~m.failed =>
                  /\ \A r \in R : ~IsUntyped(r) /\ (Descends(r) => ~inner[r].failed)
                  /\ VariablesOf(m) =
                       UNION {OwnVariables(r) \cup Through(r, VariablesOf(inner[r])) : r \in R}
                  /\ ObjectsOf(m) =
                       UNION {OwnObjects(r) \cup Through(r, ObjectsOf(inner[r])) : r \in R}
                  /\ MethodsOf(m) =
                       UNION {OwnMethods(r) \cup Through(r, MethodsOf(inner[r])) : r \in R}
<1>1. /\ L \in Nat /\ \A k \in 1 .. L : list[k] \in references[n]
      /\ \A r \in references[n] : \E i \in 1 .. L : list[i] = r
  BY ReferenceListFacts
<1>2. PICK f : CollectedLoop(f, n, inner)
  BY CollectedUnfolds
<1>3. /\ \A k \in 0 .. L : f[k] \in Members
      /\ Collected(n, inner) = f[L] /\ f[0] = NoMembers
      /\ \A k \in 0 .. L - 1 : f[k + 1] = WithReference(f[k], list[k + 1], inner[list[k + 1]])
  BY <1>2 DEF CollectedLoop
<1> HIDE DEF list, L
<1> DEFINE Good == {k \in 0 .. L : Sofar(f[k], Seen(k))}
<1>4. 0 \in Good
  <2>1. Seen(0) = {}
    OBVIOUS
  <2>2. Sofar(NoMembers, {})
    BY EmptyMembers
  <2> HIDE DEF Sofar, Seen
  <2> QED
    BY <1>1, <1>3, <2>1, <2>2
<1>5. ASSUME NEW k \in 0 .. L - 1, k \in Good PROVE k + 1 \in Good
  <2> DEFINE r == list[k + 1]
             R == Seen(k)
             new == f[k + 1]
  <2>1. k + 1 \in 0 .. L /\ k + 1 \in 1 .. L /\ k \in 0 .. L /\ k \in Nat
    BY <1>1
  <2>2. r \in references[n]
    BY <1>1, <2>1
  <2>3. Target(r) \in nodes /\ inner[r] \in Members
    BY <2>2 DEF Graph
  <2>4. Extends(new, f[k], r, inner[r])
    <3>1. f[k] \in Members /\ new = WithReference(f[k], r, inner[r])
      BY <1>3, <2>1
    <3> HIDE DEF new, r
    <3> QED
      BY <2>3, <3>1, WithReferenceFacts
  <2>5. Seen(k + 1) = R \cup {r}
    <3>1. 1 .. k + 1 = (1 .. k) \cup {k + 1}
      BY <2>1
    <3> QED
      BY <3>1
  <2>6. Sofar(f[k], R)
    BY <1>5
  <2> HIDE DEF r, R, new, Seen
  <2>7. /\ UNION {OwnVariables(q) \cup Through(q, VariablesOf(inner[q])) : q \in R \cup {r}} =
             (UNION {OwnVariables(q) \cup Through(q, VariablesOf(inner[q])) : q \in R})
               \cup (OwnVariables(r) \cup Through(r, VariablesOf(inner[r])))
        /\ UNION {OwnObjects(q) \cup Through(q, ObjectsOf(inner[q])) : q \in R \cup {r}} =
             (UNION {OwnObjects(q) \cup Through(q, ObjectsOf(inner[q])) : q \in R})
               \cup (OwnObjects(r) \cup Through(r, ObjectsOf(inner[r])))
        /\ UNION {OwnMethods(q) \cup Through(q, MethodsOf(inner[q])) : q \in R \cup {r}} =
             (UNION {OwnMethods(q) \cup Through(q, MethodsOf(inner[q])) : q \in R})
               \cup (OwnMethods(r) \cup Through(r, MethodsOf(inner[r])))
    OBVIOUS
  <2>8. Sofar(new, R \cup {r})
    <3>1. new \in Members
      BY <2>4 DEF Extends
    <3>2. CASE new.failed
      BY <2>4, <2>6, <3>1, <3>2 DEF Extends
    <3>3. CASE ~new.failed
      <4>1. /\ ~f[k].failed /\ ~IsUntyped(r) /\ (Descends(r) => ~inner[r].failed)
            /\ VariablesOf(new) =
                 VariablesOf(f[k]) \cup OwnVariables(r) \cup Through(r, VariablesOf(inner[r]))
            /\ ObjectsOf(new) =
                 ObjectsOf(f[k]) \cup OwnObjects(r) \cup Through(r, ObjectsOf(inner[r]))
            /\ MethodsOf(new) =
                 MethodsOf(f[k]) \cup OwnMethods(r) \cup Through(r, MethodsOf(inner[r]))
        BY <2>4, <3>3 DEF Extends
      <4>2. /\ \A q \in R : ~IsUntyped(q) /\ (Descends(q) => ~inner[q].failed)
            /\ VariablesOf(f[k]) =
                 UNION {OwnVariables(q) \cup Through(q, VariablesOf(inner[q])) : q \in R}
            /\ ObjectsOf(f[k]) =
                 UNION {OwnObjects(q) \cup Through(q, ObjectsOf(inner[q])) : q \in R}
            /\ MethodsOf(f[k]) =
                 UNION {OwnMethods(q) \cup Through(q, MethodsOf(inner[q])) : q \in R}
        BY <2>6, <4>1
      <4>3. \A q \in R \cup {r} : ~IsUntyped(q) /\ (Descends(q) => ~inner[q].failed)
        BY <4>1, <4>2
      <4>4. VariablesOf(new) =
              UNION {OwnVariables(q) \cup Through(q, VariablesOf(inner[q])) : q \in R \cup {r}}
        BY <2>7, <4>1, <4>2
      <4>5. ObjectsOf(new) =
              UNION {OwnObjects(q) \cup Through(q, ObjectsOf(inner[q])) : q \in R \cup {r}}
        BY <2>7, <4>1, <4>2
      <4>6. MethodsOf(new) =
              UNION {OwnMethods(q) \cup Through(q, MethodsOf(inner[q])) : q \in R \cup {r}}
        BY <2>7, <4>1, <4>2
      <4> QED
        BY <3>1, <3>3, <4>3, <4>4, <4>5, <4>6
    <3> QED
      BY <3>2, <3>3
  <2> HIDE DEF Sofar
  <2> QED
    BY <2>1, <2>5, <2>8 DEF new
<1> HIDE DEF Good, Sofar
<1>6. 0 .. L \subseteq Good
  BY <1>1, <1>4, <1>5, IntervalInduction
<1>7. Sofar(f[L], Seen(L))
  BY <1>1, <1>6 DEF Good
<1>8. Seen(L) = references[n]
  BY <1>1
<1> QED
  BY <1>3, <1>7, <1>8 DEF Sofar, Unites

-----------------------------------------------------------------------------
(* The recursion, over paths through the graph.                            *)

Paths == Seq(nodes) \ {<<>>}
End(path) == path[Len(path)]

LEMMA PathFacts ==
  ASSUME Graph, NEW path \in Paths
  PROVE  /\ End(path) \in nodes /\ End(path) \in Range(path) /\ Range(path) \subseteq nodes
         /\ Cardinality(Range(path)) \in Nat
         /\ Cardinality(Range(path)) <= Cardinality(nodes)
         /\ \A t \in nodes :
              /\ Append(path, t) \in Paths /\ End(Append(path, t)) = t
              /\ Append(path, t)[1] = path[1]
              /\ Range(Append(path, t)) = Range(path) \cup {t}
              /\ t \notin Range(path) =>
                   Cardinality(Range(Append(path, t))) = Cardinality(Range(path)) + 1
<1>1. path \in Seq(nodes) /\ Len(path) \in Nat /\ Len(path) # 0 /\ DOMAIN path = 1 .. Len(path)
  BY DEF Paths
<1>2. Range(path) \subseteq nodes /\ Len(path) \in DOMAIN path /\ 1 \in DOMAIN path
  BY <1>1 DEF Range
<1>3. End(path) \in nodes /\ End(path) \in Range(path)
  BY <1>1, <1>2 DEF End, Range
<1>4. IsFiniteSet(Range(path)) /\ Cardinality(Range(path)) \in Nat
      /\ Cardinality(Range(path)) <= Cardinality(nodes)
  BY <1>2, GraphFacts, FS_Subset, FS_CardinalityType
<1>5. ASSUME NEW t \in nodes
      PROVE  /\ Append(path, t) \in Paths /\ End(Append(path, t)) = t
             /\ Append(path, t)[1] = path[1]
             /\ Range(Append(path, t)) = Range(path) \cup {t}
             /\ t \notin Range(path) =>
                  Cardinality(Range(Append(path, t))) = Cardinality(Range(path)) + 1
  <2>1. /\ Append(path, t) \in Seq(nodes) /\ Len(Append(path, t)) = Len(path) + 1
        /\ Append(path, t)[Len(path) + 1] = t /\ Append(path, t)[1] = path[1]
    BY <1>1
  <2>2. Append(path, t) # <<>>
    BY <1>1, <2>1
  <2>3. Range(Append(path, t)) = Range(path) \cup {t}
    BY <1>1, AppendedRange
  <2>4. t \notin Range(path) => Cardinality(Range(path) \cup {t}) = Cardinality(Range(path)) + 1
    BY <1>4, FS_AddElement
  <2> QED
    BY <2>1, <2>2, <2>3, <2>4 DEF Paths, End
<1> QED
  BY <1>2, <1>3, <1>4, <1>5

\* the paths that k more nodes make too long not to repeat one
Level(k) == {path \in Paths : Cardinality(Range(path)) + k > Cardinality(nodes)}

LEMMA LevelFacts ==
  ASSUME Graph
  PROVE  /\ Level(0) = {} /\ Level(Cardinality(nodes) + 1) = Paths
         /\ \A k \in Nat : Level(k) \subseteq Level(k + 1)
         /\ \A k \in Nat : \A path \in Level(k + 1) : \A t \in nodes :
              t \notin Range(path) => Append(path, t) \in Level(k)
<1>1. Cardinality(nodes) \in Nat
  BY GraphFacts
<1>2. \A path \in Paths : /\ Cardinality(Range(path)) \in Nat
                          /\ Cardinality(Range(path)) <= Cardinality(nodes)
  BY PathFacts
<1>3. Level(0) = {} /\ Level(Cardinality(nodes) + 1) = Paths
  BY <1>1, <1>2 DEF Level
<1>4. \A k \in Nat : Level(k) \subseteq Level(k + 1)
  BY <1>1, <1>2 DEF Level
<1>5. ASSUME NEW k \in Nat, NEW path \in Level(k + 1), NEW t \in nodes, t \notin Range(path)
      PROVE  Append(path, t) \in Level(k)
  <2>1. path \in Paths /\ Cardinality(Range(path)) + (k + 1) > Cardinality(nodes)
    BY DEF Level
  <2>2. /\ Append(path, t) \in Paths
        /\ Cardinality(Range(Append(path, t))) = Cardinality(Range(path)) + 1
    BY <1>5, <2>1, PathFacts
  <2> QED
    BY <1>1, <1>2, <2>1, <2>2 DEF Level
<1> QED
  BY <1>3, <1>4, <1>5

\* what holds of a path if it holds of its extensions by new nodes holds of all
LEMMA PathInduction ==
  ASSUME Graph, NEW S,
         \A path \in Paths :
           (\A t \in nodes : t \notin Range(path) => Append(path, t) \in S) => path \in S
  PROVE  Paths \subseteq S
<1> DEFINE Good == {k \in Nat : Level(k) \subseteq S}
<1>1. 0 \in Good
  BY LevelFacts
<1>2. ASSUME NEW k \in Nat, k \in Good PROVE k + 1 \in Good
  <2>1. ASSUME NEW path \in Level(k + 1) PROVE path \in S
    <3>1. path \in Paths
      BY DEF Level
    <3>2. \A t \in nodes : t \notin Range(path) => Append(path, t) \in Level(k)
      BY LevelFacts
    <3>3. Level(k) \subseteq S
      BY <1>2
    <3> QED
      BY <3>1, <3>2, <3>3
  <2> QED
    BY <2>1
<1> HIDE DEF Good
<1>3. Nat \subseteq Good
  BY <1>1, <1>2, SetInduction
<1>4. Cardinality(nodes) + 1 \in Nat
  BY GraphFacts
<1>5. Level(Cardinality(nodes) + 1) \subseteq S
  BY <1>3, <1>4 DEF Good
<1> QED
  BY <1>5, LevelFacts

\* what the recursion returned for the references of the end of a path
Inner(of, path) ==
  [r \in references[End(path)] |->
     IF Target(r) \in IgnoredNodes THEN NoMembers
     ELSE IF Target(r) \in Range(path) THEN Failed
     ELSE of[Append(path, Target(r))]]

LEMMA InnerAgrees ==
  ASSUME Graph, NEW path \in Paths, NEW f, NEW g,
         \A t \in nodes : t \notin Range(path) => f[Append(path, t)] = g[Append(path, t)]
  PROVE  Inner(f, path) = Inner(g, path)
<1>1. \A r \in references[End(path)] : Target(r) \in nodes
  BY PathFacts DEF Graph
<1> QED
  BY <1>1 DEF Inner

LEMMA RecursionExists ==
  ASSUME Graph
  PROVE  \E of : of = [path \in Paths |-> Collected(End(path), Inner(of, path))]
<1> DEFINE Solves(f, k) ==
             \A path \in Level(k) : f[path] = Collected(End(path), Inner(f, path))
           Good == {k \in Nat : \E f : Solves(f, k)}
<1>1. 0 \in Good
  <2>1. \A f : Solves(f, 0)
    BY LevelFacts
  <2> QED
    BY <2>1
<1>2. ASSUME NEW k \in Nat, k \in Good PROVE k + 1 \in Good
  <2>1. PICK f : Solves(f, k)
    BY <1>2
  <2> DEFINE g == [path \in Paths |-> Collected(End(path), Inner(f, path))]
  <2>2. \A path \in Paths : g[path] = Collected(End(path), Inner(f, path))
    OBVIOUS
  <2> HIDE DEF g
  <2>3. ASSUME NEW path \in Level(k + 1) PROVE g[path] = Collected(End(path), Inner(g, path))
    <3>1. path \in Paths
      BY DEF Level
    <3>2. ASSUME NEW t \in nodes, t \notin Range(path)
          PROVE  f[Append(path, t)] = g[Append(path, t)]
      <4>1. Append(path, t) \in Level(k)
        BY <3>2, LevelFacts
      <4>2. Append(path, t) \in Paths
        BY <4>1 DEF Level
      <4> QED
        BY <2>1, <2>2, <4>1, <4>2
    <3>3. Inner(f, path) = Inner(g, path)
      BY <3>1, <3>2, InnerAgrees
    <3> QED
      BY <2>2, <3>1, <3>3
  <2>4. Solves(g, k + 1)
    BY <2>3
  <2> HIDE DEF Solves
  <2> QED
    BY <2>4
<1> HIDE DEF Good
<1>3. Nat \subseteq Good
  BY <1>1, <1>2, SetInduction
<1>4. Cardinality(nodes) + 1 \in Nat
  BY GraphFacts
<1>5. PICK f : Solves(f, Cardinality(nodes) + 1)
  BY <1>3, <1>4 DEF Good
<1> DEFINE g == [path \in Paths |-> Collected(End(path), Inner(f, path))]
<1>6. \A path \in Paths : g[path] = f[path]
  BY <1>5, LevelFacts
<1>7. \A path \in Paths : g[path] = Collected(End(path), Inner(f, path))
  OBVIOUS
<1>8. g = [path \in Paths |-> g[path]]
  OBVIOUS
<1> HIDE DEF g
<1>9. \A path \in Paths : Inner(f, path) = Inner(g, path)
  <2> SUFFICES ASSUME NEW path \in Paths PROVE Inner(f, path) = Inner(g, path)
    OBVIOUS
  <2>1. \A t \in nodes : f[Append(path, t)] = g[Append(path, t)]
    BY <1>6, PathFacts
  <2> QED
    BY <2>1, InnerAgrees
<1>10. \A path \in Paths : g[path] = Collected(End(path), Inner(g, path))
  BY <1>7, <1>9
<1> QED
  BY <1>8, <1>10

\* getMembersOfType is a solution of its own equation
Recursion(of) ==
  /\ of \in [Paths -> Members]
  /\ \A path \in Paths : of[path] = Collected(End(path), Inner(of, path))

LEMMA MembersUnfold ==
  ASSUME Graph
  PROVE  \E of : Recursion(of) /\ \A n \in nodes : MembersOfType(n) = of[<<n>>]
<1> DEFINE Equation(of) == of = [path \in Paths |-> Collected(End(path), Inner(of, path))]
           of == CHOOSE of : Equation(of)
<1>1. Equation(of)
  BY RecursionExists
<1>2. \A n \in nodes : MembersOfType(n) = of[<<n>>]
  BY DEF MembersOfType, Inner, End, Paths
<1> HIDE DEF of
<1>3. \A path \in Paths : of[path] = Collected(End(path), Inner(of, path))
  BY <1>1
<1> DEFINE S == {path \in Paths : of[path] \in Members}
<1>4. ASSUME NEW path \in Paths, \A t \in nodes : t \notin Range(path) => Append(path, t) \in S
      PROVE  path \in S
  <2>1. End(path) \in nodes /\ \A r \in references[End(path)] : Target(r) \in nodes
    BY PathFacts DEF Graph
  <2>2. \A t \in nodes : t \notin Range(path) => of[Append(path, t)] \in Members
    BY <1>4
  <2>3. Inner(of, path) \in [references[End(path)] -> Members]
    BY <2>1, <2>2, EmptyMembers DEF Inner
  <2>4. Collected(End(path), Inner(of, path)) \in Members
    BY <2>1, <2>3, CollectedFacts DEF Unites
  <2> QED
    BY <1>3, <2>4
<1> HIDE DEF S
<1>5. Paths \subseteq S
  BY <1>4, PathInduction
<1>6. of = [path \in Paths |-> of[path]]
  BY <1>1
<1>7. of \in [Paths -> Members]
  BY <1>5, <1>6 DEF S
<1> QED
  BY <1>2, <1>3, <1>7 DEF Recursion

-----------------------------------------------------------------------------
(* What the recursion returns.                                             *)

\* m is what a class of node n should have
Exact(m, n) ==
  /\ VariablesOf(m) = Codes(AllData(n)) /\ ObjectsOf(m) = Codes(AllObjects(n))
  /\ MethodsOf(m) = AllMethods(n)

\* every node of the path is made of those after it
IsChain(path) == \A x \in Range(path) : End(path) \in Parts(x)

\* what is returned for a path: a failure has a fault for its reason, and without
\* one nothing of the path is met again
Returns(m, path) ==
  /\ m.failed => (IsChain(path) => HasFault(End(path)))
  /\ ~m.failed =>
       /\ Exact(m, End(path)) /\ ~HasFault(End(path))
       /\ \A t \in MadeOf(End(path)) : Parts(t) \cap Range(path) = {}

(* A class is made of what the recursion descends to, ignored nodes apart. *)
LEMMA MadeOfFacts ==
  ASSUME NEW n
  PROVE  /\ \A r \in references[n] :
              Descends(r) /\ Target(r) \notin IgnoredNodes => Target(r) \in MadeOf(n)
         /\ \A t \in MadeOf(n) : \E r \in references[n] :
              Descends(r) /\ Target(r) = t /\ t \notin IgnoredNodes
         /\ \A t \in Data(n) : \E r \in references[n] : IsComponent(r) /\ Target(r) = t
BY DEF MadeOf, Data, Objects, Components, SupertypeNodes, Descends

(* The parts of a part have no fault that the whole has not.               *)
LEMMA FaultFacts ==
  ASSUME Graph, NEW n \in nodes
  PROVE  /\ \A t \in MadeOf(n) : HasFault(t) => HasFault(n)
         /\ (\E t \in Data(n) : TypeOf(t) = 0) => HasFault(n)
         /\ (\E t \in MadeOf(n) : n \in Parts(t)) => HasFault(n)
         /\ (/\ \A t \in Data(n) : TypeOf(t) # 0
             /\ \A t \in MadeOf(n) : ~HasFault(t) /\ n \notin Parts(t)) => ~HasFault(n)
<1>1. /\ n \in Parts(n) /\ \A t \in MadeOf(n) : Parts(t) \subseteq Parts(n)
      /\ Parts(n) = {n} \cup UNION {Parts(t) : t \in MadeOf(n)}
  BY PartsFacts
<1>2. ASSUME NEW t \in MadeOf(n), HasFault(t) PROVE HasFault(n)
  <2>1. Parts(t) \subseteq Parts(n)
    BY <1>1
  <2> QED
    BY <1>2, <2>1 DEF HasFault, IsCyclic
<1>3. (\E t \in Data(n) : TypeOf(t) = 0) => HasFault(n)
  BY <1>1 DEF HasFault
<1>4. (\E t \in MadeOf(n) : n \in Parts(t)) => HasFault(n)
  BY <1>1 DEF HasFault, IsCyclic
<1>5. ASSUME \A t \in Data(n) : TypeOf(t) # 0, \A t \in MadeOf(n) : ~HasFault(t) /\ n \notin Parts(t)
      PROVE  ~HasFault(n)
  <2> SUFFICES ASSUME NEW m \in Parts(n)
               PROVE  /\ \A t \in MadeOf(m) : m \notin Parts(t)
                      /\ \A t \in Data(m) : TypeOf(t) # 0
    BY DEF HasFault, IsCyclic
  <2>1. CASE m = n
    BY <1>5, <2>1
  <2>2. CASE \E u \in MadeOf(n) : m \in Parts(u)
    BY <1>5, <2>2 DEF HasFault, IsCyclic
  <2> QED
    BY <1>1, <2>1, <2>2
<1> QED
  BY <1>2, <1>3, <1>4, <1>5

(* What belongs to a class is what its node has and what its parts have.   *)
LEMMA AllFacts ==
  ASSUME Graph, NEW n \in nodes
  PROVE  /\ AllData(n) =
              {t \in Data(n) : Translates(t)} \cup UNION {AllData(t) : t \in MadeOf(n)}
         /\ AllObjects(n) = Objects(n) \cup UNION {AllObjects(t) : t \in MadeOf(n)}
         /\ AllMethods(n) = Methods(n) \cup UNION {AllMethods(t) : t \in MadeOf(n)}
<1>1. Parts(n) = {n} \cup UNION {Parts(t) : t \in MadeOf(n)}
  BY PartsFacts
<1>2. AllData(n) = {t \in Data(n) : Translates(t)} \cup UNION {AllData(t) : t \in MadeOf(n)}
  BY <1>1 DEF AllData
<1>3. AllObjects(n) = Objects(n) \cup UNION {AllObjects(t) : t \in MadeOf(n)}
  BY <1>1 DEF AllObjects
<1>4. AllMethods(n) = Methods(n) \cup UNION {AllMethods(t) : t \in MadeOf(n)}
  BY <1>1 DEF AllMethods
<1> QED
  BY <1>2, <1>3, <1>4

LEMMA ReturnsFacts ==
  ASSUME Graph, NEW of, Recursion(of), NEW path \in Paths,
         \A t \in nodes : t \notin Range(path) => Returns(of[Append(path, t)], Append(path, t))
  PROVE  Returns(of[path], path)
<1> DEFINE n == End(path)
           inner == Inner(of, path)
           m == of[path]
<1>1. /\ n \in nodes /\ n \in Range(path)
      /\ \A t \in nodes : /\ Append(path, t) \in Paths /\ End(Append(path, t)) = t
                          /\ Range(Append(path, t)) = Range(path) \cup {t}
  BY PathFacts
<1>2. \A r \in references[n] : Target(r) \in nodes
  BY <1>1 DEF Graph
<1>3. \A p \in Paths : of[p] \in Members
  BY DEF Recursion
<1>4. inner \in [references[n] -> Members]
  BY <1>1, <1>2, <1>3, EmptyMembers DEF Inner
<1>5. \A r \in references[n] :
        inner[r] = IF Target(r) \in IgnoredNodes THEN NoMembers
                   ELSE IF Target(r) \in Range(path) THEN Failed
                   ELSE of[Append(path, Target(r))]
  BY DEF Inner
<1> HIDE DEF n, inner
<1>6. Unites(m, n, inner)
  <2>1. m = Collected(n, inner)
    BY DEF Recursion, n, inner
  <2> HIDE DEF m
  <2> QED
    BY <1>1, <1>4, <2>1, CollectedFacts
<1>7. \A t \in MadeOf(n) : t \in nodes /\ t \in Parts(t) /\ t \in Parts(n)
  BY <1>1, GraphFacts, PartsFacts
<1>8. ASSUME m.failed, IsChain(path) PROVE HasFault(n)
  <2>1. PICK r \in references[n] : IsUntyped(r) \/ (Descends(r) /\ inner[r].failed)
    BY <1>6, <1>8 DEF Unites
  <2> DEFINE t == Target(r)
  <2>2. CASE IsUntyped(r)
    <3>1. t \in Data(n) /\ TypeOf(t) = 0
      BY <2>2 DEF IsUntyped, Data, Components
    <3> QED
      BY <1>1, <3>1, FaultFacts
  <2>3. CASE Descends(r) /\ inner[r].failed
    <3>1. t \notin IgnoredNodes /\ t \in MadeOf(n)
      BY <1>5, <2>3, EmptyMembers, MadeOfFacts
    <3>2. CASE t \in Range(path)
      <4>1. n \in Parts(t)
        BY <1>8, <3>2 DEF IsChain, n
      <4> QED
        BY <1>1, <3>1, <4>1, FaultFacts
    <3>3. CASE t \notin Range(path)
      <4>1. Returns(of[Append(path, t)], Append(path, t)) /\ of[Append(path, t)].failed
        BY <1>2, <1>5, <2>3, <3>1, <3>3
      <4>2. IsChain(Append(path, t))
        <5> SUFFICES ASSUME NEW x \in Range(path) \cup {t} PROVE t \in Parts(x)
          BY <1>1, <1>2 DEF IsChain
        <5>1. CASE x = t
          BY <1>7, <3>1, <5>1
        <5>2. CASE x \in Range(path)
          <6>1. n \in Parts(x) /\ x \in nodes
            BY <1>8, <5>2, PathFacts DEF IsChain, n
          <6> QED
            BY <3>1, <6>1, PartsFacts
        <5> QED
          BY <5>1, <5>2
      <4>3. HasFault(t)
        BY <1>1, <1>2, <4>1, <4>2 DEF Returns
      <4> QED
        BY <1>1, <3>1, <4>3, FaultFacts
    <3> QED
      BY <3>2, <3>3
  <2> QED
    BY <2>1, <2>2, <2>3
<1>9. ASSUME ~m.failed
      PROVE  /\ Exact(m, n) /\ ~HasFault(n)
             /\ \A t \in MadeOf(n) : Parts(t) \cap Range(path) = {}
  <2>1. \A r \in references[n] : ~IsUntyped(r) /\ (Descends(r) => ~inner[r].failed)
    BY <1>6, <1>9 DEF Unites
  <2>2. ASSUME NEW r \in references[n], Descends(r), Target(r) \notin IgnoredNodes
        PROVE  /\ Target(r) \notin Range(path) /\ inner[r] = of[Append(path, Target(r))]
               /\ Exact(inner[r], Target(r)) /\ ~HasFault(Target(r))
               /\ \A u \in MadeOf(Target(r)) : Parts(u) \cap (Range(path) \cup {Target(r)}) = {}
    <3>1. Target(r) \notin Range(path) /\ inner[r] = of[Append(path, Target(r))]
      BY <1>5, <2>1, <2>2, EmptyMembers
    <3>2. Returns(inner[r], Append(path, Target(r)))
      BY <1>2, <3>1
    <3> QED
      BY <1>1, <1>2, <2>1, <2>2, <3>1, <3>2 DEF Returns
  <2>3. ASSUME NEW t \in MadeOf(n)
        PROVE  ~HasFault(t) /\ Parts(t) \cap Range(path) = {}
    <3>1. PICK r \in references[n] : Descends(r) /\ Target(r) = t /\ t \notin IgnoredNodes
      BY MadeOfFacts
    <3>2. /\ t \notin Range(path) /\ ~HasFault(t)
          /\ \A u \in MadeOf(t) : Parts(u) \cap Range(path) = {}
      BY <2>2, <3>1
    <3>3. Parts(t) = {t} \cup UNION {Parts(u) : u \in MadeOf(t)}
      BY <1>7, PartsFacts
    <3> QED
      BY <3>2, <3>3
  <2>4. \A t \in Data(n) : TypeOf(t) # 0
    <3> SUFFICES ASSUME NEW t \in Data(n), TypeOf(t) = 0 PROVE FALSE
      OBVIOUS
    <3>1. PICK r \in references[n] : IsComponent(r) /\ Target(r) = t
      BY MadeOfFacts
    <3> QED
      BY <2>1, <3>1 DEF IsUntyped, Data
  <2>5. ~HasFault(n)
    BY <1>1, <2>3, <2>4, FaultFacts
  <2>6. ASSUME NEW r \in references[n]
        PROVE  /\ Through(r, VariablesOf(inner[r])) =
                    IF Descends(r) /\ Target(r) \notin IgnoredNodes
                    THEN Codes(AllData(Target(r))) ELSE {}
               /\ Through(r, ObjectsOf(inner[r])) =
                    IF Descends(r) /\ Target(r) \notin IgnoredNodes
                    THEN Codes(AllObjects(Target(r))) ELSE {}
               /\ Through(r, MethodsOf(inner[r])) =
                    IF Descends(r) /\ Target(r) \notin IgnoredNodes
                    THEN AllMethods(Target(r)) ELSE {}
    <3>1. CASE Descends(r) /\ Target(r) \notin IgnoredNodes
      BY <2>2, <3>1 DEF Exact, Through
    <3>2. CASE Descends(r) /\ Target(r) \in IgnoredNodes
      <4>1. inner[r] = NoMembers
        BY <1>5, <3>2
      <4> QED
        BY <3>2, <4>1, EmptyMembers DEF Through
    <3>3. CASE ~Descends(r)
      BY <3>3 DEF Through
    <3> QED
      BY <3>1, <3>2, <3>3
  <2>7. /\ UNION {OwnVariables(r) : r \in references[n]} = Codes({t \in Data(n) : Translates(t)})
        /\ UNION {OwnObjects(r) : r \in references[n]} = Codes(Objects(n))
        /\ UNION {OwnMethods(r) : r \in references[n]} = Methods(n)
    <3>1. UNION {OwnVariables(r) : r \in references[n]} = Codes({t \in Data(n) : Translates(t)})
      BY DEF OwnVariables, Codes, Data, Components
    <3>2. UNION {OwnObjects(r) : r \in references[n]} = Codes(Objects(n))
      BY DEF OwnObjects, Codes, Objects, Components
    <3>3. UNION {OwnMethods(r) : r \in references[n]} = Methods(n)
      BY DEF OwnMethods, Methods, Components
    <3> QED
      BY <3>1, <3>2, <3>3
  <2>8. /\ UNION {Through(r, VariablesOf(inner[r])) : r \in references[n]} =
             UNION {Codes(AllData(t)) : t \in MadeOf(n)}
        /\ UNION {Through(r, ObjectsOf(inner[r])) : r \in references[n]} =
             UNION {Codes(AllObjects(t)) : t \in MadeOf(n)}
        /\ UNION {Through(r, MethodsOf(inner[r])) : r \in references[n]} =
             UNION {AllMethods(t) : t \in MadeOf(n)}
    <3>1. UNION {Through(r, VariablesOf(inner[r])) : r \in references[n]} =
            UNION {Codes(AllData(t)) : t \in MadeOf(n)}
      BY <2>6, MadeOfFacts
    <3>2. UNION {Through(r, ObjectsOf(inner[r])) : r \in references[n]} =
            UNION {Codes(AllObjects(t)) : t \in MadeOf(n)}
      BY <2>6, MadeOfFacts
    <3>3. UNION {Through(r, MethodsOf(inner[r])) : r \in references[n]} =
            UNION {AllMethods(t) : t \in MadeOf(n)}
      BY <2>6, MadeOfFacts
    <3> QED
      BY <3>1, <3>2, <3>3
  <2>9. Exact(m, n)
    <3>1. VariablesOf(m) = Codes({t \in Data(n) : Translates(t)})
                             \cup UNION {Codes(AllData(t)) : t \in MadeOf(n)}
      <4>1. VariablesOf(m) =
              UNION {OwnVariables(r) \cup Through(r, VariablesOf(inner[r])) : r \in references[n]}
        BY <1>6, <1>9 DEF Unites
      <4> HIDE DEF m
      <4> QED
        BY <2>7, <2>8, <4>1
    <3>2. ObjectsOf(m) = Codes(Objects(n)) \cup UNION {Codes(AllObjects(t)) : t \in MadeOf(n)}
      <4>1. ObjectsOf(m) =
              UNION {OwnObjects(r) \cup Through(r, ObjectsOf(inner[r])) : r \in references[n]}
        BY <1>6, <1>9 DEF Unites
      <4> HIDE DEF m
      <4> QED
        BY <2>7, <2>8, <4>1
    <3>3. MethodsOf(m) = Methods(n) \cup UNION {AllMethods(t) : t \in MadeOf(n)}
      <4>1. MethodsOf(m) =
              UNION {OwnMethods(r) \cup Through(r, MethodsOf(inner[r])) : r \in references[n]}
        BY <1>6, <1>9 DEF Unites
      <4> HIDE DEF m
      <4> QED
        BY <2>7, <2>8, <4>1
    <3>4. Codes({t \in Data(n) : Translates(t)}) \cup UNION {Codes(AllData(t)) : t \in MadeOf(n)}
            = Codes(AllData(n))
      BY <1>1, AllFacts DEF Codes
    <3>5. Codes(Objects(n)) \cup UNION {Codes(AllObjects(t)) : t \in MadeOf(n)}
            = Codes(AllObjects(n))
      BY <1>1, AllFacts DEF Codes
    <3> QED
      BY <1>1, <3>1, <3>2, <3>3, <3>4, <3>5, AllFacts DEF Exact
  <2> QED
    BY <2>3, <2>5, <2>9
<1> QED
  BY <1>8, <1>9 DEF Returns, n

(* The recursion fails exactly if there is a fault, and returns what the   *)
(* class should have if not.                                               *)
LEMMA MembersOfTypeFacts ==
  ASSUME Graph, NEW n \in nodes
  PROVE  /\ MembersOfType(n) \in Members /\ (MembersOfType(n).failed <=> HasFault(n))
         /\ ~MembersOfType(n).failed => Exact(MembersOfType(n), n)
<1>1. PICK of : Recursion(of) /\ \A k \in nodes : MembersOfType(k) = of[<<k>>]
  BY MembersUnfold
<1> DEFINE S == {path \in Paths : Returns(of[path], path)}
<1>2. ASSUME NEW path \in Paths, \A t \in nodes : t \notin Range(path) => Append(path, t) \in S
      PROVE  path \in S
  BY <1>1, <1>2, ReturnsFacts
<1> HIDE DEF S
<1>3. Paths \subseteq S
  BY <1>2, PathInduction
<1> DEFINE path == <<n>>
<1>4. path \in Paths /\ End(path) = n /\ Range(path) = {n}
  BY DEF Paths, End, Range
<1>5. MembersOfType(n) = of[path]
  BY <1>1
<1> HIDE DEF path
<1>6. Returns(of[path], path) /\ of[path] \in Members
  BY <1>1, <1>3, <1>4 DEF S, Recursion
<1>7. IsChain(path)
  BY <1>4, PartsFacts DEF IsChain
<1> QED
  BY <1>4, <1>5, <1>6, <1>7 DEF Returns, Members

-----------------------------------------------------------------------------
(* What data types are traced to, and what is below them.                  *)

(* getNodeByIDString returns a node or 0.                                  *)
LEMMA ByIdFacts ==
  ASSUME Graph, NEW id
  PROVE  /\ NodeByIdString(id) # 0 => NodeByIdString(id) \in nodes
         /\ (\A n \in nodes : heap[n].id # id) => NodeByIdString(id) = 0
<1>1. CASE \A n \in nodes : heap[n].id # id
  BY <1>1 DEF NodeByIdString
<1>2. CASE \E n \in nodes : heap[n].id = id
  <2> DEFINE S == {n \in nodes : heap[n].id = id}
  <2>1. S \in SUBSET Nat /\ S # {}
    BY <1>2, GraphFacts
  <2>2. PICK x \in S : \A y \in S : x <= y
    <3> HIDE DEF S
    <3> QED
      BY <2>1, Least
  <2>3. \E n \in nodes : heap[n].id = id /\ \A m \in nodes : heap[m].id = id => n <= m
    BY <2>2
  <2>4. NodeByIdString(id) \in nodes
    BY <1>2, <2>3 DEF NodeByIdString
  <2> QED
    BY <1>2, <2>4
<1> QED
  BY <1>1, <1>2

LEMMA TraceableFacts ==
  ASSUME NEW S, NEW T, S \subseteq T, NEW n, Traceable(S, n)
  PROVE  Traceable(T, n)
BY DEF Traceable

(* A type is traced exactly if it can be, with what is traced.             *)
LEMMA TracedFacts ==
  ASSUME Graph
  PROVE  /\ Traced \subseteq AllDataTypes
         /\ \A n \in AllDataTypes : n \in Traced <=> Traceable(Traced, n)
<1> DEFINE U == AllDataTypes
           C == Cardinality(U)
           After1(S) == {n \in U : Traceable(S, n)}
           G == [S \in SUBSET U |-> After1(S)]
           Equation(f) == f = [i \in 0 .. C |-> IF i = 0 THEN {} ELSE After1(f[i - 1])]
<1>1. IsFiniteSet(U) /\ C \in Nat
  <2>1. IsFiniteSet(nodes) /\ U \subseteq nodes
    BY GraphFacts DEF AllDataTypes
  <2>2. IsFiniteSet(U)
    BY <2>1, FS_Subset
  <2> QED
    BY <2>2, FS_CardinalityType
<1>2. G \in [SUBSET U -> SUBSET U] /\ (\A S \in SUBSET U : G[S] = After1(S)) /\ {} \in SUBSET U
  OBVIOUS
<1>3. \E f : Equation(f)
  <2> HIDE DEF G, C, U, Equation, After1
  <2>1. \E f : Rounds(f, C, {}, G) /\ f \in [0 .. C -> SUBSET U]
    BY <1>1, <1>2, RoundsExist
  <2>2. PICK f : /\ f = [i \in 0 .. C |-> IF i = 0 THEN {} ELSE G[f[i - 1]]]
                 /\ f \in [0 .. C -> SUBSET U]
    BY <2>1 DEF Rounds
  <2>3. ASSUME NEW i \in 0 .. C PROVE f[i] = IF i = 0 THEN {} ELSE After1(f[i - 1])
    <3>1. CASE i = 0
      BY <2>2, <3>1
    <3>2. CASE i # 0
      <4>1. i - 1 \in 0 .. C
        BY <1>1, <3>2
      <4>2. f[i] = G[f[i - 1]] /\ f[i - 1] \in SUBSET U
        BY <2>2, <3>2, <4>1
      <4> QED
        BY <1>2, <3>2, <4>2
    <3> QED
      BY <3>1, <3>2
  <2>4. f = [i \in 0 .. C |-> IF i = 0 THEN {} ELSE After1(f[i - 1])]
    BY <2>2, <2>3, Zenon
  <2> QED
    BY <2>4 DEF Equation
<1> DEFINE f == CHOOSE f : Equation(f)
<1>4. Equation(f)
  BY <1>3
<1>5. Traced = f[C]
  BY DEF Traced
<1> HIDE DEF f, After1, C, U
<1>6. /\ DOMAIN f = 0 .. C /\ f[0] = {} /\ f = [i \in DOMAIN f |-> f[i]]
      /\ \A i \in 1 .. C : f[i] = After1(f[i - 1])
  <2>1. f = [i \in 0 .. C |-> IF i = 0 THEN {} ELSE After1(f[i - 1])]
    BY <1>4
  <2>2. DOMAIN f = 0 .. C /\ f = [i \in DOMAIN f |-> f[i]]
    BY <2>1
  <2>3. \A i \in 0 .. C : f[i] = IF i = 0 THEN {} ELSE After1(f[i - 1])
    BY <2>1
  <2>4. 0 \in 0 .. C /\ \A i \in 1 .. C : i \in 0 .. C /\ i # 0
    BY <1>1
  <2> QED
    BY <2>2, <2>3, <2>4
<1>7. \A i \in 1 .. C : f[i - 1] \in SUBSET U => f[i] = G[f[i - 1]]
  BY <1>2, <1>6
<1> HIDE DEF G
<1>8. IsRounds(f, C, U, {}, G)
  BY <1>1, <1>2, <1>6, <1>7, RoundsUnfold
<1>9. \A i \in 0 .. C : f[i] \in SUBSET U
  BY <1>8 DEF IsRounds
<1>10. Expands(f, C, G)
  <2> DEFINE Good == {i \in 0 .. C : f[i] \subseteq G[f[i]]}
  <2>1. 0 \in Good
    BY <1>1, <1>6
  <2>2. ASSUME NEW i \in 0 .. C - 1, i \in Good PROVE i + 1 \in Good
    <3>1. i + 1 \in 0 .. C /\ i \in 0 .. C
      BY <1>1
    <3>2. f[i + 1] = G[f[i]] /\ f[i] \in SUBSET U /\ f[i + 1] \in SUBSET U
      BY <1>8, <1>9, <3>1 DEF IsRounds
    <3>3. f[i] \subseteq f[i + 1]
      BY <2>2, <3>2
    <3>4. After1(f[i]) \subseteq After1(f[i + 1])
      BY <3>3, TraceableFacts DEF After1
    <3> QED
      BY <1>2, <3>1, <3>2, <3>4
  <2> HIDE DEF Good
  <2>3. 0 .. C \subseteq Good
    BY <1>1, <2>1, <2>2, IntervalInduction
  <2> QED
    BY <2>3 DEF Good, Expands
<1>11. Settles(f, C, G)
  <2>1. C = Cardinality(U)
    BY DEF C
  <2> QED
    BY <1>1, <1>2, <1>8, <1>10, <2>1, RoundsClose, Zenon
<1>12. f[C] \in SUBSET U /\ After1(f[C]) = f[C]
  <2>1. f[C] \in SUBSET U
    BY <1>1, <1>9
  <2> QED
    BY <1>2, <1>11, <2>1 DEF Settles
<1> QED
  BY <1>5, <1>12 DEF After1, U

LEMMA BelowFacts ==
  ASSUME Graph, NEW n \in nodes
  PROVE  /\ DependsOn(n) \subseteq nodes /\ DependsOn(n) \subseteq Below(n) /\ Below(n) \subseteq nodes
         /\ \A t \in Below(n) : DependsOn(t) \subseteq Below(n) /\ Below(t) \subseteq Below(n)
<1> DEFINE next == [m \in nodes |-> DependsOn(m)]
<1>1. ASSUME NEW m \in nodes PROVE DependsOn(m) \subseteq nodes
  <2>1. Supertypes(m) \subseteq nodes
    BY DEF Supertypes, Graph, Target
  <2>2. {NodeByIdString(d.dataType) : d \in Fields(m)} \ {0} \subseteq nodes
    BY ByIdFacts
  <2> QED
    BY <2>1, <2>2 DEF DependsOn
<1>2. next \in [nodes -> SUBSET nodes] /\ IsFiniteSet(nodes) /\ \A m \in nodes : next[m] = DependsOn(m)
  BY <1>1, GraphFacts
<1>3. ASSUME NEW m \in nodes
      PROVE  /\ DependsOn(m) \subseteq Below(m) /\ Below(m) \subseteq nodes
             /\ \A t \in Below(m) : DependsOn(t) \subseteq Below(m)
             /\ \A S : DependsOn(m) \subseteq S /\ (\A t \in S \cap nodes : DependsOn(t) \subseteq S) =>
                  Below(m) \subseteq S
  <2> HIDE DEF next
  <2>1. DependsOn(m) \in SUBSET nodes /\ Below(m) = Reachable(next, DependsOn(m))
    BY <1>1 DEF Below, next
  <2>2. /\ DependsOn(m) \subseteq Below(m) /\ Below(m) \subseteq nodes
        /\ \A t \in Below(m) : next[t] \subseteq Below(m)
        /\ \A S : DependsOn(m) \subseteq S /\ (\A t \in S \cap nodes : next[t] \subseteq S) =>
             Below(m) \subseteq S
    BY <1>2, <2>1, ReachableFacts
  <2> QED
    BY <1>2, <2>2
<1>4. ASSUME NEW t \in Below(n) PROVE Below(t) \subseteq Below(n)
  <2>1. t \in nodes
    BY <1>3
  <2> QED
    BY <1>3, <2>1
<1> QED
  BY <1>1, <1>3, <1>4

-----------------------------------------------------------------------------
(* The calls of buildEncoding.                                             *)

Frames == [node : nodes, next : Nat \ {0}, isEnum : BOOLEAN, isSubType : BOOLEAN]

(* Each call is for a type that those before it depend on, and no type is  *)
(* built twice.                                                            *)
CallsOK ==
  /\ calls \in Seq(Frames)
  /\ \A i \in DOMAIN calls : calls[i].node \in DOMAIN dataTypes
  /\ \A i, j \in DOMAIN calls : i < j => calls[i].node # calls[j].node
  /\ \A n \in nodes : \A i, j \in DOMAIN calls :
       i < j /\ calls[i].node = n => calls[j].node \in Below(n)

\* the types that are built, and found encodable
Completed ==
  {n \in DOMAIN dataTypes : Encodable(n) /\ \A i \in DOMAIN calls : calls[i].node # n}

\* what a call has taken from type t: it was completed, unless both are on a cycle
Used(c, t) == t \in Completed \/ c.node \in Below(c.node)

SupertypesUsed(c) ==
  LET list == ReferenceList(c.node) IN
  /\ Encodable(c.node) /\ IsSequence(Encoding(c.node))
  /\ \A j \in 1 .. c.next - 1 :
       HasSupertype(list[j]) => Encoding(c.node) # <<>> /\ Used(c, Target(list[j]))
  /\ Encoding(c.node) # <<>> => \E j \in 1 .. c.next - 1 : j <= Len(list) /\ HasSupertype(list[j])

FieldsUsed(c) ==
  LET fields == heap[c.node].definition IN
  /\ c.next <= Len(fields) + 1
  /\ c.isEnum <=> \A j \in 1 .. c.next - 1 : fields[j].dataType = None
  /\ c.isSubType <=> \A j \in 1 .. c.next - 1 : ~fields[j].value
  /\ c.next > 1 => (c.isEnum <=> ~c.isSubType) /\ (c.isEnum => fields[1].value)
  /\ ~c.isEnum /\ Encodable(c.node) => \A j \in 1 .. c.next - 1 :
       NodeByIdString(fields[j].dataType) # 0 /\ Used(c, NodeByIdString(fields[j].dataType))

(* How far a call is.                                                      *)
PartsUsed(c) ==
  /\ ~IsBuiltin(c.node)
  /\ IF heap[c.node].definition = NoDefinition THEN SupertypesUsed(c) ELSE FieldsUsed(c)

(* No type that can be traced is found not encodable; one that is cannot   *)
(* be traced with those completed only if it is on a cycle.                *)
Building ==
  /\ DOMAIN dataTypes \subseteq AllDataTypes
  /\ \A n \in DOMAIN dataTypes : Encodable(n) \in BOOLEAN /\ (Encodable(n) \/ n \notin Traced)
  /\ CallsOK
  /\ \A c \in Range(calls) : PartsUsed(c)
  /\ \A n \in Completed : n \in Below(n) \/ Traceable(Completed, n)

\* what building relies on: the graph, and definitions as parseXML reads them
Ready ==
  /\ Graph /\ NodeByIdString(None) = 0
  /\ \A n \in AllDataTypes : heap[n].definition # NoDefinition =>
       /\ IsSequence(heap[n].definition)
       /\ \A k \in DOMAIN heap[n].definition : heap[n].definition[k].value \in BOOLEAN

(* What the graph decides stays as long as the graph does.                 *)
LEMMA SameTypes ==
  ASSUME UNCHANGED <<nodeVars, linkVars>>
  PROVE  /\ UNCHANGED <<heap, nodes, pointers, references, Frames, AllDataTypes, Traced>>
         /\ \A n : /\ UNCHANGED <<ReferenceList(n), NodeByIdString(n), Below(n), DependsOn(n),
                                  Supertypes(n), Fields(n), Target(n)>>
                   /\ HasSupertype(n)' = HasSupertype(n) /\ IsBuiltin(n)' = IsBuiltin(n)
                   /\ IsEnumeration(n)' = IsEnumeration(n) /\ IsStructure(n)' = IsStructure(n)
         /\ \A S, n : Traceable(S, n) => Traceable(S, n)'
<1>1. UNCHANGED <<heap, nodes, pointers, references>>
  BY DEF nodeVars, linkVars
<1>2. UNCHANGED <<Frames, AllDataTypes>>
  BY <1>1 DEF Frames, AllDataTypes
<1>3. ASSUME NEW n
      PROVE  /\ UNCHANGED <<ReferenceList(n), NodeByIdString(n), Fields(n), Target(n)>>
             /\ HasSupertype(n)' = HasSupertype(n) /\ IsBuiltin(n)' = IsBuiltin(n)
  BY <1>1 DEF ReferenceList, NodeByIdString, Fields, Target, HasSupertype, IsBuiltin
<1>4. ASSUME NEW n
      PROVE  /\ UNCHANGED <<DependsOn(n), Supertypes(n)>>
             /\ IsEnumeration(n)' = IsEnumeration(n) /\ IsStructure(n)' = IsStructure(n)
  <2>1. Supertypes(n)' = Supertypes(n)
    BY <1>1, <1>3 DEF Supertypes
  <2>2. IsEnumeration(n)' = IsEnumeration(n) /\ IsStructure(n)' = IsStructure(n)
    BY <1>1, <1>3 DEF IsEnumeration, IsStructure
  <2>3. DependsOn(n)' = DependsOn(n)
    BY <1>1, <1>3, <2>1 DEF DependsOn
  <2> QED
    BY <2>1, <2>2, <2>3
<1>5. ASSUME NEW n PROVE Below(n)' = Below(n)
  <2>1. ASSUME NEW next, NEW start PROVE Reachable(next, start)' = Reachable(next, start)
    BY <1>1 DEF Reachable
  <2>2. UNCHANGED <<[m \in nodes |-> DependsOn(m)], DependsOn(n)>>
    BY <1>1, <1>4
  <2> QED
    BY <2>1, <2>2 DEF Below
<1>6. ASSUME NEW S, NEW n PROVE Traceable(S, n)' = Traceable(S, n)
  BY <1>1, <1>3, <1>4 DEF Traceable
<1>7. Traced' = Traced
  BY <1>2, <1>6 DEF Traced
<1> QED
  BY <1>1, <1>2, <1>3, <1>4, <1>5, <1>6, <1>7

(* A stack that is not empty: its top, what is below, and another top.     *)
LEMMA StackFacts ==
  ASSUME NEW A, NEW q \in Seq(A), q # <<>>
  PROVE  /\ Len(q) \in Nat \ {0} /\ DOMAIN q = 1 .. Len(q) /\ Len(q) \in DOMAIN q
         /\ q[Len(q)] \in A
         /\ Front(q) \in Seq(A) /\ DOMAIN Front(q) = 1 .. Len(q) - 1
         /\ \A i \in 1 .. Len(q) - 1 : Front(q)[i] = q[i]
         /\ \A x \in A : [q EXCEPT ![Len(q)] = x] \in Seq(A)
<1>1. Len(q) \in Nat /\ DOMAIN q = 1 .. Len(q)
  BY LenProperties
<1>2. Len(q) # 0
  BY EmptySeq
<1>3. Len(q) \in DOMAIN q
  BY <1>1, <1>2
<1>4. /\ Front(q) \in Seq(A) /\ Len(Front(q)) = Len(q) - 1
      /\ \A i \in 1 .. Len(q) - 1 : Front(q)[i] = q[i]
  BY <1>1, <1>2, SubSeqProperties DEF Front
<1>5. DOMAIN Front(q) = 1 .. Len(q) - 1
  BY <1>4, LenProperties
<1>6. \A x \in A : [q EXCEPT ![Len(q)] = x] \in Seq(A)
  BY <1>3, ExceptSeq
<1> QED
  BY <1>1, <1>2, <1>3, <1>4, <1>5, <1>6, ElementOfSeq

(* The call on top is the only one for its node, and its node is below     *)
(* those of the others.                                                    *)
LEMMA TopFacts ==
  ASSUME Building, calls # <<>>
  PROVE  /\ Len(calls) \in Nat \ {0} /\ DOMAIN calls = 1 .. Len(calls) /\ Len(calls) \in DOMAIN calls
         /\ Top \in Frames /\ Top \in Range(calls) /\ PartsUsed(Top)
         /\ Top.node \in nodes /\ Top.node \in DOMAIN dataTypes /\ Top.node \in AllDataTypes
         /\ ~IsBuiltin(Top.node) /\ Top.next \in Nat \ {0}
         /\ Top.isEnum \in BOOLEAN /\ Top.isSubType \in BOOLEAN
         /\ \A i \in 1 .. Len(calls) - 1 :
              calls[i].node # Top.node /\ Top.node \in Below(calls[i].node)
         /\ \A c \in Range(calls) : c.node = Top.node => c = Top
<1>1. /\ Len(calls) \in Nat \ {0} /\ DOMAIN calls = 1 .. Len(calls) /\ Len(calls) \in DOMAIN calls
      /\ Top \in Frames
  BY StackFacts DEF Building, CallsOK, Top
<1>2. Top \in Range(calls)
  BY <1>1 DEF Top, Range
<1>3. /\ Top.node \in nodes /\ Top.next \in Nat \ {0}
      /\ Top.isEnum \in BOOLEAN /\ Top.isSubType \in BOOLEAN
  BY <1>1 DEF Frames
<1>4. Top.node \in DOMAIN dataTypes /\ ~IsBuiltin(Top.node)
  <2>1. Top.node \in DOMAIN dataTypes
    BY <1>1 DEF Building, CallsOK, Top
  <2> QED
    BY <1>2, <2>1 DEF Building, PartsUsed
<1>5. \A i \in 1 .. Len(calls) - 1 :
        calls[i].node # Top.node /\ Top.node \in Below(calls[i].node)
  <2> SUFFICES ASSUME NEW i \in 1 .. Len(calls) - 1
               PROVE  calls[i].node # Top.node /\ Top.node \in Below(calls[i].node)
    OBVIOUS
  <2>1. i \in DOMAIN calls /\ i < Len(calls)
    BY <1>1
  <2>2. calls[i].node \in nodes
    BY <2>1 DEF Building, CallsOK, AllDataTypes
  <2> QED
    BY <1>1, <2>1, <2>2 DEF Building, CallsOK, Top
<1>6. ASSUME NEW c \in Range(calls), c.node = Top.node PROVE c = Top
  <2>1. PICK i \in DOMAIN calls : calls[i] = c
    BY DEF Range
  <2>2. i = Len(calls)
    BY <1>1, <1>5, <1>6, <2>1
  <2> QED
    BY <2>1, <2>2 DEF Top
<1> QED
  BY <1>1, <1>2, <1>3, <1>4, <1>5, <1>6 DEF Building

(* What a call has used stays used: types only become completed.           *)
LEMMA PartsStay ==
  ASSUME UNCHANGED <<nodeVars, linkVars>>, Completed \subseteq Completed',
         NEW c, PartsUsed(c), dataTypes'[c.node] = dataTypes[c.node]
  PROVE  PartsUsed(c)'
<1>1. /\ heap' = heap /\ UNCHANGED <<Encodable(c.node), Encoding(c.node)>>
      /\ \A n : /\ UNCHANGED <<ReferenceList(n), NodeByIdString(n), Below(n), Target(n)>>
                /\ HasSupertype(n)' = HasSupertype(n) /\ IsBuiltin(n)' = IsBuiltin(n)
  BY SameTypes DEF Encodable, Encoding
<1>2. \A t : Used(c, t) => Used(c, t)'
  BY <1>1 DEF Used
<1>3. SupertypesUsed(c) => SupertypesUsed(c)'
  BY <1>1, <1>2 DEF SupertypesUsed
<1>4. FieldsUsed(c) => FieldsUsed(c)'
  BY <1>1, <1>2 DEF FieldsUsed
<1> QED
  BY <1>1, <1>3, <1>4 DEF PartsUsed

(* What a completed type is traced to stays.                               *)
LEMMA CompletedStay ==
  ASSUME UNCHANGED <<nodeVars, linkVars>>, Completed \subseteq Completed',
         NEW n, n \in Below(n) \/ Traceable(Completed, n)
  PROVE  (n \in Below(n) \/ Traceable(Completed, n))'
<1>1. /\ UNCHANGED <<heap, Below(n), Supertypes(n), Fields(n)>> /\ IsBuiltin(n)' = IsBuiltin(n)
      /\ IsEnumeration(n)' = IsEnumeration(n) /\ IsStructure(n)' = IsStructure(n)
      /\ \A id : NodeByIdString(id)' = NodeByIdString(id)
  BY SameTypes
<1>2. CASE Traceable(Completed, n)
  BY <1>1, <1>2 DEF Traceable
<1> QED
  BY <1>1, <1>2

(* A call for a type without a rule.                                       *)
LEMMA CallStep ==
  ASSUME Ready, Building, UNCHANGED <<nodeVars, linkVars>>,
         NEW t \in AllDataTypes, t \notin DOMAIN dataTypes, Call(t),
         calls # <<>> => t \in DependsOn(Top.node)
  PROVE  Building'
<1> DEFINE new == [node |-> t, next |-> 1, isEnum |-> TRUE, isSubType |-> TRUE]
<1>1. /\ UNCHANGED <<heap, nodes, Frames, AllDataTypes, Traced>>
      /\ \A n : UNCHANGED <<Below(n), ReferenceList(n)>> /\ IsBuiltin(n)' = IsBuiltin(n)
                /\ HasSupertype(n)' = HasSupertype(n)
  BY SameTypes
<1>2. /\ DOMAIN dataTypes' = DOMAIN dataTypes \cup {t} /\ dataTypes'[t].encodable
      /\ (IsBuiltin(t) \/ dataTypes'[t].encoding = <<>>)
      /\ \A m \in DOMAIN dataTypes : dataTypes'[m] = dataTypes[m]
  BY DEF Call, Put
<1>3. \A n \in DOMAIN dataTypes : UNCHANGED <<Encodable(n), Encoding(n)>>
  BY <1>2 DEF Encodable, Encoding
<1>4. /\ calls \in Seq(Frames) /\ DOMAIN calls = 1 .. Len(calls) /\ Len(calls) \in Nat
      /\ \A i \in DOMAIN calls : calls[i].node \in DOMAIN dataTypes /\ calls[i].node # t
  BY LenProperties DEF Building, CallsOK
<1>5. DOMAIN dataTypes' \subseteq AllDataTypes'
      /\ \A n \in DOMAIN dataTypes' : Encodable(n)' \in BOOLEAN /\ (Encodable(n)' \/ n \notin Traced')
  BY <1>1, <1>2 DEF Building, Encodable
<1>6. CASE IsBuiltin(t)
  <2>1. calls' = calls
    BY <1>6 DEF Call
  <2>2. Completed' = Completed \cup {t}
    BY <1>2, <1>4, <2>1 DEF Completed, Encodable
  <2>3. CallsOK'
    <3>1. \A n : Below(n)' = Below(n)
      BY <1>1
    <3>2. \A n \in nodes' : \A i, j \in DOMAIN calls' :
            i < j /\ calls'[i].node = n => calls'[j].node \in Below(n)'
      BY <1>1, <2>1, <3>1 DEF Building, CallsOK
    <3>3. calls' \in Seq(Frames') /\ \A i \in DOMAIN calls' : calls'[i].node \in DOMAIN dataTypes'
      BY <1>1, <1>2, <1>4, <2>1
    <3> QED
      BY <2>1, <3>2, <3>3 DEF Building, CallsOK
  <2>4. ASSUME NEW c \in Range(calls') PROVE PartsUsed(c)'
    <3>1. c \in Range(calls) /\ c.node \in DOMAIN dataTypes
      BY <1>4, <2>1 DEF Range
    <3> QED
      BY <1>2, <2>2, <3>1, PartsStay DEF Building
  <2>5. ASSUME NEW n \in Completed' PROVE (n \in Below(n) \/ Traceable(Completed, n))'
    <3>1. CASE n = t
      BY <1>1, <1>6, <3>1 DEF Traceable
    <3>2. CASE n # t
      BY <2>2, <3>2, CompletedStay DEF Building
    <3> QED
      BY <3>1, <3>2
  <2> QED
    BY <1>5, <2>3, <2>4, <2>5 DEF Building
<1>7. CASE ~IsBuiltin(t)
  <2>1. calls' = Append(calls, new) /\ dataTypes'[t].encoding = <<>>
    BY <1>2, <1>7 DEF Call
  <2>2. t \in nodes /\ new \in Frames
    BY DEF AllDataTypes, Frames
  <2> HIDE DEF new
  <2>3. /\ calls' \in Seq(Frames) /\ DOMAIN calls' = 1 .. Len(calls) + 1
        /\ calls'[Len(calls) + 1] = new
        /\ \A i \in 1 .. Len(calls) : calls'[i] = calls[i]
    BY <1>4, <2>1, <2>2, AppendFacts
  <2>4. new.node = t /\ new.next = 1 /\ new.isEnum /\ new.isSubType
    BY DEF new
  <2>5. Completed' = Completed
    <3>1. \A n \in DOMAIN dataTypes :
            (\A i \in DOMAIN calls : calls[i].node # n) <=> (\A i \in DOMAIN calls' : calls'[i].node # n)
      <4> SUFFICES ASSUME NEW n \in DOMAIN dataTypes
                   PROVE (\A i \in DOMAIN calls : calls[i].node # n)
                            <=> (\A i \in DOMAIN calls' : calls'[i].node # n)
        OBVIOUS
      <4>1. n # t /\ \A i \in DOMAIN calls' : i \in DOMAIN calls \/ i = Len(calls) + 1
        BY <1>4, <2>3
      <4>2. \A i \in DOMAIN calls : i \in DOMAIN calls'
        BY <1>4, <2>3
      <4> QED
        BY <1>4, <2>3, <2>4, <4>1, <4>2
    <3>2. \E i \in DOMAIN calls' : calls'[i].node = t
      BY <1>4, <2>3, <2>4
    <3> QED
      BY <1>2, <1>3, <3>1, <3>2 DEF Completed
  <2>6. ASSUME NEW i \in DOMAIN calls' PROVE calls'[i].node \in DOMAIN dataTypes'
    <3>1. CASE i \in 1 .. Len(calls)
      BY <1>2, <1>4, <2>3, <3>1
    <3>2. CASE i = Len(calls) + 1
      BY <1>2, <2>3, <2>4, <3>2
    <3> QED
      BY <1>4, <2>3, <3>1, <3>2
  <2>7. ASSUME NEW i \in DOMAIN calls', NEW j \in DOMAIN calls', i < j
        PROVE  calls'[i].node # calls'[j].node /\ calls'[j].node \in Below(calls'[i].node)
    <3>1. i \in 1 .. Len(calls) /\ calls'[i] = calls[i]
      BY <1>4, <2>3, <2>7
    <3>2. CASE j \in 1 .. Len(calls)
      <4>1. calls[i].node \in nodes
        BY <1>4, <3>1 DEF Building, AllDataTypes
      <4> QED
        BY <1>4, <2>3, <2>7, <3>1, <3>2, <4>1 DEF Building, CallsOK
    <3>3. CASE j = Len(calls) + 1
      <4>1. calls'[j].node = t
        BY <2>3, <2>4, <3>3
      <4>2. calls # <<>>
        BY <1>4, <3>1, EmptySeq
      <4>3. t \in DependsOn(Top.node) /\ Top.node \in nodes
        BY <4>2, TopFacts
      <4>4. DependsOn(Top.node) \subseteq Below(Top.node)
        BY <4>3, BelowFacts DEF Ready
      <4>5. CASE i = Len(calls)
        BY <1>4, <3>1, <4>1, <4>3, <4>4, <4>5 DEF Top
      <4>6. CASE i # Len(calls)
        <5>1. Top.node \in Below(calls[i].node)
          BY <1>4, <3>1, <4>2, <4>6, TopFacts
        <5>2. calls[i].node \in nodes
          BY <1>4, <3>1, ElementOfSeq DEF Building, AllDataTypes
        <5>3. DependsOn(Top.node) \subseteq Below(calls[i].node)
          BY <5>1, <5>2, BelowFacts DEF Ready
        <5> QED
          BY <1>4, <3>1, <4>1, <4>3, <5>3
      <4> QED
        BY <4>5, <4>6
    <3> QED
      BY <1>4, <2>3, <3>2, <3>3
  <2>8. CallsOK'
    <3>1. \A n : Below(n)' = Below(n)
      BY <1>1
    <3>2. \A i, j \in DOMAIN calls' : i < j => calls'[i].node # calls'[j].node
      BY <2>7
    <3>3. \A n \in nodes' : \A i, j \in DOMAIN calls' :
            i < j /\ calls'[i].node = n => calls'[j].node \in Below(n)'
      BY <2>7, <3>1
    <3>4. calls' \in Seq(Frames')
      BY <1>1, <2>3
    <3> QED
      BY <2>6, <3>2, <3>3, <3>4 DEF CallsOK
  <2>9. PartsUsed(new)'
    <3>1. \A j : j \notin 1 .. new.next - 1
      BY <2>4
    <3>2. SupertypesUsed(new)'
      BY <1>2, <2>1, <2>4, <3>1, EmptyFacts DEF SupertypesUsed, Encodable, Encoding
    <3>3. CASE heap[t].definition # NoDefinition
      <4>1. Len(heap[t].definition) \in Nat
        BY <3>3, SequenceFacts DEF Ready
      <4>2. new.next <= Len(heap'[new.node].definition) + 1
        BY <1>1, <2>4, <4>1
      <4> QED
        BY <1>1, <1>7, <2>4, <3>1, <3>3, <4>2 DEF PartsUsed, FieldsUsed
    <3> QED
      BY <1>1, <1>7, <2>4, <3>2, <3>3 DEF PartsUsed
  <2>10. ASSUME NEW c \in Range(calls') PROVE PartsUsed(c)'
    <3>1. CASE c = new
      BY <2>9, <3>1
    <3>2. CASE c # new
      <4>1. c \in Range(calls) /\ c.node \in DOMAIN dataTypes
        <5>1. PICK i \in DOMAIN calls' : c = calls'[i]
          BY DEF Range
        <5>2. i \in 1 .. Len(calls)
          BY <1>4, <2>3, <3>2, <5>1
        <5> QED
          BY <1>4, <2>3, <5>1, <5>2 DEF Range
      <4> QED
        BY <1>2, <2>5, <4>1, PartsStay DEF Building
    <3> QED
      BY <3>1, <3>2
  <2>11. ASSUME NEW n \in Completed' PROVE (n \in Below(n) \/ Traceable(Completed, n))'
    BY <2>5, CompletedStay DEF Building
  <2> QED
    BY <1>5, <2>8, <2>10, <2>11 DEF Building
<1> QED
  BY <1>6, <1>7

(* The call on top goes on: nothing is completed, and only the rule of its *)
(* type may change.                                                        *)
LEMMA Continues ==
  ASSUME Building, calls # <<>>, NEW frame, frame.node = Top.node, frame \in Frames,
         calls' = [calls EXCEPT ![Len(calls)] = frame],
         dataTypes' = dataTypes \/ \E ok, enc : dataTypes' = Put(Top.node, ok, enc)
  PROVE  /\ calls' \in Seq(Frames) /\ DOMAIN calls' = DOMAIN calls
         /\ \A i \in DOMAIN calls : calls'[i].node = calls[i].node
         /\ \A c \in Range(calls') : c = frame \/ (c \in Range(calls) /\ c.node # Top.node)
         /\ DOMAIN dataTypes' = DOMAIN dataTypes
         /\ \A m \in DOMAIN dataTypes \ {Top.node} : dataTypes'[m] = dataTypes[m]
         /\ Completed' = Completed
<1>1. /\ calls \in Seq(Frames) /\ Len(calls) \in DOMAIN calls /\ DOMAIN calls = 1 .. Len(calls)
      /\ Len(calls) \in Nat \ {0}
  BY TopFacts DEF Building, CallsOK
<1>2. /\ calls' \in Seq(Frames) /\ DOMAIN calls' = DOMAIN calls /\ calls'[Len(calls)] = frame
      /\ \A i \in DOMAIN calls : i # Len(calls) => calls'[i] = calls[i]
  BY <1>1, StackFacts
<1>3. \A i \in DOMAIN calls : calls'[i].node = calls[i].node
  BY <1>2 DEF Top
<1>4. ASSUME NEW c \in Range(calls') PROVE c = frame \/ (c \in Range(calls) /\ c.node # Top.node)
  <2>1. PICK i \in DOMAIN calls' : c = calls'[i]
    BY DEF Range
  <2>2. CASE i = Len(calls)
    BY <1>2, <2>1, <2>2
  <2>3. CASE i # Len(calls)
    <3>1. c = calls[i] /\ i \in 1 .. Len(calls) - 1
      BY <1>1, <1>2, <2>1, <2>3
    <3>2. c \in Range(calls) /\ c.node # Top.node
      BY <1>1, <3>1, TopFacts DEF Range
    <3> QED
      BY <3>2
  <2> QED
    BY <2>2, <2>3
<1>5. /\ DOMAIN dataTypes' = DOMAIN dataTypes
      /\ \A m \in DOMAIN dataTypes \ {Top.node} : dataTypes'[m] = dataTypes[m]
  <2>1. Top.node \in DOMAIN dataTypes
    BY TopFacts
  <2> QED
    BY <2>1 DEF Put
<1>6. Completed' = Completed
  <2> SUFFICES ASSUME NEW n \in DOMAIN dataTypes
               PROVE  /\ Encodable(n) /\ (\A i \in DOMAIN calls : calls[i].node # n)
                           <=> Encodable(n)' /\ (\A i \in DOMAIN calls' : calls'[i].node # n)
    BY <1>5 DEF Completed
  <2>1. CASE n = Top.node
    BY <1>1, <1>2, <1>3, <2>1 DEF Top
  <2>2. CASE n # Top.node
    BY <1>2, <1>3, <1>5, <2>2 DEF Encodable
  <2> QED
    BY <2>1, <2>2
<1> QED
  BY <1>2, <1>3, <1>4, <1>5, <1>6

LEMMA ContinueStep ==
  ASSUME Building, UNCHANGED <<nodeVars, linkVars>>, calls # <<>>,
         NEW frame, frame.node = Top.node, frame \in Frames,
         calls' = [calls EXCEPT ![Len(calls)] = frame],
         dataTypes' = dataTypes \/ \E ok, enc : dataTypes' = Put(Top.node, ok, enc),
         LET ok == dataTypes'[Top.node].encodable IN ok \in BOOLEAN /\ (ok \/ Top.node \notin Traced),
         PartsUsed(frame)'
  PROVE  Building'
<1>1. /\ UNCHANGED <<nodes, Frames, AllDataTypes, Traced>> /\ \A n : Below(n)' = Below(n)
  BY SameTypes
<1>2. /\ calls' \in Seq(Frames) /\ DOMAIN calls' = DOMAIN calls
      /\ \A i \in DOMAIN calls : calls'[i].node = calls[i].node
      /\ \A c \in Range(calls') : c = frame \/ (c \in Range(calls) /\ c.node # Top.node)
      /\ DOMAIN dataTypes' = DOMAIN dataTypes
      /\ \A m \in DOMAIN dataTypes \ {Top.node} : dataTypes'[m] = dataTypes[m]
      /\ Completed' = Completed
  BY Continues
<1>3. CallsOK'
  <2>1. \A n \in nodes' : \A i, j \in DOMAIN calls' :
          i < j /\ calls'[i].node = n => calls'[j].node \in Below(n)'
    BY <1>1, <1>2 DEF Building, CallsOK
  <2>2. calls' \in Seq(Frames') /\ \A i \in DOMAIN calls' : calls'[i].node \in DOMAIN dataTypes'
    BY <1>1, <1>2 DEF Building, CallsOK
  <2>3. \A i, j \in DOMAIN calls' : i < j => calls'[i].node # calls'[j].node
    BY <1>2 DEF Building, CallsOK
  <2> QED
    BY <2>1, <2>2, <2>3 DEF CallsOK
<1>4. ASSUME NEW n \in DOMAIN dataTypes' PROVE Encodable(n)' \in BOOLEAN /\ (Encodable(n)' \/ n \notin Traced')
  <2>1. CASE n = Top.node
    BY <1>1, <2>1 DEF Encodable
  <2>2. CASE n # Top.node
    BY <1>1, <1>2, <2>2 DEF Building, Encodable
  <2> QED
    BY <2>1, <2>2
<1>5. ASSUME NEW c \in Range(calls') PROVE PartsUsed(c)'
  <2>1. CASE c = frame
    BY <2>1
  <2>2. CASE c \in Range(calls) /\ c.node # Top.node
    <3>1. c.node \in DOMAIN dataTypes
      BY <2>2 DEF Building, CallsOK, Range
    <3> QED
      BY <1>2, <2>2, <3>1, PartsStay DEF Building
  <2> QED
    BY <1>2, <2>1, <2>2
<1>6. ASSUME NEW n \in Completed' PROVE (n \in Below(n) \/ Traceable(Completed, n))'
  BY <1>2, CompletedStay DEF Building
<1>7. DOMAIN dataTypes' \subseteq AllDataTypes'
  BY <1>1, <1>2 DEF Building
<1> QED
  BY <1>3, <1>4, <1>5, <1>6, <1>7 DEF Building

(* The call on top returns: its type is completed if it is encodable.      *)
LEMMA ReturnStep ==
  ASSUME Building, UNCHANGED <<nodeVars, linkVars>>, calls # <<>>,
         NEW ok \in BOOLEAN, NEW enc, Return(ok, enc), ok \/ Top.node \notin Traced,
         ok => Top.node \in Below(Top.node) \/ Traceable(Completed, Top.node)
  PROVE  Building'
<1>1. /\ UNCHANGED <<nodes, Frames, AllDataTypes, Traced>> /\ \A n : Below(n)' = Below(n)
  BY SameTypes
<1>2. /\ calls \in Seq(Frames) /\ Len(calls) \in Nat \ {0} /\ DOMAIN calls = 1 .. Len(calls)
      /\ Top.node \in DOMAIN dataTypes
      /\ \A i \in 1 .. Len(calls) - 1 : calls[i].node # Top.node
  BY TopFacts DEF Building, CallsOK
<1>3. /\ calls' \in Seq(Frames) /\ DOMAIN calls' = 1 .. Len(calls) - 1
      /\ \A i \in 1 .. Len(calls) - 1 : calls'[i] = calls[i] /\ i \in DOMAIN calls
  BY <1>2, StackFacts DEF Return
<1>4. /\ DOMAIN dataTypes' = DOMAIN dataTypes /\ dataTypes'[Top.node].encodable = ok
      /\ \A m \in DOMAIN dataTypes \ {Top.node} : dataTypes'[m] = dataTypes[m]
  <2>1. dataTypes' = Put(Top.node, ok, enc)
    BY DEF Return
  <2> QED
    BY <1>2, <2>1 DEF Put
<1>5. Completed' = Completed \cup {n \in {Top.node} : ok}
  <2> SUFFICES ASSUME NEW n \in DOMAIN dataTypes
               PROVE  n \in Completed' <=> (n \in Completed \/ (n = Top.node /\ ok))
    BY <1>2, <1>4 DEF Completed
  <2>1. n \in Completed' <=> Encodable(n)' /\ \A i \in DOMAIN calls' : calls'[i].node # n
    BY <1>4 DEF Completed
  <2>2. CASE n = Top.node
    <3>1. \A i \in DOMAIN calls' : calls'[i].node # n
      BY <1>2, <1>3, <2>2
    <3>2. n \notin Completed
      BY <1>2, <2>2 DEF Completed, Top
    <3> QED
      BY <1>4, <2>1, <2>2, <3>1, <3>2 DEF Encodable
  <2>3. CASE n # Top.node
    <3>1. \A i \in DOMAIN calls : i = Len(calls) \/ i \in DOMAIN calls'
      BY <1>2, <1>3
    <3>2. (\A i \in DOMAIN calls' : calls'[i].node # n) <=> (\A i \in DOMAIN calls : calls[i].node # n)
      BY <1>2, <1>3, <2>3, <3>1 DEF Top
    <3>3. Encodable(n)' = Encodable(n)
      BY <1>4, <2>3 DEF Encodable
    <3> QED
      BY <2>1, <2>3, <3>2, <3>3 DEF Completed
  <2> QED
    BY <2>2, <2>3
<1>6. CallsOK'
  <2>1. \A n \in nodes' : \A i, j \in DOMAIN calls' :
          i < j /\ calls'[i].node = n => calls'[j].node \in Below(n)'
    BY <1>1, <1>3 DEF Building, CallsOK
  <2>2. calls' \in Seq(Frames') /\ \A i \in DOMAIN calls' : calls'[i].node \in DOMAIN dataTypes'
    BY <1>1, <1>3, <1>4 DEF Building, CallsOK
  <2>3. \A i, j \in DOMAIN calls' : i < j => calls'[i].node # calls'[j].node
    BY <1>3 DEF Building, CallsOK
  <2> QED
    BY <2>1, <2>2, <2>3 DEF CallsOK
<1>7. ASSUME NEW n \in DOMAIN dataTypes' PROVE Encodable(n)' \in BOOLEAN /\ (Encodable(n)' \/ n \notin Traced')
  <2>1. CASE n = Top.node
    BY <1>1, <1>4, <2>1 DEF Encodable
  <2>2. CASE n # Top.node
    BY <1>1, <1>4, <2>2 DEF Building, Encodable
  <2> QED
    BY <2>1, <2>2
<1>8. ASSUME NEW c \in Range(calls') PROVE PartsUsed(c)'
  <2>1. PICK i \in 1 .. Len(calls) - 1 : c = calls[i]
    BY <1>3 DEF Range
  <2>2. c \in Range(calls) /\ c.node \in DOMAIN dataTypes /\ c.node # Top.node
    BY <1>2, <1>3, <2>1 DEF Building, CallsOK, Range
  <2> QED
    BY <1>4, <1>5, <2>2, PartsStay DEF Building
<1>9. ASSUME NEW n \in Completed' PROVE (n \in Below(n) \/ Traceable(Completed, n))'
  <2>1. n \in Below(n) \/ Traceable(Completed, n)
    BY <1>5 DEF Building
  <2> QED
    BY <1>5, <2>1, CompletedStay
<1>10. DOMAIN dataTypes' \subseteq AllDataTypes'
  BY <1>1, <1>4 DEF Building
<1> QED
  BY <1>6, <1>7, <1>8, <1>9, <1>10 DEF Building

(* What the flags of a call say at its next field.                         *)
LEMMA FieldFacts ==
  ASSUME Ready, Building, AtField
  PROVE  LET n == Top.node
             k == Top.next
             fields == heap[n].definition
         IN /\ k \in 1 .. Len(fields) /\ Len(fields) \in Nat /\ DOMAIN fields = 1 .. Len(fields)
            /\ NextField = fields[k] /\ FieldsUsed(Top)
            /\ IsEnum \in BOOLEAN /\ IsSubType \in BOOLEAN
            /\ IsEnum <=> \A j \in 1 .. k : fields[j].dataType = None
            /\ IsSubType <=> \A j \in 1 .. k : ~fields[j].value
            /\ ~IsEnum => ~IsEnumeration(n)
            /\ Inconsistent(IsEnum, IsSubType) => ~IsEnumeration(n) /\ ~IsStructure(n)
            /\ ~Inconsistent(IsEnum, IsSubType) => (IsEnum => fields[1].value)
            /\ ~Inconsistent(IsEnum, IsSubType) /\ ~IsEnum => k = 1 \/ ~Top.isEnum
<1> DEFINE n == Top.node
           k == Top.next
           fields == heap[n].definition
<1>1. /\ calls # <<>> /\ fields # NoDefinition /\ k <= Len(fields) /\ NextField = fields[k]
  BY DEF AtField, FromDefinition, NextField
<1>2. /\ n \in AllDataTypes /\ k \in Nat \ {0} /\ PartsUsed(Top)
      /\ Top.isEnum \in BOOLEAN /\ Top.isSubType \in BOOLEAN
  BY <1>1, TopFacts
<1>3. Len(fields) \in Nat /\ DOMAIN fields = 1 .. Len(fields)
      /\ \A j \in 1 .. Len(fields) : fields[j].value \in BOOLEAN
  BY <1>1, <1>2, SequenceFacts DEF Ready
<1>4. FieldsUsed(Top)
  BY <1>1, <1>2 DEF PartsUsed
<1>5. /\ Top.isEnum <=> \A j \in 1 .. k - 1 : fields[j].dataType = None
      /\ Top.isSubType <=> \A j \in 1 .. k - 1 : ~fields[j].value
      /\ k > 1 => (Top.isEnum <=> ~Top.isSubType) /\ (Top.isEnum => fields[1].value)
  BY <1>4 DEF FieldsUsed
<1>6. k \in 1 .. Len(fields) /\ 1 \in 1 .. Len(fields) /\ 1 \in 1 .. k
      /\ \A j \in 1 .. k : j \in 1 .. Len(fields)
  BY <1>1, <1>2, <1>3
<1>7. \A j \in 1 .. k : j \in 1 .. k - 1 \/ j = k
  BY <1>2
<1>8. \A j \in 1 .. k - 1 : j \in 1 .. k
  BY <1>2
<1>9. /\ IsEnum <=> Top.isEnum /\ fields[k].dataType = None
      /\ IsSubType <=> Top.isSubType /\ ~fields[k].value
      /\ IsEnum \in BOOLEAN /\ IsSubType \in BOOLEAN
  BY <1>1, <1>2 DEF IsEnum, IsSubType
<1>10. IsEnum <=> \A j \in 1 .. k : fields[j].dataType = None
  BY <1>5, <1>6, <1>7, <1>8, <1>9
<1>11. IsSubType <=> \A j \in 1 .. k : ~fields[j].value
  <2>1. k \in 1 .. k
    BY <1>6
  <2>2. IsSubType => \A j \in 1 .. k : ~fields[j].value
    BY <1>5, <1>7, <1>9
  <2>3. (\A j \in 1 .. k : ~fields[j].value) => IsSubType
    BY <1>5, <1>8, <1>9, <2>1
  <2> QED
    BY <1>9, <2>2, <2>3
<1>12. \A j \in 1 .. Len(fields) : fields[j] \in Fields(n)
  BY <1>3 DEF Fields, Range
<1>13. ~IsEnum => ~IsEnumeration(n)
  BY <1>6, <1>10, <1>12 DEF IsEnumeration
<1>14. ~IsSubType => ~IsStructure(n)
  BY <1>6, <1>11, <1>12 DEF IsStructure
<1>15. k = 1 => Top.isEnum /\ Top.isSubType
  BY <1>5
<1>16. CASE IsEnum /\ IsSubType
  <2>1. k = 1
    BY <1>2, <1>5, <1>9, <1>16
  <2>2. fields[1].dataType = None /\ ~fields[1].value /\ fields # <<>>
    BY <1>6, <1>9, <1>16, <2>1, EmptySeq
  <2>3. ~IsEnumeration(n) /\ ~IsStructure(n)
    BY <1>6, <1>12, <2>2 DEF IsEnumeration, IsStructure
  <2> QED
    BY <1>1, <1>3, <1>4, <1>6, <1>9, <1>10, <1>11, <1>16, <2>3 DEF Inconsistent
<1>17. CASE ~IsEnum /\ ~IsSubType
  BY <1>1, <1>3, <1>4, <1>6, <1>9, <1>10, <1>11, <1>13, <1>14, <1>17 DEF Inconsistent
<1>18. CASE IsEnum /\ ~IsSubType
  <2>1. fields[1].value
    <3>1. CASE k = 1
      BY <1>9, <1>15, <1>18, <3>1
    <3>2. CASE k > 1
      BY <1>5, <1>9, <1>18, <3>2
    <3> QED
      BY <1>2, <3>1, <3>2
  <2> QED
    BY <1>1, <1>3, <1>4, <1>6, <1>9, <1>10, <1>11, <1>18, <2>1 DEF Inconsistent
<1>19. CASE ~IsEnum /\ IsSubType
  <2>1. k = 1 \/ ~Top.isEnum
    BY <1>2, <1>5, <1>9, <1>19
  <2> QED
    BY <1>1, <1>3, <1>4, <1>6, <1>9, <1>10, <1>11, <1>13, <1>19, <2>1 DEF Inconsistent
<1> QED
  BY <1>9, <1>16, <1>17, <1>18, <1>19

\* a type that cannot be traced with those that are is not traced
LEMMA NotTraced ==
  ASSUME Ready, NEW n \in AllDataTypes, ~Traceable(Traced, n)
  PROVE  n \notin Traced
BY TracedFacts DEF Ready

(* A type on top that uses one that is not completed is on a cycle.        *)
LEMMA UsedFacts ==
  ASSUME Ready, Building, calls # <<>>, NEW t \in DOMAIN dataTypes,
         Encodable(t), t \in DependsOn(Top.node)
  PROVE  Used(Top, t)
<1> DEFINE n == Top.node
<1>1. n \in nodes /\ n \in DOMAIN dataTypes
  BY TopFacts
<1>2. t \in Below(n)
  BY <1>1, BelowFacts DEF Ready
<1>3. CASE t \in Completed
  BY <1>3 DEF Used
<1>4. CASE t = n
  BY <1>2, <1>4 DEF Used
<1>5. CASE t \notin Completed /\ t # n
  <2>1. PICK i \in DOMAIN calls : calls[i].node = t
    BY <1>5 DEF Completed
  <2>2. n \in Below(t)
    <3>1. i \in 1 .. Len(calls) - 1
      BY <1>5, <2>1, TopFacts DEF Top
    <3> QED
      BY <2>1, <3>1, TopFacts
  <2>3. Below(t) \subseteq Below(n)
    BY <1>1, <1>2, BelowFacts DEF Ready
  <2> QED
    BY <2>2, <2>3 DEF Used
<1> QED
  BY <1>3, <1>4, <1>5

(* The next reference of a type without a definition.                      *)
LEMMA ReferenceFacts ==
  ASSUME Ready, Building, FromSupertypes
  PROVE  LET n == Top.node
             list == ReferenceList(n)
         IN /\ calls # <<>> /\ n \in AllDataTypes /\ heap[n].definition = NoDefinition
            /\ SupertypesUsed(Top) /\ DependsOn(n) = Supertypes(n)
            /\ Len(list) \in Nat /\ Top.next \in Nat \ {0}
            /\ \A j \in 1 .. Len(list) : HasSupertype(list[j]) =>
                 Target(list[j]) \in AllDataTypes /\ Target(list[j]) \in Supertypes(n)
            /\ \A t \in Supertypes(n) : \E j \in 1 .. Len(list) : HasSupertype(list[j]) /\ Target(list[j]) = t
            /\ Supertypes(n) \subseteq Traced \/ n \notin Traced
            /\ Supertypes(n) # {} \/ n \notin Traced
<1> DEFINE n == Top.node
           list == ReferenceList(n)
<1>1. calls # <<>> /\ heap[n].definition = NoDefinition
  BY DEF FromSupertypes
<1>2. /\ n \in AllDataTypes /\ n \in nodes /\ ~IsBuiltin(n) /\ PartsUsed(Top)
      /\ Top.next \in Nat \ {0}
  BY <1>1, TopFacts
<1>3. SupertypesUsed(Top)
  BY <1>1, <1>2 DEF PartsUsed
<1>4. DependsOn(n) = Supertypes(n)
  BY <1>1, <1>2 DEF DependsOn
<1>5. /\ Len(list) \in Nat
      /\ \A i \in 1 .. Len(list) : list[i] \in references[n]
      /\ \A r \in references[n] : \E i \in 1 .. Len(list) : list[i] = r
  BY <1>2, ReferenceListFacts DEF Ready
<1> HIDE DEF list
<1>6. ASSUME NEW j \in 1 .. Len(list), HasSupertype(list[j])
      PROVE  Target(list[j]) \in AllDataTypes /\ Target(list[j]) \in Supertypes(n)
  <2>1. Target(list[j]) \in nodes
    BY <1>2, <1>5 DEF Ready, Graph
  <2>2. heap[Target(list[j])].tag = "datatype"
    BY <1>6 DEF HasSupertype, Target
  <2> QED
    BY <1>5, <1>6, <2>1, <2>2 DEF AllDataTypes, Supertypes, Target
<1>7. ASSUME NEW t \in Supertypes(n)
      PROVE  \E j \in 1 .. Len(list) : HasSupertype(list[j]) /\ Target(list[j]) = t
  BY <1>5 DEF Supertypes, Target
<1>8. n \in Traced => Supertypes(n) # {} /\ Supertypes(n) \subseteq Traced
  BY <1>1, <1>2, NotTraced DEF Traceable
<1> QED
  BY <1>1, <1>2, <1>3, <1>4, <1>5, <1>6, <1>7, <1>8 DEF list

\* the frame with which a call goes on
LEMMA NextFrame ==
  ASSUME Building, calls # <<>>
  PROVE  \E frame \in Frames :
           /\ frame = [Top EXCEPT !.next = @ + 1]
           /\ frame.node = Top.node /\ frame.next = Top.next + 1
<1> DEFINE frame == [Top EXCEPT !.next = @ + 1]
<1>1. Top \in Frames
  BY TopFacts
<1>2. frame \in Frames /\ frame.node = Top.node /\ frame.next = Top.next + 1
  BY <1>1 DEF Frames
<1> QED
  BY <1>2

LEMMA SkipStep ==
  ASSUME Ready, Building, SkipReference
  PROVE  Building'
<1> DEFINE n == Top.node
           list == ReferenceList(n)
           k == Top.next
<1>1. /\ UNCHANGED <<nodeVars, linkVars>> /\ FromSupertypes /\ calls # <<>>
      /\ Continue(Top) /\ dataTypes' = dataTypes /\ ~HasSupertype(list[k])
  BY DEF SkipReference, Unmoved, AtReference, NextReference, FromSupertypes
<1>7. PICK frame \in Frames : /\ frame = [Top EXCEPT !.next = @ + 1]
                              /\ frame.node = n /\ frame.next = k + 1
  BY <1>1, NextFrame
<1>2. k \in Nat \ {0} /\ calls' = [calls EXCEPT ![Len(calls)] = frame]
  BY <1>1, <1>7, TopFacts DEF Continue
<1>3. PartsUsed(frame)
  <2>1. SupertypesUsed(Top) /\ heap[n].definition = NoDefinition /\ ~IsBuiltin(n)
    BY <1>1, ReferenceFacts, TopFacts
  <2>2. \A j \in 1 .. frame.next - 1 : j \in 1 .. k - 1 \/ j = k
    BY <1>2, <1>7
  <2>3. \A j \in 1 .. k - 1 : j \in 1 .. frame.next - 1
    BY <1>2, <1>7
  <2>4. \A t : Used(Top, t) => Used(frame, t)
    BY <1>7 DEF Used
  <2>5. SupertypesUsed(frame)
    BY <1>1, <1>2, <1>7, <2>1, <2>2, <2>3, <2>4 DEF SupertypesUsed
  <2> QED
    BY <1>7, <2>1, <2>5 DEF PartsUsed
<1>4. Completed' = Completed
  BY <1>1, <1>2, <1>7, Continues
<1>5. PartsUsed(frame)'
  BY <1>1, <1>2, <1>7, <1>3, <1>4, PartsStay
<1>6. LET ok == dataTypes'[n].encodable IN ok \in BOOLEAN /\ (ok \/ n \notin Traced)
  BY <1>1, TopFacts DEF Building, Encodable
<1> QED
  BY <1>1, <1>2, <1>7, <1>5, <1>6, ContinueStep

LEMMA UseSupertypeStep ==
  ASSUME Ready, Building, UseSupertype
  PROVE  Building'
<1> DEFINE n == Top.node
           list == ReferenceList(n)
           k == Top.next
           t == Supertype
           part == <<Name(heap[n].name), List(Encoding(t)), Rank>>
<1>1. /\ UNCHANGED <<nodeVars, linkVars>> /\ FromSupertypes /\ calls # <<>>
      /\ HasSupertype(list[k]) /\ t \in DOMAIN dataTypes /\ t = Target(list[k]) /\ k <= Len(list)
  BY DEF UseSupertype, Unmoved, AtReference, NextReference, FromSupertypes, Supertype, Target
<1>6. PICK frame \in Frames : /\ frame = [Top EXCEPT !.next = @ + 1]
                              /\ frame.node = n /\ frame.next = k + 1
  BY <1>1, NextFrame
<1>2. k \in 1 .. Len(list) /\ n \in DOMAIN dataTypes /\ ~IsBuiltin(n)
  BY <1>1, TopFacts, ReferenceFacts
<1>3. /\ SupertypesUsed(Top) /\ heap[n].definition = NoDefinition
      /\ t \in Supertypes(n) /\ t \in DependsOn(n) /\ (Supertypes(n) \subseteq Traced \/ n \notin Traced)
  BY <1>1, <1>2, ReferenceFacts
<1>4. CASE Encodable(t)
  <2>1. /\ calls' = [calls EXCEPT ![Len(calls)] = frame]
        /\ dataTypes' = Put(n, Encodable(n), Encoding(n) \o part)
    BY <1>4, <1>6 DEF UseSupertype, Continue
  <2>2. Encodable(n) /\ IsSequence(Encoding(n))
    BY <1>3 DEF SupertypesUsed
  <2>3. IsSequence(Encoding(n) \o part) /\ Encoding(n) \o part # <<>>
    <3>1. IsSequence(part) /\ Len(part) = 3
      <4> DEFINE a == Name(heap[n].name)
                 b == List(Encoding(t))
      <4> HIDE DEF a, b
      <4>1. <<a, b, Rank>> \in Seq({a, b, Rank}) /\ Len(<<a, b, Rank>>) = 3
        OBVIOUS
      <4>2. IsSequence(<<a, b, Rank>>)
        BY <4>1, SeqOfRange DEF IsSequence
      <4> QED
        BY <4>1, <4>2 DEF a, b
    <3> HIDE DEF part
    <3> DEFINE enc == Encoding(n)
    <3>2. IsSequence(enc)
      BY <2>2
    <3> HIDE DEF enc
    <3>3. Len(enc) \in Nat
      BY <3>2, SequenceFacts
    <3>4. IsSequence(enc \o part) /\ Len(enc \o part) = Len(enc) + Len(part)
      BY <3>1, <3>2, ConcatFacts, Zenon
    <3>5. Len(enc \o part) # Len(<<>>)
      BY <3>1, <3>3, <3>4, EmptyFacts
    <3> QED
      BY <3>4, <3>5 DEF enc
  <2> HIDE DEF part
  <2>4. dataTypes'[n].encodable /\ dataTypes'[n].encoding = Encoding(n) \o part
    BY <2>1, <2>2 DEF Put
  <2>5. Completed' = Completed
    BY <1>1, <1>2, <1>6, <2>1, Continues
  <2>6. Used(Top, t)
    BY <1>1, <1>3, <1>4, UsedFacts
  <2>7. PartsUsed(frame)'
    <3>1. \A j \in 1 .. frame.next - 1 : j \in 1 .. k - 1 \/ j = k
      BY <1>2, <1>6
    <3>2. k \in 1 .. frame.next - 1
      BY <1>2, <1>6
    <3>3. /\ \A m : UNCHANGED <<ReferenceList(m), Target(m), Below(m)>> /\ HasSupertype(m)' = HasSupertype(m)
                    /\ IsBuiltin(m)' = IsBuiltin(m)
          /\ heap' = heap
      BY <1>1, SameTypes
    <3>5. \A j \in 1 .. frame.next - 1 : HasSupertype(list[j]) => Used(Top, Target(list[j]))
      BY <1>1, <1>3, <2>6, <3>1 DEF SupertypesUsed
    <3>6. SupertypesUsed(frame)'
      <4>1. /\ ReferenceList(frame.node)' = list /\ Encodable(frame.node)'
            /\ Encoding(frame.node)' = Encoding(n) \o part
        BY <1>6, <2>4, <3>3 DEF Encodable, Encoding
      <4>2. \A j \in 1 .. frame.next - 1 : HasSupertype(list[j]) =>
              Target(list[j]) \in Completed' \/ frame.node \in Below(frame.node)'
        BY <1>6, <2>5, <3>3, <3>5 DEF Used
      <4>3. k <= Len(list) /\ HasSupertype(list[k])
        BY <1>1
      <4> QED
        BY <2>3, <3>2, <3>3, <4>1, <4>2, <4>3 DEF SupertypesUsed, Used
    <3> QED
      BY <1>2, <1>3, <1>6, <3>3, <3>6 DEF PartsUsed
  <2> QED
    BY <1>1, <1>2, <1>6, <2>1, <2>4, <2>7, ContinueStep
<1>5. CASE ~Encodable(t)
  <2>1. Return(FALSE, Encoding(n))
    BY <1>5 DEF UseSupertype
  <2>2. n \notin Traced
    BY <1>1, <1>3, <1>5 DEF Building
  <2> QED
    BY <1>1, <2>1, <2>2, ReturnStep
<1> QED
  BY <1>4, <1>5

LEMMA EndSupertypesStep ==
  ASSUME Ready, Building, EndSupertypes
  PROVE  Building'
<1> DEFINE n == Top.node
           list == ReferenceList(n)
           ok == Encodable(n) /\ Encoding(n) # <<>>
<1>1. /\ UNCHANGED <<nodeVars, linkVars>> /\ FromSupertypes /\ calls # <<>>
      /\ Top.next > Len(list) /\ Return(ok, Encoding(n))
  BY DEF EndSupertypes, Unmoved, FromSupertypes
<1>2. /\ SupertypesUsed(Top) /\ heap[n].definition = NoDefinition /\ n \in AllDataTypes
      /\ Len(list) \in Nat /\ Top.next \in Nat \ {0}
      /\ \A j \in 1 .. Len(list) : HasSupertype(list[j]) => Target(list[j]) \in Supertypes(n)
      /\ \A t \in Supertypes(n) : \E j \in 1 .. Len(list) : HasSupertype(list[j]) /\ Target(list[j]) = t
      /\ (Supertypes(n) # {} \/ n \notin Traced)
  BY <1>1, ReferenceFacts
<1>3. \A j \in 1 .. Len(list) : j \in 1 .. Top.next - 1
  BY <1>1, <1>2
<1>4. /\ Encodable(n)
      /\ \A t \in Supertypes(n) : Encoding(n) # <<>> /\ Used(Top, t)
      /\ Encoding(n) # <<>> => Supertypes(n) # {}
  BY <1>2, <1>3 DEF SupertypesUsed
<1>5. ok \/ n \notin Traced
  BY <1>2, <1>4
<1>6. ok => n \in Below(n) \/ Traceable(Completed, n)
  BY <1>2, <1>4 DEF Used, Traceable
<1>7. ok \in BOOLEAN
  BY <1>4
<1> HIDE DEF ok
<1> QED
  BY <1>1, <1>5, <1>6, <1>7, ReturnStep

LEMMA NextFieldFrame ==
  ASSUME Ready, Building, AtField, ContinueFields
  PROVE  \E frame \in Frames :
           /\ calls' = [calls EXCEPT ![Len(calls)] = frame]
           /\ frame.node = Top.node /\ frame.next = Top.next + 1
           /\ frame.isEnum = IsEnum /\ frame.isSubType = IsSubType
<1> DEFINE flagged == [Top EXCEPT !.isEnum = IsEnum, !.isSubType = IsSubType]
           frame == [flagged EXCEPT !.next = @ + 1]
<1>1. Top \in Frames /\ IsEnum \in BOOLEAN /\ IsSubType \in BOOLEAN
  BY TopFacts, FieldFacts DEF AtField, FromDefinition
<1>2. calls' = [calls EXCEPT ![Len(calls)] = frame]
  BY DEF ContinueFields, Continue
<1>3. /\ flagged \in Frames /\ flagged.node = Top.node /\ flagged.next = Top.next
      /\ flagged.isEnum = IsEnum /\ flagged.isSubType = IsSubType
  BY <1>1 DEF Frames
<1> HIDE DEF flagged
<1>4. /\ frame \in Frames /\ frame.node = Top.node /\ frame.next = Top.next + 1
      /\ frame.isEnum = IsEnum /\ frame.isSubType = IsSubType
  BY <1>3 DEF Frames
<1> HIDE DEF frame
<1> QED
  BY <1>2, <1>4

(* The loop over the fields goes on: the field was one of the kind the     *)
(* definition has, and its type, if it has one, was used or not there.     *)
LEMMA FieldStep ==
  ASSUME Ready, Building, AtField, ~Inconsistent(IsEnum, IsSubType), ContinueFields,
         UNCHANGED <<nodeVars, linkVars>>,
         dataTypes' = dataTypes \/ \E ok, enc : dataTypes' = Put(Top.node, ok, enc),
         LET ok == dataTypes'[Top.node].encodable
         IN /\ ok \in BOOLEAN /\ (ok \/ Top.node \notin Traced) /\ (ok => Encodable(Top.node))
            /\ ok /\ ~IsEnum => FieldType # 0 /\ Used(Top, FieldType)
  PROVE  Building'
<1> DEFINE n == Top.node
           k == Top.next
           fields == heap[n].definition
<1>1. PICK frame \in Frames :
        /\ calls' = [calls EXCEPT ![Len(calls)] = frame]
        /\ frame.node = n /\ frame.next = k + 1
        /\ frame.isEnum = IsEnum /\ frame.isSubType = IsSubType
  BY NextFieldFrame
<1>2. calls # <<>> /\ fields # NoDefinition
  BY DEF AtField, FromDefinition
<1>3. /\ k \in 1 .. Len(fields) /\ Len(fields) \in Nat
      /\ NextField = fields[k] /\ FieldsUsed(Top)
      /\ IsEnum \in BOOLEAN /\ IsSubType \in BOOLEAN
      /\ IsEnum <=> \A j \in 1 .. k : fields[j].dataType = None
      /\ IsSubType <=> \A j \in 1 .. k : ~fields[j].value
      /\ IsEnum => fields[1].value
      /\ ~IsEnum => k = 1 \/ ~Top.isEnum
  BY FieldFacts
<1>4. Completed' = Completed
  BY <1>1, <1>2, Continues
<1>5. /\ heap' = heap
      /\ \A m : UNCHANGED <<NodeByIdString(m), Below(m)>> /\ IsBuiltin(m)' = IsBuiltin(m)
  BY SameTypes
<1>6. 1 .. frame.next - 1 = 1 .. k /\ frame.next <= Len(fields) + 1
  BY <1>1, <1>3
<1>7. IsEnum <=> ~IsSubType
  BY <1>3 DEF Inconsistent
<1>8. ASSUME ~IsEnum, dataTypes'[n].encodable, NEW j \in 1 .. k
      PROVE  NodeByIdString(fields[j].dataType) # 0 /\ Used(Top, NodeByIdString(fields[j].dataType))
  <2>1. CASE j = k
    BY <1>3, <1>8, <2>1 DEF FieldType
  <2>2. CASE j # k
    <3>1. j \in 1 .. k - 1 /\ ~Top.isEnum /\ Encodable(n)
      BY <1>3, <1>8, <2>2
    <3> QED
      BY <1>3, <3>1 DEF FieldsUsed
  <2> QED
    BY <2>1, <2>2
<1>9. ASSUME ~IsEnum, dataTypes'[n].encodable, NEW j \in 1 .. k
      PROVE  LET t == NodeByIdString(fields[j].dataType)
             IN t # 0 /\ (t \in Completed' \/ n \in Below(n))
  BY <1>4, <1>8, <1>9 DEF Used
<1>10. PartsUsed(frame)'
  <2>1. Encodable(frame.node)' = dataTypes'[n].encodable /\ heap'[frame.node].definition = fields
    BY <1>1, <1>5 DEF Encodable
  <2>2. FieldsUsed(frame)'
    BY <1>1, <1>3, <1>5, <1>6, <1>7, <1>9, <2>1 DEF FieldsUsed, Used
  <2> QED
    BY <1>1, <1>2, <1>5, <2>1, <2>2, TopFacts DEF PartsUsed
<1> QED
  BY <1>1, <1>2, <1>10, ContinueStep

LEMMA InconsistentFieldStep ==
  ASSUME Ready, Building, InconsistentField
  PROVE  Building'
<1>1. /\ AtField /\ UNCHANGED <<nodeVars, linkVars>> /\ Inconsistent(IsEnum, IsSubType)
      /\ calls # <<>> /\ heap[Top.node].definition # NoDefinition
  BY DEF InconsistentField, Unmoved, AtField, FromDefinition
<1>2. PICK enc : Return(FALSE, enc)
  BY DEF InconsistentField, ReturnFields
<1>3. ~Traceable(Traced, Top.node)
  BY <1>1, FieldFacts, TopFacts DEF Traceable
<1>4. Top.node \notin Traced
  BY <1>1, <1>3, TopFacts, NotTraced
<1> QED
  BY <1>1, <1>2, <1>4, ReturnStep

LEMMA EnumFieldStep ==
  ASSUME Ready, Building, EnumField
  PROVE  Building'
<1>1. /\ AtField /\ UNCHANGED <<nodeVars, linkVars>> /\ ~Inconsistent(IsEnum, IsSubType)
      /\ calls # <<>> /\ IsEnum /\ ContinueFields /\ dataTypes' = dataTypes
  BY DEF EnumField, Unmoved, AtField, FromDefinition
<1>2. LET ok == dataTypes'[Top.node].encodable
      IN /\ ok \in BOOLEAN /\ (ok \/ Top.node \notin Traced) /\ (ok => Encodable(Top.node))
  BY <1>1, TopFacts DEF Building, Encodable
<1> QED
  BY <1>1, <1>2, FieldStep

(* The type of a field of a structure.                                     *)
LEMMA TypeFacts ==
  ASSUME Ready, Building, AtTypedField
  PROVE  /\ AtField /\ ~Inconsistent(IsEnum, IsSubType) /\ ~IsEnum /\ calls # <<>>
         /\ Top.node \in Traced => FieldType \in Traced
         /\ FieldType # 0 => FieldType \in nodes /\ FieldType \in DependsOn(Top.node)
<1> DEFINE n == Top.node
           k == Top.next
           fields == heap[n].definition
<1>1. /\ AtField /\ ~Inconsistent(IsEnum, IsSubType) /\ ~IsEnum /\ calls # <<>>
      /\ fields # NoDefinition
  BY DEF AtTypedField, AtField, FromDefinition
<1>2. n \in AllDataTypes /\ ~IsBuiltin(n)
  BY <1>1, TopFacts
<1>3. NextField \in Fields(n) /\ ~IsEnumeration(n)
  BY <1>1, FieldFacts DEF Fields, Range
<1>4. n \in Traced => FieldType \in Traced
  BY <1>1, <1>2, <1>3, NotTraced DEF Traceable, FieldType
<1>5. FieldType # 0 => FieldType \in nodes /\ FieldType \in DependsOn(n)
  BY <1>1, <1>2, <1>3, ByIdFacts DEF Ready, DependsOn, FieldType
<1> QED
  BY <1>1, <1>4, <1>5

LEMMA UnknownFieldStep ==
  ASSUME Ready, Building, UnknownField
  PROVE  Building'
<1>1. /\ AtTypedField /\ UNCHANGED <<nodeVars, linkVars>> /\ FieldType = 0
      /\ ContinueFields /\ dataTypes' = Put(Top.node, FALSE, Encoding(Top.node))
  BY DEF UnknownField, Unmoved
<1>2. 0 \notin Traced
  BY TracedFacts, GraphFacts, SequenceFacts DEF Ready, Graph, Shape, NamespaceTypeOK, AllDataTypes
<1>3. Top.node \notin Traced /\ ~dataTypes'[Top.node].encodable
  BY <1>1, <1>2, TypeFacts DEF Put
<1>4. LET ok == dataTypes'[Top.node].encodable IN ok = FALSE
  BY <1>1 DEF Put
<1> QED
  BY <1>1, <1>3, <1>4, TypeFacts, FieldStep

LEMMA UseFieldTypeStep ==
  ASSUME Ready, Building, UseFieldType
  PROVE  Building'
<1> DEFINE n == Top.node
           t == FieldType
<1>1. AtTypedField /\ UNCHANGED <<nodeVars, linkVars>> /\ t \in DOMAIN dataTypes
  BY DEF UseFieldType, Unmoved
<1>2. t # 0
  <2>1. t \in nodes
    BY <1>1 DEF Building, AllDataTypes
  <2> QED
    BY <2>1, SequenceFacts DEF Ready, Graph, Shape, NamespaceTypeOK
<1>3. calls # <<>> /\ t \in DependsOn(n) /\ (n \in Traced => t \in Traced)
  BY <1>1, <1>2, TypeFacts
<1>4. CASE Encodable(t)
  <2>1. ContinueFields /\ \E enc : dataTypes' = Put(n, Encodable(n), enc)
    BY <1>4 DEF UseFieldType
  <2>2. LET ok == dataTypes'[n].encodable
        IN ok = Encodable(n) /\ ok \in BOOLEAN /\ (ok \/ n \notin Traced)
    BY <1>3, <2>1, TopFacts DEF Put, Building
  <2>3. Used(Top, t)
    BY <1>1, <1>3, <1>4, UsedFacts
  <2> QED
    BY <1>1, <1>2, <2>1, <2>2, <2>3, TypeFacts, FieldStep
<1>5. CASE ~Encodable(t)
  <2>1. PICK enc : Return(FALSE, enc)
    BY <1>5 DEF UseFieldType, ReturnFields
  <2>2. n \notin Traced
    BY <1>1, <1>3, <1>5 DEF Building
  <2> QED
    BY <1>1, <1>3, <2>1, <2>2, ReturnStep
<1> QED
  BY <1>4, <1>5

(* After the last field an encodable type is an enumeration, or a          *)
(* structure of types that were used.                                      *)
LEMMA EndFieldsStep ==
  ASSUME Ready, Building, EndFields
  PROVE  Building'
<1> DEFINE n == Top.node
           k == Top.next
           fields == heap[n].definition
<1>1. /\ UNCHANGED <<nodeVars, linkVars>> /\ calls # <<>> /\ fields # NoDefinition
      /\ k > Len(fields)
  BY DEF EndFields, Unmoved, FromDefinition
<1>2. PICK enc : Return(Encodable(n), enc)
  BY DEF EndFields, ReturnFields
<1>3. /\ n \in AllDataTypes /\ n \in DOMAIN dataTypes /\ k \in Nat \ {0} /\ PartsUsed(Top)
      /\ Top.isEnum \in BOOLEAN /\ Top.isSubType \in BOOLEAN
  BY <1>1, TopFacts
<1>4. Encodable(n) \in BOOLEAN /\ (Encodable(n) \/ n \notin Traced)
  BY <1>3 DEF Building
<1>5. /\ Len(fields) \in Nat /\ DOMAIN fields = 1 .. Len(fields) /\ FieldsUsed(Top)
  BY <1>1, <1>3, SequenceFacts DEF Ready, PartsUsed
<1>6. \A f \in Fields(n) : \E j \in 1 .. k - 1 : f = fields[j]
  BY <1>1, <1>3, <1>5 DEF Fields, Range
<1>7. CASE Top.isEnum
  <2>1. \A f \in Fields(n) : f.dataType = None
    BY <1>5, <1>6, <1>7 DEF FieldsUsed
  <2>2. fields # <<>> => fields[1].value
    <3>1. k = 1 => Len(fields) = 0
      BY <1>1, <1>5
    <3>2. Len(fields) = 0 => fields = <<>>
      BY <1>1, <1>3, EmptySeq DEF Ready, IsSequence
    <3>3. k > 1 => fields[1].value
      BY <1>5, <1>7 DEF FieldsUsed
    <3> QED
      BY <1>3, <3>1, <3>2, <3>3
  <2> QED
    BY <1>1, <1>2, <1>4, <2>1, <2>2, ReturnStep DEF IsEnumeration, Traceable
<1>8. CASE ~Top.isEnum /\ Encodable(n)
  <2>1. \A j \in 1 .. k - 1 :
          NodeByIdString(fields[j].dataType) # 0 /\ Used(Top, NodeByIdString(fields[j].dataType))
    BY <1>5, <1>8 DEF FieldsUsed
  <2>2. Top.isSubType
    <3>1. k > 1
      BY <1>3, <1>5, <1>8 DEF FieldsUsed
    <3> QED
      BY <1>3, <1>5, <1>8, <3>1 DEF FieldsUsed
  <2>3. \A j \in 1 .. k - 1 : ~fields[j].value
    BY <1>5, <2>2 DEF FieldsUsed
  <2>4. IsStructure(n)
    BY <1>6, <2>1, <2>3 DEF IsStructure, Ready
  <2>5. n \in Below(n) \/ \A f \in Fields(n) : NodeByIdString(f.dataType) \in Completed
    BY <1>6, <2>1 DEF Used
  <2>6. n \in Below(n) \/ Traceable(Completed, n)
    BY <1>1, <2>4, <2>5 DEF Traceable
  <2> QED
    BY <1>1, <1>2, <1>4, <2>6, ReturnStep
<1>9. CASE ~Encodable(n)
  BY <1>1, <1>2, <1>4, <1>9, ReturnStep
<1> QED
  BY <1>3, <1>7, <1>8, <1>9

(* Steps that build nothing.                                               *)
LEMMA SameBuilding ==
  ASSUME Building, UNCHANGED <<typeVars, nodeVars, linkVars>>
  PROVE  Building'
<1>1. /\ UNCHANGED <<nodes, Frames, AllDataTypes, Traced, dataTypes, calls>>
      /\ \A n : Below(n)' = Below(n)
  BY SameTypes DEF typeVars
<1>2. Completed' = Completed
  BY <1>1 DEF Completed, Encodable
<1>3. CallsOK'
  <2>1. \A n \in nodes' : \A i, j \in DOMAIN calls' :
          i < j /\ calls'[i].node = n => calls'[j].node \in Below(n)'
    BY <1>1 DEF Building, CallsOK
  <2>2. calls' \in Seq(Frames') /\ \A i \in DOMAIN calls' : calls'[i].node \in DOMAIN dataTypes'
    BY <1>1 DEF Building, CallsOK
  <2>3. \A i, j \in DOMAIN calls' : i < j => calls'[i].node # calls'[j].node
    BY <1>1 DEF Building, CallsOK
  <2> QED
    BY <2>1, <2>2, <2>3 DEF CallsOK
<1>4. \A c \in Range(calls') : PartsUsed(c)'
  BY <1>1, <1>2, PartsStay DEF Building
<1>5. \A n \in Completed' : (n \in Below(n) \/ Traceable(Completed, n))'
  BY <1>2, CompletedStay DEF Building
<1>6. \A n \in DOMAIN dataTypes' : Encodable(n)' \in BOOLEAN /\ (Encodable(n)' \/ n \notin Traced')
  BY <1>1 DEF Building, Encodable
<1>7. DOMAIN dataTypes' \subseteq AllDataTypes'
  BY <1>1 DEF Building
<1> QED
  BY <1>3, <1>4, <1>5, <1>6, <1>7 DEF Building

LEMMA NothingBuilt ==
  ASSUME dataTypes = <<>>, calls = <<>>
  PROVE  Building
<1>1. /\ DOMAIN dataTypes = {} /\ DOMAIN calls = {} /\ Range(calls) = {} /\ calls \in Seq(Frames)
  BY EmptyFacts, SequenceFacts DEF Range
<1>2. CallsOK
  BY <1>1 DEF CallsOK
<1> QED
  BY <1>1, <1>2 DEF Building, Completed

(* Every step of building keeps it, and forgets no rule.                   *)
LEMMA BuildingStep ==
  ASSUME Ready, Building, DataTypesNext
  PROVE  Building' /\ UNCHANGED <<nodeVars, linkVars>> /\ DOMAIN dataTypes \subseteq DOMAIN dataTypes'
<1>1. CASE BuildEncodingRule
  <2> DEFINE n == Following(pos)
  <2>1. UNCHANGED <<nodeVars, linkVars>> /\ calls = <<>> /\ n # 0
    BY <1>1 DEF BuildEncodingRule
  <2>2. CASE heap[n].tag = "datatype" /\ n \notin DOMAIN dataTypes
    <3>1. Call(n)
      BY <1>1, <2>2 DEF BuildEncodingRule
    <3>2. n \in nodes
      <4>1. nodes \in SUBSET Nat /\ \E m \in nodes : m > pos
        BY <2>1, GraphFacts DEF Ready, Following, NextIn
      <4>2. pos \in Nat
        BY DEF Ready, Graph, NamespaceTypeOK
      <4> QED
        BY <2>1, <4>1, <4>2, LoopStep DEF Following
    <3>3. n \in AllDataTypes
      BY <2>2, <3>2 DEF AllDataTypes
    <3> HIDE DEF n
    <3> QED
      BY <2>1, <2>2, <3>1, <3>3, CallStep DEF Call, Put
  <2>3. CASE ~(heap[n].tag = "datatype" /\ n \notin DOMAIN dataTypes)
    <3>1. UNCHANGED typeVars
      BY <1>1, <2>3 DEF BuildEncodingRule
    <3> QED
      BY <2>1, <3>1, SameBuilding DEF typeVars
  <2> QED
    BY <2>2, <2>3
<1>2. CASE EndEncode \/ FieldFails
  <2>1. UNCHANGED <<typeVars, nodeVars, linkVars>>
    BY <1>2 DEF EndEncode, FieldFails, EndLoop, Crash
  <2> QED
    BY <2>1, SameBuilding DEF typeVars
<1>3. CASE CallSupertype
  <2> DEFINE t == Supertype
  <2>1. /\ UNCHANGED <<nodeVars, linkVars>> /\ FromSupertypes /\ Call(t) /\ t \notin DOMAIN dataTypes
        /\ HasSupertype(NextReference) /\ t = Target(NextReference) /\ Top.next <= Len(ReferenceList(Top.node))
        /\ NextReference = ReferenceList(Top.node)[Top.next]
    BY <1>3 DEF CallSupertype, AtReference, Unmoved, Supertype, Target, NextReference
  <2>2. t \in AllDataTypes /\ t \in DependsOn(Top.node)
    BY <2>1, ReferenceFacts
  <2> HIDE DEF t
  <2> QED
    BY <2>1, <2>2, CallStep DEF Call, Put
<1>4. CASE CallFieldType
  <2> DEFINE t == FieldType
  <2>1. /\ UNCHANGED <<nodeVars, linkVars>> /\ AtTypedField /\ Call(t) /\ t \notin DOMAIN dataTypes
        /\ t # 0 /\ heap[t].tag = "datatype"
    BY <1>4 DEF CallFieldType, Unmoved
  <2>2. t \in AllDataTypes /\ t \in DependsOn(Top.node)
    BY <2>1, TypeFacts DEF AllDataTypes
  <2> HIDE DEF t
  <2> QED
    BY <2>1, <2>2, CallStep DEF Call, Put
<1>5. CASE SkipReference \/ UseSupertype \/ EndSupertypes
  <2>1. UNCHANGED <<nodeVars, linkVars>> /\ DOMAIN dataTypes \subseteq DOMAIN dataTypes'
    BY <1>5 DEF SkipReference, UseSupertype, EndSupertypes, Unmoved, Return, Put
  <2> QED
    BY <1>5, <2>1, SkipStep, UseSupertypeStep, EndSupertypesStep
<1>6. CASE InconsistentField \/ EnumField \/ UnknownField \/ UseFieldType \/ EndFields
  <2>1. UNCHANGED <<nodeVars, linkVars>>
    BY <1>6 DEF InconsistentField, EnumField, UnknownField, UseFieldType, EndFields, Unmoved
  <2>2. dataTypes' = dataTypes \/ \E m, ok, enc : dataTypes' = Put(m, ok, enc)
    <3>1. CASE InconsistentField \/ EndFields
      BY <3>1 DEF InconsistentField, EndFields, ReturnFields, Return
    <3>2. CASE EnumField \/ UnknownField
      BY <3>2 DEF EnumField, UnknownField
    <3>3. CASE UseFieldType
      BY <3>3 DEF UseFieldType, ReturnFields, Return
    <3> QED
      BY <1>6, <3>1, <3>2, <3>3
  <2>3. DOMAIN dataTypes \subseteq DOMAIN dataTypes'
    BY <2>2 DEF Put
  <2> QED
    BY <1>6, <2>1, <2>3, InconsistentFieldStep, EnumFieldStep, UnknownFieldStep, UseFieldTypeStep,
       EndFieldsStep
<1> QED
  BY <1>1, <1>2, <1>3, <1>4, <1>5, <1>6 DEF DataTypesNext

(* When all is built: a type that can be traced is encodable, and one that *)
(* is encodable can be traced unless it, or a type below it, is below      *)
(* itself.  Otherwise take one of those types that cannot with the fewest  *)
(* types below it: those it depends on have fewer.                         *)
LEMMA BuiltFacts ==
  ASSUME Ready, Building, calls = <<>>, DOMAIN dataTypes = AllDataTypes, NEW n \in AllDataTypes
  PROVE  /\ n \in Traced => Encodable(n)
         /\ Encodable(n) /\ (\A m \in Below(n) \cup {n} : m \notin Below(m)) => n \in Traced
<1>1. n \in Traced => Encodable(n)
  BY DEF Building
<1>2. ASSUME Encodable(n), \A m \in Below(n) \cup {n} : m \notin Below(m), n \notin Traced
      PROVE  FALSE
  <2> DEFINE S == {m \in Below(n) \cup {n} : m \in AllDataTypes /\ Encodable(m) /\ m \notin Traced}
             Size(m) == Cardinality(Below(m))
  <2>1. Completed = {m \in AllDataTypes : Encodable(m)}
    BY EmptyFacts, SequenceFacts DEF Completed
  <2>2. n \in nodes /\ Below(n) \subseteq nodes
    BY BelowFacts DEF AllDataTypes, Ready
  <2>3. ASSUME NEW m \in nodes PROVE IsFiniteSet(Below(m)) /\ Size(m) \in Nat
    <3>1. IsFiniteSet(nodes) /\ Below(m) \subseteq nodes
      BY BelowFacts, GraphFacts DEF Ready
    <3>2. IsFiniteSet(Below(m))
      BY <3>1, FS_Subset
    <3> QED
      BY <3>2, FS_CardinalityType
  <2>4. n \in S /\ S \subseteq nodes
    BY <1>2, <2>2 DEF AllDataTypes
  <2> HIDE DEF S, Size
  <2>5. PICK m \in S : \A u \in S : Size(m) <= Size(u)
    <3> DEFINE Sizes == {Size(u) : u \in S}
    <3>1. Sizes \in SUBSET Nat /\ Sizes # {}
      BY <2>3, <2>4
    <3>2. \E x \in Sizes : \A y \in Sizes : x <= y
      <4> HIDE DEF Sizes
      <4> QED
        BY <3>1, Least
    <3> QED
      BY <3>2
  <2>6. /\ m \in Below(n) \cup {n} /\ m \in AllDataTypes /\ Encodable(m) /\ m \notin Traced
        /\ m \notin Below(m) /\ m \in nodes
    BY <1>2, <2>4, <2>5 DEF S
  <2>7. Traceable(Completed, m)
    BY <2>1, <2>6 DEF Building
  <2>8. DependsOn(m) \subseteq Below(m) /\ Below(m) \subseteq Below(n)
        /\ \A t \in Below(m) : Below(t) \subseteq Below(m) /\ t \in nodes
    BY <2>2, <2>6, BelowFacts DEF Ready
  <2>9. ASSUME NEW t \in DependsOn(m), t \in Completed PROVE t \in Traced
    <3>1. t \in Below(m) /\ t \in Below(n) /\ t \in nodes /\ Below(t) \subseteq Below(m)
      BY <2>8
    <3>2. t \notin Below(t)
      BY <1>2, <3>1
    <3>3. Below(t) # Below(m)
      BY <3>1, <3>2
    <3>4. Size(t) <= Size(m) /\ Size(t) # Size(m)
      BY <2>3, <2>6, <3>1, <3>3, FS_Subset DEF Size
    <3>5. t \notin S
      BY <2>3, <2>5, <2>6, <3>1, <3>4
    <3> QED
      BY <2>1, <2>9, <3>1, <3>5 DEF S
  <2>10. Traceable(Traced, m)
    <3>1. CASE IsBuiltin(m)
      BY <3>1 DEF Traceable
    <3>2. CASE ~IsBuiltin(m) /\ heap[m].definition = NoDefinition
      BY <2>7, <2>9, <3>2 DEF Traceable, DependsOn
    <3>3. CASE ~IsBuiltin(m) /\ heap[m].definition # NoDefinition
      <4>1. DependsOn(m) = {NodeByIdString(f.dataType) : f \in Fields(m)} \ {0}
        BY <3>3 DEF DependsOn
      <4>2. 0 \notin Completed
        BY <2>1, SequenceFacts DEF Ready, Graph, Shape, NamespaceTypeOK, AllDataTypes
      <4> QED
        BY <2>7, <2>9, <3>3, <4>1, <4>2 DEF Traceable
    <3> QED
      BY <3>1, <3>2, <3>3
  <2> QED
    BY <2>6, <2>10, TracedFacts DEF Ready
<1> QED
  BY <1>1, <1>2
-----------------------------------------------------------------------------
(* The invariant.                                                          *)

(* How far sanitation is: what it has visited has linked references only.  *)
Cleaned ==
  phase \in {"sanitize"} \cup Later =>
    \A n \in nodes : (phase = "sanitize" => n <= pos) => \A r \in references[n] : IsLinked(r)

(* Files are written by the last step only.                                *)
Unwritten == phase \notin {"generate", "done", "crashed"} => output = input.existing

\* a file that must not be rewritten
Protected(f) == f \in DOMAIN input.existing /\ ~input.existing[f].marked

\* what a file says of the node it was generated from
Describes(f) ==
  LET file == output[f]
  IN /\ file.node \in Classes /\ f[2] = CodeName(file.node)
     /\ file.host = HostConfig(CodeName(file.node))
     /\ Exact(file, file.node)

(* How far generation is.                                                  *)
WrittenSofar ==
  phase \in {"generate", "done"} =>
    /\ \A f \in DOMAIN input.existing :
         Protected(f) => f \in DOMAIN output /\ output[f] = input.existing[f]
    /\ \A f \in DOMAIN output : ~output[f].marked => Protected(f)
    /\ \A f \in DOMAIN output : output[f].node # 0 => Describes(f)
    /\ \A n \in Classes : (phase = "generate" => n <= pos) => \A kind \in Kinds :
         LET f == <<kind, CodeName(n)>>
         IN Protected(f) \/ (f \in DOMAIN output /\ output[f].node \in nodes /\ output[f].node >= n)

\* nodes are read from the documents, and have an id
FromElements == \A n \in nodes : heap[n] \in Range(input.elements) /\ heap[n].id # None

(* How far the encoding rules are.                                         *)
TypesInv ==
  /\ FromElements
  /\ phase \notin Later \cup {"crashed"} => dataTypes = <<>> /\ calls = <<>>
  /\ phase \in Later => Building
  /\ phase \in Later \ {"encode"} => calls = <<>> /\ DOMAIN dataTypes = AllDataTypes
  /\ phase = "encode" => \A n \in AllDataTypes : n <= pos => n \in DOMAIN dataTypes

FilesInv == IInv /\ Cleaned /\ TypesInv /\ TypeOK /\ Unwritten /\ WrittenSofar

(* After sanitation the references lead from node to node.                 *)
LEMMA CleanedGraph ==
  ASSUME IInv, Cleaned, phase \in Later
  PROVE  Graph
<1>1. "sanitize" \notin Later
  BY DEF Later
<1>2. ASSUME NEW n \in nodes, NEW r \in references[n] PROVE Target(r) \in nodes
  <2>1. IsLinked(r)
    BY <1>1 DEF Cleaned
  <2>2. r \in 1 .. Len(pointers) /\ DOMAIN pointers = 1 .. Len(pointers)
    BY ShapeFacts
  <2>3. pointers[r] \in Range(pointers)
    BY <2>2 DEF Range
  <2>4. {pointers[r].target.node, pointers[r].type.node} \subseteq {0} \cup nodes
    BY <2>3 DEF IInv, NamespaceTypeOK
  <2> QED
    BY <2>1, <2>4 DEF Target, IsLinked
<1> QED
  BY <1>2 DEF IInv, Graph

(* The files of the output directory have no node yet.                     *)
LEMMA ExistingFacts ==
  ASSUME input \in Inputs
  PROVE  \A f \in DOMAIN input.existing :
           /\ f[1] \in Kinds /\ input.existing[f].node = 0 /\ input.existing[f].marked \in BOOLEAN
           /\ input.existing[f].variables = <<>> /\ input.existing[f].objects = <<>>
           /\ input.existing[f].methods = <<>>
<1> SUFFICES ASSUME NEW f \in DOMAIN input.existing
             PROVE  /\ f[1] \in Kinds /\ input.existing[f].node = 0
                    /\ input.existing[f].marked \in BOOLEAN
                    /\ input.existing[f].variables = <<>> /\ input.existing[f].objects = <<>>
                    /\ input.existing[f].methods = <<>>
  OBVIOUS
<1>1. f[1] \in Kinds /\ input.existing[f] \in {Found(TRUE), Found(FALSE)}
  BY ExistingAssumption
<1>2. CASE input.existing[f] = Found(TRUE)
  BY <1>1, <1>2 DEF Found
<1>3. CASE input.existing[f] = Found(FALSE)
  BY <1>1, <1>3 DEF Found
<1> QED
  BY <1>1, <1>2, <1>3

LEMMA ExistingTypes ==
  ASSUME input \in Inputs, output = input.existing, NamespaceTypeOK, DataTypesTypeOK
  PROVE  TypeOK
<1>1. <<>> \in Seq(nodes)
  OBVIOUS
<1> QED
  BY <1>1, ExistingFacts DEF TypeOK, FileEntry

(* What a step of the encoding rules does to the rest of the generator.    *)
LEMMA EncodeFacts ==
  ASSUME DataTypesNext
  PROVE  /\ phase = "encode" /\ UNCHANGED <<input, nodeVars, linkVars>>
         /\ \/ UNCHANGED phase /\ (pos' = pos \/ (BuildEncodingRule /\ pos' = Following(pos)))
            \/ phase' = "crashed" /\ pos' = pos /\ FieldFails /\ UNCHANGED typeVars
            \/ /\ phase' = "allocate" /\ pos' = 0 /\ calls = <<>> /\ Following(pos) = 0
               /\ UNCHANGED typeVars
<1>1. CASE BuildEncodingRule
  BY <1>1 DEF BuildEncodingRule
<1>2. CASE EndEncode
  BY <1>2 DEF EndEncode, EndLoop, After
<1>3. CASE FieldFails
  BY <1>3 DEF FieldFails, AtTypedField, AtField, FromDefinition, Crash
<1>4. CASE SkipReference \/ CallSupertype \/ UseSupertype \/ EndSupertypes
  BY <1>4 DEF SkipReference, CallSupertype, UseSupertype, EndSupertypes, AtReference,
     FromSupertypes, Unmoved
<1>5. CASE InconsistentField \/ EnumField \/ UnknownField
  BY <1>5 DEF InconsistentField, EnumField, UnknownField, AtTypedField, AtField, FromDefinition,
     Unmoved
<1>6. CASE CallFieldType \/ UseFieldType \/ EndFields
  BY <1>6 DEF CallFieldType, UseFieldType, EndFields, AtTypedField, AtField, FromDefinition, Unmoved
<1> QED
  BY <1>1, <1>2, <1>3, <1>4, <1>5, <1>6 DEF DataTypesNext

(* Sanitation is the last step that changes the graph, and it never        *)
(* crashes: what follows goes through the list or writes.                  *)
LEMMA StepFacts ==
  ASSUME IInv, FilesNext
  PROVE  /\ [NamespaceNext \/ Elsewhere]_namespaceVars
         /\ UNCHANGED input /\ phase \notin {"done", "crashed"}
         /\ phase' = phase \/ phase' = "crashed" \/ phase' = After(phase)
<1>0. pos \in Nat /\ phase \in Phases /\ nodes \subseteq Nat
  BY ShapeFacts DEF IInv, NamespaceTypeOK
<1>1. CASE NamespaceNext
  <2> SUFFICES /\ input' = input /\ phase \notin {"done", "crashed"}
               /\ phase' = phase \/ phase' = "crashed" \/ phase' = After(phase)
    BY <1>1
  <2>1. CASE BuildAliasList \/ SkipElement \/ CreateNodeFails \/ CreateNode
    BY <2>1 DEF BuildAliasList, SkipElement, CreateNodeFails, CreateNode, Parsing, Crash
  <2>2. CASE EndParse \/ EndBlacklist \/ EndLink \/ EndInvert \/ EndInverse \/ EndSanitize
    BY <2>2 DEF EndParse, EndBlacklist, EndLink, EndInvert, EndInverse, EndSanitize, EndLoop
  <2>3. CASE RemoveNodeById \/ LinkPointer \/ InvertReference \/ InvertNextNode
               \/ UpdateInverseReferences
    BY <2>3 DEF RemoveNodeById, LinkPointer, InvertReference, InvertNextNode,
       UpdateInverseReferences
  <2>4. CASE Sanitize
    BY <2>4 DEF Sanitize, Crash
  <2> QED
    BY <1>1, <2>1, <2>2, <2>3, <2>4 DEF NamespaceNext
<1>2. CASE PassNode \/ EndPass \/ PassFails \/ ClassesNext \/ DataTypesNext
  <2>1. Following(pos) \in Nat
    <3>1. 0 \in Nat
      OBVIOUS
    <3> QED
      BY <1>0, <3>1, FollowingFacts
  <2>2. /\ phase \in {"encode", "allocate", "generate"} /\ UNCHANGED <<input, nodeVars, linkVars>>
        /\ phase' = phase \/ phase' = "crashed" \/ phase' = After(phase)
        /\ pos' \in Nat
    <3>1. CASE PassNode \/ EndPass \/ PassFails \/ ClassesNext
      BY <1>0, <2>1, <3>1 DEF PassNode, EndPass, PassFails, ClassesNext, GenerateClass, EndGenerate,
         EndLoop, Crash
    <3>2. CASE DataTypesNext
      BY <1>0, <2>1, <3>2, EncodeFacts DEF After
    <3> QED
      BY <1>2, <3>1, <3>2
  <2>3. phase' \in {"encode", "allocate", "generate", "done", "crashed"}
    BY <2>2 DEF After
  <2> QED
    BY <2>2, <2>3 DEF Elsewhere
<1> QED
  BY <1>1, <1>2 DEF FilesNext

(* What the graph decides stays as long as the graph does.                 *)
LEMMA SameGraph ==
  ASSUME UNCHANGED <<input, nodeVars, linkVars>>, NEW n
  PROVE  /\ UNCHANGED <<Classes, IgnoredNodes>> /\ CodeName(n)' = CodeName(n)
         /\ HostConfig(CodeName(n))' = HostConfig(CodeName(n))
         /\ AllData(n)' = AllData(n) /\ AllObjects(n)' = AllObjects(n)
         /\ AllMethods(n)' = AllMethods(n)
<1>1. UNCHANGED <<input, heap, nodes, pointers, references, attribute>>
  BY DEF nodeVars, linkVars
<1>2. \A id : NodeByIdString(id)' = NodeByIdString(id)
  BY <1>1 DEF NodeByIdString
<1>3. IgnoredNodes' = IgnoredNodes
  BY <1>1, <1>2 DEF IgnoredNodes
<1>4. Classes' = Classes /\ CodeName(n)' = CodeName(n)
  BY <1>1, <1>3 DEF Classes, CodeName
<1>5. HostConfig(CodeName(n))' = HostConfig(CodeName(n))
  BY <1>1 DEF HostConfig, ServerHostList, OfKind, FirstBase, CodeName
<1>6. \A m : /\ Data(m)' = Data(m) /\ Objects(m)' = Objects(m) /\ Methods(m)' = Methods(m)
             /\ MadeOf(m)' = MadeOf(m) /\ Translates(m)' = Translates(m)
  BY <1>1, <1>3 DEF Data, Objects, Methods, MadeOf, Components, SupertypeNodes, IsComponent,
     IsSupertype, Target, TypeId, HoldsData, Translates, TypeOf
<1>7. Parts(n)' = Parts(n)
  <2>1. ASSUME NEW next, NEW start PROVE Reachable(next, start)' = Reachable(next, start)
    BY <1>1 DEF Reachable
  <2>2. UNCHANGED [m \in nodes |-> MadeOf(m)]
    BY <1>1, <1>6
  <2> QED
    BY <2>1, <2>2 DEF Parts
<1> QED
  BY <1>3, <1>4, <1>5, <1>6, <1>7 DEF AllData, AllObjects, AllMethods

(* Sanitation goes through the whole list, and nothing is unlinked later.  *)
LEMMA CleanedStep ==
  ASSUME IInv, Cleaned, FilesNext
  PROVE  Cleaned'
<1>0. /\ pos \in Nat /\ nodes \subseteq Nat /\ \A m \in nodes : m > 0
      /\ DOMAIN references = 1 .. Len(heap) /\ \A m \in nodes : m \in 1 .. Len(heap)
  BY ShapeFacts DEF IInv, NamespaceTypeOK
<1>1. CASE BuildAliasList \/ SkipElement \/ CreateNodeFails \/ CreateNode \/ EndParse
             \/ RemoveNodeById \/ EndBlacklist \/ LinkPointer \/ EndLink
             \/ InvertReference \/ InvertNextNode \/ EndInvert \/ UpdateInverseReferences
  <2> SUFFICES phase' \notin {"sanitize"} \cup Later
    BY DEF Cleaned
  <2>1. CASE BuildAliasList \/ SkipElement \/ CreateNodeFails \/ CreateNode
    BY <2>1 DEF BuildAliasList, SkipElement, CreateNodeFails, CreateNode, Parsing, Crash, Later
  <2>2. CASE EndParse \/ EndBlacklist \/ EndLink \/ EndInvert
    BY <2>2 DEF EndParse, EndBlacklist, EndLink, EndInvert, EndLoop, After, Later
  <2>3. CASE RemoveNodeById \/ LinkPointer \/ InvertReference \/ InvertNextNode
               \/ UpdateInverseReferences
    BY <2>3 DEF RemoveNodeById, LinkPointer, InvertReference, InvertNextNode,
       UpdateInverseReferences, Later
  <2> QED
    BY <1>1, <2>1, <2>2, <2>3
<1>2. CASE EndInverse
  <2>1. phase' = "sanitize" /\ pos' = 0 /\ nodes' = nodes
    BY <1>2 DEF EndInverse, EndLoop, After, nodeVars
  <2>2. \A m \in nodes' : ~(m <= pos')
    BY <1>0, <2>1
  <2> QED
    BY <2>1, <2>2 DEF Cleaned
<1>3. CASE Sanitize
  <2>1. CASE Crash
    BY <2>1 DEF Crash, Cleaned, Later
  <2>2. CASE ~Crash
    <3> DEFINE n == Following(pos)
    <3>1. /\ phase = "sanitize" /\ n # 0 /\ pos' = n /\ phase' = phase
          /\ UNCHANGED <<nodes, pointers>>
          /\ references' = [references EXCEPT ![n] = {r \in @ : IsLinked(r)}]
      BY <1>3, <2>2 DEF Sanitize, nodeVars
    <3>2. n \in nodes /\ n > pos /\ \A m \in nodes : m > pos => n <= m
      BY <3>1, FollowingFacts
    <3> HIDE DEF n
    <3>3. \A r : IsLinked(r)' = IsLinked(r)
      BY <3>1 DEF IsLinked
    <3> SUFFICES ASSUME NEW m \in nodes, m <= n, NEW r \in references'[m] PROVE IsLinked(r)
      BY <3>1, <3>3 DEF Cleaned
    <3>4. CASE m = n
      BY <1>0, <3>1, <3>2, <3>4
    <3>5. CASE m # n
      <4>1. m <= pos
        BY <1>0, <3>2, <3>5
      <4>2. r \in references[m]
        BY <1>0, <3>1, <3>5
      <4> QED
        BY <3>1, <4>1, <4>2 DEF Cleaned
    <3> QED
      BY <3>4, <3>5
  <2> QED
    BY <2>1, <2>2
<1>4. CASE EndSanitize
  <2>1. /\ phase = "sanitize" /\ Following(pos) = 0 /\ phase' = "encode"
        /\ UNCHANGED <<nodes, pointers, references>>
    BY <1>4 DEF EndSanitize, EndLoop, After, nodeVars, linkVars
  <2>2. \A m \in nodes : m <= pos
    <3>1. 0 \notin nodes
      BY <1>0
    <3> QED
      BY <2>1, <3>1, FollowingFacts
  <2>3. \A m \in nodes : \A r \in references[m] : IsLinked(r)
    BY <2>1, <2>2 DEF Cleaned
  <2> QED
    BY <2>1, <2>3 DEF Cleaned, IsLinked
<1>5. CASE PassNode \/ EndPass \/ PassFails \/ ClassesNext \/ DataTypesNext
  <2>1. /\ phase \in Later /\ phase # "sanitize" /\ phase' # "sanitize"
        /\ UNCHANGED <<nodes, pointers, references>>
    <3>1. CASE PassNode \/ EndPass \/ PassFails \/ ClassesNext
      BY <3>1 DEF PassNode, EndPass, PassFails, ClassesNext, GenerateClass, EndGenerate, EndLoop,
         Crash, After, nodeVars, linkVars, Later
    <3>2. CASE DataTypesNext
      BY <3>2, EncodeFacts DEF nodeVars, linkVars, Later
    <3> QED
      BY <1>5, <3>1, <3>2
  <2>2. \A m \in nodes : \A r \in references[m] : IsLinked(r)
    BY <2>1 DEF Cleaned
  <2> QED
    BY <2>1, <2>2 DEF Cleaned, IsLinked
<1> QED
  BY <1>1, <1>2, <1>3, <1>4, <1>5 DEF FilesNext, NamespaceNext

(* The elements that nodes are read from stay the same.                    *)
LEMMA FromElementsStep ==
  ASSUME IInv, FromElements, FilesNext
  PROVE  FromElements'
<1>1. input' = input
  BY StepFacts
<1>2. CASE heap' = heap /\ nodes' \subseteq nodes
  BY <1>1, <1>2 DEF FromElements
<1>3. CASE CreateNode
  <2>1. /\ heap' = Append(heap, Element) /\ nodes' \subseteq nodes \cup {Len(heap) + 1}
        /\ Element.id # None /\ pos < Len(input.elements)
    BY <1>3 DEF CreateNode, Parsing
  <2>2. /\ IsSequence(heap) /\ \A n \in nodes : n \in 1 .. Len(heap)
    BY ShapeFacts DEF IInv, Shape
  <2>3. /\ \A i \in 1 .. Len(heap) : heap'[i] = heap[i]
        /\ heap'[Len(heap) + 1] = Element
    BY <2>1, <2>2, AppendedFacts
  <2>4. Element \in Range(input.elements)
    <3>1. IsSequence(input.elements) /\ pos \in Nat
      BY InputsAssumption DEF IInv, NamespaceTypeOK
    <3>2. pos + 1 \in DOMAIN input.elements
      BY <2>1, <3>1, SequenceFacts
    <3> QED
      BY <3>2 DEF Element, Range
  <2> QED
    BY <1>1, <2>1, <2>2, <2>3, <2>4 DEF FromElements
<1>4. CASE BuildAliasList \/ SkipElement \/ CreateNodeFails \/ EndParse \/ RemoveNodeById
             \/ EndBlacklist \/ LinkPointer \/ EndLink
  BY <1>2, <1>4 DEF BuildAliasList, SkipElement, CreateNodeFails, EndParse, RemoveNodeById,
     EndBlacklist, LinkPointer, EndLink, EndLoop, Crash, nodeVars
<1>5. CASE InvertReference \/ InvertNextNode \/ EndInvert \/ UpdateInverseReferences
             \/ EndInverse \/ Sanitize \/ EndSanitize
  BY <1>2, <1>5 DEF InvertReference, InvertNextNode, EndInvert, UpdateInverseReferences,
     EndInverse, Sanitize, EndSanitize, EndLoop, Crash, nodeVars
<1>6. CASE DataTypesNext
  BY <1>2, <1>6, EncodeFacts DEF nodeVars
<1>7. CASE PassNode \/ EndPass \/ PassFails \/ ClassesNext
  BY <1>2, <1>7 DEF PassNode, EndPass, PassFails, ClassesNext, GenerateClass, EndGenerate, EndLoop,
     Crash, nodeVars
<1> QED
  BY <1>3, <1>4, <1>5, <1>6, <1>7 DEF FilesNext, NamespaceNext

(* What is built relies on is there after sanitation.                      *)
LEMMA ReadyFacts ==
  ASSUME IInv, Cleaned, FromElements, phase \in Later
  PROVE  Ready
<1>1. NodeByIdString(None) = 0
  BY NodeByIdStringFacts DEF FromElements
<1>2. ASSUME NEW n \in AllDataTypes, heap[n].definition # NoDefinition
      PROVE  /\ IsSequence(heap[n].definition)
             /\ \A k \in DOMAIN heap[n].definition : heap[n].definition[k].value \in BOOLEAN
  <2>1. heap[n] \in Range(input.elements) /\ heap[n].tag = "datatype" /\ input \in Inputs
    BY DEF AllDataTypes, FromElements, IInv
  <2> QED
    BY <1>2, <2>1, DefinitionsAssumption
<1> QED
  BY <1>1, <1>2, CleanedGraph DEF Ready

(* The steps up to sanitation.                                             *)
LEMMA EarlySteps ==
  ASSUME IInv, NamespaceNext
  PROVE  /\ phase \notin Later \cup {"crashed"}
         /\ phase' \notin Later \ {"encode"} /\ (phase' = "encode" => pos' = 0 /\ UNCHANGED <<nodeVars, linkVars>>)
<1>1. CASE BuildAliasList \/ SkipElement \/ CreateNodeFails \/ CreateNode
  BY <1>1 DEF BuildAliasList, SkipElement, CreateNodeFails, CreateNode, Parsing, Crash, Later
<1>2. CASE EndParse \/ EndBlacklist \/ EndLink \/ EndInvert \/ EndInverse \/ EndSanitize
  BY <1>2 DEF EndParse, EndBlacklist, EndLink, EndInvert, EndInverse, EndSanitize, EndLoop, After,
     Later
<1>3. CASE RemoveNodeById \/ LinkPointer \/ InvertReference \/ InvertNextNode
             \/ UpdateInverseReferences
  BY <1>3 DEF RemoveNodeById, LinkPointer, InvertReference, InvertNextNode,
     UpdateInverseReferences, Later
<1>4. CASE Sanitize
  BY <1>4 DEF Sanitize, Crash, Later
<1> QED
  BY <1>1, <1>2, <1>3, <1>4 DEF NamespaceNext

(* The list of the nodes is gone through, and what is built stays.         *)
LEMMA TypesStep ==
  ASSUME IInv, Cleaned, TypesInv, DataTypesTypeOK, FilesNext, IInv'
  PROVE  TypesInv' /\ DataTypesTypeOK'
<1>1. FromElements'
  BY FromElementsStep DEF TypesInv
<1>2. Building' => DataTypesTypeOK'
  <2> SUFFICES ASSUME Building' PROVE DataTypesTypeOK'
    OBVIOUS
  <2>1. calls' \in Seq(Frames)' /\ \A i \in DOMAIN calls' : calls'[i].node \in DOMAIN dataTypes'
    BY DEF Building, CallsOK
  <2>2. \A i \in DOMAIN calls' : calls'[i] \in Frames'
    BY <2>1, LenProperties, ElementOfSeq
  <2> QED
    BY <2>1, <2>2 DEF Building, DataTypesTypeOK, Frames, Encodable
<1>3. CASE NamespaceNext /\ UNCHANGED typeVars
  <2>1. /\ dataTypes = <<>> /\ calls = <<>> /\ dataTypes' = <<>> /\ calls' = <<>>
        /\ phase' \notin Later \ {"encode"}
        /\ phase' = "encode" => pos' = 0 /\ UNCHANGED <<nodeVars, linkVars>>
    BY <1>3, EarlySteps DEF TypesInv, typeVars
  <2>2. DataTypesTypeOK'
    BY <2>1, EmptyFacts, SequenceFacts DEF DataTypesTypeOK
  <2>3. CASE phase' # "encode"
    BY <1>1, <2>1, <2>2, <2>3 DEF TypesInv
  <2>4. CASE phase' = "encode"
    <3>1. Building' /\ AllDataTypes' = AllDataTypes
      BY <1>3, <2>1, <2>4, NothingBuilt, SameBuilding, SameTypes
    <3>2. \A n \in AllDataTypes : n \in Nat /\ n > 0
      BY ShapeFacts DEF AllDataTypes
    <3>3. \A n \in AllDataTypes' : ~(n <= pos')
      BY <2>1, <2>4, <3>1, <3>2
    <3> QED
      BY <1>1, <2>1, <2>2, <2>4, <3>1, <3>3 DEF TypesInv
  <2> QED
    BY <2>3, <2>4
<1>4. CASE DataTypesNext
  <2>1. phase = "encode" /\ phase \in Later /\ UNCHANGED <<input, nodeVars, linkVars>>
    BY <1>4, EncodeFacts DEF Later
  <2>2. Ready /\ Building
    BY <2>1, ReadyFacts DEF TypesInv
  <2>3. Building' /\ DOMAIN dataTypes \subseteq DOMAIN dataTypes' /\ AllDataTypes' = AllDataTypes
    BY <1>4, <2>2, BuildingStep, SameTypes
  <2>4. \A n \in AllDataTypes : n <= pos => n \in DOMAIN dataTypes'
    BY <2>1, <2>3 DEF TypesInv
  <2>5. AllDataTypes \subseteq nodes /\ nodes \subseteq Nat /\ pos \in Nat
    BY ShapeFacts DEF AllDataTypes, IInv, NamespaceTypeOK
  <2>6. CASE UNCHANGED phase /\ pos' = pos
    BY <1>1, <1>2, <2>1, <2>3, <2>4, <2>6 DEF TypesInv
  <2>7. CASE UNCHANGED phase /\ BuildEncodingRule /\ pos' = Following(pos)
    <3>1. Following(pos) # 0
      BY <2>7 DEF BuildEncodingRule
    <3>2. Following(pos) \in nodes /\ \A m \in nodes : m > pos => Following(pos) <= m
      BY <3>1, FollowingFacts
    <3>3. Following(pos) \in AllDataTypes => Following(pos) \in DOMAIN dataTypes'
      BY <2>7 DEF BuildEncodingRule, AllDataTypes, Call, Put, typeVars
    <3>4. ASSUME NEW n \in AllDataTypes, n <= Following(pos) PROVE n \in DOMAIN dataTypes'
      <4>1. PICK k \in nodes : k = Following(pos)
        BY <3>2
      <4>2. k \in Nat /\ n \in Nat /\ n \in nodes /\ n <= k /\ (n > pos => k <= n)
        BY <2>5, <3>2, <3>4, <4>1
      <4>3. n <= pos \/ n = k
        BY <2>5, <4>2
      <4> QED
        BY <2>4, <3>3, <4>1, <4>3
    <3> QED
      BY <1>1, <1>2, <2>1, <2>3, <2>7, <3>4 DEF TypesInv
  <2>8. CASE phase' = "crashed"
    BY <1>1, <1>2, <2>3, <2>8 DEF TypesInv, Later
  <2>9. CASE /\ phase' = "allocate" /\ pos' = 0 /\ calls = <<>> /\ Following(pos) = 0
             /\ UNCHANGED typeVars
    <3>1. \A n \in nodes : n <= pos
      <4>1. 0 \notin nodes
        BY ShapeFacts
      <4> QED
        BY <2>9, <4>1, FollowingFacts
    <3>2. DOMAIN dataTypes = AllDataTypes
      BY <2>2, <2>5, <3>1, <2>1 DEF Building, TypesInv
    <3> QED
      BY <1>1, <1>2, <2>3, <2>9, <3>2 DEF TypesInv, typeVars, Later
  <2> QED
    BY <1>4, <2>6, <2>7, <2>8, <2>9, EncodeFacts
<1>5. CASE (PassNode \/ EndPass \/ PassFails \/ ClassesNext) /\ UNCHANGED typeVars
  <2>1. /\ phase \in {"allocate", "generate"} /\ phase' \in {"allocate", "generate", "done", "crashed"}
        /\ UNCHANGED <<nodeVars, linkVars>>
    BY <1>5 DEF PassNode, EndPass, PassFails, ClassesNext, GenerateClass, EndGenerate, EndLoop,
       Crash, After
  <2>2. Building' /\ UNCHANGED <<dataTypes, calls, AllDataTypes>>
    BY <1>5, <2>1, SameBuilding, SameTypes DEF TypesInv, Later, typeVars
  <2> QED
    BY <1>1, <1>2, <2>1, <2>2 DEF TypesInv, Later
<1> QED
  BY <1>3, <1>4, <1>5 DEF FilesNext

(* Before generation nothing is written, so that it starts with the files  *)
(* as they were found.                                                     *)
LEMMA QuietFiles ==
  ASSUME FilesInv, FilesNext, IInv', DataTypesTypeOK', UNCHANGED output, phase # "generate"
  PROVE  TypeOK' /\ Unwritten' /\ WrittenSofar'
<1>1. output = input.existing /\ input' = input /\ input \in Inputs /\ NamespaceTypeOK'
  BY StepFacts DEF FilesInv, Unwritten, IInv
<1>2. TypeOK'
  <2>1. \A f \in DOMAIN output : /\ f[1] \in Kinds /\ output[f].node = 0
                                 /\ output[f].marked \in BOOLEAN /\ output[f].variables = <<>>
                                 /\ output[f].objects = <<>> /\ output[f].methods = <<>>
    BY <1>1, ExistingFacts
  <2>2. <<>> \in Seq(nodes')
    OBVIOUS
  <2> QED
    BY <1>1, <2>1, <2>2 DEF TypeOK, FileEntry
<1>3. phase' # "done"
  <2>1. /\ phase \notin {"done", "crashed"} /\ phase \in Phases
        /\ phase' = phase \/ phase' = "crashed" \/ phase' = After(phase)
    BY StepFacts DEF FilesInv, IInv, NamespaceTypeOK
  <2> QED
    BY <2>1 DEF Phases, After
<1>4. WrittenSofar'
  <2> SUFFICES ASSUME phase' = "generate" PROVE WrittenSofar'
    BY <1>3 DEF WrittenSofar
  <2>1. pos' = 0 /\ UNCHANGED nodes
    <3>1. EndPass
      <4>1. ~NamespaceNext
        BY DEF NamespaceNext, BuildAliasList, SkipElement, CreateNodeFails, CreateNode, Parsing,
           Crash, EndParse, RemoveNodeById, EndBlacklist, LinkPointer, EndLink, InvertReference,
           InvertNextNode, EndInvert, UpdateInverseReferences, EndInverse, Sanitize, EndSanitize,
           EndLoop, After
      <4>2. ~PassNode /\ ~PassFails /\ ~ClassesNext
        BY DEF FilesInv, PassNode, PassFails, ClassesNext, GenerateClass, EndGenerate, Crash
      <4>3. ~DataTypesNext
        BY EncodeFacts
      <4> QED
        BY <4>1, <4>2, <4>3 DEF FilesNext
    <3> QED
      BY <3>1 DEF EndPass, EndLoop, nodeVars
  <2>2. \A n \in nodes' : n > 0
    BY ShapeFacts, <2>1 DEF FilesInv
  <2>3. \A f \in DOMAIN output' : output'[f].node = 0
    BY <1>1, ExistingFacts
  <2>4. \A f \in DOMAIN output' : ~output'[f].marked => Protected(f)'
    BY <1>1 DEF Protected
  <2>5. \A f \in DOMAIN input'.existing : f \in DOMAIN output' /\ output'[f] = input'.existing[f]
    BY <1>1
  <2>6. \A n \in Classes' : ~(n <= pos')
    BY <2>1, <2>2, ShapeFacts DEF FilesInv, Classes
  <2> QED
    BY <2>3, <2>4, <2>5, <2>6 DEF WrittenSofar
<1>5. Unwritten'
  BY <1>1 DEF Unwritten
<1> QED
  BY <1>2, <1>4, <1>5

(* Nothing but the classes is left once values are allocated.              *)
LEMMA OnlyClasses ==
  ASSUME FilesNext, phase = "generate"
  PROVE  GenerateClass \/ EndGenerate
<1>1. ~NamespaceNext
  BY DEF NamespaceNext, BuildAliasList, SkipElement, CreateNodeFails, CreateNode, Parsing, EndParse,
     RemoveNodeById, EndBlacklist, LinkPointer, EndLink, InvertReference, InvertNextNode,
     EndInvert, UpdateInverseReferences, EndInverse, Sanitize, EndSanitize
<1>2. ~PassNode /\ ~EndPass /\ ~PassFails /\ ~DataTypesNext
  BY EncodeFacts DEF PassNode, EndPass, PassFails
<1> QED
  BY <1>1, <1>2 DEF FilesNext, ClassesNext

(* Files that stay are files of the same graph.                            *)
LEMMA SameFiles ==
  ASSUME WrittenSofar, UNCHANGED <<input, nodeVars, linkVars, output>>,
         \/ UNCHANGED <<phase, pos>>
         \/ phase = "generate" /\ phase' = "done" /\ \A n \in Classes : n <= pos
  PROVE  WrittenSofar'
<1>1. /\ UNCHANGED <<Classes, IgnoredNodes>>
      /\ \A m : /\ CodeName(m)' = CodeName(m)
                /\ HostConfig(CodeName(m))' = HostConfig(CodeName(m))
                /\ AllData(m)' = AllData(m) /\ AllObjects(m)' = AllObjects(m)
                /\ AllMethods(m)' = AllMethods(m)
  BY SameGraph
<1>2. UNCHANGED <<input, nodes, output>> /\ \A f : Protected(f)' = Protected(f)
  BY DEF nodeVars, Protected
<1>3. \A S : Codes(S)' = Codes(S)
  BY <1>1 DEF Codes
<1>4. ASSUME NEW f, Describes(f) PROVE Describes(f)'
  BY <1>1, <1>2, <1>3, <1>4 DEF Describes, Exact, VariablesOf, ObjectsOf, MethodsOf
<1> SUFFICES ASSUME phase' \in {"generate", "done"} PROVE WrittenSofar'
  BY DEF WrittenSofar
<1>5. /\ \A f \in DOMAIN input.existing :
           Protected(f) => f \in DOMAIN output /\ output[f] = input.existing[f]
      /\ \A f \in DOMAIN output : ~output[f].marked => Protected(f)
      /\ \A f \in DOMAIN output : output[f].node # 0 => Describes(f)
  BY DEF WrittenSofar
<1>6. \A n \in Classes : (phase' = "generate" => n <= pos') => \A kind \in Kinds :
        LET f == <<kind, CodeName(n)>>
        IN Protected(f) \/ (f \in DOMAIN output /\ output[f].node \in nodes /\ output[f].node >= n)
  BY DEF WrittenSofar
<1> QED
  BY <1>1, <1>2, <1>4, <1>5, <1>6 DEF WrittenSofar

(* A class is written over what earlier nodes of its name wrote, and over  *)
(* nothing else.                                                           *)
LEMMA WriteStep ==
  ASSUME FilesInv, GenerateClass, DataTypesTypeOK', phase' # "crashed"
  PROVE  TypeOK' /\ Unwritten' /\ WrittenSofar'
<1> DEFINE n == Following(pos)
           members == MembersOfType(n)
<1>1. /\ phase = "generate" /\ phase' = phase /\ n # 0 /\ pos' = n
      /\ UNCHANGED <<input, nodeVars, linkVars>>
      /\ IF n \in Classes THEN ~members.failed /\ WriteFiles(n, members) ELSE UNCHANGED output
  BY DEF GenerateClass, Crash
<1>2. /\ n \in nodes /\ n > pos /\ \A m \in nodes : m > pos => n <= m
      /\ pos \in Nat /\ nodes \subseteq Nat
  BY <1>1, FollowingFacts, ShapeFacts DEF FilesInv, IInv, NamespaceTypeOK
<1>3. /\ members \in Members
      /\ ~members.failed => Exact(members, n)
  <2>1. Graph
    BY <1>1, CleanedGraph DEF FilesInv, Later
  <2> QED
    BY <1>2, <2>1, MembersOfTypeFacts
<1> HIDE DEF n, members
<1>4. /\ UNCHANGED <<Classes, IgnoredNodes>>
      /\ \A m : /\ CodeName(m)' = CodeName(m)
                /\ HostConfig(CodeName(m))' = HostConfig(CodeName(m))
                /\ AllData(m)' = AllData(m) /\ AllObjects(m)' = AllObjects(m)
                /\ AllMethods(m)' = AllMethods(m)
  BY <1>1, SameGraph
<1>5. /\ UNCHANGED <<input, nodes, heap, phase, item>>
      /\ UNCHANGED <<references, referencedBy, attribute, pointers>>
  BY <1>1 DEF nodeVars, linkVars
<1>6. \A f : Protected(f)' = Protected(f)
  BY <1>5 DEF Protected
<1>7. Classes \subseteq nodes
  BY DEF Classes
<1>8. NamespaceTypeOK'
  BY <1>2, <1>1, <1>5 DEF FilesInv, IInv, NamespaceTypeOK, Phases
<1>9. Unwritten'
  BY <1>1 DEF Unwritten
<1>10. CASE n \notin Classes
  <2>1. UNCHANGED output
    BY <1>1, <1>10
  <2>2. TypeOK'
    BY <1>5, <1>8, <2>1 DEF FilesInv, TypeOK, FileEntry
  <2>3. ASSUME NEW f \in DOMAIN output, output[f].node # 0 PROVE Describes(f)'
    <3>1. Describes(f)
      BY <1>1, <2>3 DEF FilesInv, WrittenSofar
    <3> QED
      BY <1>4, <1>5, <2>1, <3>1 DEF Describes, Exact, VariablesOf, ObjectsOf, MethodsOf, Codes,
         CodeName
  <2>4. \A m \in Classes : m <= n => m <= pos
    BY <1>2, <1>7, <1>10
  <2>5. WrittenSofar'
    <3>1. \A f \in DOMAIN input.existing :
            Protected(f) => f \in DOMAIN output /\ output[f] = input.existing[f]
      BY <1>1 DEF FilesInv, WrittenSofar
    <3>2. \A f \in DOMAIN output : ~output[f].marked => Protected(f)
      BY <1>1 DEF FilesInv, WrittenSofar
    <3>3. \A m \in Classes : m <= n => \A kind \in Kinds :
            LET f == <<kind, CodeName(m)>>
            IN Protected(f) \/ (f \in DOMAIN output /\ output[f].node \in nodes /\ output[f].node >= m)
      BY <1>1, <2>4 DEF FilesInv, WrittenSofar
    <3> QED
      BY <1>1, <1>4, <1>5, <1>6, <2>1, <2>3, <3>1, <3>2, <3>3 DEF WrittenSofar
  <2> QED
    BY <1>9, <2>2, <2>5
<1>11. CASE n \in Classes
  <2> DEFINE new == Generated(n, members)
             W == Written(n)
  <2>1. /\ DOMAIN output' = DOMAIN output \cup W
        /\ \A f \in DOMAIN output' : output'[f] = IF f \in W THEN new ELSE output[f]
        /\ ~members.failed
    BY <1>1, <1>11 DEF WriteFiles
  <2>2. /\ new.marked /\ new.node = n /\ new.host = HostConfig(CodeName(n))
        /\ new.variables = members.variables /\ new.objects = members.objects
        /\ new.methods = members.methods
    BY DEF Generated
  <2>3. \A f : f \in W <=> f \in Kinds \X {CodeName(n)} /\ MayWrite(f)
    BY DEF Written
  <2> HIDE DEF new, W
  <2>4. \A f \in W : f[1] \in Kinds /\ f[2] = CodeName(n)
    BY <2>3
  <2>5. /\ members.variables \in Seq(nodes) /\ members.objects \in Seq(nodes)
        /\ members.methods \in Seq(nodes)
    BY <1>3 DEF Members
  <2>6. TypeOK'
    <3> SUFFICES ASSUME NEW f \in DOMAIN output' PROVE f[1] \in Kinds /\ FileEntry(output[f])'
      BY <1>8 DEF TypeOK
    <3>1. CASE f \in W
      <4>1. f[1] \in Kinds /\ output'[f] = new /\ nodes' = nodes
        BY <1>5, <2>1, <2>4, <3>1
      <4>2. FileEntry(new)
        BY <1>2, <2>2, <2>5 DEF FileEntry
      <4> QED
        BY <4>1, <4>2 DEF FileEntry
    <3>2. CASE f \notin W
      <4>1. f \in DOMAIN output /\ output'[f] = output[f]
        BY <2>1, <3>2
      <4> QED
        BY <1>5, <4>1 DEF FilesInv, TypeOK, FileEntry
    <3> QED
      BY <3>1, <3>2
  <2>7. /\ \A f \in DOMAIN input.existing :
             Protected(f) => f \in DOMAIN output /\ output[f] = input.existing[f]
        /\ \A f \in DOMAIN output : ~output[f].marked => Protected(f)
        /\ \A f \in DOMAIN output : output[f].node # 0 => Describes(f)
        /\ \A m \in Classes : m <= pos => \A kind \in Kinds :
             LET f == <<kind, CodeName(m)>>
             IN Protected(f) \/ (f \in DOMAIN output /\ output[f].node \in nodes /\ output[f].node >= m)
    BY <1>1 DEF FilesInv, WrittenSofar
  <2>8. \A f \in W : ~Protected(f)
    BY <2>3, <2>7 DEF MayWrite, Protected
  <2>9. \A f \in DOMAIN input.existing :
          Protected(f) => f \in DOMAIN output' /\ output'[f] = input.existing[f]
    BY <2>1, <2>7, <2>8
  <2>10. \A f \in DOMAIN output' : ~output'[f].marked => Protected(f)
    BY <2>1, <2>2, <2>7
  <2>11. ASSUME NEW f \in DOMAIN output', output'[f].node # 0 PROVE Describes(f)'
    <3>1. CASE f \in W
      <4>1. output'[f] = new /\ f[2] = CodeName(n)
        BY <2>1, <2>4, <3>1
      <4>2. Exact(members, n)
        BY <1>3, <2>1
      <4>3. VariablesOf(members) = VariablesOf(new) /\ ObjectsOf(members) = ObjectsOf(new)
            /\ MethodsOf(members) = MethodsOf(new)
        BY <2>2 DEF VariablesOf, ObjectsOf, MethodsOf
      <4>4. Exact(new, n)
        BY <4>2, <4>3 DEF Exact
      <4> QED
        BY <1>4, <1>5, <1>11, <2>2, <4>1, <4>4 DEF Describes, Exact, VariablesOf, ObjectsOf,
           MethodsOf, Codes, CodeName
    <3>2. CASE f \notin W
      <4>1. f \in DOMAIN output /\ output'[f] = output[f]
        BY <2>1, <3>2
      <4>2. Describes(f)
        BY <2>7, <2>11, <4>1
      <4> QED
        BY <1>4, <1>5, <4>1, <4>2 DEF Describes, Exact, VariablesOf, ObjectsOf, MethodsOf, Codes,
           CodeName
    <3> QED
      BY <3>1, <3>2
  <2>12. ASSUME NEW m \in Classes, m <= n, NEW kind \in Kinds
         PROVE  LET f == <<kind, CodeName(m)>>
                IN \/ Protected(f)
                   \/ f \in DOMAIN output' /\ output'[f].node \in nodes /\ output'[f].node >= m
    <3> DEFINE f == <<kind, CodeName(m)>>
    <3>1. CASE f \in W
      <4>1. f \in DOMAIN output' /\ output'[f].node = n
        BY <2>1, <2>2, <3>1
      <4> QED
        BY <1>2, <1>7, <2>12, <4>1
    <3>2. CASE f \notin W /\ m = n
      <4>1. f \in Kinds \X {CodeName(n)}
        BY <3>2
      <4>2. f \in DOMAIN output /\ ~output[f].marked
        BY <2>3, <3>2, <4>1 DEF MayWrite
      <4> QED
        BY <2>7, <4>2
    <3>3. CASE f \notin W /\ m # n
      <4>1. m <= pos
        BY <1>2, <1>7, <2>12, <3>3
      <4>2. Protected(f) \/ (f \in DOMAIN output /\ output[f].node \in nodes /\ output[f].node >= m)
        BY <2>7, <4>1
      <4> QED
        BY <2>1, <3>3, <4>2
    <3> QED
      BY <3>1, <3>2, <3>3
  <2>13. WrittenSofar'
    BY <1>1, <1>4, <1>5, <1>6, <2>9, <2>10, <2>11, <2>12 DEF WrittenSofar
  <2> QED
    BY <1>9, <2>6, <2>13
<1> QED
  BY <1>10, <1>11

(* Every step keeps the invariant.                                         *)
LEMMA FilesInductive == FilesInv /\ [FilesNext]_filesVars => FilesInv'
<1> SUFFICES ASSUME FilesInv, [FilesNext]_filesVars PROVE FilesInv'
  OBVIOUS
<1>1. CASE UNCHANGED filesVars
  <2>1. UNCHANGED <<namespaceVars, output>>
    BY <1>1 DEF filesVars
  <2>2. IInv'
    BY <2>1, Inductive DEF FilesInv
  <2>3. /\ UNCHANGED <<input, phase, pos, heap, nodes, pointers, references, output>>
        /\ UNCHANGED <<input, nodeVars, linkVars>> /\ NamespaceTypeOK'
    BY <2>1, <2>2 DEF namespaceVars, nodeVars, linkVars, IInv
  <2>4. Cleaned' /\ Unwritten'
    BY <2>3 DEF FilesInv, Cleaned, IsLinked, Unwritten
  <2>5. UNCHANGED typeVars
    BY <1>1 DEF filesVars
  <2>6. TypesInv'
    <3>1. AllDataTypes' = AllDataTypes
      BY <2>3, SameTypes
    <3> QED
      BY <2>3, <2>5, <3>1, SameBuilding DEF FilesInv, TypesInv, FromElements, typeVars
  <2>7. TypeOK'
    <3>1. AllDataTypes' = AllDataTypes
      BY <2>3, SameTypes
    <3>2. DataTypesTypeOK'
      BY <2>5, <3>1 DEF FilesInv, TypeOK, DataTypesTypeOK, Encodable, typeVars
    <3> QED
      BY <2>3, <3>2 DEF FilesInv, TypeOK, FileEntry
  <2>8. WrittenSofar'
    BY <2>3, SameFiles DEF FilesInv
  <2> QED
    BY <2>2, <2>4, <2>6, <2>7, <2>8 DEF FilesInv
<1>2. CASE FilesNext
  <2>1. IInv'
    BY <1>2, StepFacts, Inductive DEF FilesInv
  <2>2. Cleaned'
    BY <1>2, CleanedStep DEF FilesInv
  <2>3. TypesInv' /\ DataTypesTypeOK'
    BY <1>2, <2>1, TypesStep DEF FilesInv, TypeOK
  <2>4. CASE phase # "generate"
    <3>1. UNCHANGED output
      BY <1>2, <2>4 DEF FilesNext, PassNode, EndPass, PassFails, ClassesNext, GenerateClass,
         EndGenerate
    <3> QED
      BY <1>2, <2>1, <2>2, <2>4, <2>3, <3>1, QuietFiles DEF FilesInv
  <2>5. CASE phase = "generate"
    <3>1. GenerateClass \/ EndGenerate
      BY <1>2, <2>5, OnlyClasses
    <3>2. CASE GenerateClass /\ phase' # "crashed"
      BY <2>1, <2>2, <2>3, <3>2, WriteStep DEF FilesInv
    <3>3. CASE phase' = "crashed" \/ EndGenerate
      <4>1. /\ UNCHANGED <<output, input, nodeVars, linkVars>>
            /\ phase' = "crashed" \/ (phase' = "done" /\ Following(pos) = 0)
        BY <3>1, <3>3, <2>5 DEF GenerateClass, EndGenerate, EndLoop, Crash, After
      <4>2. TypeOK'
        BY <2>1, <2>3, <4>1 DEF FilesInv, TypeOK, FileEntry, nodeVars, IInv
      <4>3. Unwritten'
        BY <4>1 DEF Unwritten
      <4>4. WrittenSofar'
        <5>1. CASE phase' = "crashed"
          BY <5>1 DEF WrittenSofar
        <5>2. CASE phase' = "done" /\ Following(pos) = 0
          <6>1. \A m \in Classes : m <= pos
            BY <5>2, FollowingFacts, ShapeFacts DEF FilesInv, Classes
          <6> QED
            BY <2>5, <4>1, <5>2, <6>1, SameFiles DEF FilesInv
        <5> QED
          BY <4>1, <5>1, <5>2
      <4> QED
        BY <2>1, <2>2, <2>3, <4>2, <4>3, <4>4 DEF FilesInv
    <3> QED
      BY <3>1, <3>2, <3>3
  <2> QED
    BY <2>4, <2>5
<1> QED
  BY <1>1, <1>2

LEMMA FilesInitially == FilesInit => FilesInv
<1> SUFFICES ASSUME FilesInit PROVE FilesInv
  OBVIOUS
<1>1. IInv
  BY InitHolds DEF FilesInit
<1>2. /\ phase = "parse" /\ output = input.existing /\ nodes = {}
      /\ dataTypes = <<>> /\ calls = <<>>
  BY DEF FilesInit, Init
<1>3. DataTypesTypeOK
  BY <1>2, EmptyFacts, SequenceFacts DEF DataTypesTypeOK
<1>4. TypesInv
  BY <1>2 DEF TypesInv, FromElements, Later
<1>5. TypeOK
  BY <1>1, <1>2, <1>3, ExistingTypes DEF IInv
<1> QED
  BY <1>1, <1>2, <1>4, <1>5 DEF FilesInv, Cleaned, Unwritten, WrittenSofar, Later

LEMMA FilesInvariance == FilesSpec => []FilesInv
<1>1. FilesInit => FilesInv
  BY FilesInitially
<1>2. FilesInv /\ [FilesNext]_filesVars => FilesInv'
  BY FilesInductive
<1> QED
  BY <1>1, <1>2, PTL DEF FilesSpec

-----------------------------------------------------------------------------
(* The graph stays well-formed to the end, and a file never lists anything *)
(* but nodes of the list, whatever was in the output directory.            *)
THEOREM FilesTypeCorrect == FilesSpec => []TypeOK
<1>1. FilesInv => TypeOK
  BY DEF FilesInv
<1> QED
  BY <1>1, FilesInvariance, PTL

(* Everything after sanitation leaves the namespace alone: the component   *)
(* with the files implements the one without, so that its theorems hold    *)
(* here, too.                                                              *)
THEOREM FilesRefineNamespace == FilesSpec => NamespaceSpec
<1>1. FilesInit => Init
  BY DEF FilesInit
<1>2. FilesInv /\ [FilesNext]_filesVars => [NamespaceNext \/ Elsewhere]_namespaceVars
  <2> SUFFICES ASSUME FilesInv, [FilesNext]_filesVars
               PROVE  [NamespaceNext \/ Elsewhere]_namespaceVars
    OBVIOUS
  <2>1. CASE FilesNext
    BY <2>1, StepFacts DEF FilesInv
  <2>2. CASE UNCHANGED filesVars
    BY <2>2 DEF filesVars
  <2> QED
    BY <2>1, <2>2
<1> QED
  BY <1>1, <1>2, FilesInvariance, PTL DEF FilesSpec, NamespaceSpec, NamespaceSteps

(* For any graph, cyclic ones included, any annotations and any files in   *)
(* the directory: when the generator is done every class is there, with    *)
(* the members of its last node and no others, and no file that lost its   *)
(* mark was touched.                                                       *)
THEOREM FilesAlwaysFollowModel == FilesSpec => []FilesFollowModel
<1>1. FilesInv => MembersExactly
  <2> SUFFICES ASSUME FilesInv, phase = "done", NEW f \in DOMAIN output, output[f].node # 0
               PROVE  LET file == output[f]
                      IN /\ Codes(Range(file.variables)) = Codes(AllData(file.node))
                         /\ Codes(Range(file.objects)) = Codes(AllObjects(file.node))
                         /\ Range(file.methods) = AllMethods(file.node)
    BY DEF MembersExactly
  <2>1. Describes(f)
    BY DEF FilesInv, WrittenSofar
  <2> QED
    BY <2>1 DEF Describes, Exact, VariablesOf, ObjectsOf, MethodsOf
<1>2. FilesInv => LastNodeIsGenerated
  <2> SUFFICES ASSUME FilesInv, phase = "done", NEW n \in Classes,
                      \A m \in Classes : CodeName(m) = CodeName(n) => m <= n, NEW kind \in Kinds
               PROVE  LET f == <<kind, CodeName(n)>>
                      IN IF Protected(f) THEN output[f] = input.existing[f]
                         ELSE output[f].node = n /\ output[f].host = HostConfig(CodeName(n))
    BY DEF LastNodeIsGenerated, Protected
  <2> DEFINE f == <<kind, CodeName(n)>>
  <2>1. CASE Protected(f)
    <3>1. f \in DOMAIN input.existing
      BY <2>1 DEF Protected
    <3> QED
      BY <2>1, <3>1 DEF FilesInv, WrittenSofar
  <2>2. CASE ~Protected(f)
    <3> DEFINE k == output[f].node
    <3>1. f \in DOMAIN output /\ k \in nodes /\ k >= n
      BY <2>2 DEF FilesInv, WrittenSofar
    <3>2. nodes \subseteq Nat /\ n \in nodes /\ n > 0
      BY ShapeFacts DEF FilesInv, Classes
    <3>3. Describes(f)
      BY <3>1, <3>2 DEF FilesInv, WrittenSofar
    <3>4. k \in Classes /\ CodeName(k) = CodeName(n) /\ output[f].host = HostConfig(CodeName(k))
      BY <3>3 DEF Describes
    <3>5. k <= n
      BY <3>4
    <3> HIDE DEF k
    <3>6. k = n
      BY <3>1, <3>2, <3>5
    <3> QED
      BY <2>2, <3>4, <3>6 DEF k
  <2> QED
    BY <2>1, <2>2
<1>3. FilesInv => FilesFollowModel
  BY <1>1, <1>2 DEF FilesFollowModel
<1> QED
  BY <1>3, FilesInvariance, PTL

(* In whatever order types are built, through whatever cycles: one is      *)
(* found encodable if it can be traced to builtin types, and, unless a     *)
(* cycle is below it, only then; and there is a rule for each of them.     *)
THEOREM EncodableAlwaysExact == FilesSpec => []EncodableExactly
<1>1. FilesInv => EncodableExactly
  <2> SUFFICES ASSUME FilesInv, phase = "allocate"
               PROVE  /\ DOMAIN dataTypes = AllDataTypes
                      /\ \A n \in AllDataTypes :
                           /\ n \in Traced => Encodable(n)
                           /\ Encodable(n) /\ (\A m \in Below(n) \cup {n} : m \notin Below(m))
                                => n \in Traced
    BY DEF EncodableExactly, Encodable
  <2>1. Ready
    BY ReadyFacts DEF FilesInv, TypesInv, Later
  <2>2. Building /\ calls = <<>> /\ DOMAIN dataTypes = AllDataTypes
    BY DEF FilesInv, TypesInv, Later
  <2> QED
    BY <2>1, <2>2, BuiltFacts
<1> QED
  BY <1>1, FilesInvariance, PTL

(* Linking and sanitation never fail, on any documents; a class fails to   *)
(* be generated exactly if its recursion would not end or would ask for a  *)
(* data type that is not there.                                            *)
THEOREM CrashesHaveCause == FilesSpec => CrashHasCause
<1> DEFINE Cause ==
             \/ phase = "parse" /\ Element.tag = "other"
             \/ phase = "encode" /\ \E n \in nodes : HasWrongField(n)
             \/ phase = "allocate" /\ HasValue(Following(pos))
             \/ phase = "generate" /\ HasFault(Following(pos))
           Caused ==
             /\ phase # "crashed" /\ phase' = "crashed" => Cause
             /\ phase = "generate" /\ Following(pos) \in Classes /\ HasFault(Following(pos)) =>
                  phase' = "crashed"
<1>1. FilesInv /\ [FilesNext]_filesVars => [Caused]_filesVars
  <2> SUFFICES ASSUME FilesInv, FilesNext PROVE Caused
    OBVIOUS
  <2>0. 0 \notin Classes /\ phase \in Phases
    BY ShapeFacts DEF FilesInv, IInv, NamespaceTypeOK, Classes
  <2>1. CASE phase = "generate"
    <3>1. GenerateClass \/ EndGenerate
      BY <2>1, OnlyClasses
    <3>2. CASE EndGenerate
      <4>1. phase' = "done" /\ Following(pos) = 0
        BY <2>1, <3>2 DEF EndGenerate, EndLoop, After
      <4> QED
        BY <2>0, <4>1
    <3>3. CASE GenerateClass
      <4>1. Following(pos) \in nodes /\ Graph
        BY <2>1, <3>3, FollowingFacts, CleanedGraph DEF GenerateClass, FilesInv, Later
      <4>2. MembersOfType(Following(pos)).failed <=> HasFault(Following(pos))
        BY <4>1, MembersOfTypeFacts
      <4>3. phase' = "crashed" <=> Following(pos) \in Classes /\ HasFault(Following(pos))
        BY <2>1, <3>3, <4>2 DEF GenerateClass, Crash
      <4> QED
        BY <2>1, <4>3
    <3> QED
      BY <3>1, <3>2, <3>3
  <2>2. CASE phase # "generate"
    <3> SUFFICES ASSUME phase # "crashed", phase' = "crashed" PROVE Cause
      BY <2>2
    <3>1. CASE DataTypesNext
      <4>1. phase = "encode" /\ FieldFails
        BY <3>1, EncodeFacts
      <4>2. Ready /\ Building
        BY <4>1, ReadyFacts DEF FilesInv, TypesInv, Later
      <4>3. AtTypedField /\ FieldType # 0 /\ heap[FieldType].tag # "datatype"
        BY <4>1 DEF FieldFails
      <4>4. AtField /\ heap[Top.node].definition # NoDefinition
        BY <4>3 DEF AtTypedField, AtField, FromDefinition
      <4>5. Top.node \in nodes /\ heap[Top.node].tag = "datatype"
        BY <4>2, <4>4, TopFacts DEF AllDataTypes, AtField, FromDefinition
      <4>6. NextField \in Range(heap[Top.node].definition)
        BY <4>2, <4>4, FieldFacts DEF Range
      <4>7. HasWrongField(Top.node)
        BY <4>3, <4>4, <4>5, <4>6 DEF HasWrongField, FieldType
      <4> QED
        BY <4>1, <4>5, <4>7
    <3>2. ~ClassesNext /\ ~PassNode
      BY <2>2 DEF ClassesNext, GenerateClass, EndGenerate, PassNode
    <3>3. ~EndPass
      BY DEF EndPass, EndLoop, After
    <3>4. CASE PassFails
      BY <3>4 DEF PassFails
    <3>5. CASE NamespaceNext
      <4>1. ~BuildAliasList /\ ~SkipElement /\ ~CreateNode /\ ~RemoveNodeById /\ ~LinkPointer
            /\ ~InvertReference /\ ~InvertNextNode /\ ~UpdateInverseReferences
        BY DEF BuildAliasList, SkipElement, CreateNode, RemoveNodeById, LinkPointer,
           InvertReference, InvertNextNode, UpdateInverseReferences, Parsing
      <4>2. ~EndParse /\ ~EndBlacklist /\ ~EndLink /\ ~EndInvert /\ ~EndInverse /\ ~EndSanitize
        BY DEF EndParse, EndBlacklist, EndLink, EndInvert, EndInverse, EndSanitize, EndLoop, After
      <4>3. CASE CreateNodeFails
        BY <4>3 DEF CreateNodeFails, Parsing
      <4>4. CASE Sanitize
        <5> DEFINE n == Following(pos)
                   refs == [references EXCEPT ![n] = {r \in @ : IsLinked(r)}]
        <5>1. phase = "sanitize" /\ n # 0 /\ Sources(refs, n) \cap Targets(refs, n) # {}
          BY <4>4 DEF Sanitize
        <5>2. n \in nodes
          BY <5>1, FollowingFacts DEF FilesInv
        <5>3. n \in DOMAIN heap /\ n \in DOMAIN references
          BY <5>2, ShapeFacts DEF FilesInv
        <5>4. refs[n] \subseteq references[n]
          BY <5>3
        <5>5. Targets(refs, n) \subseteq Targets(references, n)
          BY <5>4 DEF Targets
        <5>6. Sources(refs, n) \subseteq referencedBy[n]
          BY DEF Sources
        <5>7. referencedBy[n] \cap Targets(references, n) = {}
          BY <5>3 DEF FilesInv, IInv, NeverBoth
        <5> QED
          BY <5>1, <5>5, <5>6, <5>7
      <4> QED
        BY <3>5, <4>1, <4>2, <4>3, <4>4 DEF NamespaceNext
    <3> QED
      BY <3>1, <3>2, <3>3, <3>4, <3>5 DEF FilesNext
  <2> QED
    BY <2>1, <2>2
<1>2. [][Caused]_filesVars => CrashHasCause
  BY DEF CrashHasCause
<1> HIDE DEF Caused
<1> QED
  BY <1>1, <1>2, FilesInvariance, PTL DEF FilesSpec
=============================================================================
