--------------------------- MODULE NamespaceProofs ---------------------------
(***************************************************************************)
(* Namespace for any documents and any blacklist: the six invariants that  *)
(* the run of ClassGenerator checks on small inputs.                       *)
(*                                                                         *)
(* The inductive invariant says, phase by phase, how far the loop over the *)
(* nodes is: what the property of a phase promises for all nodes holds for *)
(* those the loop has visited.                                             *)
(***************************************************************************)
EXTENDS Namespace, SequenceTheorems, WellFoundedInduction, TLAPS

Early == {"parse", "blacklist"}
Linking == Early \cup {"link", "invert"}
Later == {"encode", "allocate", "generate", "done"}

(* The shape of the heap and of the pointers into it.                      *)
Shape ==
  /\ IsSequence(heap) /\ IsSequence(pointers)
  /\ IsSequence(references) /\ Len(references) = Len(heap)
  /\ IsSequence(referencedBy) /\ Len(referencedBy) = Len(heap)
  /\ IsSequence(attribute) /\ Len(attribute) = Len(heap)

(* Nothing is linked before its phase, and the inner loop is at its start. *)
Unlinked ==
  /\ phase \in Early => \A p \in DOMAIN pointers :
       pointers[p].target.node = 0 /\ pointers[p].type.node = 0
  /\ phase \in Linking => \A n \in DOMAIN heap : referencedBy[n] = {}
  /\ item # 0 => phase = "invert" /\ Following(pos) # 0

(* The dictionary of the namespace knows every node of the list.           *)
Known == \A n \in nodes : heap[n].id \in nodeids

(* How far inversion is: reference r of node n has been visited.           *)
Visited(n, r) == n <= pos \/ (n = Following(pos) /\ r <= item)

HasCounterpart(n, r) ==
  \E q \in references[pointers[r].target.node] :
    /\ pointers[q].forward /\ pointers[q].target.node = n
    /\ pointers[q].type = pointers[r].type

Inverted ==
  \A n \in nodes : \A r \in references[n] :
    /\ ~pointers[r].forward /\ pointers[r].target.node # 0 /\ pointers[r].type.node # 0
    /\ (phase = "invert" => Visited(n, r))
    /\ phase \in {"invert", "inverse", "sanitize"} \cup Later
    => HasCounterpart(n, r)

(* How far the inverse references are.                                     *)
Informed ==
  phase = "inverse" => \A n \in nodes : n <= pos =>
    \A t \in Targets(references, n) \ {0} :
      n \in referencedBy[t] \/ n \in Targets(references, t)

(* How far sanitation is.                                                  *)
Sanitized ==
  phase \in {"sanitize"} \cup Later => \A n \in nodes : (phase = "sanitize" => n <= pos) =>
    \A m \in referencedBy[n] : n \in Targets(references, m) \/ m > n

IInv ==
  /\ input \in Inputs /\ NamespaceTypeOK /\ Shape /\ Unlinked /\ Known /\ UniqueIds
  /\ NeverBoth /\ Inverted /\ Informed /\ TargetsKnowSources /\ Sanitized

-----------------------------------------------------------------------------
(* Numbers and sequences.                                                  *)

Less == {pair \in Nat \X Nat : pair[1] < pair[2]}

(* The order of the numbers is well-founded.                               *)
LEMMA LessWellFounded == IsWellFoundedOn(Less, Nat)
BY NatLessThanWellFounded DEF OpToRel, Less

(* A set of numbers has a least one: what getNodeByIDString and the loops  *)
(* over lists choose exists.                                               *)
LEMMA Least ==
  ASSUME NEW S \in SUBSET Nat, S # {}
  PROVE  \E x \in S : \A y \in S : x <= y
<1>1. PICK x \in S : \A y \in S : <<y, x>> \notin Less
  BY LessWellFounded, WFMin
<1>2. ASSUME NEW y \in S PROVE x <= y
  <2>1. x \in Nat /\ y \in Nat
    OBVIOUS
  <2>2. <<y, x>> \in Nat \X Nat
    BY <2>1
  <2>3. ~(y < x)
    BY <1>1, <2>2 DEF Less
  <2>4. QED
    BY <2>1, <2>3
<1>3. QED
  BY <1>2

(* A loop over a list has seen everything, or goes on with what is next.   *)
LEMMA LoopStep ==
  ASSUME NEW S \in SUBSET Nat, NEW p \in Nat
  PROVE  \/ NextIn(S, p) = 0 /\ \A n \in S : n <= p
         \/ /\ NextIn(S, p) \in S /\ NextIn(S, p) > p /\ NextIn(S, p) # 0
            /\ \A m \in S : m > p => NextIn(S, p) <= m
<1> DEFINE T == {n \in S : n > p}
<1>1. CASE T = {}
  BY <1>1 DEF NextIn
<1>2. CASE T # {}
  <2>1. \E x \in S : x > p /\ \A m \in S : m > p => x <= m
    <3>1. PICK x \in T : \A y \in T : x <= y
      <4>1. T \in SUBSET Nat
        OBVIOUS
      <4>2. QED
        BY <1>2, <4>1, Least
    <3>2. QED
      BY <3>1
  <2>2. \E n \in S : n > p
    BY <2>1
  <2> DEFINE y == CHOOSE n \in S : n > p /\ \A m \in S : m > p => n <= m
  <2>3. y \in S /\ y > p /\ \A m \in S : m > p => y <= m
    BY <2>1
  <2>4. NextIn(S, p) = y
    BY <2>2 DEF NextIn
  <2> HIDE DEF y
  <2>5. y \in Nat
    BY <2>3
  <2>6. QED
    BY <2>3, <2>4, <2>5
<1>3. QED
  BY <1>1, <1>2

(* The length and the domain of a sequence.                                *)
LEMMA SequenceFacts ==
  ASSUME NEW s, IsSequence(s)
  PROVE  Len(s) \in Nat /\ DOMAIN s = 1 .. Len(s)
BY LenProperties DEF IsSequence

(* Appending to a sequence: its length and its elements.                   *)
LEMMA AppendedFacts ==
  ASSUME NEW s, IsSequence(s), NEW e
  PROVE  /\ IsSequence(Append(s, e)) /\ Len(Append(s, e)) = Len(s) + 1
         /\ \A i \in 1 .. Len(s) : Append(s, e)[i] = s[i]
         /\ Append(s, e)[Len(s) + 1] = e
<1> DEFINE S == Range(s) \cup {e}
<1>1. s \in Seq(S)
  BY SeqMonotonic DEF IsSequence
<1>2. e \in S
  OBVIOUS
<1> HIDE DEF S
<1>3. /\ Append(s, e) \in Seq(S) /\ Len(Append(s, e)) = Len(s) + 1
      /\ \A i \in 1 .. Len(s) : Append(s, e)[i] = s[i]
      /\ Append(s, e)[Len(s) + 1] = e
  BY <1>1, <1>2, AppendProperties
<1>4. IsSequence(Append(s, e))
  BY <1>3, SeqOfRange DEF IsSequence
<1>5. QED
  BY <1>3, <1>4

(* Concatenating two sequences: the length and the elements.               *)
LEMMA ConcatFacts ==
  ASSUME NEW s, NEW t, IsSequence(s), IsSequence(t)
  PROVE  /\ IsSequence(s \o t) /\ Len(s \o t) = Len(s) + Len(t)
         /\ \A i \in 1 .. Len(s) + Len(t) :
              (s \o t)[i] = IF i <= Len(s) THEN s[i] ELSE t[i - Len(s)]
<1> DEFINE S == Range(s) \cup Range(t)
<1>1. s \in Seq(S) /\ t \in Seq(S)
  BY SeqMonotonic DEF IsSequence
<1>2. s \o t \in Seq(S)
  BY <1>1, ConcatProperties
<1>3. QED
  BY <1>1, <1>2, ConcatProperties, SeqOfRange DEF IsSequence

(* A function on the indices of a sequence is one, too.                    *)
LEMMA FunctionFacts ==
  ASSUME NEW s, IsSequence(s), NEW f, f = [i \in DOMAIN s |-> f[i]]
  PROVE  IsSequence(f) /\ Len(f) = Len(s)
<1> DEFINE S == {f[i] : i \in 1 .. Len(s)}
<1>1. Len(s) \in Nat /\ DOMAIN s = 1 .. Len(s)
  BY SequenceFacts
<1>2. f \in [1 .. Len(s) -> S]
  BY <1>1
<1>3. f \in Seq(S)
  BY <1>1, <1>2, SeqDef
<1>4. Len(f) \in Nat /\ DOMAIN f = 1 .. Len(f)
  BY <1>3, LenProperties
<1>5. Len(f) = Len(s)
  BY <1>1, <1>2, <1>4
<1>6. QED
  BY <1>3, <1>5, SeqOfRange DEF IsSequence

(* The pointers made of a list of references are a list as long.           *)
LEMMA SymbolicFacts ==
  ASSUME NEW refs, IsSequence(refs)
  PROVE  LET s == [i \in DOMAIN refs |-> Symbolic(refs[i])]
         IN IsSequence(s) /\ Len(s) = Len(refs)
<1> DEFINE s == [i \in DOMAIN refs |-> Symbolic(refs[i])]
<1>1. s = [i \in DOMAIN refs |-> s[i]]
  OBVIOUS
<1> HIDE DEF s
<1>2. QED
  BY <1>1, FunctionFacts DEF s

(* A sequence of one element.                                              *)
LEMMA SingletonFacts ==
  ASSUME NEW e
  PROVE  IsSequence(<<e>>) /\ Len(<<e>>) = 1 /\ <<e>>[1] = e
<1>1. <<e>> \in Seq({e})
  OBVIOUS
<1>2. QED
  BY <1>1, SeqOfRange DEF IsSequence

(* The empty sequence.                                                     *)
LEMMA EmptyFacts == IsSequence(<<>>) /\ Len(<<>>) = 0
<1>1. <<>> \in Seq({})
  BY EmptySeq
<1>2. QED
  BY <1>1, SeqOfRange, EmptySeq DEF IsSequence

-----------------------------------------------------------------------------
(* What the shape of a state gives, once and for all.                      *)
LEMMA ShapeFacts ==
  ASSUME IInv
  PROVE  /\ Len(heap) \in Nat /\ DOMAIN heap = 1 .. Len(heap)
         /\ DOMAIN references = 1 .. Len(heap) /\ DOMAIN referencedBy = 1 .. Len(heap)
         /\ DOMAIN attribute = 1 .. Len(heap)
         /\ Len(pointers) \in Nat /\ DOMAIN pointers = 1 .. Len(pointers)
         /\ nodes \in SUBSET Nat /\ \A n \in nodes : n \in 1 .. Len(heap)
         /\ \A n \in 1 .. Len(heap) : references[n] \in SUBSET (1 .. Len(pointers))
BY SequenceFacts DEF IInv, Shape, NamespaceTypeOK

(* What a loop over the nodes visits next is a node that comes later.      *)
LEMMA FollowingFacts ==
  ASSUME IInv
  PROVE  \/ Following(pos) = 0 /\ \A n \in nodes : n <= pos
         \/ /\ Following(pos) \in nodes /\ Following(pos) > pos /\ Following(pos) # 0
            /\ \A m \in nodes : m > pos => Following(pos) <= m
<1>1. nodes \in SUBSET Nat /\ pos \in Nat
  BY ShapeFacts DEF IInv, NamespaceTypeOK
<1>2. QED
  BY <1>1, LoopStep DEF Following

(* Ids are unique, so that there is no choice in getNodeByIDString.        *)
LEMMA NodeByIdStringFacts ==
  ASSUME IInv, NEW id
  PROVE  \/ NodeByIdString(id) = 0 /\ \A n \in nodes : heap[n].id # id
         \/ /\ NodeByIdString(id) \in nodes /\ heap[NodeByIdString(id)].id = id
            /\ \A n \in nodes : heap[n].id = id => n = NodeByIdString(id)
<1>1. CASE \A n \in nodes : heap[n].id # id
  BY <1>1 DEF NodeByIdString
<1>2. ASSUME NEW k \in nodes, heap[k].id = id
      PROVE  NodeByIdString(id) = k /\ \A n \in nodes : heap[n].id = id => n = k
  <2>1. \A n \in nodes : heap[n].id = id => n = k
    BY <1>2 DEF IInv, UniqueIds
  <2>2. k \in Nat
    BY ShapeFacts
  <2>3. k <= k
    BY <2>2
  <2>4. QED
    BY <1>2, <2>1, <2>3 DEF NodeByIdString
<1>3. QED
  BY <1>1, <1>2

-----------------------------------------------------------------------------
(* The invariant holds initially: there are no nodes.                      *)
LEMMA InitHolds == Init => IInv
<1> SUFFICES ASSUME Init PROVE IInv
  OBVIOUS
<1> USE DEF Init
<1>1. IsSequence(<<>>) /\ Len(<<>>) = 0 /\ DOMAIN <<>> = {}
  BY EmptyFacts, SequenceFacts
<1>2. NamespaceTypeOK
  <2>1. Range(pointers) = {}
    BY <1>1 DEF Range
  <2>2. QED
    BY <1>1, <2>1 DEF NamespaceTypeOK, Phases
<1>3. Shape /\ Unlinked
  BY <1>1 DEF Shape, Unlinked
<1>4. QED
  BY <1>1, <1>2, <1>3 DEF IInv, Known, UniqueIds, NeverBoth, Inverted, Informed,
     TargetsKnowSources, Sanitized, Later

(* Steps that leave the nodes and what they are linked by alone, and stay  *)
(* within the loop that visits no nodes, or leave the generator's course.  *)
LEMMA QuietStep ==
  ASSUME IInv, UNCHANGED <<input, heap, nodes, nodeids, linkVars>>,
         pos' \in Nat, phase # "invert",
         \/ phase \in Early /\ phase' = phase
         \/ phase' = "crashed"
         \/ phase \in Later /\ phase' \in Later
  PROVE  IInv'
<1> USE DEF linkVars, Early, Later, Linking
<1>1. NamespaceTypeOK'
  BY DEF IInv, NamespaceTypeOK, Phases
<1>2. Shape' /\ Known' /\ UniqueIds' /\ Unlinked'
  BY DEF IInv, Shape, Known, UniqueIds, Unlinked
<1>3. NeverBoth' /\ Informed' /\ TargetsKnowSources' /\ Sanitized'
  BY DEF IInv, NeverBoth, Informed, TargetsKnowSources, Sanitized, Targets
<1>4. Inverted'
  BY DEF IInv, Inverted, HasCounterpart
<1>5. QED
  BY <1>1, <1>2, <1>3, <1>4 DEF IInv

(* The end of a loop: what held for the nodes visited holds for all, and   *)
(* nothing is claimed of the next loop yet.                                *)
LEMMA EndStep ==
  ASSUME IInv, EndLoop,
         phase \in {"parse", "blacklist", "link", "invert", "inverse", "sanitize"},
         phase \in {"invert", "inverse", "sanitize"} => Following(pos) = 0
  PROVE  IInv'
<1> USE DEF EndLoop, nodeVars, linkVars, Early, Later, Linking, After
<1>0. phase \in {"invert", "inverse", "sanitize"} => \A n \in nodes : n <= pos
  BY FollowingFacts
<1>1. NamespaceTypeOK'
  BY DEF IInv, NamespaceTypeOK, Phases
<1>2. Shape' /\ Known' /\ UniqueIds' /\ Unlinked'
  BY DEF IInv, Shape, Known, UniqueIds, Unlinked
<1>3. NeverBoth'
  BY DEF IInv, NeverBoth, Targets
<1>4. Informed' /\ TargetsKnowSources' /\ Sanitized'
  <2>1. \A n \in nodes : n \in Nat /\ n > 0
    BY ShapeFacts
  <2>2. QED
    BY <1>0, <2>1 DEF IInv, Informed, TargetsKnowSources, Sanitized, Targets
<1>5. Inverted'
  <2>1. \A n \in nodes : n \in Nat /\ n > 0
    BY ShapeFacts
  <2>2. \A n \in nodes : \A r \in references[n] : r \in Nat /\ r > 0
    BY ShapeFacts
  <2>3. phase = "link" => item = 0 /\ phase' = "invert" /\ pos' = 0
    BY DEF IInv, Unlinked
  <2>4. QED
    BY <1>0, <2>1, <2>2, <2>3 DEF IInv, Inverted, HasCounterpart, Visited
<1>6. QED
  BY <1>1, <1>2, <1>3, <1>4, <1>5 DEF IInv

(* What parseXML takes next is one of the elements.                        *)
LEMMA ElementFacts ==
  ASSUME IInv, Parsing
  PROVE  Element \in Range(input.elements)
<1>1. IsSequence(input.elements) /\ pos \in Nat
  BY InputsAssumption DEF IInv, NamespaceTypeOK
<1>2. pos + 1 \in DOMAIN input.elements
  BY <1>1, SequenceFacts DEF Parsing
<1> QED
  BY <1>2 DEF Element, Range

(* createNode: a node of the same id makes way, and nothing is linked yet. *)
LEMMA CreateStep ==
  ASSUME IInv, CreateNode
  PROVE  IInv'
<1> USE DEF CreateNode, Parsing
<1> DEFINE e == Element
           refs == IF ReferencesRead(e) THEN e.refs ELSE <<>>
           pointed == IF HasPointer(e)
                      THEN <<Symbolic([target |-> e.attr, type |-> None, forward |-> TRUE])>>
                      ELSE <<>>
           symbolic == [i \in DOMAIN refs |-> Symbolic(refs[i])]
           own == {Len(pointers) + i : i \in Kept(refs)}
           attr == IF pointed = <<>> THEN 0 ELSE Len(pointers) + Len(refs) + 1
           N == Len(heap) + 1
<1>1. IsSequence(e.refs) /\ \A k \in DOMAIN e.refs : e.refs[k].forward \in BOOLEAN
  <2>1. e \in Range(input.elements)
    BY ElementFacts
  <2>2. QED
    BY <2>1, InputsAssumption DEF IInv
<1>2. IsSequence(refs) /\ Len(refs) \in Nat /\ DOMAIN refs = 1 .. Len(refs)
  BY <1>1, EmptyFacts, SequenceFacts
<1>3. \A k \in DOMAIN refs : refs[k].forward \in BOOLEAN
  BY <1>1, EmptyFacts, SequenceFacts
<1>4. IsSequence(symbolic) /\ Len(symbolic) = Len(refs)
  BY <1>2, SymbolicFacts
<1>5. IsSequence(pointed) /\ Len(pointed) \in {0, 1} /\ (pointed # <<>> => Len(pointed) = 1)
  BY EmptyFacts, SingletonFacts
<1>6. \A i \in 1 .. Len(symbolic) : /\ symbolic[i].target.node = 0 /\ symbolic[i].type.node = 0
                                   /\ symbolic[i].forward \in BOOLEAN
  BY <1>2, <1>3, <1>4 DEF Symbolic, AnyText
<1>7. \A i \in 1 .. Len(pointed) : /\ pointed[i].target.node = 0 /\ pointed[i].type.node = 0
                                  /\ pointed[i].forward \in BOOLEAN
  <2> DEFINE only == Symbolic([target |-> e.attr, type |-> None, forward |-> TRUE])
  <2>1. only.target.node = 0 /\ only.type.node = 0 /\ only.forward \in BOOLEAN
    BY DEF Symbolic, AnyText
  <2>2. pointed = <<only>> \/ pointed = <<>>
    OBVIOUS
  <2> HIDE DEF only, pointed
  <2>3. CASE pointed = <<only>>
    <3>1. Len(<<only>>) = 1 /\ <<only>>[1] = only
      BY SingletonFacts
    <3>2. \A i \in 1 .. Len(pointed) : pointed[i] = only
      BY <2>3, <3>1
    <3>3. QED
      BY <2>1, <3>2
  <2>4. CASE pointed = <<>>
    BY <2>4, EmptyFacts
  <2>5. QED
    BY <2>2, <2>3, <2>4
<1>8. /\ heap' = Append(heap, e)
      /\ nodes' = (nodes \ Replaced(e.id)) \cup {N}
      /\ nodeids' = nodeids \cup {e.id}
      /\ pointers' = pointers \o symbolic \o pointed
      /\ references' = Append(references, own)
      /\ referencedBy' = Append(referencedBy, {})
      /\ attribute' = Append(attribute, attr)
      /\ pos' = pos + 1 /\ phase = "parse"
      /\ UNCHANGED <<input, phase, item>>
  OBVIOUS
<1>9. own \subseteq Len(pointers) + 1 .. Len(pointers) + Len(refs)
  BY <1>2, ShapeFacts DEF Kept
<1> HIDE DEF CreateNode, Parsing, e, refs, pointed, symbolic, own, attr
<1>10. /\ IsSequence(pointers') /\ Len(pointers') = Len(pointers) + Len(refs) + Len(pointed)
       /\ Len(pointers') \in Nat /\ DOMAIN pointers' = 1 .. Len(pointers')
  <2>1. IsSequence(pointers) /\ Len(pointers) \in Nat
    BY ShapeFacts DEF IInv, Shape
  <2>2. IsSequence(pointers \o symbolic) /\ Len(pointers \o symbolic) = Len(pointers) + Len(refs)
    BY <1>4, <2>1, ConcatFacts
  <2>3. QED
    BY <1>5, <1>8, <2>2, ConcatFacts, SequenceFacts
<1>11. \A p \in 1 .. Len(pointers') : /\ pointers'[p].target.node = 0
                                      /\ pointers'[p].type.node = 0
                                      /\ pointers'[p].forward \in BOOLEAN
  <2>1. IsSequence(pointers) /\ Len(pointers) \in Nat /\ DOMAIN pointers = 1 .. Len(pointers)
    BY ShapeFacts DEF IInv, Shape
  <2>2. \A p \in 1 .. Len(pointers) : /\ pointers[p].target.node = 0
                                      /\ pointers[p].type.node = 0
                                      /\ pointers[p].forward \in BOOLEAN
    BY <1>8, <2>1 DEF IInv, Unlinked, Early, NamespaceTypeOK, Range
  <2> DEFINE both == pointers \o symbolic
  <2>3. /\ IsSequence(both) /\ Len(both) = Len(pointers) + Len(refs)
        /\ \A p \in 1 .. Len(pointers) + Len(symbolic) :
             both[p] = IF p <= Len(pointers) THEN pointers[p] ELSE symbolic[p - Len(pointers)]
    BY <1>4, <2>1, ConcatFacts
  <2> HIDE DEF both
  <2>4. \A p \in 1 .. Len(both) + Len(pointed) :
           pointers'[p] = IF p <= Len(both) THEN both[p] ELSE pointed[p - Len(both)]
    <3>1. pointers' = both \o pointed
      BY <1>8 DEF both
    <3>2. QED
      BY <3>1, <1>5, <2>3, ConcatFacts
  <2>5. \A p \in 1 .. Len(both) : both[p].target.node = 0 /\ both[p].type.node = 0
                                 /\ both[p].forward \in BOOLEAN
    <3> TAKE p \in 1 .. Len(both)
    <3>1. CASE p <= Len(pointers)
      BY <3>1, <1>2, <1>4, <2>1, <2>2, <2>3
    <3>2. CASE ~(p <= Len(pointers))
      BY <3>2, <1>2, <1>4, <1>6, <2>1, <2>3
    <3>3. QED
      BY <3>1, <3>2
  <2>6. TAKE p \in 1 .. Len(pointers')
  <2>7. CASE p <= Len(both)
    BY <2>7, <1>2, <1>5, <1>10, <2>1, <2>3, <2>4, <2>5
  <2>8. CASE ~(p <= Len(both))
    BY <2>8, <1>2, <1>5, <1>7, <1>10, <2>1, <2>3, <2>4
  <2>9. QED
    BY <2>7, <2>8
<1>12. /\ IsSequence(heap') /\ Len(heap') = N /\ heap'[N] = e
       /\ \A n \in 1 .. Len(heap) : heap'[n] = heap[n]
  BY <1>8, AppendedFacts DEF IInv, Shape
<1>13. /\ IsSequence(references') /\ Len(references') = N /\ references'[N] = own
       /\ \A n \in 1 .. Len(heap) : references'[n] = references[n]
  BY <1>8, AppendedFacts DEF IInv, Shape
<1>14. /\ IsSequence(referencedBy') /\ Len(referencedBy') = N /\ referencedBy'[N] = {}
       /\ \A n \in 1 .. Len(heap) : referencedBy'[n] = referencedBy[n]
  BY <1>8, AppendedFacts DEF IInv, Shape
<1>15. /\ IsSequence(attribute') /\ Len(attribute') = N /\ attribute'[N] = attr
       /\ \A n \in 1 .. Len(heap) : attribute'[n] = attribute[n]
  BY <1>8, AppendedFacts DEF IInv, Shape
<1>16. Shape'
  BY <1>10, <1>12, <1>13, <1>14, <1>15 DEF Shape
<1>17. /\ DOMAIN heap' = 1 .. N /\ DOMAIN references' = 1 .. N
       /\ DOMAIN referencedBy' = 1 .. N /\ DOMAIN attribute' = 1 .. N
  BY <1>12, <1>13, <1>14, <1>15, SequenceFacts
<1>18. Len(heap) \in Nat /\ nodes \subseteq 1 .. Len(heap) /\ Len(pointers) \in Nat
  BY ShapeFacts
<1>19. nodes' \subseteq 1 .. N /\ nodes' \ {N} \subseteq nodes
  <2>1. 1 .. Len(heap) \subseteq 1 .. N /\ N \in 1 .. N
    BY <1>18
  <2>2. QED
    BY <1>8, <1>18, <2>1
<1>20. \A n \in 1 .. N : referencedBy'[n] = {}
  <2>1. \A n \in 1 .. Len(heap) : referencedBy[n] = {}
    BY <1>8, ShapeFacts DEF IInv, Unlinked, Linking, Early
  <2>2. QED
    BY <1>14, <1>18, <2>1
<1>21. NamespaceTypeOK'
  <2>1. \A n \in 1 .. N : references'[n] \subseteq 1 .. Len(pointers')
    <3> TAKE n \in 1 .. N
    <3>1. CASE n = N
      BY <3>1, <1>2, <1>5, <1>9, <1>10, <1>13, <1>18
    <3>2. CASE n # N
      <4>1. n \in 1 .. Len(heap)
        BY <3>2, <1>18
      <4>2. references[n] \subseteq 1 .. Len(pointers)
        BY <4>1, ShapeFacts
      <4>3. 1 .. Len(pointers) \subseteq 1 .. Len(pointers')
        BY <1>2, <1>5, <1>10, <1>18
      <4>4. QED
        BY <1>13, <4>1, <4>2, <4>3
    <3>3. QED
      BY <3>1, <3>2
  <2>2. \A n \in 1 .. N : attribute'[n] \in {0} \cup 1 .. Len(pointers')
    <3> TAKE n \in 1 .. N
    <3>1. CASE n = N
      BY <3>1, <1>2, <1>5, <1>10, <1>15, <1>18 DEF attr
    <3>2. CASE n # N
      <4>1. n \in 1 .. Len(heap)
        BY <3>2, <1>18
      <4>2. attribute[n] \in {0} \cup 1 .. Len(pointers)
        BY <4>1, ShapeFacts DEF IInv, NamespaceTypeOK
      <4>3. QED
        BY <1>2, <1>5, <1>10, <1>15, <1>18, <4>1, <4>2
    <3>3. QED
      BY <3>1, <3>2
  <2>3. phase' \in Phases /\ pos' \in Nat /\ item' \in Nat
    BY <1>8 DEF IInv, NamespaceTypeOK
  <2>4. \A p \in Range(pointers') :
          p.forward \in BOOLEAN /\ {p.target.node, p.type.node} \subseteq {0} \cup nodes'
    BY <1>10, <1>11 DEF Range
  <2>5. QED
    BY <1>10, <1>17, <1>19, <1>20, <2>1, <2>2, <2>3, <2>4 DEF NamespaceTypeOK
<1>22. Unlinked'
  BY <1>8, <1>10, <1>11, <1>17, <1>20 DEF IInv, Unlinked, Early, Linking
<1>23. \A n \in nodes' \ {N} : n \in 1 .. Len(heap) /\ heap'[n] = heap[n] /\ heap[n].id # e.id
  <2> TAKE n \in nodes' \ {N}
  <2>1. n \in nodes /\ n \notin Replaced(e.id) /\ n \in 1 .. Len(heap)
    BY <1>8, <1>18
  <2>2. heap[n].id # e.id
    <3>1. CASE e.id \in nodeids
      BY <2>1, <3>1, NodeByIdStringFacts DEF Replaced
    <3>2. CASE e.id \notin nodeids
      BY <2>1, <3>2 DEF IInv, Known
    <3>3. QED
      BY <3>1, <3>2
  <2>3. QED
    BY <1>12, <2>1, <2>2
<1>24. Known' /\ UniqueIds'
  <2>1. Known'
    BY <1>8, <1>12, <1>19, <1>23 DEF IInv, Known
  <2>2. UniqueIds'
    BY <1>12, <1>19, <1>23 DEF IInv, UniqueIds
  <2>3. QED
    BY <2>1, <2>2
<1>25. NeverBoth' /\ Inverted' /\ Informed' /\ TargetsKnowSources' /\ Sanitized' /\ input' \in Inputs
  BY <1>8, <1>17, <1>20 DEF IInv, NeverBoth, Inverted, Informed, TargetsKnowSources, Sanitized, Later
<1>26. QED
  BY <1>16, <1>21, <1>22, <1>24, <1>25 DEF IInv

(* removeNodeById: nothing refers to a node yet.                           *)
LEMMA RemoveStep ==
  ASSUME IInv, RemoveNodeById
  PROVE  IInv'
<1> USE DEF RemoveNodeById, linkVars
<1>1. phase = "blacklist" /\ nodes' \subseteq nodes /\ pos' = pos + 1
  OBVIOUS
<1>2. NamespaceTypeOK'
  <2>1. \A n \in DOMAIN heap : referencedBy[n] = {}
    BY <1>1 DEF IInv, Unlinked, Linking, Early
  <2>2. \A p \in Range(pointers) : p.target.node = 0 /\ p.type.node = 0
    BY <1>1 DEF IInv, Unlinked, Early, Range
  <2>3. QED
    BY <1>1, <2>1, <2>2 DEF IInv, NamespaceTypeOK
<1>3. Shape' /\ Unlinked'
  BY <1>1 DEF IInv, Shape, Unlinked
<1>4. Known' /\ UniqueIds'
  BY <1>1 DEF IInv, Known, UniqueIds
<1>5. NeverBoth' /\ Inverted' /\ Informed' /\ TargetsKnowSources' /\ Sanitized'
  BY <1>1 DEF IInv, NeverBoth, Targets, Inverted, Informed, TargetsKnowSources, Sanitized, Later
<1>6. QED
  BY <1>2, <1>3, <1>4, <1>5 DEF IInv

(* linkOpenPointers, first loop: an end that is linked is in the list.     *)
LEMMA LinkStep ==
  ASSUME IInv, LinkPointer
  PROVE  IInv'
<1> DEFINE new == [target |-> Linked(pointers[pos + 1].target),
                   type |-> IF pointers[pos + 1].type.text = None THEN pointers[pos + 1].type
                            ELSE Linked(pointers[pos + 1].type),
                   forward |-> pointers[pos + 1].forward]
<1>1. /\ phase = "link" /\ pos' = pos + 1
      /\ pointers' = [pointers EXCEPT ![pos + 1] = new]
      /\ UNCHANGED <<input, phase, nodeVars, references, referencedBy, attribute, item>>
  BY DEF LinkPointer
<1> USE DEF nodeVars
<1>2. pos \in Nat /\ pos + 1 \in 1 .. Len(pointers)
  BY ShapeFacts DEF LinkPointer, IInv, NamespaceTypeOK
<1>3. \A p \in 1 .. Len(pointers) : /\ pointers[p].forward \in BOOLEAN
                                    /\ pointers[p].target.node \in {0} \cup nodes
                                    /\ pointers[p].type.node \in {0} \cup nodes
  BY ShapeFacts DEF IInv, NamespaceTypeOK, Range
<1>4. new.target.node \in {0} \cup nodes /\ new.type.node \in {0} \cup nodes
  BY <1>2, <1>3, NodeByIdStringFacts DEF Linked
<1>5. new.forward \in BOOLEAN
  BY <1>2, <1>3
<1> HIDE DEF new
<1>6. /\ IsSequence(pointers') /\ Len(pointers') = Len(pointers)
      /\ DOMAIN pointers' = 1 .. Len(pointers)
      /\ \A p \in 1 .. Len(pointers) : pointers'[p] = IF p = pos + 1 THEN new ELSE pointers[p]
  <2>1. IsSequence(pointers) /\ DOMAIN pointers = 1 .. Len(pointers)
    BY SequenceFacts DEF IInv, Shape
  <2>2. pointers' = [p \in DOMAIN pointers |-> pointers'[p]]
    BY <1>1
  <2>3. \A p \in DOMAIN pointers : pointers'[p] = IF p = pos + 1 THEN new ELSE pointers[p]
    BY <1>1
  <2>4. IsSequence(pointers') /\ Len(pointers') = Len(pointers)
    BY <2>1, <2>2, FunctionFacts
  <2>5. DOMAIN pointers' = 1 .. Len(pointers')
    BY <2>4, SequenceFacts
  <2>6. QED
    BY <2>1, <2>3, <2>4, <2>5
<1>7. \A p \in 1 .. Len(pointers) : /\ pointers'[p].forward \in BOOLEAN
                                    /\ pointers'[p].target.node \in {0} \cup nodes
                                    /\ pointers'[p].type.node \in {0} \cup nodes
  BY <1>3, <1>4, <1>5, <1>6
<1>8. NamespaceTypeOK'
  <2>1. DOMAIN pointers' = DOMAIN pointers
    BY <1>6, ShapeFacts
  <2>2. \A p \in Range(pointers') :
          p.forward \in BOOLEAN /\ {p.target.node, p.type.node} \subseteq {0} \cup nodes'
    BY <1>1, <1>6, <1>7 DEF Range
  <2>3. phase' = phase /\ pos' \in Nat /\ UNCHANGED <<nodeVars, references, referencedBy, attribute, item>>
    BY <1>1, <1>2
  <2>4. QED
    BY <2>1, <2>2, <2>3 DEF IInv, NamespaceTypeOK
<1>9. Shape' /\ Unlinked' /\ Known' /\ UniqueIds'
  BY <1>1, <1>6 DEF IInv, Shape, Unlinked, Early, Linking, Known, UniqueIds
<1>10. NeverBoth'
  BY <1>1 DEF IInv, NeverBoth, Unlinked, Linking, Early
<1>11. Inverted' /\ Informed' /\ TargetsKnowSources' /\ Sanitized'
  BY <1>1 DEF IInv, Inverted, Informed, TargetsKnowSources, Sanitized, Later
<1>12. QED
  BY <1>1, <1>8, <1>9, <1>10, <1>11 DEF IInv

-----------------------------------------------------------------------------
(* A pointer of a state, and the node it points to.                        *)
LEMMA PointerFacts ==
  ASSUME IInv
  PROVE  /\ \A p \in 1 .. Len(pointers) : /\ pointers[p].forward \in BOOLEAN
                                           /\ pointers[p].target.node \in {0} \cup nodes
                                           /\ pointers[p].type.node \in {0} \cup nodes
         /\ \A n \in nodes : \A r \in references[n] : r \in 1 .. Len(pointers)
BY ShapeFacts DEF IInv, NamespaceTypeOK, Range

(* Inversion of one reference: it has its counterpart afterwards, and the  *)
(* reference that is added, being forward, needs none.                     *)
LEMMA InvertStep ==
  ASSUME IInv, InvertReference
  PROVE  IInv'
<1> DEFINE n == Following(pos)
           r == NextIn(references[n], item)
           t == pointers[r].target.node
           K == Len(pointers) + 1
<1>1. /\ phase = "invert" /\ n # 0 /\ r # 0 /\ item' = r
      /\ UNCHANGED <<input, phase, pos, heap, nodes, nodeids, aliases, referencedBy, attribute>>
  BY DEF InvertReference, nodeVars
<1>2. IF IsInverted(n, r) THEN UNCHANGED <<pointers, references>>
      ELSE /\ pointers' = Append(pointers, Forward(n, r))
           /\ references' = [references EXCEPT ![t] = @ \cup {K}]
  BY DEF InvertReference
<1>3. n' = n
  BY <1>1 DEF Following
<1> HIDE DEF n
<1>4. n \in nodes /\ n > pos
  BY <1>1, FollowingFacts DEF n
<1>5. /\ r \in references[n] /\ r > item /\ r \in 1 .. Len(pointers)
      /\ \A q \in references[n] : q > item => r <= q
  <2>1. references[n] \in SUBSET Nat /\ item \in Nat
    BY <1>4, ShapeFacts DEF IInv, NamespaceTypeOK
  <2>2. QED
    BY <1>1, <1>4, <2>1, LoopStep, PointerFacts
<1> HIDE DEF r
<1>6. /\ Len(pointers) \in Nat /\ DOMAIN pointers = 1 .. Len(pointers)
      /\ \A m \in 1 .. Len(heap) : references[m] \subseteq 1 .. Len(pointers)
      /\ nodes \subseteq 1 .. Len(heap) /\ 0 \notin nodes /\ item \in Nat /\ pos \in Nat
      /\ DOMAIN references = 1 .. Len(heap) /\ DOMAIN heap = 1 .. Len(heap) /\ Len(heap) \in Nat
      /\ IsSequence(pointers) /\ IsSequence(references) /\ Len(references) = Len(heap)
  BY ShapeFacts DEF IInv, NamespaceTypeOK, Shape
<1>7. t \in {0} \cup nodes
  BY <1>5, PointerFacts
<1>8. t = pointers[r].target.node /\ K = Len(pointers) + 1
  OBVIOUS
<1>8a. /\ Len(pointers) \in Nat /\ K \in Nat /\ K > Len(pointers) /\ K # Len(pointers) /\ K >= 1
      /\ \A k \in 1 .. K : k \notin 1 .. Len(pointers) => k = K
  <2>1. Len(pointers) \in Nat
    BY ShapeFacts
  <2>2. QED
    BY <1>8, <2>1
<1> HIDE DEF t, K
<1>9. /\ Forward(n, r).forward \in BOOLEAN /\ Forward(n, r).forward
      /\ Forward(n, r).target.node = n /\ Forward(n, r).type = pointers[r].type
  BY DEF Forward
(* Either everything stays, or the target gets a new reference.            *)
<1>10. ASSUME IsInverted(n, r)
       PROVE  /\ pointers' = pointers /\ references' = references
              /\ ~pointers[r].forward /\ t # 0 =>
                   \E q \in references[t] : pointers[q] = Forward(n, r)
  BY <1>2, <1>8, <1>10 DEF IsInverted, SamePointer
<1>11. ASSUME ~IsInverted(n, r)
       PROVE  /\ IsSequence(pointers') /\ Len(pointers') = K /\ pointers'[K] = Forward(n, r)
              /\ \A p \in 1 .. Len(pointers) : pointers'[p] = pointers[p]
              /\ IsSequence(references') /\ Len(references') = Len(heap)
              /\ \A m \in 1 .. Len(heap) :
                   references'[m] = IF m = t THEN references[t] \cup {K} ELSE references[m]
              /\ t \in 1 .. Len(heap)
  <2>1. pointers' = Append(pointers, Forward(n, r))
    BY <1>2, <1>11
  <2>2. references' = [references EXCEPT ![t] = references[t] \cup {K}]
    BY <1>2, <1>11
  <2>3. t \in 1 .. Len(heap)
    BY <1>6, <1>7, <1>8, <1>11 DEF IsInverted
  <2>4. /\ IsSequence(pointers') /\ Len(pointers') = K /\ pointers'[K] = Forward(n, r)
        /\ \A p \in 1 .. Len(pointers) : pointers'[p] = pointers[p]
    BY <1>6, <1>8, <2>1, AppendedFacts
  <2>5. /\ IsSequence(references') /\ Len(references') = Len(references)
        /\ \A m \in 1 .. Len(references) :
             references'[m] = IF m = t THEN references[t] \cup {K} ELSE references[m]
    <3> DEFINE e == references[t] \cup {K}
    <3> HIDE DEF e
    <3>1. references' = [references EXCEPT ![t] = e]
      BY <2>2 DEF e
    <3>2. IsSequence(references) /\ DOMAIN references = 1 .. Len(references)
      BY <1>6, SequenceFacts
    <3>3. references' = [m \in DOMAIN references |-> references'[m]]
      BY <3>1
    <3>4. \A m \in DOMAIN references : references'[m] = IF m = t THEN e ELSE references[m]
      BY <3>1
    <3>5. QED
      BY <3>2, <3>3, <3>4, FunctionFacts DEF e
  <2>6. QED
    BY <1>6, <2>3, <2>4, <2>5
<1>12. /\ IsSequence(pointers') /\ Len(pointers') \in {Len(pointers), K}
       /\ DOMAIN pointers' = 1 .. Len(pointers')
       /\ \A p \in 1 .. Len(pointers) : p \in DOMAIN pointers' /\ pointers'[p] = pointers[p]
  <2>1. /\ IsSequence(pointers') /\ Len(pointers') \in {Len(pointers), K}
        /\ \A p \in 1 .. Len(pointers) : pointers'[p] = pointers[p]
    BY <1>6, <1>10, <1>11
  <2>2. DOMAIN pointers' = 1 .. Len(pointers')
    BY <2>1, SequenceFacts
  <2>3. Len(pointers) <= Len(pointers') /\ Len(pointers') \in Nat
    BY <1>8a, <2>1
  <2>4. \A p \in 1 .. Len(pointers) : p \in 1 .. Len(pointers')
    BY <1>8a, <2>3
  <2>5. QED
    BY <2>1, <2>2, <2>4
<1>13. Len(pointers') = K => pointers'[K] = Forward(n, r)
  BY <1>8a, <1>10, <1>11
<1>14. /\ IsSequence(references') /\ Len(references') = Len(heap)
       /\ DOMAIN references' = 1 .. Len(heap)
  <2>1. IsSequence(references') /\ Len(references') = Len(heap)
    BY <1>6, <1>10, <1>11
  <2>2. QED
    BY <2>1, SequenceFacts
<1>15. \A m \in 1 .. Len(heap) :
         /\ references[m] \subseteq references'[m] /\ references'[m] \subseteq references[m] \cup {K}
         /\ K \in references'[m] => Len(pointers') = K
  <2> TAKE m \in 1 .. Len(heap)
  <2>1. K \notin references[m]
    BY <1>6, <1>8
  <2>2. QED
    BY <1>10, <1>11, <2>1
<1>16. ~pointers[r].forward /\ t # 0 =>
         \E q \in references'[t] : pointers'[q] = Forward(n, r)
  BY <1>10, <1>11
<1>17. NamespaceTypeOK'
  <2>1. \A m \in DOMAIN heap : references'[m] \subseteq DOMAIN pointers'
    <3> TAKE m \in DOMAIN heap
    <3>1. m \in 1 .. Len(heap) /\ references[m] \subseteq 1 .. Len(pointers)
      BY <1>6
    <3>2. K \in references'[m] => K \in DOMAIN pointers'
      <4>1. K \in 1 .. K
        BY <1>8a
      <4>2. QED
        BY <1>12, <1>15, <3>1, <4>1
    <3>3. QED
      BY <1>12, <1>15, <3>1, <3>2
  <2>2. \A p \in DOMAIN pointers' : /\ pointers'[p].forward \in BOOLEAN
                                    /\ pointers'[p].target.node \in {0} \cup nodes
                                    /\ pointers'[p].type.node \in {0} \cup nodes
    <3> TAKE p \in DOMAIN pointers'
    <3>1. CASE p \in 1 .. Len(pointers)
      BY <1>12, <3>1, PointerFacts
    <3>2. CASE p \notin 1 .. Len(pointers)
      <4>1. p = K /\ Len(pointers') = K
        <5>1. p \in 1 .. Len(pointers')
          BY <1>12
        <5>2. Len(pointers') = K
          BY <1>12, <3>2, <5>1
        <5>3. QED
          BY <1>8a, <3>2, <5>1, <5>2
      <4>2. pointers'[p] = Forward(n, r)
        BY <1>13, <4>1
      <4>3. QED
        BY <1>4, <1>5, <1>9, <4>2, PointerFacts
    <3>3. QED
      BY <3>1, <3>2
  <2>3. \A p \in Range(pointers') :
          p.forward \in BOOLEAN /\ {p.target.node, p.type.node} \subseteq {0} \cup nodes
    BY <2>2 DEF Range
  <2>4. \A m \in DOMAIN heap : attribute[m] \in {0} \cup DOMAIN pointers'
    <3>1. \A m \in DOMAIN heap : attribute[m] \in {0} \cup 1 .. Len(pointers)
      BY <1>6 DEF IInv, NamespaceTypeOK
    <3>2. QED
      BY <1>12, <3>1
  <2>5. item' \in Nat
    BY <1>1, <1>5, <1>6
  <2>6. DOMAIN references' = DOMAIN heap
    BY <1>6, <1>14
  <2>7. UNCHANGED <<phase, pos, heap, nodes, referencedBy, attribute>>
    BY <1>1
  <2>8. QED
    BY <2>1, <2>3, <2>4, <2>5, <2>6, <2>7 DEF IInv, NamespaceTypeOK
<1>18. Shape'
  BY <1>1, <1>12, <1>14 DEF IInv, Shape
<1>19. Unlinked' /\ Known' /\ UniqueIds'
  BY <1>1, <1>3 DEF n, IInv, Unlinked, Early, Linking, Known, UniqueIds
<1>20. NeverBoth' /\ Informed' /\ TargetsKnowSources' /\ Sanitized'
  BY <1>1 DEF IInv, NeverBoth, Unlinked, Linking, Early, Informed, TargetsKnowSources, Sanitized, Later
<1>21. Inverted'
  <2> SUFFICES ASSUME NEW m \in nodes, NEW q \in references'[m],
                      ~pointers'[q].forward, pointers'[q].target.node # 0,
                      pointers'[q].type.node # 0, m <= pos \/ (m = n /\ q <= r)
               PROVE  HasCounterpart(m, q)'
    BY <1>1, <1>3 DEF Inverted, Visited, n
  <2>1. m \in 1 .. Len(heap)
    BY <1>6
  <2>2. q # K
    BY <1>9, <1>13, <1>15, <2>1
  <2>3. q \in references[m] /\ q \in 1 .. Len(pointers) /\ pointers'[q] = pointers[q]
    BY <1>6, <1>12, <1>15, <2>1, <2>2
  <2>4. pointers[q].target.node \in 1 .. Len(heap)
    BY <1>6, <2>3, PointerFacts
  <2>5. CASE m <= pos \/ (m = n /\ q <= item)
    <3>1. HasCounterpart(m, q)
      BY <1>1, <2>3, <2>5 DEF IInv, Inverted, Visited, n
    <3>2. PICK k \in references[pointers[q].target.node] :
            pointers[k].forward /\ pointers[k].target.node = m /\ pointers[k].type = pointers[q].type
      BY <3>1 DEF HasCounterpart
    <3>3. k \in references'[pointers'[q].target.node] /\ pointers'[k] = pointers[k]
      BY <1>6, <1>12, <1>15, <2>3, <2>4
    <3>4. QED
      BY <2>3, <3>2, <3>3 DEF HasCounterpart
  <2>6. CASE ~(m <= pos \/ (m = n /\ q <= item))
    <3>1. m = n /\ q = r
      BY <1>5, <1>6, <2>3, <2>6
    <3>2. ~pointers[r].forward /\ t # 0
      BY <1>8, <2>3, <3>1
    <3>3. PICK k \in references'[t] : pointers'[k] = Forward(n, r)
      BY <1>16, <3>2
    <3>4. QED
      BY <1>8, <1>9, <2>3, <3>1, <3>3 DEF HasCounterpart
  <2>7. QED
    BY <2>5, <2>6
<1>22. QED
  BY <1>1, <1>17, <1>18, <1>19, <1>20, <1>21 DEF IInv

(* Inversion goes on to the next node: this one has no reference left.     *)
LEMMA InvertNextStep ==
  ASSUME IInv, InvertNextNode
  PROVE  IInv'
<1> DEFINE n == Following(pos)
<1>1. /\ phase = "invert" /\ n # 0 /\ pos' = n /\ item' = 0
      /\ NextIn(references[n], item) = 0
      /\ UNCHANGED <<input, phase, heap, nodes, nodeids, pointers, references, referencedBy,
                     attribute>>
  BY DEF InvertNextNode, nodeVars
<1> HIDE DEF n
<1>2. n \in nodes /\ n \in Nat /\ pos \in Nat /\ \A m \in nodes : m > pos => n <= m
  BY <1>1, FollowingFacts, ShapeFacts DEF n, IInv, NamespaceTypeOK
<1>3. \A m \in nodes : m \in Nat /\ references[m] \in SUBSET Nat /\ 0 \notin references[m]
  BY ShapeFacts
<1>4. \A r \in references[n] : r <= item
  BY <1>1, <1>2, <1>3, LoopStep DEF IInv, NamespaceTypeOK
<1>5. NamespaceTypeOK' /\ Shape' /\ Unlinked' /\ Known' /\ UniqueIds'
  BY <1>1, <1>2 DEF IInv, NamespaceTypeOK, Shape, Unlinked, Linking, Early, Known, UniqueIds
<1>6. NeverBoth' /\ Informed' /\ TargetsKnowSources' /\ Sanitized'
  BY <1>1 DEF IInv, NeverBoth, Targets, Informed, TargetsKnowSources, Sanitized, Later
<1>7. ASSUME NEW m \in nodes, NEW r \in references[m], Visited(m, r)'
      PROVE  Visited(m, r)
  <2>1. ~(r <= 0)
    BY <1>3
  <2>2. m <= n
    BY <1>1, <1>7, <2>1 DEF Visited
  <2>3. m <= pos \/ m = n
    BY <1>2, <1>3, <2>2
  <2>4. QED
    BY <1>4, <2>3 DEF Visited, n
<1>8. Inverted'
  BY <1>1, <1>7 DEF IInv, Inverted, HasCounterpart
<1>9. QED
  BY <1>1, <1>5, <1>6, <1>8 DEF IInv

(* updateInverseReferences: a node is told of a reference it does not      *)
(* already know of by one of its own.                                      *)
LEMMA InverseStep ==
  ASSUME IInv, UpdateInverseReferences
  PROVE  IInv'
<1> DEFINE n == Following(pos)
<1>1. /\ phase = "inverse" /\ n # 0 /\ pos' = n
      /\ referencedBy' = [t \in DOMAIN referencedBy |->
                            IF t \in Targets(references, n) /\ Unaware(t, n)
                            THEN referencedBy[t] \cup {n} ELSE referencedBy[t]]
      /\ UNCHANGED <<input, phase, heap, nodes, nodeids, pointers, references, attribute, item>>
  BY DEF UpdateInverseReferences, nodeVars
<1> HIDE DEF n
<1>2. n \in nodes /\ n \in Nat /\ pos \in Nat /\ \A m \in nodes : m > pos => n <= m
  BY <1>1, FollowingFacts, ShapeFacts DEF n, IInv, NamespaceTypeOK
<1>3. /\ \A m \in nodes : m \in Nat /\ m \in 1 .. Len(heap)
      /\ \A m \in nodes : \A t \in Targets(references, m) : t \in {0} \cup nodes
      /\ DOMAIN referencedBy = 1 .. Len(heap) /\ DOMAIN heap = 1 .. Len(heap)
  BY ShapeFacts, PointerFacts DEF Targets
<1>4. \A t \in 1 .. Len(heap) :
        referencedBy'[t] = IF t \in Targets(references, n) /\ Unaware(t, n)
                           THEN referencedBy[t] \cup {n} ELSE referencedBy[t]
  BY <1>1, <1>3
<1>5. IsSequence(referencedBy') /\ Len(referencedBy') = Len(heap)
      /\ DOMAIN referencedBy' = 1 .. Len(heap)
  <2>1. referencedBy' = [t \in DOMAIN referencedBy |-> referencedBy'[t]]
    BY <1>1
  <2>2. IsSequence(referencedBy) /\ Len(referencedBy) = Len(heap)
    BY DEF IInv, Shape
  <2> DEFINE f == referencedBy'
  <2>3. f = [t \in DOMAIN referencedBy |-> f[t]]
    BY <2>1
  <2> HIDE DEF f
  <2>4. IsSequence(f) /\ Len(f) = Len(heap)
    BY <2>2, <2>3, FunctionFacts
  <2>5. QED
    BY <2>4, SequenceFacts DEF f
<1>6. NamespaceTypeOK'
  <2>1. \A t \in DOMAIN heap : referencedBy'[t] \subseteq nodes
    BY <1>2, <1>3, <1>4 DEF IInv, NamespaceTypeOK
  <2>2. DOMAIN referencedBy' = DOMAIN heap
    BY <1>3, <1>5
  <2>3. UNCHANGED <<phase, heap, nodes, pointers, references, attribute, item>> /\ pos' \in Nat
    BY <1>1, <1>2
  <2>4. QED
    BY <2>1, <2>2, <2>3 DEF IInv, NamespaceTypeOK
<1>7. Shape' /\ Unlinked' /\ Known' /\ UniqueIds'
  <2>1. Shape'
    BY <1>1, <1>5 DEF IInv, Shape
  <2>2. QED
    BY <1>1, <2>1 DEF IInv, Unlinked, Linking, Early, Known, UniqueIds
<1>8. NeverBoth'
  BY <1>1, <1>3, <1>4 DEF IInv, NeverBoth, Targets, Unaware
<1>9. Informed'
  <2>1. phase = "inverse" /\ nodes' = nodes /\ pos' = n
    BY <1>1
  <2>2. \A m \in nodes : Targets(references, m)' = Targets(references, m)
    BY <1>1 DEF Targets
  <2>3. ASSUME NEW m \in nodes, m <= n, NEW t \in Targets(references, m) \ {0}
        PROVE  m \in referencedBy'[t] \/ m \in Targets(references, t)
    <3>1. t \in 1 .. Len(heap) /\ t \in nodes
      BY <1>3
    <3>2. CASE m <= pos
      <4>1. m \in referencedBy[t] \/ m \in Targets(references, t)
        BY <2>1, <3>2 DEF IInv, Informed
      <4>2. QED
        BY <1>4, <3>1, <4>1
    <3>3. CASE ~(m <= pos)
      <4>1. m \in Nat
        BY <1>3
      <4>2. m = n
        BY <1>2, <2>3, <3>3, <4>1
      <4>3. QED
        BY <1>4, <2>3, <3>1, <4>2 DEF Unaware
    <3>4. QED
      BY <3>2, <3>3
  <2>4. \A m \in nodes : \A t \in Targets(references, m) \ {0} : t \in nodes
    BY <1>3
  <2>5. QED
    BY <2>1, <2>2, <2>3, <2>4 DEF Informed
<1>10. TargetsKnowSources' /\ Sanitized' /\ Inverted'
  BY <1>1 DEF IInv, TargetsKnowSources, Sanitized, Inverted, HasCounterpart, Later
<1>11. QED
  BY <1>1, <1>6, <1>7, <1>8, <1>9, <1>10 DEF IInv

(* sanitize: counterparts are linked where the references they answer are, *)
(* and only later nodes can still lose references.                         *)
LEMMA SanitizeStep ==
  ASSUME IInv, Sanitize
  PROVE  IInv'
<1> DEFINE n == Following(pos)
           kept == {r \in references[n] : IsLinked(r)}
           refs == [references EXCEPT ![n] = kept]
           attr == IF heap[n].tag = "variable" /\ attribute[n] # 0
                      /\ pointers[attribute[n]].target.node = 0 THEN 0 ELSE attribute[n]
<1>1. CASE Crash
  <2>1. phase = "sanitize" /\ phase' = "crashed" /\ pos' = pos
        /\ UNCHANGED <<input, heap, nodes, nodeids, linkVars>>
    BY <1>1 DEF Crash, Sanitize, nodeVars
  <2>2. QED
    BY <2>1, QuietStep DEF IInv, NamespaceTypeOK
<1>2. CASE ~Crash
  <2>1. /\ phase = "sanitize" /\ n # 0 /\ pos' = n
        /\ references' = refs
        /\ referencedBy' = [referencedBy EXCEPT ![n] = Sources(refs, n)]
        /\ attribute' = [attribute EXCEPT ![n] = attr]
        /\ UNCHANGED <<input, phase, heap, nodes, nodeids, pointers, item>>
    BY <1>2 DEF Sanitize, nodeVars
  <2>2. refs = [references EXCEPT ![n] = kept]
    OBVIOUS
  <2>3. kept = {r \in references[n] : pointers[r].type.node # 0 /\ pointers[r].target.node # 0}
    BY DEF IsLinked
  <2>4. attr \in {0, attribute[n]}
    OBVIOUS
  <2> HIDE DEF n, kept, refs, attr
  <2>5. n \in nodes /\ n \in Nat /\ n > pos /\ pos \in Nat /\ \A m \in nodes : m > pos => n <= m
    BY <2>1, FollowingFacts, ShapeFacts DEF n, IInv, NamespaceTypeOK
  <2>6. /\ \A m \in nodes : m \in Nat /\ m \in 1 .. Len(heap) /\ m # 0
        /\ DOMAIN heap = 1 .. Len(heap)
        /\ IsSequence(references) /\ Len(references) = Len(heap)
        /\ IsSequence(referencedBy) /\ Len(referencedBy) = Len(heap)
        /\ IsSequence(attribute) /\ Len(attribute) = Len(heap)
    BY ShapeFacts DEF IInv, Shape
  <2>7. /\ IsSequence(refs) /\ Len(refs) = Len(heap) /\ DOMAIN refs = 1 .. Len(heap)
        /\ \A m \in 1 .. Len(heap) : refs[m] = IF m = n THEN kept ELSE references[m]
    <3>1. /\ IsSequence(refs) /\ Len(refs) = Len(references)
          /\ \A m \in 1 .. Len(references) : refs[m] = IF m = n THEN kept ELSE references[m]
      <4>1. IsSequence(references) /\ DOMAIN references = 1 .. Len(references)
        BY <2>6, SequenceFacts
      <4>2. refs = [m \in DOMAIN references |-> refs[m]]
        BY <2>2
      <4>3. \A m \in DOMAIN references : refs[m] = IF m = n THEN kept ELSE references[m]
        BY <2>2
      <4>4. QED
        BY <4>1, <4>2, <4>3, FunctionFacts
    <3>2. DOMAIN refs = 1 .. Len(refs)
      BY <3>1, SequenceFacts
    <3>3. QED
      BY <2>6, <3>1, <3>2
  <2>8. /\ IsSequence(referencedBy') /\ Len(referencedBy') = Len(heap)
        /\ DOMAIN referencedBy' = 1 .. Len(heap)
        /\ \A m \in 1 .. Len(heap) :
             referencedBy'[m] = IF m = n THEN Sources(refs, n) ELSE referencedBy[m]
    <3> DEFINE e == Sources(refs, n)
    <3> HIDE DEF e
    <3>1. referencedBy' = [referencedBy EXCEPT ![n] = e]
      BY <2>1 DEF e
    <3>2. /\ IsSequence(referencedBy') /\ Len(referencedBy') = Len(referencedBy)
          /\ \A m \in 1 .. Len(referencedBy) :
               referencedBy'[m] = IF m = n THEN e ELSE referencedBy[m]
      <4>1. IsSequence(referencedBy) /\ DOMAIN referencedBy = 1 .. Len(referencedBy)
        BY <2>6, SequenceFacts
      <4>2. referencedBy' = [m \in DOMAIN referencedBy |-> referencedBy'[m]]
        BY <3>1
      <4>3. \A m \in DOMAIN referencedBy : referencedBy'[m] = IF m = n THEN e ELSE referencedBy[m]
        BY <3>1
      <4>4. QED
        BY <4>1, <4>2, <4>3, FunctionFacts
    <3>3. DOMAIN referencedBy' = 1 .. Len(referencedBy')
      BY <3>2, SequenceFacts
    <3>4. QED
      BY <2>6, <3>2, <3>3 DEF e
  <2>9. /\ IsSequence(attribute') /\ Len(attribute') = Len(heap)
        /\ DOMAIN attribute' = 1 .. Len(heap)
        /\ \A m \in 1 .. Len(heap) : attribute'[m] = IF m = n THEN attr ELSE attribute[m]
    <3>1. /\ IsSequence(attribute') /\ Len(attribute') = Len(attribute)
          /\ \A m \in 1 .. Len(attribute) : attribute'[m] = IF m = n THEN attr ELSE attribute[m]
      <4>1. IsSequence(attribute) /\ DOMAIN attribute = 1 .. Len(attribute)
        BY <2>6, SequenceFacts
      <4>2. attribute' = [m \in DOMAIN attribute |-> attribute'[m]]
        BY <2>1
      <4>3. \A m \in DOMAIN attribute : attribute'[m] = IF m = n THEN attr ELSE attribute[m]
        BY <2>1
      <4>4. QED
        BY <4>1, <4>2, <4>3, FunctionFacts
    <3>2. DOMAIN attribute' = 1 .. Len(attribute')
      BY <3>1, SequenceFacts
    <3>3. QED
      BY <2>6, <3>1, <3>2
  <2>10. \A m \in 1 .. Len(heap) : /\ refs[m] \subseteq references[m]
                                   /\ Targets(refs, m) \subseteq Targets(references, m)
                                   /\ (m # n => Targets(refs, m) = Targets(references, m))
                                   /\ referencedBy'[m] \subseteq referencedBy[m]
    BY <2>3, <2>7, <2>8 DEF Targets, Sources
  <2>11. NamespaceTypeOK'
    <3>1. \A m \in DOMAIN heap : /\ references'[m] \subseteq DOMAIN pointers
                                /\ referencedBy'[m] \subseteq nodes
                                /\ attribute'[m] \in {0} \cup DOMAIN pointers
      BY <2>1, <2>4, <2>6, <2>9, <2>10 DEF IInv, NamespaceTypeOK
    <3>2. DOMAIN references' = DOMAIN heap /\ DOMAIN referencedBy' = DOMAIN heap
          /\ DOMAIN attribute' = DOMAIN heap
      BY <2>1, <2>6, <2>7, <2>8, <2>9
    <3>3. UNCHANGED <<phase, heap, nodes, pointers, item>> /\ pos' \in Nat
      BY <2>1, <2>5
    <3>4. QED
      BY <3>1, <3>2, <3>3 DEF IInv, NamespaceTypeOK
  <2>12. Shape' /\ Unlinked' /\ Known' /\ UniqueIds'
    <3>1. Shape'
      BY <2>1, <2>7, <2>8, <2>9 DEF IInv, Shape
    <3>2. QED
      BY <2>1, <3>1 DEF IInv, Unlinked, Linking, Early, Known, UniqueIds
  <2>13. \A m \in 1 .. Len(heap) : Targets(references, m)' = Targets(refs, m)
    BY <2>1 DEF Targets
  <2>14. NeverBoth'
    BY <2>1, <2>6, <2>10, <2>13 DEF IInv, NeverBoth
  <2>15. Inverted'
    <3> SUFFICES ASSUME NEW m \in nodes, NEW r \in refs[m], ~pointers[r].forward,
                        pointers[r].target.node # 0, pointers[r].type.node # 0
                 PROVE  \E q \in refs[pointers[r].target.node] :
                          /\ pointers[q].forward /\ pointers[q].target.node = m
                          /\ pointers[q].type = pointers[r].type
      BY <2>1 DEF Inverted, HasCounterpart
    <3>1. r \in references[m] /\ m \in 1 .. Len(heap)
      BY <2>6, <2>10
    <3>2. PICK q \in references[pointers[r].target.node] :
            /\ pointers[q].forward /\ pointers[q].target.node = m
            /\ pointers[q].type = pointers[r].type
      BY <2>1, <3>1 DEF IInv, Inverted, HasCounterpart
    <3>3. pointers[r].target.node \in 1 .. Len(heap)
      BY <2>6, <3>1, PointerFacts
    <3>4. pointers[q].type.node # 0 /\ pointers[q].target.node # 0
      BY <2>6, <3>2
    <3>5. q \in refs[pointers[r].target.node]
      BY <2>3, <2>7, <3>2, <3>3, <3>4
    <3>6. QED
      BY <3>2, <3>5
  <2>16. Sanitized'
    <3> SUFFICES ASSUME NEW k \in nodes, k <= n, NEW m \in referencedBy'[k]
                 PROVE  k \in Targets(refs, m) \/ m > k
      BY <2>1 DEF Sanitized, Targets
    <3>1. CASE k = n
      BY <2>6, <2>8, <3>1 DEF Sources
    <3>2. CASE k # n
      <4>1. k <= pos /\ k < n /\ k \in Nat
        <5>1. k \in Nat
          BY <2>6
        <5>2. k <= n
          OBVIOUS
        <5>3. QED
          BY <2>5, <3>2, <5>1, <5>2
      <4>2. m \in referencedBy[k] /\ m \in nodes
        BY <2>6, <2>8, <3>2 DEF IInv, NamespaceTypeOK
      <4>3. k \in Targets(references, m) \/ m > k
        BY <2>1, <4>1, <4>2 DEF IInv, Sanitized
      <4>4. CASE m = n
        BY <2>5, <4>1, <4>4
      <4>5. CASE m # n
        BY <2>6, <2>10, <4>2, <4>3, <4>5
      <4>6. QED
        BY <4>4, <4>5
    <3>3. QED
      BY <3>1, <3>2
  <2>17. Informed' /\ TargetsKnowSources'
    BY <2>1 DEF Informed, TargetsKnowSources
  <2>18. QED
    BY <2>1, <2>11, <2>12, <2>14, <2>15, <2>16, <2>17 DEF IInv
<1>3. QED
  BY <1>1, <1>2

-----------------------------------------------------------------------------
(* Every step of the namespace, and of the rest of the generator, keeps    *)
(* the invariant.                                                          *)
LEMMA Inductive == IInv /\ [NamespaceNext \/ Elsewhere]_namespaceVars => IInv'
<1> SUFFICES ASSUME IInv, [NamespaceNext \/ Elsewhere]_namespaceVars PROVE IInv'
  OBVIOUS
<1>0. pos \in Nat
  BY DEF IInv, NamespaceTypeOK
<1>1. CASE BuildAliasList
  <2>1. /\ phase = "parse" /\ phase' = phase /\ pos' \in Nat
        /\ UNCHANGED <<input, heap, nodes, nodeids, linkVars>>
    BY <1>0, <1>1 DEF BuildAliasList, Parsing
  <2>2. QED
    BY <2>1, QuietStep DEF Early
<1>2. CASE SkipElement
  <2>1. /\ phase = "parse" /\ phase' = phase /\ pos' \in Nat
        /\ UNCHANGED <<input, heap, nodes, nodeids, linkVars>>
    BY <1>0, <1>2 DEF SkipElement, Parsing, nodeVars
  <2>2. QED
    BY <2>1, QuietStep DEF Early
<1>3. CASE CreateNodeFails
  <2>1. /\ phase = "parse" /\ phase' = "crashed" /\ pos' \in Nat
        /\ UNCHANGED <<input, heap, nodes, nodeids, linkVars>>
    BY <1>0, <1>3 DEF CreateNodeFails, Parsing, Crash, nodeVars
  <2>2. QED
    BY <2>1, QuietStep
<1>4. CASE CreateNode
  BY <1>4, CreateStep
<1>5. CASE EndParse \/ EndBlacklist \/ EndLink \/ EndInvert \/ EndInverse \/ EndSanitize
  BY <1>5, EndStep DEF EndParse, EndBlacklist, EndLink, EndInvert, EndInverse, EndSanitize
<1>6. CASE RemoveNodeById
  BY <1>6, RemoveStep
<1>7. CASE LinkPointer
  BY <1>7, LinkStep
<1>8. CASE InvertReference
  BY <1>8, InvertStep
<1>9. CASE InvertNextNode
  BY <1>9, InvertNextStep
<1>10. CASE UpdateInverseReferences
  BY <1>10, InverseStep
<1>11. CASE Sanitize
  BY <1>11, SanitizeStep
<1>12. CASE Elsewhere
  <2>1. /\ phase \in Later /\ phase # "invert" /\ pos' \in Nat
        /\ phase' = "crashed" \/ phase' \in Later
        /\ UNCHANGED <<input, heap, nodes, nodeids, linkVars>>
    BY <1>12 DEF Elsewhere, nodeVars, Later
  <2>2. QED
    BY <2>1, QuietStep
<1>13. CASE UNCHANGED namespaceVars
  <2>1. UNCHANGED <<input, phase, pos, heap, nodes, nodeids, pointers, references, referencedBy,
                    attribute, item>>
    BY <1>13 DEF namespaceVars, nodeVars, linkVars
  <2>2. NamespaceTypeOK' /\ Shape' /\ Unlinked' /\ Known' /\ UniqueIds'
    BY <2>1 DEF IInv, NamespaceTypeOK, Shape, Unlinked, Known, UniqueIds, Following
  <2>3. NeverBoth' /\ Inverted' /\ Informed' /\ TargetsKnowSources' /\ Sanitized'
    BY <2>1 DEF IInv, NeverBoth, Inverted, HasCounterpart, Visited, Following, Informed,
       TargetsKnowSources, Sanitized, Targets
  <2>4. QED
    BY <2>1, <2>2, <2>3 DEF IInv
<1>14. QED
  BY <1>1, <1>2, <1>3, <1>4, <1>5, <1>6, <1>7, <1>8, <1>9, <1>10, <1>11, <1>12, <1>13
  DEF NamespaceNext

(* The namespace, whatever the documents and the rest of the generator do. *)
LEMMA Invariance == NamespaceSpec => []IInv
<1>1. Init => IInv
  BY InitHolds
<1>2. IInv /\ [NamespaceNext \/ Elsewhere]_namespaceVars => IInv'
  BY Inductive
<1>3. QED
  BY <1>1, <1>2, PTL DEF NamespaceSpec, NamespaceSteps

-----------------------------------------------------------------------------
(* References, inverse references and attributes always lead to pointers   *)
(* that exist, and pointers to nodes of the list: removing and replacing   *)
(* nodes leaves no link to one that is gone.                               *)
THEOREM NamespaceTypeCorrect == NamespaceSpec => []NamespaceTypeOK
<1>1. IInv => NamespaceTypeOK
  BY DEF IInv
<1>2. QED
  BY <1>1, Invariance, PTL

(* Whatever documents are parsed, in whatever order and how often, no two  *)
(* nodes of the list ever have the same id.                                *)
THEOREM IdsAreUnique == NamespaceSpec => []UniqueIds
<1>1. IInv => UniqueIds
  BY DEF IInv
<1>2. QED
  BY <1>1, Invariance, PTL

(* The branch of sanitize whose message cannot be printed is never taken.  *)
THEOREM NeverBothWays == NamespaceSpec => []NeverBoth
<1>1. IInv => NeverBoth
  BY DEF IInv
<1>2. QED
  BY <1>1, Invariance, PTL

(* After linkOpenPointers every target knows who refers to it, on any      *)
(* graph of references, cycles and self-references included.               *)
THEOREM SourcesAreKnown == NamespaceSpec => []TargetsKnowSources
<1>1. IInv => TargetsKnowSources
  BY DEF IInv
<1>2. QED
  BY <1>1, Invariance, PTL

(* Every inverse reference has its forward counterpart from linking on,    *)
(* and sanitation never removes one without the other.                     *)
THEOREM CounterpartsExist == NamespaceSpec => []BothDirections
<1>1. IInv => BothDirections
  <2> SUFFICES ASSUME IInv, AfterLinking, NEW n \in nodes, NEW r \in references[n],
                      ~pointers[r].forward, IsLinked(r)
               PROVE  \E q \in references[pointers[r].target.node] :
                        /\ pointers[q].forward /\ pointers[q].target.node = n
                        /\ pointers[q].type = pointers[r].type
    BY DEF BothDirections
  <2>1. phase \in {"sanitize"} \cup Later
    BY DEF AfterLinking, Phases, Later
  <2>2. HasCounterpart(n, r)
    BY <2>1 DEF IInv, Inverted, IsLinked, Later
  <2>3. QED
    BY <2>2 DEF HasCounterpart
<1>2. QED
  BY <1>1, Invariance, PTL

(* An inverse reference that sanitation leaves although nothing refers     *)
(* back to it comes from a later node, always.                             *)
THEOREM FalseInverseOnlyFromLater == NamespaceSpec => []FalseInverseFromLater
<1>1. IInv => FalseInverseFromLater
  BY DEF IInv, Sanitized, FalseInverseFromLater, Later
<1>2. QED
  BY <1>1, Invariance, PTL

(* The two ends of every reference agree as far as the passes have come,   *)
(* for any documents, aliases and blacklist.                               *)
THEOREM ReferencesAlwaysAgree == NamespaceSpec => []ReferencesAgree
<1>1. NeverBoth /\ TargetsKnowSources /\ BothDirections /\ FalseInverseFromLater
        => ReferencesAgree
  BY DEF ReferencesAgree
<1>2. QED
  BY <1>1, NeverBothWays, SourcesAreKnown, CounterpartsExist, FalseInverseOnlyFromLater, PTL
=============================================================================
