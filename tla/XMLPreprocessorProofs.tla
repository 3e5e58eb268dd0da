------------------------ MODULE XMLPreprocessorProofs ------------------------
(***************************************************************************)
(* For any list of documents: the preprocessor's variables keep their      *)
(* types, the indices it assigns tell the models apart, a document's       *)
(* references to its own nodes follow them, and a reference to another     *)
(* model keeps its meaning exactly if no author's index clashes with an    *)
(* assigned one.                                                           *)
(***************************************************************************)
EXTENDS XMLPreprocessor, ListProofs

-----------------------------------------------------------------------------
(* The operators on one document.                                          *)

\* what a sequence of nodes or references must be for the index to be counted
Indexed(s) == Len(s) \in Nat /\ DOMAIN s = 1 .. Len(s) /\ \A i \in DOMAIN s : s[i].ns \in Nat

LEMMA UsesBounded ==
  ASSUME NEW s, Indexed(s), NEW n
  PROVE  Uses(s, n) \in 0 .. Len(s)
<1> DEFINE U == {i \in DOMAIN s : s[i].ns = n}
<1>1. U \in SUBSET (1 .. Len(s))
  BY DEF Indexed
<1>2. IsFiniteSet(1 .. Len(s)) /\ Cardinality(1 .. Len(s)) = Len(s)
  <2>1. Len(s) \in Nat
    BY DEF Indexed
  <2>2. IsFiniteSet(1 .. Len(s))
        /\ Cardinality(1 .. Len(s)) = IF 1 > Len(s) THEN 0 ELSE Len(s) - 1 + 1
    BY <2>1, FS_Interval
  <2> QED
    BY <2>1, <2>2
<1> HIDE DEF U
<1>3. Cardinality(U) <= Len(s) /\ Cardinality(U) \in Nat
  BY <1>1, <1>2, FS_Subset, FS_CardinalityType
<1> QED
  BY <1>3 DEF Uses, U, Indexed

\* the most used index exists and is one of the indices
LEMMA NamespaceIdIsIndex ==
  ASSUME NEW s, Indexed(s), DOMAIN s # {}
  PROVE  NamespaceId(s) \in Indices(s) /\ NamespaceId(s) \in Nat
<1> DEFINE Top == {n \in Indices(s) : \A m \in Indices(s) : Uses(s, m) <= Uses(s, n)}
<1> DEFINE Left == {Len(s) - Uses(s, n) : n \in Indices(s)}
<1>1. Indices(s) \in SUBSET Nat /\ Indices(s) # {}
  BY DEF Indices, Indexed
<1>2. \A n : Uses(s, n) \in Nat /\ Uses(s, n) <= Len(s) /\ Len(s) \in Nat
  BY UsesBounded DEF Indexed
<1>3. Left \in SUBSET Nat /\ Left # {}
  BY <1>1, <1>2
<1> HIDE DEF Left
<1>4. Min(Left) \in Left /\ \A y \in Left : Min(Left) <= y
  BY <1>3, LeastExists
<1>5. PICK n \in Indices(s) : Min(Left) = Len(s) - Uses(s, n)
  BY <1>4 DEF Left
<1>6. \A m \in Indices(s) : Uses(s, m) <= Uses(s, n)
  <2> SUFFICES ASSUME NEW m \in Indices(s) PROVE Uses(s, m) <= Uses(s, n)
    OBVIOUS
  <2>1. Len(s) - Uses(s, m) \in Left
    BY DEF Left
  <2>2. Len(s) - Uses(s, n) <= Len(s) - Uses(s, m)
    BY <1>4, <1>5, <2>1
  <2> QED
    BY <1>2, <2>2
<1>7. Top \in SUBSET Nat /\ Top # {}
  BY <1>1, <1>6
<1> HIDE DEF Top
<1>8. Min(Top) \in Top
  BY <1>7, LeastExists
<1> QED
  BY <1>1, <1>8 DEF NamespaceId, Top

\* so a document in one namespace has the index of that namespace
LEMMA NamespaceIdOfOne ==
  ASSUME NEW s, Indexed(s), NEW k, \A i \in DOMAIN s : s[i].ns = k, DOMAIN s # {}
  PROVE  NamespaceId(s) = k
BY NamespaceIdIsIndex DEF Indices

\* and two documents with the same indices at the same places the same
LEMMA NamespaceIdAgrees ==
  ASSUME NEW s, NEW r, DOMAIN r = DOMAIN s, \A i \in DOMAIN s : r[i].ns = s[i].ns
  PROVE  NamespaceId(r) = NamespaceId(s) /\ Indices(r) = Indices(s)
<1>1. Indices(r) = Indices(s)
  BY DEF Indices
<1>2. \A n : {i \in DOMAIN r : r[i].ns = n} = {i \in DOMAIN s : s[i].ns = n}
  OBVIOUS
<1>3. \A n : Uses(r, n) = Uses(s, n)
  BY <1>2 DEF Uses
<1> QED
  BY <1>1, <1>3 DEF NamespaceId

\* the type of nodes and references
LEMMA TypedIsIndexed ==
  ASSUME NEW s, s \in Seq(NodeIds) \/ s \in Seq(NodeEntry) \/ s \in Seq(ReferenceEntry)
  PROVE  Indexed(s) /\ (s # <<>> => DOMAIN s # {})
<1>1. Len(s) \in Nat /\ DOMAIN s = 1 .. Len(s) /\ (s # <<>> => DOMAIN s # {})
  OBVIOUS
<1>2. \A i \in DOMAIN s : s[i] \in NodeIds \/ s[i] \in NodeEntry \/ s[i] \in ReferenceEntry
  OBVIOUS
<1>3. \A x : x \in NodeIds \/ x \in NodeEntry \/ x \in ReferenceEntry => x.ns \in Nat
  BY DEF NodeIds, NodeEntry, ReferenceEntry
<1> QED
  BY <1>1, <1>2, <1>3 DEF Indexed

LEMMA IdsFacts ==
  ASSUME NEW s, s \in Seq(NodeEntry) \/ s \in Seq(ReferenceEntry)
  PROVE  /\ Ids(s) \in Seq(NodeIds) /\ Len(Ids(s)) = Len(s) /\ DOMAIN Ids(s) = DOMAIN s
         /\ \A i \in DOMAIN s : Ids(s)[i].ns = s[i].ns /\ Ids(s)[i].name = s[i].name
         /\ NamespaceId(Ids(s)) = NamespaceId(s)
<1>1. /\ Ids(s) \in Seq(NodeIds) /\ Len(Ids(s)) = Len(s) /\ DOMAIN Ids(s) = DOMAIN s
      /\ \A i \in DOMAIN s : Ids(s)[i].ns = s[i].ns /\ Ids(s)[i].name = s[i].name
  <2>1. \A i \in DOMAIN s : s[i] \in NodeEntry \/ s[i] \in ReferenceEntry
    OBVIOUS
  <2>2. \A x : x \in NodeEntry \/ x \in ReferenceEntry =>
          [ns |-> x.ns, name |-> x.name] \in NodeIds
    BY DEF NodeIds, NodeEntry, ReferenceEntry
  <2>3. Len(s) \in Nat /\ DOMAIN s = 1 .. Len(s)
    OBVIOUS
  <2>4. Ids(s) = [i \in 1 .. Len(s) |-> [ns |-> s[i].ns, name |-> s[i].name]]
    BY <2>3 DEF Ids
  <2>5. \A i \in 1 .. Len(s) : [ns |-> s[i].ns, name |-> s[i].name] \in NodeIds
    BY <2>1, <2>2, <2>3
  <2>6. Ids(s) \in Seq(NodeIds) /\ Len(Ids(s)) = Len(s)
    BY <2>3, <2>4, <2>5
  <2> QED
    BY <2>3, <2>4, <2>6
<1>2. NamespaceId(Ids(s)) = NamespaceId(s)
  BY <1>1, NamespaceIdAgrees
<1> QED
  BY <1>1, <1>2

LEMMA RenumberedFacts ==
  ASSUME NEW s \in Seq(NodeIds), NEW c, NEW n \in Nat
  PROVE  /\ Renumbered(s, c, n) \in Seq(NodeIds)
         /\ Len(Renumbered(s, c, n)) = Len(s) /\ DOMAIN Renumbered(s, c, n) = DOMAIN s
         /\ \A i \in DOMAIN s :
              /\ Renumbered(s, c, n)[i].ns = IF s[i].ns = c THEN n ELSE s[i].ns
              /\ Renumbered(s, c, n)[i].name = s[i].name
<1>1. \A i \in DOMAIN s : s[i] \in NodeIds
  OBVIOUS
<1>2. \A i \in DOMAIN s : /\ [s[i] EXCEPT !.ns = n] \in NodeIds
                          /\ [s[i] EXCEPT !.ns = n].ns = n
                          /\ [s[i] EXCEPT !.ns = n].name = s[i].name
  BY <1>1 DEF NodeIds
<1> QED
  BY <1>1, <1>2 DEF Renumbered

-----------------------------------------------------------------------------
(* The invariant: where the loops are and what the variables hold there.   *)

Count == Len(files)

BaseDocuments == {d \in DocumentIds : IsBaseDocument(d)}
BaseCount == Cardinality(BaseDocuments)

Numbered == {"assign", "link", "resolve", "match", "done"}
Linking == {"link", "resolve", "match", "done"}

XTypeInv ==
  /\ files \in Inputs
  /\ phase \in {"add", "analyze", "crashed"} \cup Numbered
  /\ pos \in Nat \ {0}
  /\ nodes \in [DocumentIds -> Seq(NodeIds)]
  /\ refs \in [DocumentIds -> Seq(NodeIds)]
  /\ nsidx \in 1 .. Count + 1
  /\ deps \in Seq(Nat)
  /\ revert \in Seq(DocumentIds \X Nat)

PosInv ==
  /\ phase \in {"add", "analyze", "assign", "link"} => pos <= Count + 1
  /\ phase = "resolve" => pos <= Count
  /\ phase \in {"match", "done"} => pos <= Len(revert) + 1
  /\ phase = "crashed" => pos <= Count + Len(revert) + 1

\* docs lists the documents in the order of the command line, later in one that
\* has the documents of namespace 0 in front
DocsInv ==
  /\ docs \in Seq(DocumentIds)
  /\ \A i, j \in 1 .. Len(docs) : docs[i] = docs[j] => i = j
  /\ phase = "add" => pos = Len(docs) + 1
  /\ phase \in {"add", "analyze"} => \A i \in 1 .. Len(docs) : docs[i] = i
  /\ phase = "analyze" \/ phase \in Numbered => Len(docs) = Count
  /\ phase \in Numbered => \A d \in DocumentIds : \E i \in 1 .. Count : docs[i] = d

ReadInv ==
  /\ phase \in {"add", "analyze"} => nsidx = 1 /\ revert = <<>>
  /\ phase = "analyze" => \A d \in 1 .. pos - 1 :
       nodes[d] = Ids(files[d].nodes) /\ refs[d] = Ids(files[d].refs)
  /\ phase = "assign" => revert = <<>>

\* how many documents preprocess_assignUniqueNsIds has numbered or passed over,
\* and the number that the document at place i gets
Passed == IF phase = "assign" THEN pos - 1 ELSE Count
Number(i) == i - BaseCount + 1

NumberInv ==
  phase \in Numbered =>
    /\ BaseCount \in 0 .. Passed
    /\ nsidx = Passed - BaseCount + 1
    /\ \A i \in 1 .. Count :
         LET d == docs[i]
             ids == Ids(files[d].nodes)
         IN  /\ files[d].nodes # <<>>
             /\ IsBaseDocument(d) <=> i <= BaseCount
             /\ nodes[d] = IF BaseCount < i /\ i <= Passed
                           THEN Renumbered(ids, OwnIndex(d), Number(i)) ELSE ids

RefsInv ==
  phase = "assign" => \A i \in 1 .. Count :
    LET d == docs[i]
        ids == Ids(files[d].refs)
    IN  refs[d] = IF BaseCount < i /\ i <= Passed
                  THEN Renumbered(ids, OwnIndex(d), Number(i)) ELSE ids

\* The references of a document to itself and to namespace 0 are not touched any
\* more, for what is to be substituted in a document is neither its own index
\* nor 0.
SelfInv ==
  phase \in Linking => \A d \in DocumentIds :
    /\ DOMAIN refs[d] = DOMAIN files[d].refs
    /\ \A i \in DOMAIN files[d].refs : refs[d][i].name = files[d].refs[i].name
    /\ OneNamespace(d) => \A i \in DOMAIN files[d].refs :
         /\ files[d].refs[i].ns \in {OwnIndex(d), NamespaceId(nodes[d])}
              => refs[d][i].ns = NamespaceId(nodes[d])
         /\ files[d].refs[i].ns = 0 /\ ~IsBaseDocument(d) => refs[d][i].ns = 0

ForeignInv ==
  phase = "resolve" =>
    \A n \in ToSet(deps) : n \notin {0, NamespaceId(nodes[docs[pos]])}

XInv == XTypeInv /\ PosInv /\ DocsInv /\ ReadInv /\ NumberInv /\ RefsInv /\ SelfInv /\ ForeignInv

-----------------------------------------------------------------------------
(* The links.  A document is Linkable when its author's references to      *)
(* other models can be followed and no clash with its own index stops them.*)

Linkable(d) ==
  Orderly /\ Resolvable(d) /\ NamespaceId(nodes[d]) \notin ForeignIndices(d)

Waiting(d) ==
  phase \in {"link", "resolve"} /\ \E i \in 1 .. Count :
    docs[i] = d /\ (i > pos \/ (i = pos /\ phase = "link"))

Current(d) == phase = "resolve" /\ docs[pos] = d

\* the indices whose turn in the loop over the dependencies has been
Handled(d) ==
  IF Waiting(d) THEN {}
  ELSE IF Current(d) THEN ForeignIndices(d) \ ToSet(deps)
  ELSE ForeignIndices(d)

Pending(d) == ForeignIndices(d) \ Handled(d)

\* the dependencies of the current document, in the order of substitution
DepsInOrder(d) ==
  /\ ToSet(deps) \subseteq ForeignIndices(d)
  /\ \A k, l \in DOMAIN deps : k < l => FirstUse(d, deps[k]) < FirstUse(d, deps[l])
  /\ \A m \in ForeignIndices(d) \ ToSet(deps), n \in ToSet(deps) :
       FirstUse(d, m) < FirstUse(d, n)

OrderInv ==
  phase \in Linking => \A d \in DocumentIds : Linkable(d) /\ Current(d) => DepsInOrder(d)

\* In the references r of d, what was substituted designates what the author
\* meant, and the indices in todo are as the author wrote them.
Exact(d, r, todo) ==
  /\ \A n \in ForeignIndices(d) : \A i \in RefsBy(d, n) :
       r[i].ns = IF n \in todo THEN n ELSE AssignedTo(d, n)
  /\ \A m \in ForeignIndices(d) \ todo, n \in ForeignIndices(d) :
       Before(d, m, n) => AssignedTo(d, m) # n

\* An assigned index was written where the author's same index was still to be
\* substituted, and the two cannot be told apart again.
Merged(d, r) ==
  /\ \E m, n \in ForeignIndices(d) : m # n /\
       \E i \in RefsBy(d, m), j \in RefsBy(d, n) : r[i].ns = r[j].ns
  /\ \E m, n \in ForeignIndices(d) : Before(d, m, n) /\ AssignedTo(d, m) = n

LinkInv ==
  phase \in Linking => \A d \in DocumentIds : Linkable(d) =>
    /\ Exact(d, refs[d], Pending(d)) \/ Merged(d, refs[d])
    /\ Waiting(d) => Exact(d, refs[d], Pending(d))

-----------------------------------------------------------------------------
(* Facts the steps share.                                                  *)

LEMMA FilesFacts ==
  ASSUME files \in Inputs
  PROVE  /\ Count \in Nat /\ DocumentIds = 1 .. Count
         /\ \A d \in DocumentIds :
              files[d].nodes \in Seq(NodeEntry) /\ files[d].refs \in Seq(ReferenceEntry)
<1>1. files \in Seq(Range(files)) /\ \A d \in DOMAIN files : IsDocument(files[d])
  BY InputsAssumption
<1> QED
  BY <1>1 DEF Count, DocumentIds, IsDocument

\* what is read off the input does not change
LEMMA InputFixed ==
  ASSUME files' = files
  PROVE  /\ Count' = Count /\ DocumentIds' = DocumentIds /\ BaseCount' = BaseCount
         /\ Orderly' = Orderly
         /\ \A d : /\ (OwnIndex(d) = OwnIndex(d)') /\ (IsBaseDocument(d) <=> IsBaseDocument(d)')
                   /\ (OneNamespace(d) <=> OneNamespace(d)')
                   /\ ForeignIndices(d) = ForeignIndices(d)'
                   /\ (Resolvable(d) <=> Resolvable(d)')
<1>1. Count' = Count /\ DocumentIds' = DocumentIds
  BY DEF Count, DocumentIds
<1>2. \A d : /\ (OwnIndex(d) = OwnIndex(d)') /\ (IsBaseDocument(d) <=> IsBaseDocument(d)')
             /\ (OneNamespace(d) <=> OneNamespace(d)')
  BY DEF OwnIndex, IsBaseDocument, OneNamespace
<1>3. BaseCount' = BaseCount
  BY <1>1, <1>2 DEF BaseCount, BaseDocuments
<1>4. \A d : ForeignIndices(d) = ForeignIndices(d)' /\ (CallsItself(d) <=> CallsItself(d)')
  BY <1>1, <1>2 DEF ForeignIndices, CallsItself
<1>5. Orderly' = Orderly
  BY <1>1, <1>2, <1>4 DEF Orderly
<1>6. \A d : Resolvable(d) <=> Resolvable(d)'
  <2>1. \A d, n : /\ RefsBy(d, n)' = RefsBy(d, n) /\ Meant(d, n)' = Meant(d, n)
    BY DEF RefsBy, Meant, DocumentIds
  <2>2. \A d, n : Declared(d, n)' = Declared(d, n)
    BY <2>1 DEF Declared, DocumentIds
  <2> QED
    BY <1>1, <1>2, <1>4, <2>1, <2>2 DEF Resolvable
<1> QED
  BY <1>1, <1>2, <1>3, <1>4, <1>5, <1>6

LEMMA NextKeepsFiles ==
  ASSUME [Next]_vars
  PROVE  files' = files
BY DEF Next, vars, AddDocument, EndAdd, Analyze, SeparateBase, AssignUniqueNsId, EndAssign,
       ListDependencies, ResolveByUri, EndResolve, EndLink, StochasticMatch, Finalize, Crash

LEMMA CrashStep ==
  ASSUME XInv, phase \in {"analyze", "resolve", "match"}, Crash
  PROVE  XInv'
<1>1. files \in Inputs /\ Count \in Nat /\ Len(revert) \in Nat /\ pos \in Nat
  BY FilesFacts DEF XInv, XTypeInv
<1>2. /\ phase' = "crashed"
      /\ UNCHANGED <<files, pos, docs, nodes, refs, nsidx, deps, revert>>
  BY DEF Crash
<1>3. Count' = Count /\ DocumentIds' = DocumentIds
  BY <1>2, InputFixed
<1>4. XTypeInv' /\ PosInv'
  BY <1>1, <1>2, <1>3 DEF XInv, XTypeInv, PosInv, Numbered
<1>5. DocsInv' /\ ReadInv'
  BY <1>2, <1>3 DEF XInv, DocsInv, ReadInv, Numbered
<1>6. NumberInv' /\ RefsInv' /\ SelfInv'
  BY <1>2 DEF NumberInv, RefsInv, SelfInv, Numbered, Linking
<1>7. ForeignInv'
  BY <1>2 DEF XInv, ForeignInv
<1> QED
  BY <1>4, <1>5, <1>6, <1>7 DEF XInv

LEMMA AddSteps ==
  ASSUME XInv, AddDocument \/ EndAdd
  PROVE  XInv'
<1>1. files \in Inputs /\ Count \in Nat /\ DocumentIds = 1 .. Count /\ pos \in Nat \ {0}
      /\ phase = "add" /\ docs \in Seq(DocumentIds)
  BY FilesFacts DEF XInv, XTypeInv, DocsInv, AddDocument, EndAdd
<1>2. UNCHANGED <<files, nodes, refs, nsidx, deps, revert>>
  BY DEF AddDocument, EndAdd
<1>3. Count' = Count /\ DocumentIds' = DocumentIds
  BY <1>2, InputFixed
<1>4. revert = <<>> /\ nsidx = 1 /\ pos = Len(docs) + 1 /\ \A i \in 1 .. Len(docs) : docs[i] = i
  BY <1>1 DEF XInv, ReadInv, DocsInv
<1>5. CASE AddDocument
  <2>1. docs' = Append(docs, pos) /\ pos' = pos + 1 /\ phase' = "add" /\ pos <= Count
    BY <1>1, <1>5 DEF AddDocument, Count
  <2>2. docs' \in Seq(DocumentIds) /\ Len(docs') = Len(docs) + 1
        /\ \A i \in 1 .. Len(docs') : docs'[i] = i
    BY <1>1, <1>4, <2>1
  <2>3. XTypeInv' /\ PosInv'
    BY <1>1, <1>2, <1>3, <2>1 DEF XInv, XTypeInv, PosInv, Numbered
  <2>4. DocsInv' /\ ReadInv'
    BY <1>1, <1>2, <1>3, <1>4, <2>1, <2>2 DEF DocsInv, ReadInv, Numbered
  <2>5. NumberInv' /\ RefsInv' /\ SelfInv' /\ ForeignInv'
    BY <1>2, <1>4, <2>1 DEF NumberInv, RefsInv, SelfInv, ForeignInv, Numbered, Linking
  <2> QED
    BY <2>3, <2>4, <2>5 DEF XInv
<1>6. CASE EndAdd
  <2>1. docs' = docs /\ pos' = 1 /\ phase' = "analyze" /\ pos > Count
    BY <1>6 DEF EndAdd, Goto, Count
  <2>2. Len(docs) = Count
    BY <1>1, <1>4, <2>1 DEF XInv, PosInv
  <2>3. XTypeInv' /\ PosInv'
    BY <1>1, <1>2, <1>3, <2>1 DEF XInv, XTypeInv, PosInv, Numbered
  <2>4. DocsInv' /\ ReadInv'
    BY <1>1, <1>2, <1>3, <1>4, <2>1, <2>2 DEF XInv, DocsInv, ReadInv, Numbered
  <2>5. NumberInv' /\ RefsInv' /\ SelfInv' /\ ForeignInv'
    BY <1>2, <1>4, <2>1 DEF NumberInv, RefsInv, SelfInv, ForeignInv, Numbered, Linking
  <2> QED
    BY <2>3, <2>4, <2>5 DEF XInv
<1> QED
  BY <1>5, <1>6

LEMMA AnalyzeStep ==
  ASSUME XInv, Analyze
  PROVE  XInv'
<1>1. files \in Inputs /\ Count \in Nat /\ DocumentIds = 1 .. Count /\ pos \in Nat \ {0}
      /\ phase = "analyze" /\ docs \in Seq(DocumentIds) /\ Len(docs) = Count
      /\ \A i \in 1 .. Count : docs[i] = i
  BY FilesFacts DEF XInv, XTypeInv, DocsInv, Analyze
<1>2. CASE Crash
  BY <1>1, <1>2, CrashStep
<1>3. CASE ~Crash
  <2>1. /\ pos <= Count /\ pos' = pos + 1
        /\ nodes' = [nodes EXCEPT ![pos] = Ids(files[pos].nodes)]
        /\ refs' = [refs EXCEPT ![pos] = Ids(files[pos].refs)]
        /\ UNCHANGED <<files, phase, docs, nsidx, deps, revert>>
    BY <1>1, <1>3 DEF Analyze
  <2>2. Count' = Count /\ DocumentIds' = DocumentIds /\ pos \in DocumentIds
    BY <1>1, <2>1, InputFixed
  <2>3. Ids(files[pos].nodes) \in Seq(NodeIds) /\ Ids(files[pos].refs) \in Seq(NodeIds)
    BY <1>1, <2>2, FilesFacts, IdsFacts
  <2>4. /\ nodes \in [DocumentIds -> Seq(NodeIds)] /\ refs \in [DocumentIds -> Seq(NodeIds)]
    BY DEF XInv, XTypeInv
  <2>5. /\ nodes' \in [DocumentIds -> Seq(NodeIds)] /\ refs' \in [DocumentIds -> Seq(NodeIds)]
    BY <2>1, <2>3, <2>4
  <2>6. XTypeInv' /\ PosInv'
    <3>1. pos + 1 \in Nat \ {0} /\ pos + 1 <= Count + 1
      BY <1>1, <2>1
    <3>2. XTypeInv'
      BY <1>1, <2>1, <2>2, <2>5, <3>1 DEF XInv, XTypeInv, Numbered
    <3> QED
      BY <1>1, <2>1, <2>2, <3>1, <3>2 DEF PosInv
  <2>7. DocsInv'
    BY <1>1, <2>1, <2>2 DEF XInv, DocsInv, Numbered
  <2>8. ReadInv'
    <3>1. \A d \in 1 .. pos - 1 : nodes[d] = Ids(files[d].nodes) /\ refs[d] = Ids(files[d].refs)
      BY <1>1 DEF XInv, ReadInv
    <3>2. \A d \in 1 .. pos :
            nodes'[d] = Ids(files[d].nodes) /\ refs'[d] = Ids(files[d].refs)
      <4>1. nodes'[pos] = Ids(files[pos].nodes) /\ refs'[pos] = Ids(files[pos].refs)
        BY <2>1, <2>2, <2>4
      <4>2. \A d \in 1 .. pos - 1 : nodes'[d] = nodes[d] /\ refs'[d] = refs[d]
        BY <1>1, <2>1, <2>2, <2>4
      <4>3. \A d \in 1 .. pos : d = pos \/ d \in 1 .. pos - 1
        BY <1>1
      <4> QED
        BY <3>1, <4>1, <4>2, <4>3
    <3> QED
      BY <1>1, <2>1, <3>2 DEF XInv, ReadInv
  <2>9. NumberInv' /\ RefsInv' /\ SelfInv' /\ ForeignInv'
    BY <1>1, <2>1 DEF XInv, ReadInv, NumberInv, RefsInv, SelfInv, ForeignInv, Numbered, Linking
  <2> QED
    BY <2>6, <2>7, <2>8, <2>9 DEF XInv
<1> QED
  BY <1>2, <1>3

\* what the documents and numbers look like when all documents are read
LEMMA AllRead ==
  ASSUME XInv, phase = "analyze", pos > Count
  PROVE  /\ Len(docs) = Count /\ \A i \in 1 .. Count : docs[i] = i
         /\ \A d \in DocumentIds : nodes[d] = Ids(files[d].nodes) /\ refs[d] = Ids(files[d].refs)
         /\ \A d \in DocumentIds : NamespaceId(nodes[d]) = OwnIndex(d)
<1>1. files \in Inputs /\ Count \in Nat /\ DocumentIds = 1 .. Count /\ pos \in Nat
  BY FilesFacts DEF XInv, XTypeInv
<1>2. pos = Count + 1
  BY <1>1 DEF XInv, PosInv
<1>3. \A d \in 1 .. Count : nodes[d] = Ids(files[d].nodes) /\ refs[d] = Ids(files[d].refs)
  BY <1>1, <1>2 DEF XInv, ReadInv
<1>4. \A d \in DocumentIds : NamespaceId(nodes[d]) = OwnIndex(d)
  BY <1>1, <1>3, FilesFacts, IdsFacts DEF OwnIndex
<1> QED
  BY <1>1, <1>3, <1>4 DEF XInv, DocsInv

LEMMA SeparateStep ==
  ASSUME XInv, SeparateBase
  PROVE  XInv'
<1>1. files \in Inputs /\ Count \in Nat /\ DocumentIds = 1 .. Count /\ DOMAIN files = DocumentIds
      /\ phase = "analyze" /\ docs \in Seq(DocumentIds) /\ pos \in Nat \ {0}
      /\ pos > Len(docs) /\ Len(docs) = Count /\ revert = <<>> /\ nsidx = 1
  BY FilesFacts DEF XInv, XTypeInv, DocsInv, ReadInv, SeparateBase, DocumentIds
<1>2. CASE Crash
  BY <1>1, <1>2, CrashStep
<1>3. CASE ~Crash
  <2> DEFINE zero == {d \in DOMAIN files : IsNamespaceZero(NamespaceId(nodes[d]))}
  <2> DEFINE base == Those(docs, zero)
  <2>1. /\ \A i \in DOMAIN docs : nodes[docs[i]] # <<>>
        /\ docs' = base \o Those(docs, DOMAIN files \ zero)
        /\ pos' = Len(base) + 1 /\ phase' = "assign"
        /\ UNCHANGED <<files, nodes, refs, nsidx, deps, revert>>
    BY <1>3 DEF SeparateBase, BaseFirst
  <2>2. /\ \A i \in 1 .. Count : docs[i] = i
        /\ \A d \in DocumentIds : nodes[d] = Ids(files[d].nodes) /\ refs[d] = Ids(files[d].refs)
        /\ \A d \in DocumentIds : NamespaceId(nodes[d]) = OwnIndex(d)
    BY <1>1, AllRead
  <2>3. zero = BaseDocuments
    BY <1>1, <2>2 DEF BaseDocuments, IsBaseDocument, IsNamespaceZero
  <2>4. Count' = Count /\ DocumentIds' = DocumentIds /\ BaseCount' = BaseCount
        /\ \A d : (IsBaseDocument(d) <=> IsBaseDocument(d)') /\ OwnIndex(d) = OwnIndex(d)'
    BY <2>1, InputFixed
  <2>5. Len(base) = BaseCount
    <3> HIDE DEF zero
    <3>1. {i \in 1 .. Len(docs) : docs[i] \in zero} = BaseDocuments
      BY <1>1, <2>2, <2>3 DEF BaseDocuments
    <3>2. docs \in Seq(DocumentIds)
      BY <1>1
    <3>3. /\ Those(docs, zero) \in Seq(DocumentIds)
          /\ ToSet(Those(docs, zero)) = ToSet(docs) \cap zero
          /\ Len(Those(docs, zero)) = Cardinality({i \in 1 .. Len(docs) : docs[i] \in zero})
          /\ (\A i, j \in 1 .. Len(docs) : docs[i] = docs[j] => i = j) =>
               \A i, j \in 1 .. Len(Those(docs, zero)) :
                 Those(docs, zero)[i] = Those(docs, zero)[j] => i = j
      BY <3>2, ThoseProperties, Zenon
    <3>4. Len(Those(docs, zero)) = Cardinality(BaseDocuments)
      BY <3>1, <3>3, Zenon
    <3> QED
      BY <3>4 DEF BaseCount
  <2> HIDE DEF zero
  <2>6. /\ docs' \in Seq(DocumentIds) /\ Len(docs') = Count
        /\ ToSet(docs') = ToSet(docs)
        /\ \A i, j \in 1 .. Len(docs') : docs'[i] = docs'[j] => i = j
        /\ Len(base) \in 0 .. Len(docs')
        /\ \A i \in 1 .. Len(docs') : docs'[i] \in zero <=> i <= Len(base)
    <3>1. \A i, j \in 1 .. Len(docs) : docs[i] = docs[j] => i = j
      BY DEF XInv, DocsInv
    <3>2. docs' = Those(docs, zero) \o Those(docs, DocumentIds \ zero)
      BY <1>1, <2>1
    <3> HIDE DEF base
    <3>3. LET front == Those(docs, zero)
              q == front \o Those(docs, DocumentIds \ zero)
          IN  /\ q \in Seq(DocumentIds) /\ Len(q) = Len(docs)
              /\ ToSet(q) = ToSet(docs)
              /\ \A i, j \in 1 .. Len(q) : q[i] = q[j] => i = j
              /\ Len(front) \in 0 .. Len(q)
              /\ \A i \in 1 .. Len(q) : q[i] \in zero <=> i <= Len(front)
      BY <1>1, <3>1, Separated, Zenon
    <3> QED
      BY <1>1, <3>2, <3>3 DEF base
  <2>7. \A d \in DocumentIds : \E i \in 1 .. Count : docs'[i] = d
    <3>1. \A d \in DocumentIds : d \in ToSet(docs)
      BY <1>1, <2>2, InToSet
    <3> QED
      BY <2>6, <3>1, InToSet
  <2>8. XTypeInv' /\ PosInv'
    BY <1>1, <2>1, <2>4, <2>6 DEF XInv, XTypeInv, PosInv, Numbered
  <2>9. DocsInv' /\ ReadInv'
    BY <1>1, <2>1, <2>4, <2>6, <2>7 DEF DocsInv, ReadInv, Numbered
  <2>10. \A i \in 1 .. Count : docs'[i] \in DocumentIds
    BY <2>6
  <2>11. \A d \in DocumentIds : nodes[d] # <<>> /\ files[d].nodes # <<>>
    <3>1. ASSUME NEW d \in DocumentIds PROVE nodes[d] # <<>>
      <4>1. d \in 1 .. Count /\ DOMAIN docs = 1 .. Count
        BY <1>1
      <4>2. d \in DOMAIN docs /\ docs[d] = d
        BY <2>2, <4>1
      <4> QED
        BY <2>1, <4>2
    <3>2. \A d \in DocumentIds : Len(Ids(files[d].nodes)) = Len(files[d].nodes)
                                   /\ Ids(files[d].nodes) \in Seq(NodeIds)
      BY <1>1, FilesFacts, IdsFacts
    <3> QED
      BY <2>2, <3>1, <3>2
  <2>12. Passed' = BaseCount
    BY <1>1, <2>1, <2>5, <2>6 DEF Passed
  <2>13. NumberInv' /\ RefsInv'
    <3>1. Passed' = BaseCount' /\ nsidx' = 1 /\ phase' = "assign" /\ Count' = Count
      BY <1>1, <2>1, <2>4, <2>12
    <3>2. BaseCount \in Nat
      BY <2>5, <2>6
    <3>3. ASSUME NEW i \in 1 .. Count
          PROVE  /\ files'[docs'[i]].nodes # <<>>
                 /\ (IsBaseDocument(docs[i]))' <=> i <= BaseCount'
                 /\ nodes'[docs'[i]] = Ids(files'[docs'[i]].nodes)
                 /\ refs'[docs'[i]] = Ids(files'[docs'[i]].refs)
                 /\ ~(BaseCount' < i /\ i <= Passed')
      <4> DEFINE d == docs'[i]
      <4>1. d \in DocumentIds
        BY <2>10
      <4>2. d \in zero <=> i <= BaseCount
        BY <1>1, <2>5, <2>6
      <4>3. d \in zero <=> IsBaseDocument(d)
        BY <2>3, <4>1 DEF BaseDocuments
      <4>4. IsBaseDocument(docs[i])' <=> IsBaseDocument(d)
        BY <2>1 DEF IsBaseDocument, OwnIndex
      <4>5. files'[d].nodes # <<>> /\ nodes'[d] = Ids(files'[d].nodes)
              /\ refs'[d] = Ids(files'[d].refs)
        BY <2>1, <2>2, <2>11, <4>1
      <4>6. ~(BaseCount' < i /\ i <= Passed')
        BY <3>1, <3>2, <2>4
      <4> QED
        BY <2>4, <4>2, <4>3, <4>4, <4>5, <4>6
    <3>4. BaseCount' \in 0 .. Passed' /\ nsidx' = Passed' - BaseCount' + 1
      BY <2>4, <3>1, <3>2
    <3>5. NumberInv'
      BY <3>1, <3>3, <3>4 DEF NumberInv
    <3>6. RefsInv'
      BY <3>1, <3>3, <3>4 DEF RefsInv
    <3> QED
      BY <3>5, <3>6
  <2>14. SelfInv' /\ ForeignInv'
    BY <1>1, <2>1 DEF SelfInv, ForeignInv, Linking
  <2> QED
    BY <2>8, <2>9, <2>13, <2>14 DEF XInv
<1> QED
  BY <1>2, <1>3

-----------------------------------------------------------------------------
(* The indices the documents have once they are numbered.                  *)

\* a sequence whose entries are all in one namespace
LEMMA OneIndex ==
  ASSUME NEW s, Indexed(s), Cardinality(Indices(s)) = 1
  PROVE  \A i \in DOMAIN s : s[i].ns = NamespaceId(s)
<1> DEFINE X == Indices(s)
<1> DEFINE f == [i \in 1 .. Len(s) |-> s[i].ns]
<1>1. IsFiniteSet(1 .. Len(s))
  BY FS_Interval DEF Indexed
<1>2. f \in Surjection(1 .. Len(s), X)
  BY DEF Surjection, Indices, Indexed
<1>3. Cardinality(X) = 1
  OBVIOUS
<1>4. \A i \in DOMAIN s : s[i].ns \in X
  BY DEF Indices
<1>5. DOMAIN s # {} => NamespaceId(s) \in X
  BY NamespaceIdIsIndex
<1> HIDE DEF f, X
<1>6. IsFiniteSet(X)
  BY <1>1, <1>2, FS_Surjection
<1>7. PICK x : X = {x}
  BY <1>3, <1>6, FS_Singleton
<1> QED
  BY <1>4, <1>5, <1>7

\* the nodes of the document at a place, and their index
LEMMA NodesAt ==
  ASSUME XInv, phase \in Numbered, NEW i \in 1 .. Count
  PROVE  LET d == docs[i] IN
         /\ d \in DocumentIds /\ BaseCount \in Nat
         /\ IsBaseDocument(d) <=> i <= BaseCount
         /\ DOMAIN nodes[d] = DOMAIN files[d].nodes /\ DOMAIN nodes[d] # {}
         /\ Indexed(nodes[d]) /\ Indexed(files[d].nodes)
         /\ \A j \in DOMAIN nodes[d] : nodes[d][j].name = files[d].nodes[j].name
         /\ NamespaceId(nodes[d]) \in Nat /\ OwnIndex(d) \in Nat
         /\ ~(BaseCount < i /\ i <= Passed) =>
              /\ NamespaceId(nodes[d]) = OwnIndex(d)
              /\ OneNamespace(d) => \A j \in DOMAIN nodes[d] : nodes[d][j].ns = OwnIndex(d)
         /\ BaseCount < i /\ i <= Passed /\ OneNamespace(d) =>
              /\ NamespaceId(nodes[d]) = Number(i)
              /\ \A j \in DOMAIN nodes[d] : nodes[d][j].ns = Number(i)
<1> DEFINE d == docs[i]
<1> DEFINE ids == Ids(files[d].nodes)
<1>1. files \in Inputs /\ Count \in Nat /\ DocumentIds = 1 .. Count
      /\ docs \in Seq(DocumentIds) /\ Len(docs) = Count
  BY FilesFacts DEF XInv, XTypeInv, DocsInv
<1>2. d \in DocumentIds
  BY <1>1
<1>3. files[d].nodes \in Seq(NodeEntry) /\ nodes[d] \in Seq(NodeIds)
  BY <1>1, <1>2, FilesFacts DEF XInv, XTypeInv
<1>4. /\ BaseCount \in 0 .. Passed /\ files[d].nodes # <<>>
      /\ IsBaseDocument(d) <=> i <= BaseCount
      /\ nodes[d] = IF BaseCount < i /\ i <= Passed
                    THEN Renumbered(ids, OwnIndex(d), Number(i)) ELSE ids
  BY DEF XInv, NumberInv
<1>5. Number(i) \in Nat \/ ~(BaseCount < i)
  BY <1>4 DEF Number
<1> HIDE DEF d
<1>6. /\ ids \in Seq(NodeIds) /\ Len(ids) = Len(files[d].nodes)
      /\ DOMAIN ids = DOMAIN files[d].nodes
      /\ \A j \in DOMAIN files[d].nodes : /\ ids[j].ns = files[d].nodes[j].ns
                                          /\ ids[j].name = files[d].nodes[j].name
      /\ NamespaceId(ids) = OwnIndex(d)
  BY <1>3, IdsFacts DEF OwnIndex
<1>7. Indexed(nodes[d]) /\ Indexed(files[d].nodes) /\ DOMAIN files[d].nodes # {}
      /\ Indexed(ids)
  BY <1>3, <1>4, <1>6, TypedIsIndexed
<1> HIDE DEF ids
<1>8. BaseCount < i =>
      /\ DOMAIN Renumbered(ids, OwnIndex(d), Number(i)) = DOMAIN ids
      /\ \A j \in DOMAIN ids :
           /\ Renumbered(ids, OwnIndex(d), Number(i))[j].ns
                = IF ids[j].ns = OwnIndex(d) THEN Number(i) ELSE ids[j].ns
           /\ Renumbered(ids, OwnIndex(d), Number(i))[j].name = ids[j].name
  BY <1>5, <1>6, RenumberedFacts
<1>9. DOMAIN nodes[d] = DOMAIN files[d].nodes
      /\ \A j \in DOMAIN nodes[d] : nodes[d][j].name = files[d].nodes[j].name
  BY <1>4, <1>6, <1>8
<1>10. OneNamespace(d) => \A j \in DOMAIN files[d].nodes : files[d].nodes[j].ns = OwnIndex(d)
  BY <1>7, OneIndex DEF OneNamespace, OwnIndex
<1>11. NamespaceId(nodes[d]) \in Nat /\ OwnIndex(d) \in Nat
  BY <1>7, <1>9, NamespaceIdIsIndex DEF OwnIndex
<1>12. CASE ~(BaseCount < i /\ i <= Passed)
  BY <1>2, <1>4, <1>6, <1>7, <1>9, <1>10, <1>11, <1>12 DEF d
<1>13. CASE BaseCount < i /\ i <= Passed
  <2>1. OneNamespace(d) => \A j \in DOMAIN nodes[d] : nodes[d][j].ns = Number(i)
    BY <1>4, <1>6, <1>8, <1>9, <1>10, <1>13
  <2>2. OneNamespace(d) => NamespaceId(nodes[d]) = Number(i)
    BY <1>7, <1>9, <2>1, NamespaceIdOfOne
  <2> QED
    BY <1>2, <1>4, <1>7, <1>9, <1>11, <1>13, <2>1, <2>2 DEF d
<1> QED
  BY <1>12, <1>13

\* the same for a document wherever it is
LEMMA NodesOf ==
  ASSUME XInv, phase \in Numbered, NEW d \in DocumentIds
  PROVE  /\ DOMAIN nodes[d] = DOMAIN files[d].nodes /\ DOMAIN nodes[d] # {}
         /\ Indexed(nodes[d]) /\ NamespaceId(nodes[d]) \in Nat /\ OwnIndex(d) \in Nat
         /\ \A j \in DOMAIN nodes[d] : nodes[d][j].name = files[d].nodes[j].name
         /\ OneNamespace(d) => \A j \in DOMAIN nodes[d] : nodes[d][j].ns = NamespaceId(nodes[d])
         /\ IsBaseDocument(d) => NamespaceId(nodes[d]) = 0
         /\ OneNamespace(d) /\ ~IsBaseDocument(d) /\ phase # "assign" =>
              NamespaceId(nodes[d]) >= 2
<1>1. PICK i \in 1 .. Count : docs[i] = d
  BY DEF XInv, DocsInv
<1>2. Count \in Nat
  BY FilesFacts DEF XInv, XTypeInv
<1>3. phase # "assign" => Passed = Count
  BY DEF Passed
<1>4. BaseCount \in Nat /\ (IsBaseDocument(d) <=> i <= BaseCount)
      /\ DOMAIN nodes[d] = DOMAIN files[d].nodes /\ DOMAIN nodes[d] # {}
      /\ Indexed(nodes[d]) /\ NamespaceId(nodes[d]) \in Nat /\ OwnIndex(d) \in Nat
      /\ \A j \in DOMAIN nodes[d] : nodes[d][j].name = files[d].nodes[j].name
  BY <1>1, NodesAt
<1>5. /\ ~(BaseCount < i /\ i <= Passed) =>
           /\ NamespaceId(nodes[d]) = OwnIndex(d)
           /\ OneNamespace(d) => \A j \in DOMAIN nodes[d] : nodes[d][j].ns = OwnIndex(d)
      /\ BaseCount < i /\ i <= Passed /\ OneNamespace(d) =>
           /\ NamespaceId(nodes[d]) = Number(i)
           /\ \A j \in DOMAIN nodes[d] : nodes[d][j].ns = Number(i)
  BY <1>1, NodesAt
<1>6. IsBaseDocument(d) => ~(BaseCount < i /\ i <= Passed)
  BY <1>2, <1>4
<1>7. OneNamespace(d) => \A j \in DOMAIN nodes[d] : nodes[d][j].ns = NamespaceId(nodes[d])
  BY <1>5
<1>8. IsBaseDocument(d) => NamespaceId(nodes[d]) = 0
  BY <1>5, <1>6 DEF IsBaseDocument
<1>9. OneNamespace(d) /\ ~IsBaseDocument(d) /\ phase # "assign" => NamespaceId(nodes[d]) >= 2
  BY <1>2, <1>3, <1>4, <1>5 DEF Number
<1> QED
  BY <1>4, <1>7, <1>8, <1>9

LEMMA AssignStep ==
  ASSUME XInv, AssignUniqueNsId
  PROVE  XInv'
<1> DEFINE d == docs[pos]
<1> DEFINE k == NamespaceId(nodes[d])
<1>1. files \in Inputs /\ Count \in Nat /\ DocumentIds = 1 .. Count /\ pos \in 1 .. Count
      /\ phase = "assign" /\ docs \in Seq(DocumentIds) /\ Len(docs) = Count /\ revert = <<>>
      /\ nsidx \in Nat /\ phase \in Numbered
  <2>1. phase = "assign" /\ phase \in Numbered /\ pos <= Len(docs)
    BY DEF AssignUniqueNsId, Numbered
  <2>2. files \in Inputs /\ pos \in Nat \ {0} /\ nsidx \in 1 .. Count + 1
        /\ docs \in Seq(DocumentIds) /\ Len(docs) = Count /\ revert = <<>>
    BY <2>1 DEF XInv, XTypeInv, DocsInv, ReadInv
  <2>3. Count \in Nat /\ DocumentIds = 1 .. Count
    BY <2>2, FilesFacts
  <2> QED
    BY <2>1, <2>2, <2>3
<1>2. /\ nodes' = [nodes EXCEPT ![d] = Renumbered(@, k, nsidx + 1)]
      /\ refs' = [refs EXCEPT ![d] = Renumbered(@, k, nsidx + 1)]
      /\ nsidx' = nsidx + 1 /\ pos' = pos + 1
      /\ UNCHANGED <<files, phase, docs, deps, revert>>
  BY DEF AssignUniqueNsId, NextIndex
<1>3. Count' = Count /\ DocumentIds' = DocumentIds /\ BaseCount' = BaseCount
  BY <1>2, InputFixed
<1>4. Passed = pos - 1 /\ Passed' = pos
  BY <1>1, <1>2 DEF Passed
<1>5. BaseCount \in 0 .. pos - 1 /\ nsidx = pos - BaseCount
  BY <1>1, <1>4 DEF XInv, NumberInv
<1>6. d \in DocumentIds /\ k = OwnIndex(d)
  <2>1. ~(BaseCount < pos /\ pos <= Passed)
    BY <1>1, <1>4
  <2> QED
    BY <1>1, <2>1, NodesAt
<1>7. nsidx + 1 = Number(pos) /\ nsidx + 1 \in Nat
  BY <1>1, <1>5 DEF Number
<1>8. /\ nodes \in [DocumentIds -> Seq(NodeIds)] /\ refs \in [DocumentIds -> Seq(NodeIds)]
  BY DEF XInv, XTypeInv
<1> HIDE DEF k, d
<1>9. /\ Renumbered(nodes[d], k, nsidx + 1) \in Seq(NodeIds)
      /\ Renumbered(refs[d], k, nsidx + 1) \in Seq(NodeIds)
  BY <1>6, <1>7, <1>8, RenumberedFacts
<1>10. /\ nodes' \in [DocumentIds -> Seq(NodeIds)] /\ refs' \in [DocumentIds -> Seq(NodeIds)]
  BY <1>2, <1>8, <1>9
<1>11. XTypeInv' /\ PosInv'
  <2>1. nsidx + 1 \in 1 .. Count + 1 /\ pos + 1 \in Nat \ {0} /\ pos + 1 <= Count + 1
    BY <1>1, <1>5
  <2> QED
    BY <1>1, <1>2, <1>3, <1>10, <2>1 DEF XInv, XTypeInv, PosInv, Numbered
<1>12. DocsInv' /\ ReadInv'
  BY <1>1, <1>2, <1>3 DEF XInv, DocsInv, ReadInv, Numbered
<1>13. ASSUME NEW i \in 1 .. Count
       PROVE  LET e == docs[i] IN
              /\ files[e].nodes # <<>>
              /\ IsBaseDocument(e) <=> i <= BaseCount
              /\ nodes'[e] = IF BaseCount < i /\ i <= pos
                             THEN Renumbered(Ids(files[e].nodes), OwnIndex(e), Number(i))
                             ELSE Ids(files[e].nodes)
              /\ refs'[e] = IF BaseCount < i /\ i <= pos
                            THEN Renumbered(Ids(files[e].refs), OwnIndex(e), Number(i))
                            ELSE Ids(files[e].refs)
  <2> DEFINE e == docs[i]
  <2>1. /\ files[e].nodes # <<>>
        /\ IsBaseDocument(e) <=> i <= BaseCount
        /\ nodes[e] = IF BaseCount < i /\ i <= Passed
                      THEN Renumbered(Ids(files[e].nodes), OwnIndex(e), Number(i))
                      ELSE Ids(files[e].nodes)
        /\ refs[e] = IF BaseCount < i /\ i <= Passed
                     THEN Renumbered(Ids(files[e].refs), OwnIndex(e), Number(i))
                     ELSE Ids(files[e].refs)
    BY <1>1 DEF XInv, NumberInv, RefsInv
  <2>2. CASE i = pos
    <3>1. e = d
      BY <2>2 DEF d
    <3>2. ~(BaseCount < i /\ i <= Passed) /\ BaseCount < i /\ i <= pos
      BY <1>1, <1>4, <1>5, <2>2
    <3>3. nodes'[d] = Renumbered(nodes[d], k, nsidx + 1)
          /\ refs'[d] = Renumbered(refs[d], k, nsidx + 1)
      BY <1>2, <1>6, <1>8
    <3> QED
      BY <1>6, <1>7, <2>1, <2>2, <3>1, <3>2, <3>3
  <2>3. CASE i # pos
    <3>1. e # d /\ e \in DocumentIds
      <4>1. \A a, b \in 1 .. Len(docs) : docs[a] = docs[b] => a = b
        BY DEF XInv, DocsInv
      <4> QED
        BY <1>1, <2>3, <4>1 DEF d
    <3>2. nodes'[e] = nodes[e] /\ refs'[e] = refs[e]
      BY <1>2, <1>6, <1>8, <3>1
    <3>3. (BaseCount < i /\ i <= Passed) <=> (BaseCount < i /\ i <= pos)
      BY <1>1, <1>4, <2>3
    <3> QED
      BY <2>1, <3>2, <3>3
  <2> QED
    BY <2>2, <2>3
<1>14. NumberInv' /\ RefsInv'
  <2>1. \A i \in 1 .. Count : /\ OwnIndex(docs[i])' = OwnIndex(docs[i])
                              /\ (IsBaseDocument(docs[i])' <=> IsBaseDocument(docs[i]))
                              /\ Number(i)' = Number(i)
    BY <1>2, <1>3 DEF OwnIndex, IsBaseDocument, Number
  <2>2. BaseCount' \in 0 .. Passed' /\ nsidx' = Passed' - BaseCount' + 1
    BY <1>1, <1>2, <1>3, <1>4, <1>5
  <2>3. NumberInv'
    BY <1>2, <1>3, <1>4, <1>13, <2>1, <2>2 DEF NumberInv
  <2>4. RefsInv'
    BY <1>2, <1>3, <1>4, <1>13, <2>1 DEF RefsInv
  <2> QED
    BY <2>3, <2>4
<1>15. SelfInv' /\ ForeignInv'
  BY <1>1, <1>2 DEF SelfInv, ForeignInv, Linking
<1> QED
  BY <1>11, <1>12, <1>14, <1>15 DEF XInv

LEMMA EndAssignStep ==
  ASSUME XInv, EndAssign
  PROVE  XInv'
<1>1. phase = "assign" /\ phase \in Numbered /\ pos > Len(docs)
      /\ phase' = "link" /\ pos' = 1 /\ UNCHANGED <<files, docs, nodes, refs, nsidx, deps, revert>>
  BY DEF EndAssign, Goto, Numbered
<1>2. files \in Inputs /\ pos \in Nat \ {0} /\ docs \in Seq(DocumentIds) /\ Len(docs) = Count
      /\ revert = <<>> /\ pos <= Count + 1
      /\ refs \in [DocumentIds -> Seq(NodeIds)] /\ nodes \in [DocumentIds -> Seq(NodeIds)]
  BY <1>1 DEF XInv, XTypeInv, DocsInv, ReadInv, PosInv
<1>3. Count \in Nat /\ DocumentIds = 1 .. Count
  BY <1>2, FilesFacts
<1>4. Count' = Count /\ DocumentIds' = DocumentIds /\ BaseCount' = BaseCount
  BY <1>1, InputFixed
<1>5. Passed = Count /\ Passed' = Count
  BY <1>1, <1>2, <1>3, <1>4 DEF Passed
<1>6. XTypeInv' /\ PosInv'
  BY <1>1, <1>2, <1>3, <1>4 DEF XInv, XTypeInv, PosInv, Numbered
<1>7. DocsInv' /\ ReadInv'
  BY <1>1, <1>2, <1>4 DEF XInv, DocsInv, ReadInv, Numbered
<1>8. NumberInv' /\ RefsInv'
  <2>1. \A i \in 1 .. Count : /\ OwnIndex(docs[i])' = OwnIndex(docs[i])
                              /\ (IsBaseDocument(docs[i])' <=> IsBaseDocument(docs[i]))
                              /\ Number(i)' = Number(i)
    BY <1>1, <1>4 DEF OwnIndex, IsBaseDocument, Number
  <2> QED
    BY <1>1, <1>4, <1>5, <2>1 DEF XInv, NumberInv, RefsInv
<1>9. ASSUME NEW d \in DocumentIds
      PROVE  /\ DOMAIN refs[d] = DOMAIN files[d].refs
             /\ \A j \in DOMAIN files[d].refs : refs[d][j].name = files[d].refs[j].name
             /\ OneNamespace(d) => \A j \in DOMAIN files[d].refs :
                  /\ files[d].refs[j].ns \in {OwnIndex(d), NamespaceId(nodes[d])}
                       => refs[d][j].ns = NamespaceId(nodes[d])
                  /\ files[d].refs[j].ns = 0 /\ ~IsBaseDocument(d) => refs[d][j].ns = 0
  <2>1. PICK i \in 1 .. Count : docs[i] = d
    BY <1>1 DEF XInv, DocsInv
  <2> DEFINE ids == Ids(files[d].refs)
  <2>2. refs[d] = IF BaseCount < i /\ i <= Count THEN Renumbered(ids, OwnIndex(d), Number(i))
                                                 ELSE ids
    BY <1>1, <1>5, <2>1 DEF XInv, RefsInv
  <2>3. files[d].refs \in Seq(ReferenceEntry)
    BY <1>2, FilesFacts
  <2>4. ids \in Seq(NodeIds) /\ DOMAIN ids = DOMAIN files[d].refs
        /\ \A j \in DOMAIN files[d].refs : /\ ids[j].ns = files[d].refs[j].ns
                                           /\ ids[j].name = files[d].refs[j].name
    BY <2>3, IdsFacts
  <2>5. BaseCount \in Nat /\ (IsBaseDocument(d) <=> i <= BaseCount)
    BY <1>1, <2>1, NodesAt
  <2>6. /\ ~(BaseCount < i /\ i <= Passed) => NamespaceId(nodes[d]) = OwnIndex(d)
        /\ BaseCount < i /\ i <= Passed /\ OneNamespace(d) => NamespaceId(nodes[d]) = Number(i)
    BY <1>1, <2>1, NodesAt
  <2>7. BaseCount < i => Number(i) \in Nat
    BY <1>3, <2>5 DEF Number
  <2> HIDE DEF ids
  <2>8. CASE BaseCount < i
    <3>1. refs[d] = Renumbered(ids, OwnIndex(d), Number(i)) /\ ~IsBaseDocument(d)
      BY <1>3, <2>2, <2>5, <2>8
    <3>2. OneNamespace(d) => NamespaceId(nodes[d]) = Number(i)
      BY <1>3, <1>5, <2>6, <2>8
    <3>3. /\ DOMAIN refs[d] = DOMAIN ids
          /\ \A j \in DOMAIN ids :
               /\ refs[d][j].ns = IF ids[j].ns = OwnIndex(d) THEN Number(i) ELSE ids[j].ns
               /\ refs[d][j].name = ids[j].name
      BY <2>4, <2>7, <2>8, <3>1, RenumberedFacts
    <3>4. OwnIndex(d) # 0
      BY <3>1 DEF IsBaseDocument
    <3> QED
      BY <2>4, <3>1, <3>2, <3>3, <3>4
  <2>9. CASE ~(BaseCount < i)
    <3>1. refs[d] = ids /\ IsBaseDocument(d) /\ NamespaceId(nodes[d]) = OwnIndex(d)
      BY <2>2, <2>5, <2>6, <2>9
    <3> QED
      BY <2>4, <3>1
  <2> QED
    BY <2>8, <2>9
<1>10. SelfInv' /\ ForeignInv'
  <2>1. \A d : /\ OwnIndex(d)' = OwnIndex(d) /\ (OneNamespace(d)' <=> OneNamespace(d))
               /\ (IsBaseDocument(d)' <=> IsBaseDocument(d))
    BY <1>1 DEF OwnIndex, OneNamespace, IsBaseDocument
  <2>2. SelfInv'
    BY <1>1, <1>4, <1>9, <2>1 DEF SelfInv
  <2>3. ForeignInv'
    BY <1>1, <1>2 DEF ForeignInv
  <2> QED
    BY <2>2, <2>3
<1> QED
  BY <1>6, <1>7, <1>8, <1>10 DEF XInv

\* from the linking on, documents and nodes do not change any more
LEMMA LinkingKeeps ==
  ASSUME XInv, phase \in Linking, phase' \in Linking, UNCHANGED <<files, docs, nodes, nsidx>>
  PROVE  /\ DocsInv' /\ NumberInv' /\ RefsInv' /\ ReadInv'
         /\ phase \in Numbered /\ Passed = Count
         /\ Count \in Nat /\ DocumentIds = 1 .. Count /\ Count' = Count
         /\ DocumentIds' = DocumentIds /\ docs \in Seq(DocumentIds) /\ Len(docs) = Count
         /\ \A d \in DocumentIds : \E i \in 1 .. Count : docs[i] = d
<1>1. files \in Inputs /\ phase \in Numbered /\ phase' \in Numbered /\ phase # "assign"
      /\ phase' # "assign" /\ phase' \notin {"add", "analyze"}
  BY DEF XInv, XTypeInv, Linking, Numbered
<1>2. Count' = Count /\ DocumentIds' = DocumentIds /\ BaseCount' = BaseCount
  BY InputFixed
<1>3. Passed = Count /\ Passed' = Count
  BY <1>1, <1>2 DEF Passed
<1>4. Count \in Nat /\ DocumentIds = 1 .. Count
  BY <1>1, FilesFacts
<1>5. /\ docs \in Seq(DocumentIds) /\ Len(docs) = Count
      /\ \A i, j \in 1 .. Len(docs) : docs[i] = docs[j] => i = j
      /\ \A d \in DocumentIds : \E i \in 1 .. Count : docs[i] = d
  BY <1>1 DEF XInv, DocsInv
<1>6. DocsInv' /\ ReadInv' /\ RefsInv'
  BY <1>1, <1>2, <1>5 DEF DocsInv, ReadInv, RefsInv
<1>7. NumberInv'
  <2>1. \A i \in 1 .. Count : /\ OwnIndex(docs[i])' = OwnIndex(docs[i])
                              /\ (IsBaseDocument(docs[i])' <=> IsBaseDocument(docs[i]))
                              /\ Number(i)' = Number(i)
    BY <1>2 DEF OwnIndex, IsBaseDocument, Number
  <2> QED
    BY <1>1, <1>2, <1>3, <2>1 DEF XInv, NumberInv
<1> QED
  BY <1>1, <1>2, <1>3, <1>4, <1>5, <1>6, <1>7

\* a substitution in the references of a document leaves its references to
\* itself and to namespace 0 as they are
LEMMA SubstitutionKeepsSelf ==
  ASSUME XInv, phase \in Linking, UNCHANGED <<files, nodes>>,
         NEW d \in DocumentIds, NEW n, n \notin {0, NamespaceId(nodes[d])}, NEW t \in Nat,
         refs' = [refs EXCEPT ![d] = Renumbered(@, n, t)]
  PROVE  refs' \in [DocumentIds -> Seq(NodeIds)] /\ SelfInv'
<1>1. refs \in [DocumentIds -> Seq(NodeIds)] /\ refs[d] \in Seq(NodeIds)
  BY DEF XInv, XTypeInv
<1>2. /\ Renumbered(refs[d], n, t) \in Seq(NodeIds)
      /\ DOMAIN Renumbered(refs[d], n, t) = DOMAIN refs[d]
      /\ \A i \in DOMAIN refs[d] :
           /\ Renumbered(refs[d], n, t)[i].ns = IF refs[d][i].ns = n THEN t ELSE refs[d][i].ns
           /\ Renumbered(refs[d], n, t)[i].name = refs[d][i].name
  BY <1>1, RenumberedFacts
<1>3. refs'[d] = Renumbered(refs[d], n, t)
      /\ \A e \in DocumentIds : e # d => refs'[e] = refs[e]
  BY <1>1
<1>4. \A e : /\ OwnIndex(e)' = OwnIndex(e) /\ (OneNamespace(e)' <=> OneNamespace(e))
             /\ (IsBaseDocument(e)' <=> IsBaseDocument(e))
  BY DEF OwnIndex, OneNamespace, IsBaseDocument
<1>5. ASSUME NEW e \in DocumentIds
      PROVE  /\ DOMAIN refs'[e] = DOMAIN files[e].refs
             /\ \A i \in DOMAIN files[e].refs : refs'[e][i].name = files[e].refs[i].name
             /\ OneNamespace(e) => \A i \in DOMAIN files[e].refs :
                  /\ files[e].refs[i].ns \in {OwnIndex(e), NamespaceId(nodes[e])}
                       => refs'[e][i].ns = NamespaceId(nodes[e])
                  /\ files[e].refs[i].ns = 0 /\ ~IsBaseDocument(e) => refs'[e][i].ns = 0
  <2>1. /\ DOMAIN refs[e] = DOMAIN files[e].refs
        /\ \A i \in DOMAIN files[e].refs : refs[e][i].name = files[e].refs[i].name
        /\ OneNamespace(e) => \A i \in DOMAIN files[e].refs :
             /\ files[e].refs[i].ns \in {OwnIndex(e), NamespaceId(nodes[e])}
                  => refs[e][i].ns = NamespaceId(nodes[e])
             /\ files[e].refs[i].ns = 0 /\ ~IsBaseDocument(e) => refs[e][i].ns = 0
    BY DEF XInv, SelfInv
  <2>2. CASE e = d
    BY <1>2, <1>3, <2>1, <2>2
  <2>3. CASE e # d
    BY <1>3, <2>1, <2>3
  <2> QED
    BY <2>2, <2>3
<1>6. SelfInv'
  <2>1. DocumentIds' = DocumentIds
    BY InputFixed
  <2> QED
    BY <1>4, <1>5, <2>1 DEF SelfInv
<1>7. refs' \in [DocumentIds -> Seq(NodeIds)]
  BY <1>1, <1>2
<1> QED
  BY <1>6, <1>7

\* The dependencies of a document are the indices of its references, each once
\* and in the order of their first use.
LEMMA DependenciesFacts ==
  ASSUME NEW s, Indexed(s)
  PROVE  /\ NamespaceDependencies(s) \in Seq(Nat)
         /\ ToSet(NamespaceDependencies(s)) = Indices(s)
         /\ \A p, r \in 1 .. Len(NamespaceDependencies(s)) : p < r =>
              Min({i \in DOMAIN s : s[i].ns = NamespaceDependencies(s)[p]})
                < Min({i \in DOMAIN s : s[i].ns = NamespaceDependencies(s)[r]})
<1> DEFINE places == [i \in DOMAIN s |-> i]
<1> DEFINE new == {i \in DOMAIN s : \A j \in 1 .. i - 1 : s[j].ns # s[i].ns}
<1> DEFINE at == Those(places, new)
<1> DEFINE found == [k \in DOMAIN at |-> s[at[k]].ns]
<1> DEFINE First(n) == Min({i \in DOMAIN s : s[i].ns = n})
<1>1. NamespaceDependencies(s) = found
  BY DEF NamespaceDependencies
<1>2. Len(s) \in Nat /\ DOMAIN s = 1 .. Len(s) /\ \A i \in DOMAIN s : s[i].ns \in Nat
  BY DEF Indexed
<1>3. places \in Seq(DOMAIN s) /\ Len(places) = Len(s)
      /\ \A i \in DOMAIN s : places[i] = i
  BY <1>2
<1>4. \A i \in new : i \in DOMAIN s /\ \A j \in DOMAIN s : s[j].ns = s[i].ns => i <= j
  BY <1>2
<1>5. \A n \in Indices(s) : First(n) \in new /\ s[First(n)].ns = n
  <2> SUFFICES ASSUME NEW n \in Indices(s) PROVE First(n) \in new /\ s[First(n)].ns = n
    OBVIOUS
  <2> DEFINE U == {i \in DOMAIN s : s[i].ns = n}
  <2>1. U \in SUBSET Nat /\ U # {}
    BY <1>2 DEF Indices
  <2> HIDE DEF U
  <2>2. Min(U) \in U /\ \A y \in U : Min(U) <= y
    BY <2>1, LeastExists
  <2>3. Min(U) \in DOMAIN s /\ s[Min(U)].ns = n
        /\ \A j \in DOMAIN s : s[j].ns = n => Min(U) <= j
    BY <2>2 DEF U
  <2>4. Min(U) \in new
    BY <1>2, <2>3
  <2> QED
    BY <2>3, <2>4 DEF U
<1>6. \A i \in new : i = First(s[i].ns)
  <2> SUFFICES ASSUME NEW i \in new PROVE i = First(s[i].ns)
    OBVIOUS
  <2>1. s[i].ns \in Indices(s)
    BY <1>4 DEF Indices
  <2>2. First(s[i].ns) \in new /\ s[First(s[i].ns)].ns = s[i].ns
    BY <1>5, <2>1
  <2>3. First(s[i].ns) <= i /\ i <= First(s[i].ns) /\ i \in Nat /\ First(s[i].ns) \in Nat
    BY <1>2, <1>4, <2>2
  <2> QED
    BY <2>3
<1> HIDE DEF new, places, First
<1>7. /\ at \in Seq(DOMAIN s)
      /\ ToSet(at) = ToSet(places) \cap new
      /\ Len(at) = Cardinality({i \in 1 .. Len(places) : places[i] \in new})
      /\ (\A i, j \in 1 .. Len(places) : places[i] = places[j] => i = j) =>
           \A i, j \in 1 .. Len(at) : at[i] = at[j] => i = j
  BY <1>3, ThoseProperties, Zenon
<1>8. \A p, r \in 1 .. Len(at) : p < r =>
        \E i, j \in 1 .. Len(places) : i < j /\ places[i] = at[p] /\ places[j] = at[r]
  BY <1>3, ThoseOrdered
<1>9. \A p, r \in 1 .. Len(at) : p < r => at[p] < at[r]
  <2> SUFFICES ASSUME NEW p \in 1 .. Len(at), NEW r \in 1 .. Len(at), p < r
               PROVE  at[p] < at[r]
    OBVIOUS
  <2>1. PICK i \in 1 .. Len(places), j \in 1 .. Len(places) :
          i < j /\ places[i] = at[p] /\ places[j] = at[r]
    BY <1>8
  <2>2. places[i] = i /\ places[j] = j
    BY <1>2, <1>3
  <2> QED
    BY <2>1, <2>2
<1>10. \A i : i \in ToSet(at) <=> i \in new
  BY <1>2, <1>3, <1>4, <1>7, InToSet
<1>11. \A i : i \in new <=> \E k \in 1 .. Len(at) : at[k] = i
  BY <1>7, <1>10, InToSet
<1>7b. at \in Seq(DOMAIN s)
  BY <1>7
<1> HIDE DEF at
<1>12. found \in Seq(Nat) /\ Len(found) = Len(at)
       /\ \A k \in 1 .. Len(at) : found[k] = s[at[k]].ns
  <2>1. Len(at) \in Nat /\ DOMAIN at = 1 .. Len(at)
        /\ \A k \in 1 .. Len(at) : at[k] \in DOMAIN s
    BY <1>7b
  <2> QED
    BY <1>2, <2>1
<1> HIDE DEF found
<1>13. ToSet(found) = Indices(s)
  <2>1. \A n : n \in ToSet(found) <=> \E k \in 1 .. Len(at) : s[at[k]].ns = n
    BY <1>12, InToSet
  <2>2. \A n \in Indices(s) : \E k \in 1 .. Len(at) : s[at[k]].ns = n
    BY <1>5, <1>11
  <2>3. \A k \in 1 .. Len(at) : s[at[k]].ns \in Indices(s)
    BY <1>7 DEF Indices
  <2> QED
    BY <2>1, <2>2, <2>3
<1>14. \A p, r \in 1 .. Len(found) : p < r => First(found[p]) < First(found[r])
  <2>1. \A k \in 1 .. Len(at) : First(found[k]) = at[k]
    BY <1>6, <1>11, <1>12
  <2> QED
    BY <1>9, <1>12, <2>1
<1> QED
  BY <1>1, <1>12, <1>13, <1>14 DEF First

\* the dependencies that are listed: neither the document's own index nor 0
LEMMA ListedFacts ==
  ASSUME NEW s, Indexed(s), NEW k
  PROVE  LET listed == Those(NamespaceDependencies(s), Foreign(k)) IN
         /\ listed \in Seq(Nat)
         /\ ToSet(listed) = Indices(s) \ {0, k}
         /\ \A p, r \in 1 .. Len(listed) : p < r =>
              Min({i \in DOMAIN s : s[i].ns = listed[p]})
                < Min({i \in DOMAIN s : s[i].ns = listed[r]})
<1> DEFINE all == NamespaceDependencies(s)
<1> DEFINE S == Foreign(k)
<1> DEFINE listed == Those(all, S)
<1> DEFINE First(n) == Min({i \in DOMAIN s : s[i].ns = n})
<1>1. /\ all \in Seq(Nat) /\ ToSet(all) = Indices(s)
      /\ \A p, r \in 1 .. Len(all) : p < r => First(all[p]) < First(all[r])
  BY DependenciesFacts
<1>2. Indices(s) \cap S = Indices(s) \ {0, k}
  BY DEF Indices, Indexed, Foreign
<1> HIDE DEF all, S, First
<1>3. /\ listed \in Seq(Nat)
      /\ ToSet(listed) = ToSet(all) \cap S
      /\ Len(listed) = Cardinality({i \in 1 .. Len(all) : all[i] \in S})
      /\ (\A i, j \in 1 .. Len(all) : all[i] = all[j] => i = j) =>
           \A i, j \in 1 .. Len(listed) : listed[i] = listed[j] => i = j
  BY <1>1, ThoseProperties, Zenon
<1>4. \A p, r \in 1 .. Len(listed) : p < r =>
        \E i, j \in 1 .. Len(all) : i < j /\ all[i] = listed[p] /\ all[j] = listed[r]
  BY <1>1, ThoseOrdered
<1> HIDE DEF listed
<1>5. \A p, r \in 1 .. Len(listed) : p < r => First(listed[p]) < First(listed[r])
  BY <1>1, <1>4
<1> QED
  BY <1>1, <1>2, <1>3, <1>5 DEF listed, all, S, First

-----------------------------------------------------------------------------
(* The passes of the linking.                                              *)

LEMMA ListStep ==
  ASSUME XInv, ListDependencies
  PROVE  XInv'
<1> DEFINE d == docs[pos]
<1> DEFINE k == NamespaceId(nodes[d])
<1>1. phase = "link" /\ phase' = "resolve" /\ pos <= Len(docs)
      /\ deps' = Those(NamespaceDependencies(refs[d]), Foreign(k))
      /\ UNCHANGED <<files, pos, docs, nodes, refs, nsidx, revert>>
  BY DEF ListDependencies
<1>2. phase \in Linking /\ phase' \in Linking
  BY <1>1 DEF Linking
<1>3. /\ DocsInv' /\ NumberInv' /\ RefsInv' /\ ReadInv'
      /\ Count' = Count /\ DocumentIds' = DocumentIds
      /\ docs \in Seq(DocumentIds) /\ Len(docs) = Count /\ Count \in Nat
  BY <1>1, <1>2, LinkingKeeps
<1>4. pos \in 1 .. Count /\ d \in DocumentIds /\ refs[d] \in Seq(NodeIds)
  BY <1>1, <1>3 DEF XInv, XTypeInv
<1>5. Indexed(refs[d])
  BY <1>4, TypedIsIndexed
<1> HIDE DEF d, k
<1>6. deps' \in Seq(Nat) /\ \A n \in ToSet(deps') : n \notin {0, k}
  BY <1>1, <1>5, ListedFacts
<1>7. XTypeInv' /\ PosInv'
  BY <1>1, <1>3, <1>4, <1>6 DEF XInv, XTypeInv, PosInv, Numbered
<1>8. SelfInv'
  <2>1. \A e : /\ OwnIndex(e)' = OwnIndex(e) /\ (OneNamespace(e)' <=> OneNamespace(e))
               /\ (IsBaseDocument(e)' <=> IsBaseDocument(e))
    BY <1>1 DEF OwnIndex, OneNamespace, IsBaseDocument
  <2> QED
    BY <1>1, <1>2, <1>3, <2>1 DEF XInv, SelfInv
<1>9. ForeignInv'
  <2>1. k = NamespaceId(nodes'[docs'[pos']])
    BY <1>1 DEF k, d
  <2> QED
    BY <1>1, <1>6, <2>1 DEF XInv, ForeignInv
<1> QED
  BY <1>3, <1>7, <1>8, <1>9 DEF XInv

\* the passes that only move on
LEMMA MoveOnStep ==
  ASSUME XInv, EndResolve \/ EndLink \/ Finalize
  PROVE  XInv'
<1>1. phase \in Linking /\ phase' \in Linking
      /\ UNCHANGED <<files, docs, nodes, refs, nsidx, deps, revert>>
  BY DEF EndResolve, EndLink, Finalize, Goto, Linking
<1>2. /\ DocsInv' /\ NumberInv' /\ RefsInv' /\ ReadInv'
      /\ Count' = Count /\ DocumentIds' = DocumentIds
      /\ Len(docs) = Count /\ Count \in Nat
  BY <1>1, LinkingKeeps
<1>3. pos \in Nat \ {0} /\ revert \in Seq(DocumentIds \X Nat) /\ Len(revert) \in Nat
  BY DEF XInv, XTypeInv
<1>4. PosInv' /\ pos' \in Nat \ {0} /\ phase' # "resolve"
  BY <1>1, <1>2, <1>3 DEF XInv, PosInv, EndResolve, EndLink, Finalize, Goto
<1>5. XTypeInv'
  BY <1>1, <1>2, <1>4 DEF XInv, XTypeInv, Linking, Numbered
<1>6. SelfInv'
  <2>1. \A e : /\ OwnIndex(e)' = OwnIndex(e) /\ (OneNamespace(e)' <=> OneNamespace(e))
               /\ (IsBaseDocument(e)' <=> IsBaseDocument(e))
    BY <1>1 DEF OwnIndex, OneNamespace, IsBaseDocument
  <2> QED
    BY <1>1, <1>2, <2>1 DEF XInv, SelfInv
<1>7. ForeignInv'
  BY <1>1, <1>4 DEF XInv, ForeignInv
<1> QED
  BY <1>2, <1>4, <1>5, <1>6, <1>7 DEF XInv

\* the current dependency of a document and what becomes of it
LEMMA ResolveFacts ==
  ASSUME XInv, ResolveByUri, ~Crash
  PROVE  LET d == docs[pos]
             n == Head(deps)
             uri == ReferencedNamespaceUri(files[d], n)
             matches == {i \in DOMAIN docs : ReferencedNamespaceUri(files[docs[i]], 1) = uri}
             target == docs[Min(matches)]
         IN  /\ pos \in 1 .. Count /\ d \in DocumentIds /\ n \in Nat
             /\ deps # <<>> /\ deps' = Tail(deps) /\ deps' \in Seq(Nat)
             /\ n \in ToSet(deps) /\ n \notin {0, NamespaceId(nodes[d])}
             /\ \A m \in ToSet(deps') : m \in ToSet(deps)
             /\ matches # {} =>
                  /\ Min(matches) \in matches /\ target \in DocumentIds
                  /\ NamespaceId(nodes[target]) \in Nat
                  /\ refs' = [refs EXCEPT ![d] = Renumbered(@, n, NamespaceId(nodes[target]))]
                  /\ revert' = revert
             /\ matches = {} => refs' = refs /\ revert' = Append(revert, <<d, n>>)
             /\ UNCHANGED <<files, phase, pos, docs, nodes, nsidx>> /\ phase = "resolve"
<1> DEFINE d == docs[pos]
<1> DEFINE n == Head(deps)
<1> DEFINE uri == ReferencedNamespaceUri(files[d], n)
<1> DEFINE matches == {i \in DOMAIN docs : ReferencedNamespaceUri(files[docs[i]], 1) = uri}
<1> DEFINE target == docs[Min(matches)]
<1>1. /\ phase = "resolve" /\ deps # <<>> /\ deps' = Tail(deps)
      /\ IF matches # {}
         THEN /\ refs' = [refs EXCEPT ![d] = Renumbered(@, n, NamespaceId(nodes[target]))]
              /\ UNCHANGED revert
         ELSE /\ revert' = Append(revert, <<d, n>>)
              /\ UNCHANGED refs
      /\ UNCHANGED <<files, phase, pos, docs, nodes, nsidx>>
  BY DEF ResolveByUri
<1>2. phase \in Linking
  BY <1>1 DEF Linking
<1>3. phase \in Numbered /\ docs \in Seq(DocumentIds) /\ Len(docs) = Count /\ Count \in Nat
  BY <1>1, <1>2, LinkingKeeps
<1>4. pos \in 1 .. Count /\ deps \in Seq(Nat)
  BY <1>1, <1>3 DEF XInv, XTypeInv, PosInv
<1>5. d \in DocumentIds
  BY <1>3, <1>4
<1>6. n \in Nat /\ deps' \in Seq(Nat) /\ n \in ToSet(deps)
      /\ \A m \in ToSet(deps') : m \in ToSet(deps)
  <2>1. n \in Nat /\ Tail(deps) \in Seq(Nat) /\ n = deps[1] /\ 1 \in 1 .. Len(deps)
        /\ \A i \in 1 .. Len(Tail(deps)) : Tail(deps)[i] = deps[i + 1] /\ i + 1 \in 1 .. Len(deps)
    BY <1>1, <1>4
  <2> HIDE DEF n
  <2>2. \A m : m \in ToSet(deps) <=> \E i \in 1 .. Len(deps) : deps[i] = m
    BY <1>4, InToSet
  <2>3. \A m : m \in ToSet(Tail(deps)) <=> \E i \in 1 .. Len(Tail(deps)) : Tail(deps)[i] = m
    BY <2>1, InToSet
  <2> QED
    BY <1>1, <2>1, <2>2, <2>3
<1>7. n \notin {0, NamespaceId(nodes[d])}
  <2> HIDE DEF n
  <2> QED
    BY <1>1, <1>6 DEF XInv, ForeignInv
<1>8. matches # {} => /\ Min(matches) \in matches /\ target \in DocumentIds
                      /\ NamespaceId(nodes[target]) \in Nat
  <2>1. matches \in SUBSET Nat
    BY <1>3
  <2>2. matches # {} => Min(matches) \in matches
    <3> HIDE DEF matches
    <3> QED
      BY <2>1, LeastExists
  <2>3. matches \subseteq 1 .. Count
    BY <1>3
  <2> HIDE DEF matches
  <2>4. matches # {} => target \in DocumentIds
    <3>1. \A i \in 1 .. Count : docs[i] \in DocumentIds
      BY <1>3
    <3>2. matches # {} => Min(matches) \in 1 .. Count
      BY <2>2, <2>3
    <3> QED
      BY <3>1, <3>2
  <2> QED
    BY <1>3, <2>2, <2>4, NodesOf
<1> HIDE DEF matches, n
<1> QED
  BY <1>1, <1>4, <1>5, <1>6, <1>7, <1>8 DEF matches, n

LEMMA ResolveStep ==
  ASSUME XInv, ResolveByUri
  PROVE  XInv'
<1> DEFINE d == docs[pos]
<1> DEFINE n == Head(deps)
<1> DEFINE uri == ReferencedNamespaceUri(files[d], n)
<1> DEFINE matches == {i \in DOMAIN docs : ReferencedNamespaceUri(files[docs[i]], 1) = uri}
<1> DEFINE t == NamespaceId(nodes[docs[Min(matches)]])
<1>1. phase = "resolve"
  BY DEF ResolveByUri
<1>2. CASE Crash
  BY <1>1, <1>2, CrashStep
<1>3. CASE ~Crash
  <2>1. /\ pos \in 1 .. Count /\ d \in DocumentIds /\ n \in Nat
        /\ deps' \in Seq(Nat)
        /\ n \notin {0, NamespaceId(nodes[d])}
        /\ \A m \in ToSet(deps') : m \in ToSet(deps)
        /\ matches # {} =>
             /\ t \in Nat
             /\ refs' = [refs EXCEPT ![d] = Renumbered(@, n, t)]
             /\ revert' = revert
        /\ matches = {} => refs' = refs /\ revert' = Append(revert, <<d, n>>)
        /\ UNCHANGED <<files, phase, pos, docs, nodes, nsidx>>
    BY <1>3, ResolveFacts
  <2> HIDE DEF matches, n, t
  <2>2. phase \in Linking /\ phase' \in Linking
    BY <1>1, <2>1 DEF Linking
  <2>3. /\ DocsInv' /\ NumberInv' /\ RefsInv' /\ ReadInv'
        /\ Count' = Count /\ DocumentIds' = DocumentIds /\ Count \in Nat
    BY <2>1, <2>2, LinkingKeeps
  <2>4. revert \in Seq(DocumentIds \X Nat) /\ refs \in [DocumentIds -> Seq(NodeIds)]
    BY DEF XInv, XTypeInv
  <2>5. refs' \in [DocumentIds -> Seq(NodeIds)] /\ SelfInv'
    <3>1. CASE matches # {}
      BY <2>1, <2>2, <3>1, SubstitutionKeepsSelf
    <3>2. CASE matches = {}
      <4>1. \A e : /\ OwnIndex(e)' = OwnIndex(e) /\ (OneNamespace(e)' <=> OneNamespace(e))
                   /\ (IsBaseDocument(e)' <=> IsBaseDocument(e))
        BY <2>1 DEF OwnIndex, OneNamespace, IsBaseDocument
      <4> QED
        BY <2>1, <2>2, <2>3, <2>4, <3>2, <4>1 DEF XInv, SelfInv
    <3> QED
      BY <3>1, <3>2
  <2>6. revert' \in Seq(DocumentIds \X Nat)
    <3> DEFINE P == DocumentIds \X Nat
    <3>1. <<d, n>> \in P /\ revert \in Seq(P)
      BY <2>1, <2>4
    <3> DEFINE p == <<d, n>>
    <3> HIDE DEF P, p
    <3>2. (revert' = revert \/ revert' = Append(revert, p)) /\ p \in P
      BY <2>1, <3>1 DEF p
    <3>3. revert' \in Seq(P)
      BY <3>1, <3>2
    <3> QED
      BY <3>3 DEF P
  <2>7. XTypeInv' /\ PosInv'
    BY <1>1, <2>1, <2>3, <2>5, <2>6 DEF XInv, XTypeInv, PosInv, Numbered
  <2>8. ForeignInv'
    BY <1>1, <2>1 DEF XInv, ForeignInv
  <2> QED
    BY <2>3, <2>5, <2>7, <2>8 DEF XInv
<1> QED
  BY <1>2, <1>3

LEMMA MatchStep ==
  ASSUME XInv, StochasticMatch
  PROVE  XInv'
<1>1. phase = "match" /\ pos <= Len(revert)
  BY DEF StochasticMatch
<1>2. CASE Crash
  BY <1>1, <1>2, CrashStep
<1>3. CASE ~Crash
  <2>1. pos' = pos + 1 /\ UNCHANGED <<files, phase, docs, nodes, refs, nsidx, deps, revert>>
    BY <1>3 DEF StochasticMatch
  <2>2. phase \in Linking /\ phase' \in Linking
    BY <1>1, <2>1 DEF Linking
  <2>3. /\ DocsInv' /\ NumberInv' /\ RefsInv' /\ ReadInv'
        /\ Count' = Count /\ DocumentIds' = DocumentIds /\ Count \in Nat
    BY <2>1, <2>2, LinkingKeeps
  <2>4. SelfInv'
    <3>1. \A e : /\ OwnIndex(e)' = OwnIndex(e) /\ (OneNamespace(e)' <=> OneNamespace(e))
                 /\ (IsBaseDocument(e)' <=> IsBaseDocument(e))
      BY <2>1 DEF OwnIndex, OneNamespace, IsBaseDocument
    <3> QED
      BY <2>1, <2>2, <2>3, <3>1 DEF XInv, SelfInv
  <2>5. XTypeInv' /\ PosInv'
    <3>1. Len(revert) \in Nat /\ pos \in Nat \ {0}
      BY DEF XInv, XTypeInv
    <3>2. pos + 1 \in Nat \ {0} /\ pos + 1 <= Len(revert) + 1
      BY <1>1, <3>1
    <3> QED
      BY <1>1, <2>1, <2>3, <3>2 DEF XInv, XTypeInv, PosInv, Numbered
  <2>6. ForeignInv'
    BY <1>1, <2>1 DEF XInv, ForeignInv
  <2> QED
    BY <2>3, <2>4, <2>5, <2>6 DEF XInv
<1> QED
  BY <1>2, <1>3

-----------------------------------------------------------------------------

LEMMA XInvInit ==
  ASSUME Init
  PROVE  XInv
<1>1. /\ files \in Inputs /\ phase = "add" /\ pos = 1 /\ docs = <<>> /\ nsidx = 1
      /\ nodes = [d \in DocumentIds |-> <<>>] /\ refs = [d \in DocumentIds |-> <<>>]
      /\ deps = <<>> /\ revert = <<>>
  BY DEF Init, DocumentIds
<1>2. Count \in Nat /\ DocumentIds = 1 .. Count
  BY <1>1, FilesFacts
<1>3. XTypeInv /\ PosInv
  BY <1>1, <1>2 DEF XTypeInv, PosInv
<1>4. DocsInv /\ ReadInv
  BY <1>1, <1>2 DEF DocsInv, ReadInv, Numbered
<1>5. NumberInv /\ RefsInv /\ SelfInv /\ ForeignInv
  BY <1>1 DEF NumberInv, RefsInv, SelfInv, ForeignInv, Numbered, Linking
<1> QED
  BY <1>3, <1>4, <1>5 DEF XInv

LEMMA XInvNext ==
  ASSUME XInv, [Next]_vars
  PROVE  XInv'
<1>1. CASE AddDocument
  BY <1>1, AddSteps
<1>2. CASE EndAdd
  BY <1>2, AddSteps
<1>3. CASE Analyze
  BY <1>3, AnalyzeStep
<1>4. CASE SeparateBase
  BY <1>4, SeparateStep
<1>5. CASE AssignUniqueNsId
  BY <1>5, AssignStep
<1>6. CASE EndAssign
  BY <1>6, EndAssignStep
<1>7. CASE ListDependencies
  BY <1>7, ListStep
<1>8. CASE ResolveByUri
  BY <1>8, ResolveStep
<1>9. CASE EndResolve \/ EndLink \/ Finalize
  BY <1>9, MoveOnStep
<1>10. CASE StochasticMatch
  BY <1>10, MatchStep
<1>11. CASE UNCHANGED vars
  <2>1. UNCHANGED <<files, phase, pos, docs, nodes, refs, nsidx, deps, revert>>
    BY <1>11 DEF vars
  <2>2. /\ Count' = Count /\ DocumentIds' = DocumentIds /\ BaseCount' = BaseCount
        /\ \A d : /\ OwnIndex(d)' = OwnIndex(d) /\ (IsBaseDocument(d)' <=> IsBaseDocument(d))
                  /\ (OneNamespace(d)' <=> OneNamespace(d))
    BY <2>1, InputFixed
  <2>3. Passed' = Passed /\ \A i : Number(i)' = Number(i)
    BY <2>1, <2>2 DEF Passed, Number
  <2>4. XTypeInv' /\ PosInv' /\ DocsInv' /\ ReadInv'
    BY <2>1, <2>2 DEF XInv, XTypeInv, PosInv, DocsInv, ReadInv
  <2>5. NumberInv' /\ RefsInv'
    BY <2>1, <2>2, <2>3 DEF XInv, NumberInv, RefsInv
  <2>6. SelfInv' /\ ForeignInv'
    BY <2>1, <2>2 DEF XInv, SelfInv, ForeignInv
  <2> QED
    BY <2>4, <2>5, <2>6 DEF XInv
<1> QED
  BY <1>1, <1>2, <1>3, <1>4, <1>5, <1>6, <1>7, <1>8, <1>9, <1>10, <1>11 DEF Next

LEMMA XInvAlways == Spec => []XInv
BY XInvInit, XInvNext, PTL DEF Spec

\* The passes of preprocessAll work on lists and dicts that keep their form for
\* whatever documents they are given: preProcDocuments holds every document at
\* most once, and no index runs beyond the number of documents.
THEOREM PreprocessorTypeCorrect == Spec => []TypeOK
<1>1. XInv => TypeOK
  <2> SUFFICES ASSUME XInv PROVE TypeOK
    OBVIOUS
  <2>1. Count \in Nat /\ Len(revert) \in Nat
    BY FilesFacts DEF XInv, XTypeInv
  <2>2. pos \in 1 .. Count + Len(revert) + 1
    <3>1. pos \in Nat \ {0} /\ phase \in {"add", "analyze", "crashed"} \cup Numbered
      BY DEF XInv, XTypeInv
    <3> QED
      BY <2>1, <3>1 DEF XInv, PosInv, Numbered
  <2>3. docs \in Seq(DocumentIds) /\ IsInjective(docs)
    <3>1. docs \in Seq(DocumentIds) /\ \A i, j \in 1 .. Len(docs) : docs[i] = docs[j] => i = j
      BY DEF XInv, DocsInv
    <3> QED
      BY <3>1 DEF IsInjective
  <2> QED
    BY <2>2, <2>3 DEF XInv, XTypeInv, TypeOK, Count, Numbered
<1> QED
  BY <1>1, XInvAlways, PTL

\* documents that were given indices have different ones
LEMMA IndicesDiffer ==
  ASSUME XInv, phase \in Linking, NEW d \in DocumentIds, NEW e \in DocumentIds,
         d # e, OneNamespace(d), OneNamespace(e), ~(IsBaseDocument(d) /\ IsBaseDocument(e))
  PROVE  NamespaceId(nodes[d]) # NamespaceId(nodes[e])
<1>1. phase \in Numbered /\ phase # "assign"
  BY DEF Numbered, Linking
<1>2. Count \in Nat /\ Passed = Count
  BY <1>1, FilesFacts DEF XInv, XTypeInv, Passed
<1>3. PICK i \in 1 .. Count : docs[i] = d
  BY <1>1 DEF XInv, DocsInv
<1>4. PICK j \in 1 .. Count : docs[j] = e
  BY <1>1 DEF XInv, DocsInv
<1>5. /\ BaseCount \in Nat /\ (IsBaseDocument(d) <=> i <= BaseCount)
      /\ BaseCount < i => NamespaceId(nodes[d]) = Number(i)
  BY <1>1, <1>2, <1>3, NodesAt
<1>6. /\ BaseCount \in Nat /\ (IsBaseDocument(e) <=> j <= BaseCount)
      /\ BaseCount < j => NamespaceId(nodes[e]) = Number(j)
  BY <1>1, <1>2, <1>4, NodesAt
<1>7. /\ IsBaseDocument(d) => NamespaceId(nodes[d]) = 0
      /\ ~IsBaseDocument(d) => NamespaceId(nodes[d]) >= 2
  BY <1>1, NodesOf
<1>8. /\ IsBaseDocument(e) => NamespaceId(nodes[e]) = 0
      /\ ~IsBaseDocument(e) => NamespaceId(nodes[e]) >= 2
  BY <1>1, NodesOf
<1>9. CASE ~IsBaseDocument(d) /\ ~IsBaseDocument(e)
  <2>1. NamespaceId(nodes[d]) = i - BaseCount + 1 /\ NamespaceId(nodes[e]) = j - BaseCount + 1
    BY <1>2, <1>5, <1>6, <1>9 DEF Number
  <2>2. i # j
    BY <1>3, <1>4
  <2> QED
    BY <1>5, <2>1, <2>2
<1> QED
  BY <1>7, <1>8, <1>9

\* When preprocessAll is done, the indices tell the models apart, whatever their
\* authors numbered: documents that were given an index share no node id, and the
\* namespace array of the generated code gives every index its model's name.
THEOREM IndicesTellModelsApart == Spec => []IndicesDistinguish
<1>1. XInv => DistinctNodes
  <2> SUFFICES ASSUME XInv, phase = "done", \A d \in DocumentIds : OneNamespace(d),
                      NEW d \in DocumentIds, NEW e \in DocumentIds, d # e,
                      ~(IsBaseDocument(d) /\ IsBaseDocument(e)),
                      NEW i \in DOMAIN nodes[d], NEW j \in DOMAIN nodes[e]
               PROVE  nodes[d][i].ns # nodes[e][j].ns
    BY DEF DistinctNodes
  <2>1. NamespaceId(nodes[d]) # NamespaceId(nodes[e])
    BY IndicesDiffer DEF Linking
  <2>2. phase \in Numbered
    BY DEF Numbered
  <2>3. nodes[d][i].ns = NamespaceId(nodes[d]) /\ nodes[e][j].ns = NamespaceId(nodes[e])
    BY <2>2, NodesOf
  <2> QED
    BY <2>1, <2>3
<1>2. XInv => NamesMatchIndices
  <2> SUFFICES ASSUME XInv, phase = "done", Orderly, NEW d \in DocumentIds, ~IsBaseDocument(d)
               PROVE  UsedNamespaceArrayNames[NamespaceId(nodes[d])] = files[d].model
    BY DEF NamesMatchIndices
  <2>1. phase \in Numbered /\ docs \in Seq(DocumentIds) /\ Len(docs) = Count
    BY DEF Numbered, XInv, DocsInv
  <2>2. PICK i \in 1 .. Count : docs[i] = d
    BY <2>1 DEF XInv, DocsInv
  <2>3. DOMAIN docs = 1 .. Count /\ \A j \in 1 .. Count : docs[j] \in DocumentIds
    BY <2>1
  <2> DEFINE places(n) == {j \in DOMAIN docs : NamespaceId(nodes[docs[j]]) = n}
  <2> DEFINE k == NamespaceId(nodes[d])
  <2>4. places(k) = {i}
    <3>1. \A j \in 1 .. Count : j # i => docs[j] # d
      BY <2>2, <2>1 DEF XInv, DocsInv
    <3>2. \A j \in 1 .. Count : j # i => NamespaceId(nodes[docs[j]]) # k
      BY <2>3, <3>1, IndicesDiffer DEF Orderly, Linking
    <3> QED
      BY <2>2, <2>3, <3>2
  <2>5. Max(places(k)) = i
    <3>1. i \in {i} /\ \A y \in {i} : i >= y
      BY <2>1 DEF XInv, XTypeInv
    <3>2. Max({i}) = i
      BY <3>1 DEF Max
    <3> QED
      BY <2>4, <3>2
  <2>6. k \in {NamespaceId(nodes[docs[j]]) : j \in DOMAIN docs}
    BY <2>2, <2>3
  <2>7. UsedNamespaceArrayNames[k] = ReferencedNamespaceUri(files[docs[Max(places(k))]], 1)
    BY <2>6 DEF UsedNamespaceArrayNames
  <2> QED
    BY <2>2, <2>5, <2>7 DEF Orderly, CallsItself
<1> QED
  BY <1>1, <1>2, XInvAlways, PTL DEF IndicesDistinguish

-----------------------------------------------------------------------------
(* The links: what does not change, and what a document's author says.     *)

LEMMA LinkFixed ==
  ASSUME UNCHANGED <<files, nodes>>
  PROVE  \A d : /\ ForeignIndices(d)' = ForeignIndices(d)
                /\ (Linkable(d)' <=> Linkable(d))
                /\ \A n : /\ RefsBy(d, n)' = RefsBy(d, n)
                          /\ (Declared(d, n)' <=> Declared(d, n))
                          /\ FirstUse(d, n)' = FirstUse(d, n)
                          /\ AssignedTo(d, n)' = AssignedTo(d, n)
                          /\ \A m : Before(d, m, n)' <=> Before(d, m, n)
<1>1. \A d, n : RefsBy(d, n)' = RefsBy(d, n) /\ Meant(d, n)' = Meant(d, n)
  BY DEF RefsBy, Meant, DocumentIds
<1>2. \A d, n : /\ (Declared(d, n)' <=> Declared(d, n)) /\ FirstUse(d, n)' = FirstUse(d, n)
                /\ AssignedTo(d, n)' = AssignedTo(d, n)
  BY <1>1 DEF Declared, FirstUse, AssignedTo
<1>3. \A d, m, n : Before(d, m, n)' <=> Before(d, m, n)
  BY <1>2 DEF Before
<1>4. \A d : ForeignIndices(d)' = ForeignIndices(d) /\ (Linkable(d)' <=> Linkable(d))
  BY InputFixed DEF Linkable
<1> QED
  BY <1>1, <1>2, <1>3, <1>4

\* the link invariant after a step, in terms of what was substituted in it
LEMMA LinkInvAfter ==
  ASSUME UNCHANGED <<files, nodes>>,
         \A d \in DocumentIds : Linkable(d) =>
           /\ Exact(d, refs'[d], Pending(d)') \/ Merged(d, refs'[d])
           /\ Waiting(d)' => Exact(d, refs'[d], Pending(d)')
  PROVE  LinkInv'
<1>1. DocumentIds' = DocumentIds
  BY InputFixed
<1>2. ASSUME NEW d \in DocumentIds, Exact(d, refs'[d], Pending(d)')
      PROVE  Exact(d, refs[d], Pending(d))'
  BY <1>2, LinkFixed DEF Exact
<1>3. ASSUME NEW d \in DocumentIds, Merged(d, refs'[d])
      PROVE  Merged(d, refs[d])'
  <2>1. /\ ForeignIndices(d)' = ForeignIndices(d)
        /\ \A n : RefsBy(d, n)' = RefsBy(d, n) /\ AssignedTo(d, n)' = AssignedTo(d, n)
        /\ \A m, n : Before(d, m, n)' <=> Before(d, m, n)
    BY LinkFixed
  <2>2. PICK m \in ForeignIndices(d), n \in ForeignIndices(d) :
          m # n /\ \E i \in RefsBy(d, m), j \in RefsBy(d, n) : refs'[d][i].ns = refs'[d][j].ns
    BY <1>3 DEF Merged
  <2>3. \E m1, n1 \in ForeignIndices(d)' : m1 # n1 /\
          \E i \in RefsBy(d, m1)', j \in RefsBy(d, n1)' : refs'[d][i].ns = refs'[d][j].ns
    BY <2>1, <2>2
  <2>4. \E m1, n1 \in ForeignIndices(d)' : Before(d, m1, n1)' /\ AssignedTo(d, m1)' = n1
    BY <1>3, <2>1 DEF Merged
  <2> QED
    BY <2>3, <2>4 DEF Merged
<1>4. ASSUME NEW d \in DocumentIds, Linkable(d)'
      PROVE  /\ (Exact(d, refs[d], Pending(d)) \/ Merged(d, refs[d]))'
             /\ Waiting(d)' => Exact(d, refs[d], Pending(d))'
  <2>1. Linkable(d)
    BY <1>4, LinkFixed
  <2> QED
    BY <1>2, <1>3, <2>1
<1> QED
  BY <1>1, <1>4 DEF LinkInv

\* the indices and references of a document
LEMMA UsesOfDocument ==
  ASSUME XInv, NEW d \in DocumentIds
  PROVE  /\ ForeignIndices(d) \in SUBSET Nat /\ Indexed(files[d].refs)
         /\ 0 \notin ForeignIndices(d) /\ OwnIndex(d) \notin ForeignIndices(d)
         /\ \A n \in ForeignIndices(d) : FirstUse(d, n) \in RefsBy(d, n)
                                         /\ FirstUse(d, n) \in Nat
         /\ \A m, n \in ForeignIndices(d) : m # n => FirstUse(d, m) # FirstUse(d, n)
<1>1. files[d].refs \in Seq(ReferenceEntry) /\ Indexed(files[d].refs)
  BY FilesFacts, TypedIsIndexed DEF XInv, XTypeInv
<1>2. Indices(files[d].refs) \in SUBSET Nat /\ DOMAIN files[d].refs \in SUBSET Nat
  BY <1>1 DEF Indices, Indexed
<1>3. ASSUME NEW n \in ForeignIndices(d)
      PROVE  FirstUse(d, n) \in RefsBy(d, n) /\ FirstUse(d, n) \in Nat
  <2>1. RefsBy(d, n) \in SUBSET Nat /\ RefsBy(d, n) # {}
    BY <1>2 DEF RefsBy, ForeignIndices, Indices
  <2>2. Min(RefsBy(d, n)) \in RefsBy(d, n)
    BY <2>1, LeastExists
  <2> QED
    BY <2>1, <2>2 DEF FirstUse
<1>4. \A m, n \in ForeignIndices(d) : m # n => FirstUse(d, m) # FirstUse(d, n)
  BY <1>3 DEF RefsBy
<1> QED
  BY <1>1, <1>2, <1>3, <1>4 DEF ForeignIndices

\* what the author means by an index, and the index it was assigned
LEMMA MeaningOfIndex ==
  ASSUME XInv, phase \in Linking, NEW d \in DocumentIds, Orderly, Resolvable(d),
         NEW n \in ForeignIndices(d)
  PROVE  \E e \in DocumentIds :
           /\ e # d /\ Meant(d, n) = {e} /\ ~IsBaseDocument(e)
           /\ AssignedTo(d, n) = NamespaceId(nodes[e]) /\ AssignedTo(d, n) \in Nat
           /\ AssignedTo(d, n) # NamespaceId(nodes[d])
           /\ \A g \in DocumentIds : ReferencedNamespaceUri(files[g], 1) = files[e].model => g = e
           /\ ReferencedNamespaceUri(files[e], 1) = files[e].model
           /\ ReferencedNamespaceUri(files[d], n) = files[e].model
<1>1. PICK e \in DocumentIds : e # d /\ Meant(d, n) = {e} /\ ~IsBaseDocument(e)
                               /\ Declared(d, n)
  BY DEF Resolvable
<1>2. AssignedTo(d, n) = NamespaceId(nodes[e])
  BY <1>1 DEF AssignedTo
<1>3. phase \in Numbered
  BY DEF Linking, Numbered
<1>4. NamespaceId(nodes[e]) \in Nat
  BY <1>3, NodesOf
<1>5. NamespaceId(nodes[e]) # NamespaceId(nodes[d])
  BY <1>1, IndicesDiffer DEF Orderly
<1>6. ReferencedNamespaceUri(files[e], 1) = files[e].model
  BY <1>1 DEF Orderly, CallsItself
<1>7. ASSUME NEW g \in DocumentIds, ReferencedNamespaceUri(files[g], 1) = files[e].model
      PROVE  g = e
  <2>1. ~IsBaseDocument(g)
    BY <1>1, <1>7 DEF Orderly, CallsItself
  <2>2. files[g].model = files[e].model
    BY <1>7, <2>1 DEF Orderly, CallsItself
  <2>3. e \in Meant(d, n)
    BY <1>1
  <2>4. g \in Meant(d, n)
    BY <2>2, <2>3 DEF Meant
  <2> QED
    BY <1>1, <2>4
<1>8. ReferencedNamespaceUri(files[d], n) = files[e].model
  BY <1>1 DEF Declared
<1> QED
  BY <1>1, <1>2, <1>4, <1>5, <1>6, <1>7, <1>8

-----------------------------------------------------------------------------
(* One substitution.                                                       *)

LEMMA MergedStays ==
  ASSUME NEW d, NEW r \in Seq(NodeIds), DOMAIN r = DOMAIN files[d].refs, Merged(d, r),
         NEW n, NEW t \in Nat
  PROVE  Merged(d, Renumbered(r, n, t))
<1>1. \A i \in DOMAIN r :
        Renumbered(r, n, t)[i].ns = IF r[i].ns = n THEN t ELSE r[i].ns
  BY RenumberedFacts
<1>2. PICK a \in ForeignIndices(d), b \in ForeignIndices(d) :
        a # b /\ \E i \in RefsBy(d, a), j \in RefsBy(d, b) : r[i].ns = r[j].ns
  BY DEF Merged
<1>3. PICK i \in RefsBy(d, a), j \in RefsBy(d, b) : r[i].ns = r[j].ns
  BY <1>2
<1>4. i \in DOMAIN r /\ j \in DOMAIN r
  BY DEF RefsBy
<1>5. Renumbered(r, n, t)[i].ns = Renumbered(r, n, t)[j].ns
  BY <1>1, <1>3, <1>4
<1>6. \E m, k \in ForeignIndices(d) : Before(d, m, k) /\ AssignedTo(d, m) = k
  BY DEF Merged
<1> QED
  BY <1>2, <1>5, <1>6 DEF Merged

\* The next index n in the order of substitution is replaced by the index that
\* the model it means was assigned: what was exact stays so, unless this writes
\* the number of an index whose turn is still to come.
LEMMA SubstituteNext ==
  ASSUME XInv, phase \in Linking, NEW d \in DocumentIds, Linkable(d),
         NEW r \in Seq(NodeIds), DOMAIN r = DOMAIN files[d].refs,
         NEW todo \in SUBSET ForeignIndices(d), NEW n \in todo, Exact(d, r, todo),
         \A m \in todo : m # n => Before(d, n, m),
         \A m \in ForeignIndices(d) \ todo : Before(d, m, n)
  PROVE  LET s == Renumbered(r, n, AssignedTo(d, n))
         IN  Exact(d, s, todo \ {n}) \/ Merged(d, s)
<1> DEFINE t == AssignedTo(d, n)
<1> DEFINE s == Renumbered(r, n, t)
<1> DEFINE F == ForeignIndices(d)
<1>1. n \in F /\ t \in Nat
  BY MeaningOfIndex DEF Linkable
<1>2. \A i \in DOMAIN r : s[i].ns = IF r[i].ns = n THEN t ELSE r[i].ns
  BY <1>1, RenumberedFacts
<1>3. \A m \in F : \A i \in RefsBy(d, m) :
        i \in DOMAIN r /\ r[i].ns = IF m \in todo THEN m ELSE AssignedTo(d, m)
  BY DEF Exact, RefsBy
<1>4. \A m \in F \ todo, q \in F : Before(d, m, q) => AssignedTo(d, m) # q
  BY DEF Exact
<1>5. \A m \in F, q \in F : Before(d, m, q) => ~Before(d, q, m)
  BY UsesOfDocument DEF Before
<1> HIDE DEF s, t, F
<1>6. \A m \in F : \A i \in RefsBy(d, m) :
        s[i].ns = IF m \in todo \ {n} THEN m ELSE AssignedTo(d, m)
  <2> SUFFICES ASSUME NEW m \in F, NEW i \in RefsBy(d, m)
               PROVE  s[i].ns = IF m \in todo \ {n} THEN m ELSE AssignedTo(d, m)
    OBVIOUS
  <2>1. CASE m = n
    BY <1>2, <1>3, <2>1 DEF t
  <2>2. CASE m # n /\ m \in todo
    BY <1>2, <1>3, <2>2
  <2>3. CASE m \notin todo
    <3>1. AssignedTo(d, m) # n
      BY <1>1, <1>4, <2>3 DEF F
    <3> QED
      BY <1>2, <1>3, <2>3, <3>1
  <2> QED
    BY <2>1, <2>2, <2>3
<1>7. CASE \A q \in F : Before(d, n, q) => t # q
  <2>1. \A m \in F \ (todo \ {n}), q \in F : Before(d, m, q) => AssignedTo(d, m) # q
    BY <1>4, <1>7 DEF t
  <2>2. Exact(d, s, todo \ {n})
    BY <1>6, <2>1 DEF Exact, F
  <2> QED
    BY <2>2 DEF s, t
<1>8. ASSUME NEW q \in F, Before(d, n, q), t = q
      PROVE  Merged(d, s)
  <2>1. q # n
    <3>1. FirstUse(d, n) \in Nat
      BY <1>1, UsesOfDocument DEF F
    <3>2. ~Before(d, n, n)
      BY <3>1 DEF Before
    <3> QED
      BY <1>8, <3>2
  <2>2. q \in todo
    BY <1>1, <1>5, <1>8, <2>1 DEF F
  <2>3. FirstUse(d, n) \in RefsBy(d, n) /\ FirstUse(d, q) \in RefsBy(d, q)
    BY <1>1, <1>8, UsesOfDocument DEF F
  <2>4. s[FirstUse(d, n)].ns = t /\ s[FirstUse(d, q)].ns = q
    BY <1>1, <1>6, <1>8, <2>1, <2>2, <2>3 DEF t
  <2>5. \E i \in RefsBy(d, n), j \in RefsBy(d, q) : s[i].ns = s[j].ns
    BY <1>8, <2>3, <2>4
  <2> QED
    BY <1>1, <1>8, <2>1, <2>5 DEF Merged, F, t
<1> QED
  BY <1>7, <1>8 DEF s, t

\* The document that an index is resolved to by its URI is the one its author means.
LEMMA UriTarget ==
  ASSUME XInv, phase \in Linking, NEW d \in DocumentIds, Linkable(d), NEW n \in ForeignIndices(d)
  PROVE  LET matches == {i \in DOMAIN docs : ReferencedNamespaceUri(files[docs[i]], 1)
                                               = ReferencedNamespaceUri(files[d], n)}
         IN  matches # {} /\ NamespaceId(nodes[docs[Min(matches)]]) = AssignedTo(d, n)
<1> DEFINE matches == {i \in DOMAIN docs : ReferencedNamespaceUri(files[docs[i]], 1)
                                             = ReferencedNamespaceUri(files[d], n)}
<1>1. PICK e \in DocumentIds :
           /\ AssignedTo(d, n) = NamespaceId(nodes[e])
           /\ \A g \in DocumentIds : ReferencedNamespaceUri(files[g], 1) = files[e].model => g = e
           /\ ReferencedNamespaceUri(files[e], 1) = files[e].model
           /\ ReferencedNamespaceUri(files[d], n) = files[e].model
  BY MeaningOfIndex DEF Linkable
<1>2. /\ DOMAIN docs = 1 .. Count /\ Count \in Nat
      /\ \A i \in 1 .. Count : docs[i] \in DocumentIds
      /\ \E i \in 1 .. Count : docs[i] = e
  <2>1. docs \in Seq(DocumentIds) /\ Len(docs) = Count /\ Count \in Nat
    BY FilesFacts DEF XInv, XTypeInv, DocsInv, Linking, Numbered
  <2> QED
    BY <2>1 DEF XInv, DocsInv, Linking, Numbered
<1>3. \A i \in matches : docs[i] = e
  BY <1>1, <1>2
<1>4. matches # {} /\ matches \in SUBSET Nat
  <2>1. PICK i \in 1 .. Count : docs[i] = e
    BY <1>2
  <2>2. ReferencedNamespaceUri(files[docs[i]], 1) = ReferencedNamespaceUri(files[d], n)
    BY <1>1, <2>1
  <2>3. i \in matches
    BY <1>2, <2>2
  <2> QED
    BY <1>2, <2>3
<1> HIDE DEF matches
<1>5. docs[Min(matches)] = e
  BY <1>3, <1>4, LeastExists
<1> QED
  BY <1>1, <1>4, <1>5 DEF matches

\* As long as the references of a document are exact, those that show an index
\* still to be substituted are those the author wrote it in.
LEMMA ShownAsWritten ==
  ASSUME XInv, phase \in Linking, NEW d \in DocumentIds, Linkable(d),
         NEW todo \in SUBSET ForeignIndices(d), NEW n \in todo,
         Exact(d, refs[d], todo), \A m \in ForeignIndices(d) \ todo : Before(d, m, n)
  PROVE  {i \in DOMAIN refs[d] : refs[d][i].ns = n} = RefsBy(d, n)
<1> DEFINE F == ForeignIndices(d)
<1> DEFINE K == NamespaceId(nodes[d])
<1>1. /\ DOMAIN refs[d] = DOMAIN files[d].refs
      /\ \A i \in DOMAIN files[d].refs :
           /\ files[d].refs[i].ns = OwnIndex(d) => refs[d][i].ns = K
           /\ files[d].refs[i].ns = 0 /\ ~IsBaseDocument(d) => refs[d][i].ns = 0
  BY DEF XInv, SelfInv, Linkable, Orderly
<1>2. n \in F /\ n # 0 /\ n # K
  BY UsesOfDocument DEF Linkable
<1>3. \A i \in RefsBy(d, n) : refs[d][i].ns = n /\ i \in DOMAIN refs[d]
  BY <1>1, <1>2 DEF Exact, RefsBy
<1>4. ASSUME NEW i \in DOMAIN refs[d], refs[d][i].ns = n
      PROVE  i \in RefsBy(d, n)
  <2> DEFINE m == files[d].refs[i].ns
  <2>1. i \in DOMAIN files[d].refs /\ m \in Indices(files[d].refs)
    BY <1>1 DEF Indices
  <2>2. m # OwnIndex(d)
    BY <1>1, <1>2, <1>4
  <2>3. m # 0
    <3>1. IsBaseDocument(d) => OwnIndex(d) = 0
      BY DEF IsBaseDocument
    <3> QED
      BY <1>1, <1>2, <1>4, <2>1, <2>2, <3>1
  <2>4. m \in F /\ i \in RefsBy(d, m)
    BY <2>1, <2>2, <2>3 DEF ForeignIndices, RefsBy
  <2> HIDE DEF m
  <2>5. refs[d][i].ns = IF m \in todo THEN m ELSE AssignedTo(d, m)
    BY <2>4 DEF Exact
  <2>6. m \in todo
    BY <1>2, <1>4, <2>4, <2>5 DEF Exact
  <2> QED
    BY <1>4, <2>4, <2>5, <2>6
<1> QED
  BY <1>3, <1>4

-----------------------------------------------------------------------------
(* The link invariant is preserved.                                        *)

LEMMA LinkSubstitute ==
  ASSUME XInv, LinkInv, phase \in Linking, NEW d \in DocumentIds, Linkable(d),
         NEW n \in Pending(d), NEW t \in Nat,
         refs' = [refs EXCEPT ![d] = Renumbered(@, n, t)],
         Exact(d, refs[d], Pending(d)) => t = AssignedTo(d, n),
         \A m \in Pending(d) : m # n => Before(d, n, m),
         \A m \in ForeignIndices(d) \ Pending(d) : Before(d, m, n)
  PROVE  Exact(d, refs'[d], Pending(d) \ {n}) \/ Merged(d, refs'[d])
<1>1. refs[d] \in Seq(NodeIds) /\ DOMAIN refs[d] = DOMAIN files[d].refs
      /\ refs'[d] = Renumbered(refs[d], n, t)
  BY DEF XInv, XTypeInv, SelfInv
<1>2. Pending(d) \in SUBSET ForeignIndices(d)
  BY DEF Pending
<1>3. CASE Merged(d, refs[d])
  BY <1>1, <1>3, MergedStays
<1>4. CASE Exact(d, refs[d], Pending(d))
  <2> DEFINE todo == Pending(d)
  <2> DEFINE r == refs[d]
  <2>1. /\ r \in Seq(NodeIds) /\ DOMAIN r = DOMAIN files[d].refs
        /\ todo \in SUBSET ForeignIndices(d) /\ n \in todo /\ Exact(d, r, todo)
        /\ \A m \in todo : m # n => Before(d, n, m)
        /\ \A m \in ForeignIndices(d) \ todo : Before(d, m, n)
    BY <1>1, <1>2, <1>4
  <2> HIDE DEF todo, r
  <2>2. LET s == Renumbered(r, n, AssignedTo(d, n))
        IN  Exact(d, s, todo \ {n}) \/ Merged(d, s)
    BY <2>1, SubstituteNext
  <2> QED
    BY <1>1, <1>4, <2>2 DEF todo, r
<1> QED
  BY <1>3, <1>4 DEF LinkInv

LEMMA TurnsFixed ==
  ASSUME UNCHANGED <<files, phase, pos, docs>>
  PROVE  \A d : (Waiting(d)' <=> Waiting(d)) /\ (Current(d)' <=> Current(d))
BY InputFixed DEF Waiting, Current

\* the current document of the loop of preprocess_linkDependantModels
LEMMA CurrentFacts ==
  ASSUME XInv, phase = "resolve"
  PROVE  /\ pos \in 1 .. Count /\ docs[pos] \in DocumentIds /\ ~Waiting(docs[pos])
         /\ \A e \in DocumentIds : Current(e) <=> e = docs[pos]
         /\ Handled(docs[pos]) = ForeignIndices(docs[pos]) \ ToSet(deps)
<1>1. docs \in Seq(DocumentIds) /\ Len(docs) = Count /\ Count \in Nat /\ pos \in 1 .. Count
  <2>1. Count \in Nat /\ pos \in Nat \ {0} /\ pos <= Count
    BY FilesFacts DEF XInv, XTypeInv, PosInv
  <2> QED
    BY <2>1 DEF XInv, DocsInv, Numbered
<1>2. \A i \in 1 .. Count : docs[i] = docs[pos] => i = pos
  BY <1>1 DEF XInv, DocsInv
<1>3. ~Waiting(docs[pos])
  BY <1>1, <1>2 DEF Waiting
<1>4. \A e \in DocumentIds : Current(e) <=> e = docs[pos]
  BY DEF Current
<1> QED
  BY <1>1, <1>3, <1>4 DEF Handled, Current

LEMMA ResolveLinks ==
  ASSUME XInv, OrderInv, LinkInv, ResolveByUri, ~Crash
  PROVE  OrderInv' /\ LinkInv'
<1>0. PICK d, n, F : d = docs[pos] /\ n = Head(deps) /\ F = ForeignIndices(d)
  OBVIOUS
<1> DEFINE matches == {i \in DOMAIN docs : ReferencedNamespaceUri(files[docs[i]], 1)
                                             = ReferencedNamespaceUri(files[d], n)}
<1>00. PICK t : t = NamespaceId(nodes[docs[Min(matches)]])
  OBVIOUS
<1>1. /\ d \in DocumentIds /\ n \in Nat /\ deps # <<>> /\ deps' = Tail(deps)
      /\ matches # {} =>
           /\ t \in Nat
           /\ refs' = [refs EXCEPT ![d] = Renumbered(@, n, t)]
      /\ matches = {} => refs' = refs
      /\ UNCHANGED <<files, phase, pos, docs, nodes, nsidx>> /\ phase = "resolve"
  BY <1>0, <1>00, ResolveFacts
<1>2. phase \in Linking /\ phase' = "resolve"
  BY <1>1 DEF Linking
<1>3. deps \in Seq(Nat) /\ refs \in [DocumentIds -> Seq(NodeIds)]
  BY <1>1 DEF XInv, XTypeInv
<1>4. /\ ToSet(deps) = {n} \cup ToSet(deps') /\ n = deps[1] /\ 1 \in DOMAIN deps
      /\ DOMAIN deps' \in SUBSET Nat
      /\ \A i \in DOMAIN deps' : i + 1 \in DOMAIN deps /\ deps'[i] = deps[i + 1] /\ i >= 1
      /\ \A x : x \in ToSet(deps') <=> \E i \in DOMAIN deps' : deps'[i] = x
  <2>1. deps' \in Seq(Nat) /\ DOMAIN deps' = 1 .. Len(deps')
    BY <1>1, <1>3, TailFacts
  <2>2. \A x : x \in ToSet(deps') <=> \E i \in DOMAIN deps' : deps'[i] = x
    BY <2>1, InToSet
  <2>3. DOMAIN deps' \in SUBSET Nat /\ \A i \in DOMAIN deps' : i >= 1
    BY <2>1
  <2>4. /\ n = deps[1] /\ 1 \in DOMAIN deps
        /\ ToSet(deps) = {n} \cup ToSet(deps')
        /\ \A i \in DOMAIN deps' : i + 1 \in DOMAIN deps /\ deps'[i] = deps[i + 1]
    BY <1>0, <1>1, <1>3, TailFacts
  <2> QED
    BY <2>2, <2>3, <2>4
<1> HIDE DEF matches
<1>5. /\ \A e \in DocumentIds : Current(e) <=> e = d
      /\ Handled(d) = F \ ToSet(deps) /\ Handled(d)' = F \ ToSet(deps')
      /\ ~Waiting(d)
  <2>1. /\ ~Waiting(d) /\ \A e \in DocumentIds : Current(e) <=> e = d
    BY <1>0, <1>1, CurrentFacts
  <2>2. ~Waiting(d)' /\ Current(d)'
    BY <1>1, <2>1, TurnsFixed
  <2>3. Handled(d)' = F \ ToSet(deps')
    BY <1>0, <1>1, <2>2, LinkFixed DEF Handled
  <2> QED
    BY <1>0, <1>1, <2>1, <2>3, CurrentFacts
<1>6. ASSUME NEW e \in DocumentIds, e # d
      PROVE  Pending(e)' = Pending(e) /\ refs'[e] = refs[e]
  <2>1. Handled(e)' = Handled(e)
    BY <1>1, <1>5, <1>6, TurnsFixed, LinkFixed DEF Handled
  <2>2. Pending(e)' = Pending(e)
    BY <1>1, <2>1, LinkFixed DEF Pending
  <2> QED
    BY <1>1, <1>3, <1>6, <2>2
<1>7. ASSUME Linkable(d)
      PROVE  /\ DepsInOrder(d)'
             /\ Exact(d, refs'[d], Pending(d)') \/ Merged(d, refs'[d])
  <2>1. /\ n \in F /\ ToSet(deps) \in SUBSET F
        /\ \A k, l \in DOMAIN deps : k < l => FirstUse(d, deps[k]) < FirstUse(d, deps[l])
        /\ \A m \in F \ ToSet(deps), q \in ToSet(deps) : FirstUse(d, m) < FirstUse(d, q)
    BY <1>0, <1>1, <1>2, <1>4, <1>5, <1>7 DEF OrderInv, DepsInOrder
  <2>2. \A q \in ToSet(deps') : FirstUse(d, n) < FirstUse(d, q)
    <3> SUFFICES ASSUME NEW q \in ToSet(deps') PROVE FirstUse(d, n) < FirstUse(d, q)
      OBVIOUS
    <3>1. PICK i \in DOMAIN deps' : deps'[i] = q
      BY <1>4
    <3>2. i + 1 \in DOMAIN deps /\ q = deps[i + 1] /\ 1 < i + 1
      BY <1>4, <3>1
    <3> QED
      BY <1>4, <2>1, <3>2
  <2>3. n \notin ToSet(deps') /\ \A m \in F : FirstUse(d, m) \in Nat
    <3>1. \A m \in F : FirstUse(d, m) \in Nat
      BY <1>0, <1>1, UsesOfDocument
    <3> QED
      BY <2>1, <2>2, <3>1
  <2>4. DepsInOrder(d)'
    <3>1. \A k, l \in DOMAIN deps' : k < l => FirstUse(d, deps'[k]) < FirstUse(d, deps'[l])
      <4> SUFFICES ASSUME NEW k \in DOMAIN deps', NEW l \in DOMAIN deps', k < l
                   PROVE  FirstUse(d, deps'[k]) < FirstUse(d, deps'[l])
        OBVIOUS
      <4>1. k + 1 \in DOMAIN deps /\ l + 1 \in DOMAIN deps /\ k + 1 < l + 1
            /\ deps'[k] = deps[k + 1] /\ deps'[l] = deps[l + 1]
        BY <1>4
      <4> QED
        BY <2>1, <4>1
    <3>2. \A m \in F \ ToSet(deps'), q \in ToSet(deps') : FirstUse(d, m) < FirstUse(d, q)
      BY <1>4, <2>1, <2>2
    <3>3. ToSet(deps') \subseteq F
      BY <1>4, <2>1
    <3> QED
      BY <1>0, <1>1, <3>1, <3>2, <3>3, LinkFixed DEF DepsInOrder
  <2>5. Pending(d) = ToSet(deps) /\ Pending(d)' = ToSet(deps')
    <3>1. Pending(d) = F \ (F \ ToSet(deps))
      BY <1>0, <1>5 DEF Pending
    <3>2. Pending(d)' = F \ (F \ ToSet(deps'))
      BY <1>0, <1>1, <1>5, LinkFixed DEF Pending
    <3> QED
      BY <1>4, <2>1, <3>1, <3>2
  <2>6. matches # {} /\ t = AssignedTo(d, n)
    BY <1>0, <1>00, <1>1, <1>2, <1>7, <2>1, UriTarget DEF matches
  <2>7. t \in Nat /\ refs' = [refs EXCEPT ![d] = Renumbered(@, n, t)]
    BY <1>1, <2>6
  <2>8. n \in Pending(d) /\ Pending(d)' = Pending(d) \ {n}
    BY <1>4, <2>3, <2>5
  <2>9. \A m \in Pending(d) : m # n => Before(d, n, m)
    BY <1>4, <2>2, <2>5 DEF Before
  <2>10. \A m \in ForeignIndices(d) \ Pending(d) : Before(d, m, n)
    BY <1>0, <1>4, <2>1, <2>5 DEF Before
  <2>11. Exact(d, refs'[d], Pending(d) \ {n}) \/ Merged(d, refs'[d])
    BY <1>1, <1>2, <1>7, <2>6, <2>7, <2>8, <2>9, <2>10, LinkSubstitute
  <2> QED
    BY <2>4, <2>8, <2>11
<1>8. OrderInv'
  <2>1. \A e \in DocumentIds : (Current(e)' <=> e = d) /\ (Linkable(e)' <=> Linkable(e))
    BY <1>1, <1>5, TurnsFixed, LinkFixed
  <2>2. DocumentIds' = DocumentIds
    BY <1>1, InputFixed
  <2> QED
    BY <1>7, <2>1, <2>2 DEF OrderInv
<1>9. LinkInv'
  <2>1. ASSUME NEW e \in DocumentIds, Linkable(e)
        PROVE  /\ Exact(e, refs'[e], Pending(e)') \/ Merged(e, refs'[e])
               /\ Waiting(e)' => Exact(e, refs'[e], Pending(e)')
    <3>1. /\ Exact(e, refs[e], Pending(e)) \/ Merged(e, refs[e])
          /\ Waiting(e) => Exact(e, refs[e], Pending(e))
      BY <1>2, <2>1 DEF LinkInv
    <3>2. Waiting(e)' <=> Waiting(e)
      BY <1>1, TurnsFixed
    <3> QED
      BY <1>5, <1>6, <1>7, <2>1, <3>1, <3>2
  <2> QED
    BY <1>1, <2>1, LinkInvAfter
<1> QED
  BY <1>8, <1>9

\* all documents wait when the numbering is done, and nothing is substituted yet
LEMMA EndAssignLinks ==
  ASSUME XInv, EndAssign
  PROVE  OrderInv' /\ LinkInv'
<1>1. phase = "assign" /\ phase' = "link" /\ pos' = 1 /\ UNCHANGED <<files, docs, nodes, refs>>
      /\ revert = <<>> /\ revert' = <<>> /\ pos > Len(docs) /\ phase \in Numbered
  BY DEF EndAssign, Goto, XInv, ReadInv, Numbered
<1>2. /\ Count' = Count /\ DocumentIds' = DocumentIds
      /\ \A d \in DocumentIds : \E i \in 1 .. Count : docs[i] = d
      /\ Count \in Nat /\ Len(docs) = Count /\ pos \in Nat
  BY <1>1, InputFixed, FilesFacts DEF XInv, XTypeInv, DocsInv
<1>3. pos = Count + 1
  BY <1>1, <1>2 DEF XInv, PosInv
<1>4. \A d \in DocumentIds : Waiting(d)' /\ ~Current(d)' /\ Handled(d)' = {}
  <2> SUFFICES ASSUME NEW d \in DocumentIds PROVE Waiting(d)' /\ ~Current(d)' /\ Handled(d)' = {}
    OBVIOUS
  <2>1. PICK i \in 1 .. Count : docs[i] = d
    BY <1>2
  <2>2. i \in 1 .. Count' /\ docs'[i] = d /\ (i > pos' \/ (i = pos' /\ phase' = "link"))
    BY <1>1, <1>2, <2>1
  <2>3. Waiting(d)'
    BY <1>1, <2>2 DEF Waiting
  <2> QED
    BY <1>1, <2>3 DEF Current, Handled
<1>5. \A d \in DocumentIds : Pending(d)' = ForeignIndices(d)
  BY <1>1, <1>4, LinkFixed DEF Pending
<1>6. ASSUME NEW d \in DocumentIds
      PROVE  Exact(d, refs'[d], Pending(d)')
  <2>1. ASSUME NEW n \in ForeignIndices(d), NEW j \in RefsBy(d, n)
        PROVE  refs[d][j].ns = n
    <3>1. PICK i \in 1 .. Count : docs[i] = d
      BY <1>2
    <3> DEFINE ids == Ids(files[d].refs)
    <3>2. refs[d] = IF BaseCount < i /\ i <= Passed THEN Renumbered(ids, OwnIndex(d), Number(i))
                                                   ELSE ids
      BY <1>1, <3>1 DEF XInv, RefsInv
    <3>3. files[d].refs \in Seq(ReferenceEntry)
      BY FilesFacts DEF XInv, XTypeInv
    <3>4. ids \in Seq(NodeIds) /\ j \in DOMAIN ids /\ ids[j].ns = n
      BY <2>1, <3>3, IdsFacts DEF RefsBy
    <3>5. n # OwnIndex(d) /\ BaseCount \in Nat
      BY <1>1, <3>1, NodesAt DEF ForeignIndices
    <3>6. BaseCount < i => Number(i) \in Nat
      BY <1>2, <3>5 DEF Number
    <3> HIDE DEF ids
    <3>7. CASE BaseCount < i /\ i <= Passed
      BY <3>2, <3>4, <3>5, <3>6, <3>7, RenumberedFacts
    <3> QED
      BY <3>2, <3>4, <3>7
  <2> QED
    BY <1>1, <1>5, <2>1 DEF Exact
<1>7. OrderInv'
  BY <1>2, <1>4 DEF OrderInv
<1> QED
  BY <1>1, <1>6, <1>7, LinkInvAfter

\* The document whose turn comes has all its foreign indices listed, in the order
\* of their first use.
LEMMA ListLinks ==
  ASSUME XInv, OrderInv, LinkInv, ListDependencies
  PROVE  OrderInv' /\ LinkInv'
<1>0. PICK d, F : d = docs[pos] /\ F = ForeignIndices(d)
  OBVIOUS
<1>1. phase = "link" /\ phase' = "resolve" /\ pos <= Len(docs)
      /\ deps' = Those(NamespaceDependencies(refs[d]), Foreign(NamespaceId(nodes[d])))
      /\ UNCHANGED <<files, pos, docs, nodes, refs, nsidx, revert>>
  BY <1>0 DEF ListDependencies
<1>2. phase \in Linking /\ phase' \in Linking
  BY <1>1 DEF Linking
<1>3. /\ Count' = Count /\ DocumentIds' = DocumentIds
      /\ docs \in Seq(DocumentIds) /\ Len(docs) = Count /\ Count \in Nat
      /\ \A e \in DocumentIds : \E i \in 1 .. Count : docs[i] = e
      /\ \A i, j \in 1 .. Count : docs[i] = docs[j] => i = j
  BY <1>1, <1>2, LinkingKeeps DEF XInv, DocsInv
<1>4. pos \in 1 .. Count /\ d \in DocumentIds /\ refs[d] \in Seq(NodeIds)
  <2>1. pos \in 1 .. Count
    BY <1>1, <1>3 DEF XInv, XTypeInv
  <2>2. d \in DocumentIds
    BY <1>0, <1>3, <2>1
  <2> QED
    BY <2>1, <2>2 DEF XInv, XTypeInv
<1>5. /\ Waiting(d) /\ ~Waiting(d)' /\ \A e \in DocumentIds : ~Current(e)
      /\ \A e \in DocumentIds : Current(e)' <=> e = d
      /\ \A e \in DocumentIds : e # d => (Waiting(e)' <=> Waiting(e))
  <2>1. Waiting(d)
    BY <1>0, <1>1, <1>4 DEF Waiting
  <2>2. ~Waiting(d)'
    BY <1>0, <1>1, <1>3, <1>4 DEF Waiting
  <2>3. ASSUME NEW e \in DocumentIds, e # d PROVE Waiting(e)' <=> Waiting(e)
    <3>1. PICK i \in 1 .. Count : docs[i] = e
      BY <1>3
    <3>2. i # pos /\ \A j \in 1 .. Count : docs[j] = e => j = i
      BY <1>0, <1>3, <2>3, <3>1
    <3>3. Waiting(e) <=> i > pos
      BY <1>1, <3>1, <3>2 DEF Waiting
    <3>4. Waiting(e)' <=> i > pos
      BY <1>1, <1>3, <3>1, <3>2 DEF Waiting
    <3> QED
      BY <3>3, <3>4
  <2>4. \A e \in DocumentIds : ~Current(e) /\ (Current(e)' <=> e = d)
    BY <1>0, <1>1 DEF Current
  <2> QED
    BY <2>1, <2>2, <2>3, <2>4
<1>7. \A e \in DocumentIds : e # d => Handled(e)' = Handled(e)
  BY <1>1, <1>5, LinkFixed DEF Handled
<1>8. ASSUME Linkable(d)
      PROVE  Handled(d) = {} /\ Handled(d)' = {} /\ DepsInOrder(d)'
  <2>1. Handled(d) = {}
    BY <1>5 DEF Handled
  <2>3. Pending(d) = F
    BY <1>0, <2>1 DEF Pending
  <2>4. Exact(d, refs[d], F)
    BY <1>2, <1>4, <1>5, <1>8, <2>3 DEF LinkInv
  <2>5. /\ Indexed(refs[d]) /\ F \in SUBSET Nat /\ 0 \notin F
        /\ NamespaceId(nodes[d]) \notin F
    BY <1>0, <1>4, <1>8, TypedIsIndexed, UsesOfDocument DEF Linkable
  <2>6. \A n \in F : {i \in DOMAIN refs[d] : refs[d][i].ns = n} = RefsBy(d, n)
    BY <1>0, <1>2, <1>4, <1>8, <2>4, ShownAsWritten
  <2>7. /\ deps' \in Seq(Nat)
        /\ ToSet(deps') = Indices(refs[d]) \ {0, NamespaceId(nodes[d])}
        /\ \A p, r \in 1 .. Len(deps') : p < r =>
              Min({i \in DOMAIN refs[d] : refs[d][i].ns = deps'[p]})
                < Min({i \in DOMAIN refs[d] : refs[d][i].ns = deps'[r]})
    <3> DEFINE k == NamespaceId(nodes[d])
    <3> DEFINE s == refs[d]
    <3> DEFINE listed == Those(NamespaceDependencies(s), Foreign(k))
    <3>1. Indexed(s)
      BY <2>5
    <3> HIDE DEF k, s
    <3>2. /\ listed \in Seq(Nat)
          /\ ToSet(listed) = Indices(s) \ {0, k}
          /\ \A p, r \in 1 .. Len(listed) : p < r =>
               Min({i \in DOMAIN s : s[i].ns = listed[p]})
                 < Min({i \in DOMAIN s : s[i].ns = listed[r]})
      BY <3>1, ListedFacts
    <3>3. deps' = listed
      BY <1>1 DEF k, s
    <3> HIDE DEF listed
    <3>4. /\ deps' \in Seq(Nat)
          /\ ToSet(deps') = Indices(s) \ {0, k}
          /\ \A p, r \in 1 .. Len(deps') : p < r =>
               Min({i \in DOMAIN s : s[i].ns = deps'[p]})
                 < Min({i \in DOMAIN s : s[i].ns = deps'[r]})
      BY <3>2, <3>3
    <3> QED
      BY <3>4 DEF k, s
  <2>8. F \subseteq Indices(refs[d])
    <3> SUFFICES ASSUME NEW n \in F PROVE n \in Indices(refs[d])
      OBVIOUS
    <3>1. FirstUse(d, n) \in RefsBy(d, n)
      BY <1>0, <1>4, UsesOfDocument
    <3>2. FirstUse(d, n) \in {i \in DOMAIN refs[d] : refs[d][i].ns = n}
      BY <2>6, <3>1
    <3> QED
      BY <3>2 DEF Indices
  <2>9. Indices(refs[d]) \ {0, NamespaceId(nodes[d])} \subseteq F
    <3> SUFFICES ASSUME NEW j \in DOMAIN refs[d],
                        refs[d][j].ns \notin {0, NamespaceId(nodes[d])}
                 PROVE  refs[d][j].ns \in F
      BY DEF Indices
    <3>1. /\ j \in DOMAIN files[d].refs
          /\ files[d].refs[j].ns = OwnIndex(d) => refs[d][j].ns = NamespaceId(nodes[d])
          /\ files[d].refs[j].ns = 0 /\ ~IsBaseDocument(d) => refs[d][j].ns = 0
      BY <1>2, <1>4, <1>8 DEF XInv, SelfInv, Linkable, Orderly
    <3>2. files[d].refs[j].ns \in F /\ j \in RefsBy(d, files[d].refs[j].ns)
      BY <1>0, <3>1 DEF ForeignIndices, Indices, RefsBy, IsBaseDocument
    <3>3. refs[d][j].ns = files[d].refs[j].ns
      BY <1>0, <2>4, <3>2 DEF Exact
    <3> QED
      BY <3>2, <3>3
  <2>10. ToSet(deps') = F
    BY <2>5, <2>7, <2>8, <2>9
  <2>11. Handled(d)' = {}
    <3>1. ~Waiting(d)' /\ Current(d)' /\ ForeignIndices(d)' = F
      BY <1>0, <1>1, <1>4, <1>5, LinkFixed
    <3>2. Handled(d)' = F \ ToSet(deps')
      BY <3>1 DEF Handled
    <3> QED
      BY <2>10, <3>2
  <2>12. DepsInOrder(d)'
    <3>1. \A p \in 1 .. Len(deps') : deps'[p] \in F
      BY <2>7, <2>10, InToSet
    <3>2. \A p, r \in 1 .. Len(deps') : p < r =>
            FirstUse(d, deps'[p]) < FirstUse(d, deps'[r])
      BY <2>6, <2>7, <3>1 DEF FirstUse
    <3>3. DOMAIN deps' = 1 .. Len(deps')
      BY <2>7
    <3>4. \A m : FirstUse(d, m)' = FirstUse(d, m)
      BY <1>1, LinkFixed
    <3>5. ForeignIndices(d)' = F
      BY <1>0, <1>1, LinkFixed
    <3> QED
      BY <2>10, <3>2, <3>3, <3>4, <3>5 DEF DepsInOrder
  <2> QED
    BY <2>1, <2>11, <2>12
<1>9. \A e \in DocumentIds : Linkable(e) => Handled(e)' = Handled(e)
  BY <1>7, <1>8
<1>10. OrderInv'
  <2>1. \A e : Linkable(e)' <=> Linkable(e)
    BY <1>1, LinkFixed
  <2> QED
    BY <1>3, <1>5, <1>8, <2>1 DEF OrderInv
<1>11. LinkInv'
  <2>1. ASSUME NEW e \in DocumentIds, Linkable(e)
        PROVE  /\ Exact(e, refs'[e], Pending(e)') \/ Merged(e, refs'[e])
               /\ Waiting(e)' => Exact(e, refs'[e], Pending(e)')
    <3>1. Pending(e)' = Pending(e)
      BY <1>1, <1>9, <2>1, LinkFixed DEF Pending
    <3>2. Waiting(e)' => Waiting(e)
      BY <1>5
    <3> QED
      BY <1>1, <1>2, <2>1, <3>1, <3>2 DEF LinkInv
  <2> QED
    BY <1>1, <2>1, LinkInvAfter
<1> QED
  BY <1>10, <1>11

LEMMA MoveOnLinks ==
  ASSUME XInv, OrderInv, LinkInv, EndResolve \/ EndLink \/ Finalize
  PROVE  OrderInv' /\ LinkInv'
<1>1. phase \in Linking /\ phase' \in Linking /\ phase' # "resolve"
      /\ UNCHANGED <<files, docs, nodes, refs, revert>>
  BY DEF EndResolve, EndLink, Finalize, Goto, Linking
<1>2. /\ Count' = Count /\ DocumentIds' = DocumentIds /\ Len(docs) = Count /\ Count \in Nat
      /\ pos \in Nat \ {0}
  <2>1. UNCHANGED nsidx
    BY DEF EndResolve, EndLink, Finalize
  <2>2. /\ Count' = Count /\ DocumentIds' = DocumentIds /\ Len(docs) = Count /\ Count \in Nat
    BY <1>1, <2>1, LinkingKeeps
  <2> QED
    BY <2>2 DEF XInv, XTypeInv
<1>4. ASSUME NEW e \in DocumentIds
      PROVE  /\ Waiting(e)' => Waiting(e)
             /\ Handled(e)' = Handled(e) /\ ~Current(e)'
  <2>1. ~Current(e)'
    BY <1>1 DEF Current
  <2>2. CASE EndResolve
    <3>1. phase = "resolve" /\ phase' = "link" /\ pos' = pos + 1 /\ deps = <<>>
      BY <2>2 DEF EndResolve
    <3>2. \A i \in 1 .. Count : i > pos <=> (i > pos' \/ (i = pos' /\ phase' = "link"))
      BY <1>2, <3>1
    <3>3. Waiting(e)' <=> Waiting(e)
      BY <1>1, <1>2, <3>1, <3>2 DEF Waiting
    <3>4. ToSet(deps) = {}
      BY <3>1 DEF ToSet
    <3> QED
      BY <1>1, <2>1, <3>3, <3>4, LinkFixed DEF Handled
  <2>3. CASE EndLink \/ Finalize
    <3>1. phase' \notin {"link", "resolve"} /\ phase # "resolve"
          /\ (phase = "link" => pos > Count)
      BY <1>2, <2>3 DEF EndLink, Finalize, Goto
    <3>2. ~Waiting(e) /\ ~Waiting(e)' /\ ~Current(e)
      BY <1>2, <3>1 DEF Waiting, Current
    <3> QED
      BY <1>1, <2>1, <3>2, LinkFixed DEF Handled
  <2> QED
    BY <2>1, <2>2, <2>3
<1>5. OrderInv'
  BY <1>2, <1>4 DEF OrderInv
<1>6. LinkInv'
  <2>1. ASSUME NEW e \in DocumentIds, Linkable(e)
        PROVE  /\ Exact(e, refs'[e], Pending(e)') \/ Merged(e, refs'[e])
               /\ Waiting(e)' => Exact(e, refs'[e], Pending(e)')
    <3>1. Pending(e)' = Pending(e)
      BY <1>1, <1>4, LinkFixed DEF Pending
    <3> QED
      BY <1>1, <1>4, <2>1, <3>1 DEF LinkInv
  <2> QED
    BY <1>1, <2>1, LinkInvAfter
<1> QED
  BY <1>5, <1>6

\* The stochastic match ends in an exception or leaves all references as they are.
LEMMA MatchLinks ==
  ASSUME XInv, OrderInv, LinkInv, StochasticMatch, ~Crash
  PROVE  OrderInv' /\ LinkInv'
<1>1. /\ phase = "match" /\ phase \in Linking
      /\ UNCHANGED <<files, phase, docs, nodes, refs>>
  BY DEF StochasticMatch, Linking
<1>2. DocumentIds' = DocumentIds
  BY <1>1, InputFixed
<1>3. \A e : ~Waiting(e)' /\ ~Current(e)' /\ ~Waiting(e) /\ ~Current(e)
  BY <1>1 DEF Waiting, Current
<1>4. \A e : Pending(e)' = Pending(e)
  BY <1>1, <1>3, LinkFixed DEF Pending, Handled
<1>5. OrderInv'
  BY <1>3 DEF OrderInv
<1>6. LinkInv'
  <2>1. \A e \in DocumentIds : Linkable(e) =>
          Exact(e, refs'[e], Pending(e)') \/ Merged(e, refs'[e])
    BY <1>1, <1>4 DEF LinkInv
  <2> QED
    BY <1>1, <1>3, <2>1, LinkInvAfter
<1> QED
  BY <1>5, <1>6

-----------------------------------------------------------------------------
(* The link invariant holds, and at the end it says what was promised.     *)

LInv == XInv /\ OrderInv /\ LinkInv

LEMMA LInvInit ==
  ASSUME Init
  PROVE  LInv
<1>1. phase \notin Linking
  BY DEF Init, Linking
<1> QED
  BY <1>1, XInvInit DEF LInv, OrderInv, LinkInv

LEMMA LInvNext ==
  ASSUME LInv, [Next]_vars
  PROVE  LInv'
<1>0. XInv /\ OrderInv /\ LinkInv /\ XInv'
  BY XInvNext DEF LInv
<1> SUFFICES OrderInv' /\ LinkInv'
  BY <1>0 DEF LInv
<1>1. CASE phase' \notin Linking
  BY <1>1 DEF OrderInv, LinkInv
<1>2. CASE AddDocument \/ EndAdd \/ Analyze \/ SeparateBase \/ AssignUniqueNsId
  <2>1. phase' \in {"add", "analyze", "assign", "crashed"}
    BY <1>2 DEF AddDocument, EndAdd, Analyze, SeparateBase, AssignUniqueNsId, Goto, Crash
  <2>2. phase' \notin Linking
    BY <2>1 DEF Linking
  <2> QED
    BY <1>1, <2>2
<1>3. CASE EndAssign
  BY <1>0, <1>3, EndAssignLinks
<1>4. CASE ListDependencies
  BY <1>0, <1>4, ListLinks
<1>5. CASE ResolveByUri
  <2>1. CASE Crash
    BY <1>1, <2>1 DEF Crash, Linking
  <2> QED
    BY <1>0, <1>5, <2>1, ResolveLinks
<1>6. CASE EndResolve \/ EndLink \/ Finalize
  BY <1>0, <1>6, MoveOnLinks
<1>7. CASE StochasticMatch
  <2>1. CASE Crash
    BY <1>1, <2>1 DEF Crash, Linking
  <2> QED
    BY <1>0, <1>7, <2>1, MatchLinks
<1>8. CASE UNCHANGED vars
  <2>1. UNCHANGED <<files, phase, pos, docs, nodes, refs, nsidx, deps, revert>>
    BY <1>8 DEF vars
  <2>2. DocumentIds' = DocumentIds
    BY <2>1, InputFixed
  <2>3. \A d : /\ (Waiting(d)' <=> Waiting(d)) /\ (Current(d)' <=> Current(d))
               /\ ForeignIndices(d)' = ForeignIndices(d) /\ (Linkable(d)' <=> Linkable(d))
               /\ \A n : FirstUse(d, n)' = FirstUse(d, n)
    BY <2>1, LinkFixed, TurnsFixed
  <2>4. \A d : Handled(d)' = Handled(d)
    BY <2>1, <2>3 DEF Handled
  <2>5. \A d : DepsInOrder(d)' <=> DepsInOrder(d)
    BY <2>1, <2>3 DEF DepsInOrder
  <2>6. OrderInv'
    BY <1>0, <2>1, <2>2, <2>3, <2>5 DEF OrderInv
  <2>7. \A d : Pending(d)' = Pending(d)
    BY <2>3, <2>4 DEF Pending
  <2>8. phase' \in Linking => LinkInv'
    BY <1>0, <2>1, <2>3, <2>7, LinkInvAfter DEF LinkInv
  <2> QED
    BY <1>1, <2>6, <2>8
<1> QED
  BY <1>0, <1>2, <1>3, <1>4, <1>5, <1>6, <1>7, <1>8 DEF LInv, Next

\* the indices a document assigns to the models it refers to differ, for it has
\* one index for each of them
LEMMA AssignedDiffer ==
  ASSUME XInv, phase \in Linking, NEW d \in DocumentIds, Orderly, Resolvable(d),
         NEW m \in ForeignIndices(d), NEW n \in ForeignIndices(d), m # n
  PROVE  AssignedTo(d, m) # AssignedTo(d, n)
<1>1. PICK e \in DocumentIds : Meant(d, m) = {e} /\ ~IsBaseDocument(e)
                               /\ AssignedTo(d, m) = NamespaceId(nodes[e])
  BY MeaningOfIndex
<1>2. PICK g \in DocumentIds : Meant(d, n) = {g} /\ ~IsBaseDocument(g)
                               /\ AssignedTo(d, n) = NamespaceId(nodes[g])
  BY MeaningOfIndex
<1>3. e # g
  BY <1>1, <1>2 DEF Resolvable
<1> QED
  BY <1>1, <1>2, <1>3, IndicesDiffer DEF Orderly

LEMMA LinksAtTheEnd ==
  ASSUME LInv, phase = "done", Orderly, NEW d \in DocumentIds, Resolvable(d)
  PROVE  KeepsMeaning(d) <=> NoClash(d)
<1>1. XInv /\ phase \in Linking /\ OneNamespace(d)
  BY DEF LInv, Linking, Orderly
<1>2. CASE NamespaceId(nodes[d]) \in ForeignIndices(d)
  <2>1. PICK n \in ForeignIndices(d) : n = NamespaceId(nodes[d])
    BY <1>2
  <2>2. PICK i \in RefsBy(d, n) : TRUE
    BY <1>1, UsesOfDocument
  <2>3. i \in DOMAIN files[d].refs /\ files[d].refs[i].ns = NamespaceId(nodes[d])
    BY <2>1, <2>2 DEF RefsBy
  <2>4. refs[d][i].ns = NamespaceId(nodes[d])
    BY <1>1, <2>3 DEF XInv, SelfInv
  <2>5. AssignedTo(d, n) # NamespaceId(nodes[d])
    BY <1>1, MeaningOfIndex
  <2>6. ~KeepsMeaning(d)
    BY <2>2, <2>4, <2>5 DEF KeepsMeaning
  <2> QED
    BY <1>2, <2>6 DEF NoClash
<1>3. CASE NamespaceId(nodes[d]) \notin ForeignIndices(d)
  <2>1. Pending(d) = {}
    BY DEF Pending, Handled, Waiting, Current
  <2>2. Exact(d, refs[d], {}) \/ Merged(d, refs[d])
    BY <1>1, <1>3, <2>1 DEF LInv, LinkInv, Linkable
  <2>3. CASE Exact(d, refs[d], {})
    BY <1>3, <2>3 DEF Exact, KeepsMeaning, NoClash
  <2>4. CASE Merged(d, refs[d])
    <3>1. ~NoClash(d)
      BY <2>4 DEF Merged, NoClash
    <3>2. PICK m \in ForeignIndices(d), n \in ForeignIndices(d) :
            m # n /\ \E i \in RefsBy(d, m), j \in RefsBy(d, n) : refs[d][i].ns = refs[d][j].ns
      BY <2>4 DEF Merged
    <3>3. AssignedTo(d, m) # AssignedTo(d, n)
      BY <1>1, <3>2, AssignedDiffer
    <3>4. ~KeepsMeaning(d)
      BY <3>2, <3>3 DEF KeepsMeaning
    <3> QED
      BY <3>1, <3>4
  <2> QED
    BY <2>2, <2>3, <2>4
<1> QED
  BY <1>2, <1>3

\* Whatever documents are preprocessed together, in whatever order: a reference
\* to another model, under an index that bears the model's name, designates after
\* preprocess_linkDependantModels the model its author meant exactly if none of
\* his indices was in use as an assigned one when its turn came, and a reference
\* within a document always follows its nodes.
THEOREM MeaningIsKept == Spec => []ReferencesKeepMeaning
<1>1. LInv => LinksKeepMeaning
  BY LinksAtTheEnd DEF LinksKeepMeaning
<1>2. LInv => SelfReferencesFollow
  BY DEF LInv, XInv, SelfInv, SelfReferencesFollow, RefsBy, Linking
<1>3. LInv => ReferencesKeepMeaning
  BY <1>1, <1>2 DEF ReferencesKeepMeaning
<1> QED
  BY <1>3, LInvInit, LInvNext, PTL DEF Spec
=============================================================================
