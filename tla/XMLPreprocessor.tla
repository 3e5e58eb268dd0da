-------------------------- MODULE XMLPreprocessor --------------------------
(***************************************************************************)
(* The XML preprocessor of the class generator                             *)
(* (tools/UA_Mapped_Class_Generator/XMLPreprocessor.py).                   *)
(*                                                                         *)
(* Every information model is an XML document whose author numbered the    *)
(* namespaces as he liked, usually his own as 1.  preprocessAll reads the  *)
(* documents (analyze), gives every document but those of namespace 0 an   *)
(* index of its own (preprocess_assignUniqueNsIds), redirects the          *)
(* references between documents to the new indices                         *)
(* (preprocess_linkDependantModels) and writes the results (finalize).     *)
(* It is sequential; what is hard is that indices are substituted in place *)
(* and one after the other, so that a number can stand for the author's    *)
(* index and for an assigned one at the same time.                         *)
(*                                                                         *)
(* A node id is a namespace index and a name.  The text of an id and the   *)
(* index parsed from it always change together (the text holds "ns=k;"     *)
(* whenever the index k is not 0), so one number stands for both.          *)
(***************************************************************************)
EXTENDS Integers, FiniteSets, FiniteSetsExt, Lists

CONSTANTS
  Inputs,   \* the lists of documents to check, each a sequence of documents
  Base,     \* what the author of a reference to namespace 0 means
  NoUri     \* the empty string getReferencedNamespaceUri returns

(***************************************************************************)
(* A document, as dom.parse presents it.                                   *)
(*   sets        number of UANodeSet elements, -1 if the file is not XML   *)
(*   model       the model this is, which is also its URI                  *)
(*   xmlns       the xmlns:sX attributes, a function from X to the URI;    *)
(*               prefixOK is FALSE if one like xmlns:sample has no number  *)
(*   uris        the Uri elements of NamespaceUris                         *)
(*   nodes       the nodes: ns and name of the id, and whether the node    *)
(*               has a References element                                  *)
(*   refs        the references of all nodes: ns and name as written, and  *)
(*               the model whose node the author means (Base for ns 0)     *)
(***************************************************************************)
NodeEntry == [ns : Nat, name : STRING, hasRefs : BOOLEAN]
ReferenceEntry == [ns : Nat, name : STRING, means : STRING]

IsDocument(file) ==
  /\ DOMAIN file = {"sets", "model", "xmlns", "prefixOK", "uris", "nodes", "refs"}
  /\ file.sets \in Int /\ file.prefixOK \in BOOLEAN
  /\ DOMAIN file.xmlns \subseteq Nat
  /\ file.nodes \in Seq(NodeEntry) /\ file.refs \in Seq(ReferenceEntry)

ASSUME InputsAssumption ==
  \A input \in Inputs :
    /\ input \in Seq(Range(input))
    /\ \A d \in DOMAIN input : IsDocument(input[d])

VARIABLES
  files,    \* the input, documents named by their position in it
  phase,    \* the pass preprocessAll is in
  pos,      \* position of the pass's loop
  docs,     \* preProcDocuments, a sequence of positions in files
  nodes,    \* containedNodes of every document: its sequence of [ns, name]
  refs,     \* referencedNodes of every document: its sequence of [ns, name]
  nsidx,    \* the last namespace index assigned
  deps,     \* dependencies of docs[pos] still to be resolved
  revert    \* revertToStochastic, a sequence of <<document, index>>

vars == <<files, phase, pos, docs, nodes, refs, nsidx, deps, revert>>

------------------------------------------------------------------------------
(* Helpers on one document.                                                *)

ParseOK(d) == files[d].sets = 1

\* analyze fails if there is no UANodeSet element, an xmlns:s attribute has no
\* number or a node has no References element
Analyzable(file) ==
  /\ file.sets > 0
  /\ file.prefixOK
  /\ \A i \in DOMAIN file.nodes : file.nodes[i].hasRefs

\* the ids of a sequence of nodes or references, as opcua_node_id_t parses them
Ids(s) == [i \in DOMAIN s |-> [ns |-> s[i].ns, name |-> s[i].name]]

Indices(s) == {s[i].ns : i \in DOMAIN s}

Uses(s, n) == Cardinality({i \in DOMAIN s : s[i].ns = n})

\* The most used index of a document's nodes.  The loop keeps the first of the
\* largest counts, and Python 2 enumerates a dict of small integers in
\* ascending order.
NamespaceId(s) ==
  Min({n \in Indices(s) : \A m \in Indices(s) : Uses(s, m) <= Uses(s, n)})

\* what a document calls index n: the xmlns:sX attributes first, then the Uri
\* elements, then the empty string
ReferencedNamespaceUri(file, n) ==
  IF n \in DOMAIN file.xmlns THEN file.xmlns[n]
  ELSE IF n \in DOMAIN file.uris THEN file.uris[n]
  ELSE NoUri

\* its test of the number of Uri elements lets the first missing one through
UriIndexError(file, n) ==
  n \notin DOMAIN file.xmlns /\ file.uris # <<>> /\ Len(file.uris) = n - 1

\* the distinct indices of the references, in order of appearance
NamespaceDependencies(s) ==
  LET new == {i \in DOMAIN s : \A j \in 1 .. i - 1 : s[j].ns # s[i].ns}
      at == Those([i \in DOMAIN s |-> i], new)
  IN  [k \in DOMAIN at |-> s[at[k]].ns]

\* reassignReferencedNamespaceId and the loops of reassignNamespaceId.  The
\* comparison of ids in reassignNamespaceId is always true (__eq__ compares two
\* results of toString, which are None), so all references of that index move.
RenumberedFirst(s, current, new) ==                              \* mutant
  LET i == CHOOSE i \in DOMAIN s : s[i].ns = current
  IN IF current \in Indices(s) THEN [s EXCEPT ![i].ns = new] ELSE s
Renumbered(s, current, new) ==
  [i \in DOMAIN s |-> IF s[i].ns = current THEN [s[i] EXCEPT !.ns = new] ELSE s[i]]

\* testModelCongruencyAgainstReferences is not 0: some reference of s to index n
\* would be found among the nodes of document t
Congruent(s, n, t) ==
  \E i \in DOMAIN s, j \in DOMAIN nodes[t] :
    /\ s[i].ns = n
    /\ nodes[t][j] = [ns |-> NamespaceId(nodes[t]), name |-> s[i].name]

------------------------------------------------------------------------------
Init ==
  /\ files \in Inputs
  /\ phase = "add" /\ pos = 1
  /\ docs = <<>>
  /\ nodes = [d \in DOMAIN files |-> <<>>]
  /\ refs = [d \in DOMAIN files |-> <<>>]
  /\ nsidx = 1
  /\ deps = <<>> /\ revert = <<>>

Crash == phase' = "crashed" /\ UNCHANGED <<files, pos, docs, nodes, refs, nsidx, deps, revert>>

Goto(p) == phase' = p /\ pos' = 1

\* addDocument, once for every file of the command line
AddDocument ==
  /\ phase = "add" /\ pos <= Len(files)
  /\ docs' = Append(docs, pos)
  /\ pos' = pos + 1
  /\ UNCHANGED <<files, phase, nodes, refs, nsidx, deps, revert>>

EndAdd ==
  /\ phase = "add" /\ pos > Len(files)
  /\ Goto("analyze")
  /\ UNCHANGED <<files, docs, nodes, refs, nsidx, deps, revert>>

\* analyze of the next document
Analyze ==
  /\ phase = "analyze" /\ pos <= Len(docs)
  /\ LET d == docs[pos] IN
     IF Analyzable(files[d])
     THEN /\ nodes' = [nodes EXCEPT ![d] = Ids(files[d].nodes)]
          /\ refs' = [refs EXCEPT ![d] = Ids(files[d].refs)]
          /\ pos' = pos + 1
          /\ UNCHANGED <<files, phase, docs, nsidx, deps, revert>>
     ELSE Crash

IsNamespaceZero(nsid) == nsid = 0

BaseTwice(base, others) == base \o docs                          \* mutant
BaseFirst(base, others) == base \o others

\* The first loops of preprocess_assignUniqueNsIds: documents of namespace 0 go
\* to the front and keep their index.  getNamespaceId fails on a document
\* without nodes.
SeparateBase ==
  /\ phase = "analyze" /\ pos > Len(docs)
  /\ IF \E i \in DOMAIN docs : nodes[docs[i]] = <<>>
     THEN Crash
     ELSE LET zero == {d \in DOMAIN files : IsNamespaceZero(NamespaceId(nodes[d]))}
              base == Those(docs, zero)
          IN /\ docs' = BaseFirst(base, Those(docs, DOMAIN files \ zero))
             /\ pos' = Len(base) + 1
             /\ phase' = "assign"
             /\ UNCHANGED <<files, nodes, refs, nsidx, deps, revert>>

SameIndex == nsidx                                               \* mutant
NextIndex == nsidx + 1

\* reassignNamespaceId of the next other document
AssignUniqueNsId ==
  /\ phase = "assign" /\ pos <= Len(docs)
  /\ LET d == docs[pos]
         nsid == NamespaceId(nodes[d])
     IN /\ nodes' = [nodes EXCEPT ![d] = Renumbered(@, nsid, NextIndex)]
        /\ refs' = [refs EXCEPT ![d] = Renumbered(@, nsid, NextIndex)]
  /\ nsidx' = NextIndex
  /\ pos' = pos + 1
  /\ UNCHANGED <<files, phase, docs, deps, revert>>

EndAssign ==
  /\ phase = "assign" /\ pos > Len(docs)
  /\ Goto("link")
  /\ UNCHANGED <<files, docs, nodes, refs, nsidx, deps, revert>>

Foreign(nsid) == Nat \ {nsid, 0}

\* preprocess_linkDependantModels takes the next document: the dependencies are
\* listed before the first of them is resolved
ListDependencies ==
  /\ phase = "link" /\ pos <= Len(docs)
  /\ LET d == docs[pos]
         nsid == NamespaceId(nodes[d])
     IN deps' = Those(NamespaceDependencies(refs[d]), Foreign(nsid))
  /\ phase' = "resolve"
  /\ UNCHANGED <<files, pos, docs, nodes, refs, nsidx, revert>>

\* One dependency is resolved: the first document that calls itself what this
\* one calls index n is the target, base documents and the empty string
\* included; if there is none, the stochastic match is left for later.
ResolveByUri ==
  /\ phase = "resolve" /\ deps # <<>>
  /\ LET d == docs[pos]
         n == Head(deps)
         uri == ReferencedNamespaceUri(files[d], n)
         matches == {i \in DOMAIN docs : ReferencedNamespaceUri(files[docs[i]], 1) = uri}
         target == docs[Min(matches)]
     IN IF UriIndexError(files[d], n)
        THEN Crash
        ELSE /\ IF matches # {}
                THEN /\ refs' = [refs EXCEPT ![d] = Renumbered(@, n, NamespaceId(nodes[target]))]
                     /\ UNCHANGED revert
                ELSE /\ revert' = Append(revert, <<d, n>>)
                     /\ UNCHANGED refs
             /\ deps' = Tail(deps)
             /\ UNCHANGED <<files, phase, pos, docs, nodes, nsidx>>

EndResolveAgain ==                                               \* mutant
  /\ phase = "resolve" /\ deps = <<>>
  /\ phase' = "link"
  /\ UNCHANGED <<files, pos, docs, nodes, refs, nsidx, deps, revert>>
EndResolve ==
  /\ phase = "resolve" /\ deps = <<>>
  /\ phase' = "link" /\ pos' = pos + 1
  /\ UNCHANGED <<files, docs, nodes, refs, nsidx, deps, revert>>

EndLink ==
  /\ phase = "link" /\ pos > Len(docs)
  /\ Goto("match")
  /\ UNCHANGED <<files, docs, nodes, refs, nsidx, deps, revert>>

\* The next unresolved index.  If some of the referenced names exist in a document
\* it is the target; but a message shows the best target times 100, meaning its
\* percentage, and a document cannot be multiplied.  If none is, that is logged.
StochasticMatch ==
  /\ phase = "match" /\ pos <= Len(revert)
  /\ LET d == revert[pos][1]
         n == revert[pos][2]
     IN IF \E i \in DOMAIN docs : Congruent(refs[d], n, docs[i])
        THEN Crash
        ELSE /\ pos' = pos + 1
             /\ UNCHANGED <<files, phase, docs, nodes, refs, nsidx, deps, revert>>

\* finalize of all documents: what nodes and refs hold is written
Finalize ==
  /\ phase = "match" /\ pos > Len(revert)
  /\ Goto("done")
  /\ UNCHANGED <<files, docs, nodes, refs, nsidx, deps, revert>>

Next ==
  \/ AddDocument \/ EndAdd \/ Analyze
  \/ SeparateBase \/ AssignUniqueNsId \/ EndAssign
  \/ ListDependencies \/ ResolveByUri \/ EndResolve \/ EndLink
  \/ StochasticMatch \/ Finalize

Spec == Init /\ [][Next]_vars /\ WF_vars(Next)

------------------------------------------------------------------------------
(* What the rest of the generator uses.                                    *)

\* getPreProcessedFiles: documents whose file had exactly one UANodeSet
PreProcessedFiles == SelectSeq(docs, ParseOK)

\* getUsedNamespaceArrayNames: a later document overwrites an earlier one
UsedNamespaceArrayNames ==
  [n \in {NamespaceId(nodes[docs[i]]) : i \in DOMAIN docs} |->
     LET i == Max({j \in DOMAIN docs : NamespaceId(nodes[docs[j]]) = n})
     IN ReferencedNamespaceUri(files[docs[i]], 1)]
------------------------------------------------------------------------------
DocumentIds == DOMAIN files

NodeIds == [ns : Nat, name : STRING]

TypeOK ==
  /\ phase \in {"add", "analyze", "assign", "link", "resolve", "match", "done", "crashed"}
  /\ pos \in 1 .. Len(files) + Len(revert) + 1
  /\ docs \in Seq(DocumentIds) /\ IsInjective(docs)
  /\ nodes \in [DocumentIds -> Seq(NodeIds)]
  /\ refs \in [DocumentIds -> Seq(NodeIds)]
  /\ nsidx \in 1 .. Len(files) + 1
  /\ deps \in Seq(Nat)
  /\ revert \in Seq(DocumentIds \X Nat)

(* What an author may rely on, read off the input.                         *)

OwnIndex(d) == NamespaceId(files[d].nodes)
IsBaseDocument(d) == OwnIndex(d) = 0

\* every document numbers its nodes in one namespace and says what it is called;
\* a base document does not bear another model's name
OneNamespace(d) == Cardinality(Indices(files[d].nodes)) = 1
CallsItself(d) ==
  IF IsBaseDocument(d)
  THEN \A e \in DocumentIds :
         ReferencedNamespaceUri(files[d], 1) = files[e].model => IsBaseDocument(e)
  ELSE ReferencedNamespaceUri(files[d], 1) = files[d].model
Orderly == \A d \in DocumentIds : OneNamespace(d) /\ CallsItself(d)

\* the indices under which d refers to other models
ForeignIndices(d) == Indices(files[d].refs) \ {0, OwnIndex(d)}

RefsBy(d, n) == {i \in DOMAIN files[d].refs : files[d].refs[i].ns = n}

Meant(d, n) == {e \in DocumentIds : \E i \in RefsBy(d, n) : files[e].model = files[d].refs[i].means}

Declared(d, n) == \E e \in Meant(d, n) : ReferencedNamespaceUri(files[d], n) = files[e].model

\* the author has one index for each model he refers to, and calls it what it
\* calls itself
Resolvable(d) ==
  /\ \A n \in ForeignIndices(d) :
       /\ \E e \in DocumentIds \ {d} : Meant(d, n) = {e} /\ ~IsBaseDocument(e)
       /\ Declared(d, n)
  /\ \A m, n \in ForeignIndices(d) : Meant(d, m) = Meant(d, n) => m = n

\* indices are substituted in the order of their first use
FirstUse(d, n) == Min(RefsBy(d, n))
Before(d, m, n) == FirstUse(d, m) < FirstUse(d, n)

AssignedTo(d, n) == NamespaceId(nodes[CHOOSE e \in Meant(d, n) : TRUE])

\* no number is an index of the author when it already is an assigned one
NoClash(d) ==
  /\ NamespaceId(nodes[d]) \notin ForeignIndices(d)
  /\ \A m, n \in ForeignIndices(d) : Before(d, m, n) => AssignedTo(d, m) # n

KeepsMeaning(d) ==
  \A n \in ForeignIndices(d) : \A i \in RefsBy(d, n) : refs[d][i].ns = AssignedTo(d, n)

(* Two documents that were given indices define no node id in common, so   *)
(* that the namespace does not replace the node of one by the other's      *)
(* (preprocess_assignUniqueNsIds), provided no author mixes namespaces in  *)
(* one document: only the most used one is renumbered.                     *)
DistinctNodes ==
  (phase = "done" /\ \A d \in DocumentIds : OneNamespace(d)) =>
    \A d, e \in DocumentIds :
      (d # e /\ ~(IsBaseDocument(d) /\ IsBaseDocument(e))) =>
        \A i \in DOMAIN nodes[d], j \in DOMAIN nodes[e] : nodes[d][i].ns # nodes[e][j].ns

(* A reference to another model, by an index the author calls as the model *)
(* calls itself, designates the model he meant after                       *)
(* preprocess_linkDependantModels exactly if none of the author's indices  *)
(* is, at its turn, already in use as an assigned index: the index of the  *)
(* document itself, or one that an earlier substitution wrote.             *)
LinksKeepMeaning ==
  (phase = "done" /\ Orderly) =>
    \A d \in DocumentIds : Resolvable(d) => (KeepsMeaning(d) <=> NoClash(d))

(* A reference of a document to a node of its own keeps following its      *)
(* nodes, from the moment the document is renumbered to the end.           *)
SelfReferencesFollow ==
  phase \in {"link", "resolve", "match", "done"} =>
    \A d \in DocumentIds :
      (OneNamespace(d) /\ ~IsBaseDocument(d)) =>
        \A i \in RefsBy(d, OwnIndex(d)) : refs[d][i].ns = NamespaceId(nodes[d])

(* The namespace array of the generated code gives the index of every      *)
(* model the name that model gives itself (getUsedNamespaceArrayNames).    *)
NamesMatchIndices ==
  (phase = "done" /\ Orderly) =>
    \A d \in DocumentIds :
      ~IsBaseDocument(d) => UsedNamespaceArrayNames[NamespaceId(nodes[d])] = files[d].model

(* The indices tell the models apart by the end of preprocessAll: no two   *)
(* documents share one, and the name printed for an index is its model's.  *)
IndicesDistinguish == DistinctNodes /\ NamesMatchIndices

(* Renumbering the nodes of one document and the references of another, in *)
(* passes of their own and index by index, changes what no reference means *)
(* - within a document always, between documents as far as NoClash says.   *)
ReferencesKeepMeaning == LinksKeepMeaning /\ SelfReferencesFollow

\* the indices whose names preprocess_linkDependantModels looks up
Examined(d) == Indices(files[d].refs) \ {0, OwnIndex(d), NamespaceId(nodes[d])}

\* no document bears the name d gives index n, and something d refers to under
\* n is found in some document
Guessed(d, n) ==
  /\ \A e \in DocumentIds :
       ReferencedNamespaceUri(files[e], 1) # ReferencedNamespaceUri(files[d], n)
  /\ \E e \in DocumentIds : Congruent(refs[d], n, e)

\* what preprocessAll gets through
Sound ==
  /\ \A d \in DocumentIds : Analyzable(files[d]) /\ files[d].nodes # <<>>
  /\ \A d \in DocumentIds : \A n \in Examined(d) : ~UriIndexError(files[d], n)
  /\ \A d \in DocumentIds : \A n \in Examined(d) : ~Guessed(d, n)

Unmixed == \A d \in DocumentIds : Cardinality(Indices(files[d].nodes)) <= 1

(* preprocessAll ends, and for documents of one namespace each it fails    *)
(* exactly on three causes: a document it cannot read or that has no       *)
(* nodes, an index looked up one past the Uri elements, or one whose model *)
(* has to be guessed: preprocess_linkDependantModels raises when the guess *)
(* finds one.  An index that happens to be the document's new one is not   *)
(* looked up, and that others were substituted before makes no difference. *)
FailsExactly ==
  /\ <>(phase \in {"done", "crashed"})
  /\ [](Unmixed => /\ phase = "done" => Sound
                   /\ phase = "crashed" => ~Sound)
=============================================================================
