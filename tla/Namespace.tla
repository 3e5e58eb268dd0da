----------------------------- MODULE Namespace ------------------------------
(***************************************************************************)
(* The namespace of the class generator                                    *)
(* (tools/UA_Mapped_Class_Generator/ua_namespace.py, ua_node_types.py):    *)
(* the nodes of all XML documents are created, blacklisted ones removed,   *)
(* the symbolic references linked to nodes, completed in both directions   *)
(* and sanitized.  This is the first half of generate_cppClasses.py;       *)
(* DataTypes, Values and ClassFiles go on from here.                       *)
(*                                                                         *)
(* Node objects live in a heap in order of creation and are named by their *)
(* position in it; the list of the namespace is the set of positions that  *)
(* were not removed, since nodes are only ever appended.  So it is with    *)
(* the pointers and the references of a node.  Node ids are their texts.   *)
(* Names, descriptions, masks and the other attributes that decide nothing *)
(* are left out.                                                           *)
(***************************************************************************)
EXTENDS Integers, Sequences, FiniteSets, SequencesExt, Lists

CONSTANTS
  Inputs,   \* the inputs of the generator to check
  None      \* no text: an attribute that is missing

(***************************************************************************)
(* An input.                                                               *)
(*   elements    the XML elements of all files in the order of parsing     *)
(*   blacklist   lines: the id, and whether a newline ends the line        *)
(* and what ClassFiles adds.  An element has                               *)
(*   tag         the node type, "aliases", or "other" for a known but      *)
(*               unconstructible type and "unknown" for one that is not    *)
(*   id, name    the node id and browse name                               *)
(*   aliases     of Aliases: a sequence of alias and id                    *)
(*   spaced      is there text between the child elements?                 *)
(*   before      number of children before References that parseXML removes*)
(*   refs        the References: target, type (or None) and direction      *)
(*   attr        DataType, or MethodDeclarationId of a method (or None)    *)
(*   definition  of a data type, see DataTypes                             *)
(*   value       of a variable, see Values                                 *)
(***************************************************************************)
NodeTags == {"variable", "object", "method", "objecttype", "variabletype",
             "datatype", "referencetype"}

NoDefinition == <<[name |-> None]>>
NoValue == [tag |-> None]

IsSequence(s) == s \in Seq(Range(s))

ASSUME InputsAssumption ==
  \A i \in Inputs :
    /\ IsSequence(i.elements)
    /\ \A e \in Range(i.elements) :
         IsSequence(e.refs) /\ \A k \in DOMAIN e.refs : e.refs[k].forward \in BOOLEAN

VARIABLES
  input,         \* the command line
  phase, pos,    \* the step of generate_cppClasses and how far its loop is
  heap,          \* the nodes created, by their elements
  nodes,         \* the list of the namespace
  nodeids,       \* the keys of the dictionary of the namespace
  aliases,       \* alias -> id
  pointers,      \* all opcua_referencePointer_t, in order of creation
  references,    \* per node: the pointers that are its references
  referencedBy,  \* per node: the targets of its inverse references
  attribute,     \* per node: the pointer in its attribute, 0 if there is none
  item           \* how far the inner loop over the references of a node is

nodeVars == <<heap, nodes, nodeids, aliases>>
linkVars == <<pointers, references, referencedBy, attribute, item>>
namespaceVars == <<input, phase, pos, nodeVars, linkVars>>

\* the order of the steps in generate_cppClasses.py; linkOpenPointers is the
\* three steps link, invert and inverse
After(p) ==
  [parse |-> "blacklist", blacklist |-> "link", link |-> "invert",
   invert |-> "inverse", inverse |-> "sanitize", sanitize |-> "encode", encode |-> "allocate",
   allocate |-> "generate", generate |-> "done"][p]

EndLoop == phase' = After(phase) /\ pos' = 0 /\ UNCHANGED <<input, nodeVars, linkVars>>

Crash == phase' = "crashed" /\ UNCHANGED <<input, pos, nodeVars, linkVars>>

\* what a loop over a list visits after p, 0 if p was the last
NextIn(set, p) ==
  IF \E n \in set : n > p
  THEN CHOOSE n \in set : n > p /\ \A m \in set : m > p => n <= m
  ELSE 0

Following(p) == NextIn(nodes, p)

\* getNodeByIDString: the first node of that id, or 0
EverCreated(id) ==                                               \* mutant
  IF \E n \in DOMAIN heap : heap[n].id = id
  THEN CHOOSE n \in DOMAIN heap :
         heap[n].id = id /\ \A m \in DOMAIN heap : heap[m].id = id => n <= m
  ELSE 0
NodeByIdString(id) ==
  IF \E n \in nodes : heap[n].id = id
  THEN CHOOSE n \in nodes : heap[n].id = id /\ \A m \in nodes : heap[m].id = id => n <= m
  ELSE 0

\* the data type of a variable or variable type
TypeOf(n) == pointers[attribute[n]].target.node

\* all nodes one gets to from those in start along next
Reachable(next, start) ==
  LET after[i \in 0 .. Cardinality(nodes)] ==
        IF i = 0 THEN start
        ELSE LET S == after[i - 1] IN S \cup UNION {next[m] : m \in S}
  IN after[Cardinality(nodes)]

\* the references of a node as its list has them
ReferenceList(n) == Those([r \in DOMAIN pointers |-> r], references[n])

-----------------------------------------------------------------------------
(* parseXML, one element at a time.                                        *)

Init ==
  /\ input \in Inputs
  /\ phase = "parse" /\ pos = 0
  /\ heap = <<>> /\ nodes = {} /\ nodeids = {} /\ aliases = <<>>
  /\ pointers = <<>> /\ references = <<>> /\ referencedBy = <<>> /\ attribute = <<>>
  /\ item = 0

Parsing == phase = "parse" /\ pos < Len(input.elements)
Element == input.elements[pos + 1]

\* the first definition of an alias is kept
WithAlias(known, al) ==
  IF al.alias \in DOMAIN known THEN known
  ELSE [a \in DOMAIN known \cup {al.alias} |-> IF a = al.alias THEN al.id ELSE known[a]]

BuildAliasList ==
  /\ Parsing /\ Element.tag = "aliases"
  /\ aliases' = FoldLeft(WithAlias, aliases, Element.aliases)
  /\ pos' = pos + 1
  /\ UNCHANGED <<input, phase, heap, nodes, nodeids, linkVars>>

\* an element of an unknown type, or without an id
SkipElement ==
  /\ Parsing /\ Element.tag # "aliases"
  /\ Element.tag = "unknown" \/ Element.id = None
  /\ pos' = pos + 1
  /\ UNCHANGED <<input, phase, nodeVars, linkVars>>

\* views and method types have no constructor; None is appended and asked for
\* its id
CreateNodeFails ==
  /\ Parsing /\ Element.tag = "other" /\ Element.id # None
  /\ Crash

\* parseXML of a node removes children from the list it iterates over, which
\* skips the child after each one removed.  The text between elements makes up
\* for that; without it References is only seen at an even position.
ReferencesRead(e) == e.spaced \/ e.before % 2 = 0

AnyText(text) == [text |-> text, node |-> 0]

Symbolic(ref) ==
  [target |-> AnyText(ref.target), type |-> AnyText(ref.type), forward |-> ref.forward]

\* The positions of the references a node keeps: addReference drops one that
\* equals an earlier one, at a time when it has no type or direction yet.
Kept(refs) ==
  {i \in DOMAIN refs : \A j \in 1 .. i - 1 :
     ~(refs[j].target = refs[i].target /\ refs[j].type = None /\ refs[j].forward)}

HasPointer(e) == e.tag \in {"variable", "variabletype", "method"} /\ e.attr # None

\* the nodes that make way for a new one of the same id
NothingReplaced(id) == {}                                        \* mutant
Replaced(id) == IF id \in nodeids THEN {NodeByIdString(id)} ELSE {}

\* createNode, with initiateDummyXMLReferences and parseXMLSubType of the node
CreateNode ==
  /\ Parsing /\ Element.tag \in NodeTags /\ Element.id # None
  /\ LET refs == IF ReferencesRead(Element) THEN Element.refs ELSE <<>>
         known == Len(pointers)
         pointed == IF HasPointer(Element)
                    THEN <<Symbolic([target |-> Element.attr, type |-> None, forward |-> TRUE])>>
                    ELSE <<>>
     IN /\ heap' = Append(heap, Element)
        /\ nodes' = (nodes \ Replaced(Element.id)) \cup {Len(heap) + 1}
        /\ nodeids' = nodeids \cup {Element.id}
        /\ pointers' = pointers \o [i \in DOMAIN refs |-> Symbolic(refs[i])] \o pointed
        /\ references' = Append(references, {known + i : i \in Kept(refs)})
        /\ referencedBy' = Append(referencedBy, {})
        /\ attribute' = Append(attribute, IF pointed = <<>> THEN 0 ELSE known + Len(refs) + 1)
  /\ pos' = pos + 1
  /\ UNCHANGED <<input, phase, aliases, item>>

EndParse == phase = "parse" /\ pos = Len(input.elements) /\ EndLoop

-----------------------------------------------------------------------------
(* The blacklist.  A line is looked up without its newline and removed     *)
(* with it, so only a last line without one removes its node.  No node has *)
(* inverse references yet.                                                 *)

RemoveNodeById ==
  /\ phase = "blacklist" /\ pos < Len(input.blacklist)
  /\ LET line == input.blacklist[pos + 1]
         nd == NodeByIdString(line.id)
     IN nodes' = IF nd # 0 /\ ~line.newline THEN nodes \ {nd} ELSE nodes
  /\ pos' = pos + 1
  /\ UNCHANGED <<input, phase, heap, nodeids, aliases, linkVars>>

EndBlacklist == phase = "blacklist" /\ pos = Len(input.blacklist) /\ EndLoop

-----------------------------------------------------------------------------
(* linkOpenPointers.                                                       *)

\* an alias is replaced once and for good; what is then the id of a node is
\* replaced by the node
Linked(end) ==
  LET id == IF end.text \in DOMAIN aliases THEN aliases[end.text] ELSE end.text
  IN [text |-> id, node |-> NodeByIdString(id)]

LinkPointer ==
  /\ phase = "link" /\ pos < Len(pointers)
  /\ pointers' = [pointers EXCEPT ![pos + 1] =
       [target |-> Linked(@.target),
        type |-> IF @.type.text = None THEN @.type ELSE Linked(@.type),
        forward |-> @.forward]]
  /\ pos' = pos + 1
  /\ UNCHANGED <<input, phase, nodeVars, references, referencedBy, attribute, item>>

EndLink == phase = "link" /\ pos = Len(pointers) /\ EndLoop

\* the reference to node n that reference r of it calls for at its target
Forward(n, r) ==
  [target |-> [text |-> heap[n].id, node |-> n], type |-> pointers[r].type, forward |-> TRUE]

\* addReference of it: only if the target has none like it
SameTarget(p, q) == p.target = q.target                          \* mutant
SamePointer(p, q) == p = q
IsInverted(n, r) ==
  LET t == pointers[r].target.node
  IN \/ pointers[r].forward \/ t = 0
     \/ \E q \in references[t] : SamePointer(pointers[q], Forward(n, r))

\* the next reference of the next node is inverted
InvertReference ==
  /\ phase = "invert" /\ Following(pos) # 0
  /\ LET n == Following(pos)
         r == NextIn(references[n], item)
     IN /\ r # 0
        /\ IF IsInverted(n, r) THEN UNCHANGED <<pointers, references>>
           ELSE /\ pointers' = Append(pointers, Forward(n, r))
                /\ references' =
                     [references EXCEPT ![pointers[r].target.node] = @ \cup {Len(pointers) + 1}]
        /\ item' = r
  /\ UNCHANGED <<input, phase, pos, nodeVars, referencedBy, attribute>>

InvertNextNode ==
  /\ phase = "invert" /\ Following(pos) # 0
  /\ NextIn(references[Following(pos)], item) = 0
  /\ pos' = Following(pos) /\ item' = 0
  /\ UNCHANGED <<input, phase, nodeVars, pointers, references, referencedBy, attribute>>

EndInvert == phase = "invert" /\ Following(pos) = 0 /\ EndLoop

\* hasReferenceTarget, of node n when refs are the references
Targets(refs, n) == {pointers[r].target.node : r \in refs[n]}

\* addInverseReferenceTarget
KnowsNot(t, n) == TRUE                                           \* mutant
Unaware(t, n) == n \notin Targets(references, t)

\* updateInverseReferences of the next node
UpdateInverseReferences ==
  /\ phase = "inverse" /\ Following(pos) # 0
  /\ LET n == Following(pos)
     IN /\ referencedBy' =
             [t \in DOMAIN referencedBy |->
                IF t \in Targets(references, n) /\ Unaware(t, n)
                THEN referencedBy[t] \cup {n} ELSE referencedBy[t]]
        /\ pos' = n
  /\ UNCHANGED <<input, phase, nodeVars, pointers, references, attribute, item>>

EndInverse == phase = "inverse" /\ Following(pos) = 0 /\ EndLoop

-----------------------------------------------------------------------------
(* sanitize.                                                               *)

\* the inverse references of node n to nodes that reference it
Sources(refs, n) == {m \in referencedBy[n] : n \in Targets(refs, m)}

IsLinked(r) == pointers[r].type.node # 0 /\ pointers[r].target.node # 0

\* Unlinked references go, then inverse references whose node does not
\* reference this one, as far as its own references are sanitized already.  A
\* node both references and is referenced by the message of that case crashes.
\* A variable whose data type is not linked loses it; the corresponding test of
\* variable types is inverted and methods only report.
Sanitize ==
  /\ phase = "sanitize" /\ Following(pos) # 0
  /\ LET n == Following(pos)
         refs == [references EXCEPT ![n] = {r \in @ : IsLinked(r)}]
         sources == Sources(refs, n)
     IN IF sources \cap Targets(refs, n) # {}
        THEN Crash
        ELSE /\ references' = refs
             /\ referencedBy' = [referencedBy EXCEPT ![n] = sources]
             /\ attribute' = [attribute EXCEPT ![n] =
                  IF heap[n].tag = "variable" /\ @ # 0 /\ pointers[@].target.node = 0
                  THEN 0 ELSE @]
             /\ pos' = n
             /\ UNCHANGED <<input, phase, nodeVars, pointers, item>>

EndSanitize == phase = "sanitize" /\ Following(pos) = 0 /\ EndLoop

NamespaceNext ==
  \/ BuildAliasList \/ SkipElement \/ CreateNodeFails \/ CreateNode \/ EndParse
  \/ RemoveNodeById \/ EndBlacklist
  \/ LinkPointer \/ EndLink
  \/ InvertReference \/ InvertNextNode \/ EndInvert
  \/ UpdateInverseReferences \/ EndInverse
  \/ Sanitize \/ EndSanitize

Elsewhere ==
  /\ phase \in {"encode", "allocate", "generate"}
  /\ phase' \in {"encode", "allocate", "generate", "done", "crashed"} /\ pos' \in Nat
  /\ UNCHANGED <<input, nodeVars, linkVars>>

(* No step of the whole generator changes the namespace but those above:   *)
(* the encoding rules, the values and the classes are built, in this       *)
(* order, from what sanitation left.                                       *)
NamespaceSteps == [][NamespaceNext \/ Elsewhere]_namespaceVars

\* the namespace as a component of its own
NamespaceSpec == Init /\ NamespaceSteps

-----------------------------------------------------------------------------
Phases == {"parse", "blacklist", "link", "invert", "inverse", "sanitize", "encode",
           "allocate", "generate", "done", "crashed"}

NamespaceTypeOK ==
  /\ phase \in Phases /\ pos \in Nat /\ item \in Nat
  /\ nodes \subseteq DOMAIN heap
  /\ DOMAIN references = DOMAIN heap /\ DOMAIN referencedBy = DOMAIN heap
  /\ DOMAIN attribute = DOMAIN heap
  /\ \A n \in DOMAIN heap :
       /\ references[n] \subseteq DOMAIN pointers
       /\ referencedBy[n] \subseteq nodes
       /\ attribute[n] \in {0} \cup DOMAIN pointers
  /\ \A p \in Range(pointers) :
       p.forward \in BOOLEAN /\ {p.target.node, p.type.node} \subseteq {0} \cup nodes

(* No two nodes of the list have the same id, however often the raw and    *)
(* the preprocessed documents define it: getNodeByIDString cannot choose.  *)
UniqueIds == \A m, n \in nodes : heap[m].id = heap[n].id => m = n

(* A node never has an inverse reference to a node that it references      *)
(* itself.  The branch of sanitize that would remove it cannot work: its   *)
(* message asks a method for an id.                                        *)
NeverBoth == \A n \in DOMAIN heap : referencedBy[n] \cap Targets(references, n) = {}

\* linkOpenPointers is over
AfterLinking == phase \in Phases \ {"parse", "blacklist", "link", "invert", "inverse", "crashed"}

(* After linkOpenPointers the target of every reference knows where the    *)
(* reference came from: it references the source or is referenced by it.   *)
TargetsKnowSources ==
  phase = "sanitize" /\ pos = 0 =>
    \A n \in nodes : \A t \in Targets(references, n) \ {0} :
      n \in referencedBy[t] \/ n \in Targets(references, t)

(* A reference that is not forward has a forward counterpart of the same   *)
(* type at its target from linking on, also after sanitation: the members  *)
(* of a class are found by forward references alone.                       *)
BothDirections ==
  AfterLinking =>
    \A n \in nodes : \A r \in references[n] : ~pointers[r].forward /\ IsLinked(r) =>
      \E q \in references[pointers[r].target.node] :
        /\ pointers[q].forward /\ pointers[q].target.node = n
        /\ pointers[q].type = pointers[r].type

(* After sanitation a node may still have a false inverse reference, but   *)
(* only from a later node, which lost its references to it for want of a   *)
(* reference type and was not sanitized when this one was.                 *)
FalseInverseFromLater ==
  phase \in {"encode", "allocate", "generate", "done"} =>
    \A n \in nodes : \A m \in referencedBy[n] :
      n \in Targets(references, m) \/ m > n

(* Linking, inversion, announcing and sanitizing together keep the two     *)
(* ends of a reference in agreement: neither node says both or nothing of  *)
(* the other after linkOpenPointers, and sanitation, which goes through    *)
(* the list once, leaves no half of a reference but those named above.     *)
ReferencesAgree == NeverBoth /\ TargetsKnowSources /\ BothDirections /\ FalseInverseFromLater
=============================================================================
