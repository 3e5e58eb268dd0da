----------------------------- MODULE ClassFiles ------------------------------
(***************************************************************************)
(* The classes the generator writes (cppClass_generator.py and the two     *)
(* file generators): one pair of files for every object type, with the     *)
(* members the namespace gives it.                                         *)
(*                                                                         *)
(* A generated file is what decides its text: the node, the members in     *)
(* order, and whether and how the class hosts a server.                    *)
(*                                                                         *)
(* An input also has                                                       *)
(*   annotations  the children of classannotations: kind (serverClass,     *)
(*                clientClass or baseNodeId), name and base (or None)      *)
(*   ignore       the ids of the ignore files                              *)
(*   existing     the files found in the output directory                  *)
(* and an element has code, its browse name as an identifier of C++: names *)
(* that differ in prefix or punctuation only share it.                     *)
(***************************************************************************)
EXTENDS DataTypes

CONSTANTS
  Mappable,   \* browse names of the data types getCPPTypeByUAType translates
  HasProperty, HasComponent, HasSubtype   \* the ids 46, 47 and 45 of namespace 0

VARIABLE output   \* <<kind, class>> -> file

filesVars == <<namespaceVars, typeVars, output>>

Kinds == {"cpp", "hpp"}

CodeName(n) == heap[n].code

\* nodes are looked up without the newline here
IgnoredNodes == {NodeByIdString(input.ignore[i]) : i \in DOMAIN input.ignore} \ {0}

Classes == {n \in nodes : heap[n].tag = "objecttype"} \ IgnoredNodes

-----------------------------------------------------------------------------
(* The hosts, from the class annotations.                                  *)

OfKind(kind) == Those(input.annotations, {a \in Range(input.annotations) : a.kind = kind})

\* getElementsByTagName finds the baseNodeId elements at any depth, those of the
\* classes included
FirstBase ==
  LET bases == Those(input.annotations, {a \in Range(input.annotations) : a.base # None})
  IN IF bases = <<>> THEN None ELSE bases[1].base

\* client classes become servers too, and their own base is not read
ServerHostList ==
  LET hosts == OfKind("serverClass") \o OfKind("clientClass")
  IN [i \in DOMAIN hosts |->
        [name |-> hosts[i].name,
         base |-> IF hosts[i].kind = "serverClass" /\ hosts[i].base # None
                  THEN hosts[i].base ELSE FirstBase]]

\* the last host of that name counts
NoHost == [name |-> None, base |-> None]
HostConfig(class) ==
  LET hosts == Those(ServerHostList, {h \in Range(ServerHostList) : h.name = class})
  IN IF hosts = <<>> THEN NoHost ELSE hosts[Len(hosts)]

\* what is known of a file found in the output directory
Found(marked) ==
  [marked |-> marked, node |-> 0, variables |-> <<>>, objects |-> <<>>, methods |-> <<>>,
   host |-> NoHost]

ASSUME ExistingAssumption ==
  \A i \in Inputs : \A f \in DOMAIN i.existing :
    f[1] \in Kinds /\ i.existing[f] \in {Found(TRUE), Found(FALSE)}

-----------------------------------------------------------------------------
(* getMembersOfType.                                                       *)

Target(r) == pointers[r].target.node
TypeId(r) == heap[pointers[r].type.node].id

IsComponent(r) == pointers[r].forward /\ TypeId(r) \in {HasProperty, HasComponent}
IsSupertype(r) == ~pointers[r].forward /\ TypeId(r) = HasSubtype

\* a variable, or a type of variables, that has a data type
HoldsData(n) == heap[n].tag \in {"variable", "variabletype"} /\ attribute[n] # 0

Translates(n) == heap[TypeOf(n)].name \in Mappable

NoMembers == [variables |-> <<>>, objects |-> <<>>, methods |-> <<>>, failed |-> FALSE]
Failed == [NoMembers EXCEPT !.failed = TRUE]

Join(m1, m2) ==
  [variables |-> m1.variables \o m2.variables, objects |-> m1.objects \o m2.objects,
   methods |-> m1.methods \o m2.methods, failed |-> m1.failed \/ m2.failed]

\* a member is added unless there is one of that name already
Include(seq, n) ==
  IF \E i \in DOMAIN seq : CodeName(seq[i]) = CodeName(n) THEN seq ELSE Append(seq, n)

SkipSupertype(acc, inner) == acc                                 \* mutant
WithSupertype(acc, inner) == Join(acc, inner)

\* what reference r adds to the members found so far; inner are those of its
\* target
WithReference(acc, r, inner) ==
  LET t == Target(r) IN
  IF acc.failed THEN acc
  ELSE IF IsComponent(r) /\ HoldsData(t)
  THEN IF TypeOf(t) = 0 THEN Failed
       ELSE Join(IF Translates(t) THEN [acc EXCEPT !.variables = Include(@, t)] ELSE acc, inner)
  ELSE IF IsComponent(r) /\ heap[t].tag = "object"
  THEN LET both == Join(acc, inner) IN [both EXCEPT !.objects = Include(@, t)]
  ELSE IF IsComponent(r) /\ heap[t].tag = "method"
  THEN [acc EXCEPT !.methods = Append(@, t)]
  ELSE IF IsSupertype(r) THEN WithSupertype(acc, inner)
  ELSE acc

\* the loop over the references of node n
Collected(n, inner) ==
  LET list == ReferenceList(n)
      upTo[k \in 0 .. Len(list)] ==
        IF k = 0 THEN NoMembers ELSE WithReference(upTo[k - 1], list[k], inner[list[k]])
  IN upTo[Len(list)]

\* path is how the recursion got to its last node: a node on its own path is
\* visited again and again until the stack overflows
MembersOfType(n) ==
  LET of[path \in Seq(nodes) \ {<<>>}] ==
        LET m == path[Len(path)]
        IN Collected(m, [r \in references[m] |->
                           IF Target(r) \in IgnoredNodes THEN NoMembers
                           ELSE IF Target(r) \in Range(path) THEN Failed
                           ELSE of[Append(path, Target(r))]])
  IN of[<<n>>]

-----------------------------------------------------------------------------
(* generateAll.                                                            *)

\* a file is rewritten unless it was there before and lost its "@generated" mark
MayWrite(f) == f \notin DOMAIN output \/ output[f].marked

\* generateImplementationFile and generateHeaderFile
Generated(n, members) ==
  [marked |-> TRUE, node |-> n, variables |-> members.variables, objects |-> members.objects,
   methods |-> members.methods, host |-> HostConfig(CodeName(n))]

Written(n) == {f \in Kinds \X {CodeName(n)} : MayWrite(f)}

WriteFiles(n, members) ==
  output' = [f \in DOMAIN output \cup Written(n) |->
               IF f \in Written(n) THEN Generated(n, members) ELSE output[f]]

GenerateClass ==
  /\ phase = "generate" /\ Following(pos) # 0
  /\ LET n == Following(pos)
     IN IF n \in Classes /\ MembersOfType(n).failed THEN Crash /\ UNCHANGED output
        ELSE /\ IF n \in Classes THEN WriteFiles(n, MembersOfType(n)) ELSE UNCHANGED output
             /\ pos' = n
             /\ UNCHANGED <<input, phase, nodeVars, linkVars>>

EndGenerate == phase = "generate" /\ Following(pos) = 0 /\ EndLoop /\ UNCHANGED output

ClassesNext == GenerateClass \/ EndGenerate

-----------------------------------------------------------------------------
(* What Values does is, for the files, going through the list.             *)

PassNode ==
  /\ phase = "allocate" /\ Following(pos) # 0 /\ pos' = Following(pos)
  /\ UNCHANGED <<input, phase, nodeVars, linkVars, output>>

EndPass == phase = "allocate" /\ Following(pos) = 0 /\ EndLoop /\ UNCHANGED output

HasValue(n) == heap[n].tag = "variable" /\ heap[n].value # NoValue

PassFails ==
  phase = "allocate" /\ Following(pos) # 0 /\ HasValue(Following(pos)) /\ Crash /\ UNCHANGED output

FilesInit == Init /\ dataTypes = <<>> /\ calls = <<>> /\ output = input.existing

FilesNext ==
  \/ NamespaceNext /\ UNCHANGED <<typeVars, output>>
  \/ DataTypesNext /\ UNCHANGED output
  \/ (PassNode \/ EndPass \/ PassFails) /\ UNCHANGED typeVars
  \/ ClassesNext /\ UNCHANGED typeVars

\* The generator but for the values: a step is one of the namespace, of the
\* encoding rules or of a class, or one through the list that leaves them alone.
FilesSpec == FilesInit /\ [][FilesNext]_filesVars

-----------------------------------------------------------------------------
FileEntry(file) ==
  /\ file.marked \in BOOLEAN /\ file.node \in {0} \cup nodes
  /\ \A list \in {file.variables, file.objects, file.methods} : list \in Seq(nodes)

TypeOK ==
  /\ NamespaceTypeOK /\ DataTypesTypeOK
  /\ \A f \in DOMAIN output : f[1] \in Kinds /\ FileEntry(output[f])

(* What belongs to a class, as a relation of nodes.                        *)

Components(n) == {Target(r) : r \in {q \in references[n] : IsComponent(q)}}
SupertypeNodes(n) == {Target(r) : r \in {q \in references[n] : IsSupertype(q)}}
Data(n) == {t \in Components(n) : HoldsData(t)}
Objects(n) == {t \in Components(n) : heap[t].tag = "object"}
Methods(n) == {t \in Components(n) : heap[t].tag = "method"}

MadeOf(n) == (Data(n) \cup Objects(n) \cup SupertypeNodes(n)) \ IgnoredNodes

\* n and everything its class is made of
Parts(n) == Reachable([m \in nodes |-> MadeOf(m)], {n})

IsCyclic(n) == \E m \in Parts(n) : \E t \in MadeOf(m) : m \in Parts(t)

Codes(set) == {CodeName(n) : n \in set}

AllData(n) == {t \in UNION {Data(m) : m \in Parts(n)} : Translates(t)}
AllObjects(n) == UNION {Objects(m) : m \in Parts(n)}
AllMethods(n) == UNION {Methods(m) : m \in Parts(n)}

(* A generated class has exactly the members the model gives it: by name   *)
(* every translatable variable and every object, and every method, of the  *)
(* type itself, its supertypes and its components at any depth, except     *)
(* what lies behind an ignored node.                                       *)
MembersExactly ==
  phase = "done" => \A f \in DOMAIN output : output[f].node # 0 =>
    LET file == output[f] IN
    /\ Codes(Range(file.variables)) = Codes(AllData(file.node))
    /\ Codes(Range(file.objects)) = Codes(AllObjects(file.node))
    /\ Range(file.methods) = AllMethods(file.node)

(* In the end there is a pair of files for the last object type of every   *)
(* class name, generated from that one and with its host: what earlier     *)
(* nodes wrote, those of the unprocessed document included, is gone.  Only *)
(* files without the "@generated" mark are as they were.                   *)
LastNodeIsGenerated ==
  phase = "done" =>
    \A n \in Classes : (\A m \in Classes : CodeName(m) = CodeName(n) => m <= n) =>
      \A kind \in Kinds :
        LET f == <<kind, CodeName(n)>>
        IN IF f \in DOMAIN input.existing /\ ~input.existing[f].marked
           THEN output[f] = input.existing[f]
           ELSE output[f].node = n /\ output[f].host = HostConfig(CodeName(n))

(* The files say what the model says: for each class name the last node    *)
(* of that name decides, whichever nodes were written to the file before,  *)
(* with all its inherited and nested members and no others.                *)
FilesFollowModel == MembersExactly /\ LastNodeIsGenerated

\* no class can be generated of n: it contains something that contains itself,
\* or a variable type whose data type is not linked
HasFault(n) == IsCyclic(n) \/ \E m \in Parts(n) : \E t \in Data(m) : TypeOf(t) = 0

\* a field whose type is a node, but no data type
HasWrongField(n) ==
  /\ heap[n].tag = "datatype" /\ heap[n].definition # NoDefinition
  /\ \E f \in Range(heap[n].definition) :
       LET t == NodeByIdString(f.dataType) IN t # 0 /\ heap[t].tag # "datatype"

(* The generator fails for four reasons only: an element without a         *)
(* constructor, a field of a data type that is no data type, the value of  *)
(* the variable it is at, and an object type that has a fault - and such a *)
(* type never passes.  Linking and sanitation never fail.                  *)
CrashHasCause ==
  [][/\ phase # "crashed" /\ phase' = "crashed" =>
          \/ phase = "parse" /\ Element.tag = "other"
          \/ phase = "encode" /\ \E n \in nodes : HasWrongField(n)
          \/ phase = "allocate" /\ HasValue(Following(pos))
          \/ phase = "generate" /\ HasFault(Following(pos))
     /\ phase = "generate" /\ Following(pos) \in Classes /\ HasFault(Following(pos)) =>
          phase' = "crashed"]_filesVars
=============================================================================
