------------------------------ MODULE DataTypes -----------------------------
(***************************************************************************)
(* The encoding rules of data types (opcua_node_dataType_t.buildEncoding,  *)
(* called for all data types by opcua_namespace.buildEncodingRules).       *)
(*                                                                         *)
(* An encoding is a nested list: a builtin type is <<name>>, a field or a  *)
(* supertype adds a name, the encoding of the type and a rank.  A rule is  *)
(* built once: a type is marked as built and encodable before the types it *)
(* depends on are, so that recursion ends on a cycle, with what is known   *)
(* of the type at that moment.  The recursion is a stack of calls here.    *)
(*                                                                         *)
(* A definition is None or a sequence of fields: name, dataType (the text  *)
(* of an id, or None) and whether there is a Value attribute.              *)
(***************************************************************************)
EXTENDS Namespace

CONSTANT Builtin   \* knownTypes of opcua_value_t, as browse names

ASSUME DefinitionsAssumption ==
  \A i \in Inputs : \A e \in Range(i.elements) :
    e.tag = "datatype" /\ e.definition # NoDefinition =>
      /\ IsSequence(e.definition)
      /\ \A k \in DOMAIN e.definition : e.definition[k].value \in BOOLEAN

VARIABLES
  dataTypes,   \* built data type -> is it encodable, and its encoding
  calls        \* the calls of buildEncoding that have not returned

typeVars == <<dataTypes, calls>>

Name(s) == [text |-> s, list |-> <<>>]
List(l) == [text |-> None, list |-> l]
Rank == Name("rank")

IsBuiltin(n) == heap[n].name \in Builtin

Put(n, ok, enc) ==
  [m \in DOMAIN dataTypes \cup {n} |->
     IF m = n THEN [encodable |-> ok, encoding |-> enc] ELSE dataTypes[m]]
Encodable(n) == dataTypes[n].encodable
Encoding(n) == dataTypes[n].encoding

\* A call for a node without a rule.  Only the rules of builtin types are
\* complete at once; the others go through their references or fields.
Call(n) ==
  IF IsBuiltin(n)
  THEN dataTypes' = Put(n, TRUE, <<Name(heap[n].name)>>) /\ UNCHANGED calls
  ELSE /\ dataTypes' = Put(n, TRUE, <<>>)
       /\ calls' = Append(calls, [node |-> n, next |-> 1, isEnum |-> TRUE, isSubType |-> TRUE])

\* buildEncodingRules calls for the next node of the list
BuildEncodingRule ==
  /\ phase = "encode" /\ calls = <<>> /\ Following(pos) # 0
  /\ LET n == Following(pos)
     IN IF heap[n].tag = "datatype" /\ n \notin DOMAIN dataTypes THEN Call(n)
        ELSE UNCHANGED typeVars
  /\ pos' = Following(pos)
  /\ UNCHANGED <<input, phase, nodeVars, linkVars>>

EndEncode ==
  phase = "encode" /\ calls = <<>> /\ Following(pos) = 0 /\ EndLoop /\ UNCHANGED typeVars

-----------------------------------------------------------------------------
(* The loops of buildEncoding, in the call on top.                         *)

Top == calls[Len(calls)]

Unmoved == UNCHANGED <<input, phase, pos, nodeVars, linkVars>>

Continue(frame) == calls' = [calls EXCEPT ![Len(calls)] = [frame EXCEPT !.next = @ + 1]]

Return(ok, enc) == dataTypes' = Put(Top.node, ok, enc) /\ calls' = Front(calls)

\* Without a definition: from all supertypes, up to one that is not encodable.
HasSupertype(r) ==
  LET p == pointers[r] IN
  ~p.forward /\ heap[p.type.node].name = "HasSubtype" /\ heap[p.target.node].tag = "datatype"

FromSupertypes == phase = "encode" /\ calls # <<>> /\ heap[Top.node].definition = NoDefinition
AtReference == FromSupertypes /\ Top.next <= Len(ReferenceList(Top.node))
NextReference == ReferenceList(Top.node)[Top.next]
Supertype == pointers[NextReference].target.node

SkipReference ==
  AtReference /\ ~HasSupertype(NextReference) /\ Continue(Top) /\ UNCHANGED dataTypes /\ Unmoved

CallSupertype ==
  /\ AtReference /\ HasSupertype(NextReference) /\ Supertype \notin DOMAIN dataTypes
  /\ Call(Supertype) /\ Unmoved

UseSupertype ==
  /\ AtReference /\ HasSupertype(NextReference) /\ Supertype \in DOMAIN dataTypes
  /\ LET n == Top.node
         part == <<Name(heap[n].name), List(Encoding(Supertype)), Rank>>
     IN IF Encodable(Supertype)
        THEN Continue(Top) /\ dataTypes' = Put(n, Encodable(n), Encoding(n) \o part)
        ELSE Return(FALSE, Encoding(n))
  /\ Unmoved

EndSupertypes ==
  /\ FromSupertypes /\ Top.next > Len(ReferenceList(Top.node))
  /\ Return(Encodable(Top.node) /\ Encoding(Top.node) # <<>>, Encoding(Top.node))
  /\ Unmoved

\* Fields with a DataType make a structure, fields with a Value an enumeration;
\* what the definition can still be is remembered from field to field.
FromDefinition == phase = "encode" /\ calls # <<>> /\ heap[Top.node].definition # NoDefinition
AtField == FromDefinition /\ Top.next <= Len(heap[Top.node].definition)
NextField == heap[Top.node].definition[Top.next]
IsEnum == Top.isEnum /\ NextField.dataType = None
IsSubType == Top.isSubType /\ ~NextField.value
FieldType == NodeByIdString(NextField.dataType)

Ambiguous(isEnum, isSubType) == ~isEnum /\ ~isSubType            \* mutant
Inconsistent(isEnum, isSubType) == isEnum = isSubType
AtTypedField == AtField /\ ~Inconsistent(IsEnum, IsSubType) /\ ~IsEnum

ContinueFields == Continue([Top EXCEPT !.isEnum = IsEnum, !.isSubType = IsSubType])

\* One field is not nested.  It has three parts, so that there is nothing more to
\* unnest.
ReturnFields(ok, enc, isEnum) ==
  LET unnested == IF Len(enc) = 1 /\ enc[1].text = None THEN enc[1].list ELSE enc
  IN Return(ok, IF isEnum THEN Append(unnested, Name("Int32")) ELSE unnested)

InconsistentField ==
  /\ AtField /\ Inconsistent(IsEnum, IsSubType)
  /\ ReturnFields(FALSE, Encoding(Top.node), IsEnum) /\ Unmoved

EnumField ==
  /\ AtField /\ ~Inconsistent(IsEnum, IsSubType) /\ IsEnum
  /\ ContinueFields /\ UNCHANGED dataTypes /\ Unmoved

\* a field whose type does not exist does not end the loop
UnknownField ==
  /\ AtTypedField /\ FieldType = 0
  /\ ContinueFields /\ dataTypes' = Put(Top.node, FALSE, Encoding(Top.node)) /\ Unmoved

\* a node that is no data type has no buildEncoding
FieldFails ==
  /\ AtTypedField /\ FieldType # 0 /\ heap[FieldType].tag # "datatype"
  /\ Crash /\ UNCHANGED typeVars

CallFieldType ==
  /\ AtTypedField /\ FieldType # 0 /\ heap[FieldType].tag = "datatype"
  /\ FieldType \notin DOMAIN dataTypes /\ Call(FieldType) /\ Unmoved

UseFieldType ==
  /\ AtTypedField /\ FieldType \in DOMAIN dataTypes
  /\ LET n == Top.node
         part == List(<<Name(NextField.name), List(Encoding(FieldType)), Rank>>)
         enc == Append(Encoding(n), part)
     IN IF Encodable(FieldType)
        THEN ContinueFields /\ dataTypes' = Put(n, Encodable(n), enc)
        ELSE ReturnFields(FALSE, enc, FALSE)
  /\ Unmoved

EndFields ==
  /\ FromDefinition /\ Top.next > Len(heap[Top.node].definition)
  /\ ReturnFields(Encodable(Top.node), Encoding(Top.node), Top.isEnum) /\ Unmoved

DataTypesNext ==
  \/ BuildEncodingRule \/ EndEncode
  \/ SkipReference \/ CallSupertype \/ UseSupertype \/ EndSupertypes
  \/ InconsistentField \/ EnumField \/ UnknownField \/ FieldFails
  \/ CallFieldType \/ UseFieldType \/ EndFields

-----------------------------------------------------------------------------
(* What a data type stands for, without regard to the order of building.   *)

AllDataTypes == {n \in nodes : heap[n].tag = "datatype"}

Supertypes(n) ==
  {pointers[r].target.node : r \in {q \in references[n] : HasSupertype(q)}}

Fields(n) == Range(heap[n].definition)
IsEnumeration(n) ==
  /\ \A f \in Fields(n) : f.dataType = None
  /\ heap[n].definition # <<>> => heap[n].definition[1].value
IsStructure(n) == \A f \in Fields(n) : f.dataType # None /\ ~f.value

DependsOn(n) ==
  IF IsBuiltin(n) THEN {}
  ELSE IF heap[n].definition = NoDefinition THEN Supertypes(n)
  ELSE {NodeByIdString(f.dataType) : f \in Fields(n)} \ {0}

\* n can be traced to builtin types if the types in traced can
Traceable(traced, n) ==
  \/ IsBuiltin(n)
  \/ /\ heap[n].definition = NoDefinition
     /\ Supertypes(n) # {} /\ Supertypes(n) \subseteq traced
  \/ /\ heap[n].definition # NoDefinition
     /\ \/ IsEnumeration(n)
        \/ IsStructure(n) /\ \A f \in Fields(n) : NodeByIdString(f.dataType) \in traced

\* the least set of types that can, in as many rounds as there are types
Traced ==
  LET after[i \in 0 .. Cardinality(AllDataTypes)] ==
        IF i = 0 THEN {} ELSE LET S == after[i - 1] IN {n \in AllDataTypes : Traceable(S, n)}
  IN after[Cardinality(AllDataTypes)]

\* the types n is defined by, at any depth
Below(n) == Reachable([m \in nodes |-> DependsOn(m)], DependsOn(n))

DataTypesTypeOK ==
  /\ DOMAIN dataTypes \subseteq AllDataTypes
  /\ \A n \in DOMAIN dataTypes : Encodable(n) \in BOOLEAN
  /\ \A i \in DOMAIN calls :
       /\ calls[i].node \in DOMAIN dataTypes /\ calls[i].next \in Nat \ {0}
       /\ calls[i].isEnum \in BOOLEAN /\ calls[i].isSubType \in BOOLEAN

(* Every data type gets a rule, and nothing else does.  It is encodable    *)
(* exactly if all its fields and supertypes can be traced to builtin types *)
(* and it does not mix the two styles of definition, in whatever order the *)
(* types are built, unless its definition is cyclic.  Then it may be       *)
(* deemed encodable for want of a reason to the contrary, but never the    *)
(* other way round.                                                        *)
EncodableExactly ==
  phase = "allocate" /\ pos = 0 =>
    /\ DOMAIN dataTypes = AllDataTypes
    /\ \A n \in AllDataTypes :
         /\ (n \in Traced => dataTypes[n].encodable)
         /\ (dataTypes[n].encodable /\ (\A m \in Below(n) \cup {n} : m \notin Below(m)))
              => n \in Traced
=============================================================================
