------------------------------- MODULE Values -------------------------------
(***************************************************************************)
(* The values of variables (opcua_namespace.allocateVariables,             *)
(* opcua_node_variable_t.allocateValue and opcua_value_t.parseXML): the    *)
(* XML below Value is read according to the encoding of the data type.     *)
(*                                                                         *)
(* An XML element has a tag, kids (its child elements) and text: "none" if *)
(* it has no children at all, "good" or "bad" as its type likes the text.  *)
(* listOf says that the tag contains ListOf, typeId is the identifier in   *)
(* an ExtensionObject.  The value of a variable is None or such an element.*)
(*                                                                         *)
(* The values of types with several supertypes are left out: their         *)
(* encodings are lists of no documented form.                              *)
(***************************************************************************)
EXTENDS DataTypes

VARIABLE values   \* variable -> the sequence of its values, once allocated

Val(type, alias, content, parts) ==
  [type |-> type, alias |-> alias, content |-> content, parts |-> parts]
Nothing == Val(None, None, "nothing", <<>>)
Crashed == Val(None, None, "crash", <<>>)

-----------------------------------------------------------------------------
(* parseXML of the builtin types: what becomes of the text.                *)

IntegerContent(text) == [none |-> "default", good |-> "value", bad |-> "nothing"][text]
FloatContent(text) == IntegerContent(text)
\* whatever does not contain "false" is true
BooleanContent(text) == IF text = "none" THEN "default" ELSE "value"
\* str() of a text beyond ASCII
StringContent(text) == [none |-> "default", good |-> "value", bad |-> "crash"][text]
\* a name index that is no number
QualifiedNameContent(text) == StringContent(text)
LocalizedTextContent(text) == BooleanContent(text)
\* a malformed Guid is kept as far as it goes
GuidContent(text) == BooleanContent(text)
\* the current time stands in for a date that is not one
DateTimeContent(text) == IF text = "good" THEN "value" ELSE "default"
\* good: the id of a node
NodeIdContent(text) == IF text = "good" THEN "value" ELSE "nothing"
StatusContent(text) == "nothing"
\* the message that this is not implemented names a level that does not exist
ExpandedNodeIdContent(text) == "crash"

Content(type, text) ==
  CASE type \in {"Float", "Double"} -> FloatContent(text)
    [] type = "Boolean" -> BooleanContent(text)
    [] type \in {"String", "ByteString", "XmlElement"} -> StringContent(text)
    [] type = "QualifiedName" -> QualifiedNameContent(text)
    [] type = "LocalizedText" -> LocalizedTextContent(text)
    [] type = "Guid" -> GuidContent(text)
    [] type = "DateTime" -> DateTimeContent(text)
    [] type = "NodeId" -> NodeIdContent(text)
    [] type \in {"StatusCode", "DiagnosticInfo"} -> StatusContent(text)
    [] type = "ExpandedNodeId" -> ExpandedNodeIdContent(text)
    [] OTHER -> IntegerContent(text)

BuiltinValue(type, alias, x) ==
  LET content == Content(type, x.text)
  IN IF content = "crash" THEN Crashed ELSE Val(type, alias, content, <<>>)

-----------------------------------------------------------------------------
(* __parseXMLSingleValue.                                                  *)

RECURSIVE ParseSingleValue(_, _, _, _)

\* The multipart types.  The body must be named like the type of the variable,
\* whatever part of it is parsed; its parts are matched with the encoding in
\* order, and those without an element are left out.
ParseExtensionObject(n, x, enc) ==
  IF x.tag # "ExtensionObject" \/ x.typeId = None \/ NodeByIdString(x.typeId) = 0 \/ x.kids = <<>>
  THEN Nothing
  ELSE LET body == x.kids[1]
           held == body.kids[1]
           parts == [i \in 1 .. Min({Len(enc), Len(held.kids)}) |->
                       ParseSingleValue(n, held.kids[i], None, enc[i].list)]
       IN IF body.kids = <<>> THEN (IF body.text = "none" THEN Crashed ELSE Nothing)
          ELSE IF held.tag # heap[TypeOf(n)].name THEN Nothing
          ELSE IF held.kids = <<>> THEN (IF held.text = "none" THEN Crashed ELSE Nothing)
          ELSE IF Crashed \in Range(parts) THEN Crashed
          ELSE Val("ExtensionObject", held.tag, "value", parts)

\* the first alias is kept, unless the encoding goes on with another one
LastAlias(alias, name, sub) == name                              \* mutant
NextAlias(alias, name, sub) == IF alias = None \/ Len(sub) > 1 THEN name ELSE alias

ParseSingleValue(n, x, alias, enc) ==
  IF Len(enc) = 1 /\ enc[1].text # None
  THEN IF alias = None
       THEN IF x.tag \in Builtin THEN BuiltinValue(enc[1].text, None, x) ELSE Nothing
       ELSE IF x.tag = alias THEN BuiltinValue(enc[1].text, alias, x) ELSE Nothing
  ELSE IF Len(enc) = 1 THEN ParseSingleValue(n, x, alias, enc[1].list)
  ELSE IF Len(enc) = 3 /\ enc[1].text # None
  THEN ParseSingleValue(n, x, NextAlias(alias, enc[1].text, enc[2].list), enc[2].list)
  ELSE ParseExtensionObject(n, x, enc)

\* parseXML: the first element below Value, or Value itself if it has only text
ParseXML(n, x) ==
  LET v == IF x.kids = <<>> THEN x ELSE x.kids[1]
      enc == dataTypes[TypeOf(n)].encoding
  IN IF v.listOf THEN [i \in DOMAIN v.kids |-> ParseSingleValue(n, v.kids[i], None, enc)]
     ELSE <<ParseSingleValue(n, v, None, enc)>>

IsAllocated(n) ==
  /\ heap[n].tag = "variable" /\ attribute[n] # 0
  /\ heap[TypeOf(n)].tag = "datatype" /\ dataTypes[TypeOf(n)].encodable
  /\ heap[n].value # NoValue

\* allocateValue of the next node; the length of the value is asked for even if
\* an empty Value left it None
AllocateValue ==
  /\ phase = "allocate" /\ Following(pos) # 0
  /\ LET n == Following(pos)
         x == heap[n].value
     IN IF ~IsAllocated(n)
        THEN pos' = n /\ UNCHANGED <<input, phase, nodeVars, linkVars, typeVars, values>>
        ELSE IF (x.kids = <<>> /\ x.text = "none") \/ Crashed \in Range(ParseXML(n, x))
        THEN Crash /\ UNCHANGED <<typeVars, values>>
        ELSE /\ values' = (n :> ParseXML(n, x)) @@ values
             /\ pos' = n
             /\ UNCHANGED <<input, phase, nodeVars, linkVars, typeVars>>

EndAllocate ==
  phase = "allocate" /\ Following(pos) = 0 /\ EndLoop /\ UNCHANGED <<typeVars, values>>

ValuesNext == AllocateValue \/ EndAllocate

-----------------------------------------------------------------------------
(* The form of a value as the comments of buildEncoding and                *)
(* __parseXMLSingleValue describe it, read off the definitions.            *)

IsMultipart(n) ==
  heap[n].definition # NoDefinition /\ IsStructure(n) /\ Len(heap[n].definition) > 1

TheSupertype(n) == CHOOSE t \in Supertypes(n) : TRUE

\* x has the form of a value of data type n in the field alias
RECURSIVE HasForm(_, _, _)
HasForm(n, x, alias) ==
  IF IsBuiltin(n) THEN IF alias = None THEN x.tag \in Builtin ELSE x.tag = alias
  ELSE IF heap[n].definition = NoDefinition
  THEN HasForm(TheSupertype(n), x, IF alias = None THEN heap[n].name ELSE alias)
  ELSE IF IsEnumeration(n) THEN IF alias = None THEN x.tag \in Builtin ELSE x.tag = alias
  ELSE LET fields == heap[n].definition
           Field(i, y, al) == HasForm(NodeByIdString(fields[i].dataType), y, al)
       IN IF Len(fields) = 1 THEN Field(1, x, IF alias = None THEN fields[1].name ELSE alias)
          ELSE /\ x.tag = "ExtensionObject" /\ NodeByIdString(x.typeId) # 0
               /\ x.kids # <<>> /\ x.kids[1].kids # <<>>
               /\ LET held == x.kids[1].kids[1]
                  IN /\ held.tag = heap[n].name
                     /\ Len(held.kids) >= Len(fields)
                     /\ \A i \in DOMAIN fields : Field(i, held.kids[i], fields[i].name)

\* how many names an encoding puts before a builtin type
RECURSIVE Aliases(_)
Aliases(n) ==
  IF IsBuiltin(n) THEN 0
  ELSE IF heap[n].definition = NoDefinition THEN 1 + Aliases(TheSupertype(n))
  ELSE IF IsEnumeration(n) THEN 0
  ELSE Max({1 + Aliases(NodeByIdString(f.dataType)) : f \in Fields(n)})

\* what the parser is documented for: at most two names, no structure in a
\* structure or under another name, one supertype
IsPlain(n) ==
  /\ n \in Traced
  /\ \A m \in Below(n) \cup {n} : m \notin Below(m) /\ Cardinality(Supertypes(m)) < 2
  /\ Aliases(n) <= 2
  /\ \A m \in Below(n) : ~IsMultipart(m)

IsComplete(v, n) ==
  /\ v # Nothing
  /\ IsMultipart(n) => Len(v.parts) = Len(heap[n].definition) /\ Nothing \notin Range(v.parts)

(* Every variable with a value and an encodable type gets values, no other *)
(* node does.  A value is read completely exactly if it has the form its   *)
(* data type prescribes: fields in the order of the definition, each       *)
(* tagged with the first name that stands for it.  This holds for types    *)
(* without nested structures and without three names for one builtin type. *)
ValuesHaveForm ==
  phase = "generate" /\ pos = 0 =>
    /\ DOMAIN values = {n \in nodes : IsAllocated(n)}
    /\ \A n \in DOMAIN values : IsPlain(TypeOf(n)) =>
         LET x == heap[n].value.kids
             elements == IF x = <<>> THEN <<heap[n].value>>
                         ELSE IF x[1].listOf THEN x[1].kids ELSE <<x[1]>>
         IN /\ Len(values[n]) = Len(elements)
            /\ \A i \in DOMAIN elements :
                 IsComplete(values[n][i], TypeOf(n)) <=> HasForm(TypeOf(n), elements[i], None)
=============================================================================
