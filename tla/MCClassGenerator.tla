-------------------------- MODULE MCClassGenerator --------------------------
(* ClassGenerator for TLC: four families of inputs, one for each part of   *)
(* the generator.  Every input begins with the standard nodes it needs.    *)
EXTENDS ClassGenerator

Elem(tag, id, name) ==
  [tag |-> tag, id |-> id, name |-> name, code |-> name, aliases |-> <<>>,
   spaced |-> TRUE, before |-> 0, refs |-> <<>>, attr |-> None,
   definition |-> NoDefinition, value |-> NoValue]

Ref(target, type, forward) == [target |-> target, type |-> type, forward |-> forward]

Input(elements) ==
  [elements |-> elements, blacklist |-> <<>>, annotations |-> <<>>, ignore |-> <<>>,
   existing |-> <<>>]

HasSubtypeNode == Elem("referencetype", HasSubtype, "HasSubtype")
HasComponentNode == Elem("referencetype", HasComponent, "HasComponent")
Int32Node == Elem("datatype", "i=6", "Int32")
AliasList == [Elem("aliases", None, None) EXCEPT !.aliases =
  <<[alias |-> "HasComponent", id |-> HasComponent], [alias |-> "HasComponent", id |-> "i=6"],
    [alias |-> "B", id |-> "b"]>>]

MaybeOne(set) == {<<>>} \cup {<<x>> : x \in set}

(* Links: an object type and an object with a reference each, which may be *)
(* symbolic, dangling or of an unknown type; one of them may be defined    *)
(* twice, blacklisted or written without text between the elements.        *)
RefsOfA ==
  {Ref(t, k, d) : t \in {"b", "B", "missing"}, k \in {HasComponent, "HasComponent", "notype"},
                  d \in BOOLEAN}
RefsOfB == {Ref(t, k, d) : t \in {"a", "b"}, k \in {HasComponent, "notype"}, d \in BOOLEAN}

LinkElements(ra, rb, form) ==
  LET a == [Elem("objecttype", "a", "A") EXCEPT !.refs = ra]
      b == [Elem("object", "b", "B") EXCEPT !.refs = rb]
  IN CASE form = "plain" -> <<AliasList, HasComponentNode, a, b>>
       [] form = "raw" -> <<[a EXCEPT !.refs = rb], b, AliasList, HasComponentNode, b, a>>
       [] form = "dense" -> <<AliasList, HasComponentNode, [a EXCEPT !.spaced = FALSE],
                              [b EXCEPT !.spaced = FALSE, !.before = 1]>>
       [] OTHER -> <<AliasList, HasComponentNode, b, a>>

Links ==
  {[Input(LinkElements(ra, rb, form)) EXCEPT !.blacklist =
      IF form = "black" THEN <<[id |-> "b", newline |-> newline]>> ELSE <<>>]
   : ra \in MaybeOne(RefsOfA), rb \in MaybeOne(RefsOfB),
     form \in {"plain", "raw", "dense"}, newline \in {TRUE}}
  \cup
  {[Input(LinkElements(ra, <<Ref("a", HasComponent, TRUE)>>, "black")) EXCEPT !.blacklist =
      <<[id |-> "missing", newline |-> TRUE], [id |-> "b", newline |-> newline]>>]
   : ra \in MaybeOne(RefsOfA), newline \in BOOLEAN}
  \cup
  \* a reference carried twice and one added by inversion that is there already
  {Input(LinkElements(<<Ref("b", None, TRUE), Ref("b", x, d), Ref("b", HasComponent, e)>>,
                      <<Ref("a", HasComponent, d), Ref("a", HasComponent, e)>>, form))
   : x \in {None, HasComponent}, d \in BOOLEAN, e \in BOOLEAN, form \in {"plain", "raw"}}
  \cup
  {Input(<<HasComponentNode, Elem("object", None, "nobody"), Elem("unknown", "u", "U"),
           Elem(tag, "x", "X"), Elem("objecttype", "a", "A")>>)
   : tag \in {"method", "other"}}

(* Data types X and Y, defined by each other and by Int32, or subtypes.    *)
Field(name, dt) == [name |-> name, dataType |-> dt, value |-> FALSE]
Enumerator(name) == [name |-> name, dataType |-> None, value |-> TRUE]

FieldsFrom(other) ==
  {Field("p", "i=6"), Field("p", other), Field("p", "missing"), Enumerator("p")}
Definitions(other) ==
  {NoDefinition} \cup MaybeOne(FieldsFrom(other))
    \cup {<<f, [g EXCEPT !.name = "q"]>> : f \in FieldsFrom(other), g \in FieldsFrom(other)}

\* fields of both styles and of none
OddFields == {[Field("p", "i=6") EXCEPT !.value = TRUE], [Enumerator("p") EXCEPT !.value = FALSE]}
OddDefinitions ==
  {<<f>> : f \in OddFields}
    \cup {<<f, g>> : f \in OddFields, g \in FieldsFrom("y")}
    \cup {<<g, f>> : f \in OddFields, g \in FieldsFrom("y")}

Super(dx, t) == IF dx = NoDefinition THEN MaybeOne({Ref(t, HasSubtype, FALSE)}) ELSE {<<>>}

DataTypeInputs ==
  UNION {
    {Input(<<HasSubtypeNode, Int32Node,
             [Elem("datatype", "x", "X") EXCEPT !.definition = dx, !.refs = sx],
             [Elem("datatype", "y", "Y") EXCEPT !.definition = dy, !.refs = sy]>>)
     : sx \in Super(dx, "y"), sy \in Super(dy, "i=6")}
    : dx \in Definitions("y") \cup OddDefinitions, dy \in Definitions("x")}
  \cup
  {Input(<<HasSubtypeNode, Elem("object", "o", "O"),
           [Elem("datatype", "x", "X") EXCEPT !.definition = <<Field("p", "o")>>]>>)}

(* A variable of each kind of type, with values of each form.              *)
X(tag, text, kids) ==
  [tag |-> tag, text |-> text, kids |-> kids, listOf |-> FALSE, typeId |-> None]

TypedStruct(body) ==
  [X("ExtensionObject", "good", <<X("Body", "good", body)>>) EXCEPT !.typeId = "s"]

Leaves == {X(tag, text, <<>>) : tag \in {"Int32", "D", "E", "p", "F"},
                                text \in {"none", "good", "bad"}}
P(tag) == X(tag, "good", <<>>)
Structs ==
  {TypedStruct(<<X(name, "good", kids)>>) :
     name \in {"S", "T"},
     kids \in {<<>>, <<P("p")>>, <<P("p"), P("q")>>, <<P("q"), P("p")>>,
               <<P("p"), P("q"), P("r")>>}}
  \cup {TypedStruct(<<>>), X("ExtensionObject", "good", <<>>),
        [TypedStruct(<<>>) EXCEPT !.typeId = "missing"],
        [X("ExtensionObject", "good", <<X("Body", "none", <<>>)>>) EXCEPT !.typeId = "s"]}
ListValues == {[X("ListOfInt32", "good", s) EXCEPT !.listOf = TRUE] :
            s \in {<<>>, <<P("Int32"), P("D")>>, <<P("Int32"), P("Int32")>>}}

ValueTypes ==
  <<Int32Node,
    [Elem("datatype", "d", "D") EXCEPT !.refs = <<Ref("i=6", HasSubtype, FALSE)>>],
    [Elem("datatype", "e", "E") EXCEPT !.refs = <<Ref("d", HasSubtype, FALSE)>>],
    [Elem("datatype", "f", "F") EXCEPT !.refs = <<Ref("e", HasSubtype, FALSE)>>],
    [Elem("datatype", "one", "One") EXCEPT !.definition = <<Field("p", "d")>>],
    [Elem("datatype", "enum", "Enum") EXCEPT
       !.definition = <<Enumerator("off"), Enumerator("on")>>],
    [Elem("datatype", "s", "S") EXCEPT !.definition = <<Field("p", "i=6"), Field("q", "d")>>],
    Elem("datatype", "str", "String"), Elem("datatype", "exp", "ExpandedNodeId"),
    Elem("datatype", "bool", "Boolean"), Elem("datatype", "node", "NodeId"),
    Elem("datatype", "time", "DateTime"), Elem("datatype", "status", "StatusCode"),
    Elem("datatype", "guid", "Guid"), Elem("datatype", "text", "LocalizedText"),
    Elem("datatype", "qname", "QualifiedName"), Elem("datatype", "double", "Double"),
    [Elem("datatype", "bad", "Bad") EXCEPT !.definition = <<Field("p", "missing")>>]>>

Variable(type, value) ==
  [Elem("variable", "v", "V") EXCEPT !.attr = type, !.value = value]

\* the types a variable may have, with the elements to try below Value
ValueCases ==
  ({"i=6", "d", "e", "f", "one", "enum"} \X (Leaves \cup ListValues))
    \cup ({"s"} \X (Structs \cup {P("Int32")}))
    \cup ({"str", "exp", "bool", "node", "time", "status", "guid", "text", "qname", "double"}
            \X {X("Int32", text, <<>>) : text \in {"none", "good", "bad"}})
    \cup ({"bad", "v", "missing", None} \X {P("Int32")})

ValueElements(type) ==
  <<HasSubtypeNode>> \o
  SelectSeq(ValueTypes,
    LAMBDA e : \/ e.id = type
               \/ e.id \in {"i=6", "d", "e"} /\ type \in {"d", "e", "f", "one", "s"})

ValueInputs ==
  {Input(Append(ValueElements(c[1]), Variable(c[1], X("Value", "good", <<c[2]>>))))
   : c \in ValueCases}
  \cup {Input(Append(ValueElements("i=6"), Variable("i=6", X("Value", text, <<>>))))
        : text \in {"none", "good"}}

(* Classes A and B: B may be a supertype of A; A has a variable, an object *)
(* and a method, the object a variable of the same or another name.  A     *)
(* variable without a data type may be in both or only in the object.      *)
(* Nodes may be ignored, class names may coincide and files may be there.  *)
Host(kind, name, base) == [kind |-> kind, name |-> name, base |-> base]

MemberElements(sup, inner, code, cycle, dt) ==
  <<HasSubtypeNode, HasComponentNode, Int32Node, Elem("datatype", "thing", "Thing"),
    [Elem("objecttype", "b", "B") EXCEPT !.code = code,
       !.refs = <<Ref("v", HasComponent, TRUE)>> \o
                IF cycle = "types" THEN <<Ref("a", HasSubtype, FALSE)>> ELSE <<>>],
    [Elem("objecttype", "a", "A") EXCEPT
       !.refs = sup \o (IF inner = "w" /\ dt = "untyped" THEN <<>>
                        ELSE <<Ref("w", HasComponent, TRUE)>>)
                    \o <<Ref("o", HasComponent, TRUE), Ref("m", HasComponent, TRUE)>>],
    [Elem("object", "o", "O") EXCEPT
       !.refs = <<Ref(inner, HasComponent, TRUE)>> \o
                <<Ref("b", HasComponent, FALSE)>> \o
                IF cycle = "parts" THEN <<Ref("o", HasComponent, TRUE)>> ELSE <<>>],
    [Elem("variable", "v", "V") EXCEPT !.attr = "i=6"],
    [Elem(IF dt = "untyped" THEN "variabletype" ELSE "variable", "w", "V") EXCEPT !.attr = dt],
    Elem("method", "m", "M")>>

MemberInputs ==
  {[Input(MemberElements(sup, inner, code, cycle, dt)) EXCEPT !.ignore = ignore,
      !.annotations = <<Host("clientClass", "A", None), Host("serverClass", "A", "i=85"),
                        Host("serverClass", "B", None)>>]
   : sup \in {<<>>, <<Ref("b", HasSubtype, FALSE)>>}, inner \in {"v", "w"},
     code \in {"A", "B"}, cycle \in {"none", "types", "parts"},
     dt \in {"i=6", "thing", "untyped"}, ignore \in {<<>>, <<"b">>, <<"o", "missing">>, <<"w">>}}
  \cup
  {[Input(MemberElements(<<>>, "v", code, "none", "i=6")) EXCEPT !.ignore = ignore,
      !.existing = (<<"cpp", "A">> :> Found(cpp)) @@ (<<"hpp", "A">> :> Found(hpp))
                   @@ (<<"cpp", "B">> :> Found(TRUE))]
   : code \in {"A", "B"}, ignore \in {<<>>, <<"b">>}, cpp \in BOOLEAN, hpp \in BOOLEAN}

MCInputs == Links \cup DataTypeInputs \cup ValueInputs \cup MemberInputs

BuiltinTypes ==
  {"Boolean", "Int32", "Double", "String", "LocalizedText", "StatusCode", "DiagnosticInfo",
   "NodeId", "Guid", "DateTime", "QualifiedName", "ExpandedNodeId"}
MappableTypes == {"String", "Double", "Int32", "NodeId", "Boolean", "DateTime", "LocalizedText"}
=============================================================================
