------------------------- MODULE MCXMLPreprocessor --------------------------
(* XMLPreprocessor for TLC: lists of up to four documents.                 *)
EXTENDS XMLPreprocessor

Node(n, name) == [ns |-> n, name |-> name, hasRefs |-> TRUE]
Ref(n, name, model) == [ns |-> n, name |-> name, means |-> model]

Doc(model, ns, rs) ==
  [sets |-> 1, model |-> model, xmlns |-> <<model>>, prefixOK |-> TRUE,
   uris |-> <<>>, nodes |-> ns, refs |-> rs]

BaseDoc == [Doc(Base, <<Node(0, "root")>>, <<Ref(0, "root", Base)>>) EXCEPT !.xmlns = <<>>]

\* A refers to itself, to B as b and to C as c; B refers to C; the URIs come as
\* xmlns attributes, as Uri elements or, for B, under a name B does not use: then
\* the node is found in B all the same or, if "lost", nowhere
RefsOfA(b, c, swap, style) ==
  LET toB == Ref(b, IF style = "lost" THEN "z" ELSE "b", "B")
      toC == Ref(c, "c", "C")
  IN <<Ref(1, "a", "A"), Ref(0, "root", Base)>> \o (IF swap THEN <<toC, toB>> ELSE <<toB, toC>>)

ModelA(b, c, swap, style) ==
  LET uriB == IF style \in {"guess", "lost"} THEN "otherB" ELSE "B"
      names == [n \in {1, b, c} |-> IF n = 1 THEN "A" ELSE IF n = b THEN uriB ELSE "C"]
      listed == [n \in 1 .. Max({b, c}) |-> IF n \in {1, b, c} THEN names[n] ELSE "unused"]
  IN [Doc("A", <<Node(1, "a"), Node(1, "x")>>, RefsOfA(b, c, swap, style))
        EXCEPT !.xmlns = IF style = "uris" THEN <<>> ELSE names,
               !.uris = IF style = "uris" THEN listed ELSE <<>>]

ModelB(c) == [Doc("B", <<Node(1, "b")>>, <<Ref(1, "b", "B"), Ref(c, "c", "C")>>)
                EXCEPT !.xmlns = [n \in {1, c} |-> IF n = 1 THEN "B" ELSE "C"]]
ModelC == Doc("C", <<Node(1, "c"), Node(1, "y")>>, <<Ref(1, "y", "C")>>)

Linked ==
  {LET models == [m \in {"A", "B", "C"} |->
                    IF m = "A" THEN ModelA(bc[1], bc[2], swap, style)
                    ELSE IF m = "B" THEN ModelB(2) ELSE ModelC]
       listed == [i \in 1 .. 3 |-> models[order[i]]]
   IN IF base = "first" THEN <<BaseDoc>> \o listed
      ELSE IF base = "last" THEN Append(listed, BaseDoc) ELSE listed
   : order \in SetToSeqs({"A", "B", "C"}),
     bc \in {p \in (2 .. 4) \X (2 .. 4) : p[1] # p[2]},
     swap \in BOOLEAN, style \in {"xmlns", "uris", "guess", "lost"},
     base \in {"first", "last", "none"}}

\* documents whose nodes lie in several namespaces
Mixed ==
  {<<Doc("A", [i \in 1 .. 3 |-> Node(a[i], "a")], <<Ref(1, "a", "A")>>),
     Doc("B", [i \in 1 .. 2 |-> Node(b[i], "b")], <<Ref(2, "a", "A"), Ref(0, "root", Base)>>)>>
   : a \in [1 .. 3 -> 0 .. 3], b \in [1 .. 2 -> 0 .. 2]}

\* two models not told apart by their URIs, and a base document among them
Unnamed ==
  {<<[ModelC EXCEPT !.xmlns = x], [ModelB(c) EXCEPT !.xmlns = y, !.uris = u], BaseDoc>>
   : x \in {<<>>, <<"C">>}, y \in {<<>>, <<"B">>, <<"B", "C">>, <<"C", "C">>},
     u \in {<<>>, <<"B">>, <<"B", "C">>}, c \in 2 .. 4}

Malformed ==
  {<<ModelC, d>> : d \in
     {[ModelB(2) EXCEPT !.sets = n] : n \in {-1, 0, 2}} \cup
     {[ModelB(2) EXCEPT !.prefixOK = FALSE],
      [ModelB(2) EXCEPT !.nodes = <<>>],
      [ModelB(2) EXCEPT !.nodes = <<[ns |-> 1, name |-> "b", hasRefs |-> FALSE]>>]}}

MCInputs == Linked \cup Mixed \cup Unnamed \cup Malformed
=============================================================================
