-------------------------- MODULE MCGeneratedClass --------------------------
(* GeneratedClass for TLC: servers s1 and s2, instances a and b on s1 and  *)
(* c on s2, in three programs: one where a has up to MaxSize nodes, one    *)
(* where the ids of three objects may coincide, and one where s1 is        *)
(* started up to twice.                                                    *)
EXTENDS GeneratedClass, TLC

CONSTANTS s1, s2, a, b, c, MaxSize

MCServers == {s1, s2}
MCPlain == {a, b, c}
MCHost == (a :> s1) @@ (b :> s1) @@ (c :> s2)
MCObjectIds == {1, 2}

\* the instances of a program with their sizes; the others do not exist
Only(sizes) == sizes @@ [i \in Instances |-> {}]
Never == [s \in MCServers |-> 0]

MCSetups ==
  {[sizes |-> Only((s1 :> {1}) @@ (a :> 1 .. MaxSize) @@ (b :> {2})), starts |-> Never],
   [sizes |-> [i \in Instances |-> {1}], starts |-> Never],
   [sizes |-> Only((s1 :> {2}) @@ (a :> {2})), starts |-> (s1 :> 2) @@ (s2 :> 0)]}
=============================================================================
