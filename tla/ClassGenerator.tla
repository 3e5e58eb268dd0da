--------------------------- MODULE ClassGenerator ---------------------------
(***************************************************************************)
(* The class generator (generate_cppClasses.py) from the command line to   *)
(* the files: the steps of Namespace, DataTypes, Values and ClassFiles, in *)
(* the order that phase gives them.                                        *)
(***************************************************************************)
EXTENDS Values, ClassFiles

vars == <<filesVars, values>>

GeneratorInit == FilesInit /\ values = <<>>

GeneratorNext ==
  \/ NamespaceNext /\ UNCHANGED <<typeVars, values, output>>
  \/ DataTypesNext /\ UNCHANGED <<values, output>>
  \/ ValuesNext /\ UNCHANGED output
  \/ ClassesNext /\ UNCHANGED <<typeVars, values>>

\* the end; anything else that cannot go on is a deadlock
Stopped == phase \in {"done", "crashed"} /\ UNCHANGED vars

Spec == GeneratorInit /\ [][GeneratorNext \/ Stopped]_vars
=============================================================================
