------------------------------ MODULE Registry ------------------------------
(***************************************************************************)
(* What an ipc_manager promises about the things registered with it: each  *)
(* is registered once, under an id nothing else ever had, and leaves only  *)
(* when it may - a task when it has completed, an object when it is at     *)
(* rest, for its memory is freed.                                          *)
(***************************************************************************)
CONSTANTS
  Entries,    (* everything that can be registered                         *)
  Ids         (* the ids, without the 0 that reports a failure             *)

VARIABLES
  registered, (* entries registered now                                    *)
  departed,   (* entries that were                                         *)
  id,         (* the id of each entry that is or was registered            *)
  mayLeave    (* entries allowed to leave                                  *)

registryVars == <<registered, departed, id, mayLeave>>

Known == registered \cup departed

RegistryInit ==
  /\ registered = {} /\ departed = {}
  /\ mayLeave \subseteq Entries
  /\ id \in [Entries -> Ids \cup {0}]

Register(e) ==
  /\ e \notin Known
  /\ registered' = registered \cup {e}
  /\ id'[e] \in Ids \ {id[f] : f \in Known}
  /\ \A f \in Known : id'[f] = id[f]
  /\ UNCHANGED departed

Leave(e) ==
  /\ e \in registered \cap mayLeave
  /\ registered' = registered \ {e}
  /\ departed' = departed \cup {e}
  /\ UNCHANGED id

(* What may leave is for the entries themselves to say.                    *)
Change == UNCHANGED <<registered, departed, id>>

RegistryNext ==
  \/ \E e \in Entries : Register(e) \/ Leave(e)
  \/ Change

RegistrySpec == RegistryInit /\ [][RegistryNext]_registryVars
=============================================================================
