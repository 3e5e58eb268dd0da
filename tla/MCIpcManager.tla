---------------------------- MODULE MCIpcManager ----------------------------
(* IpcManager for TLC: clients are interchangeable, and so are tasks.      *)
EXTENDS IpcManager

Interchangeable == Permutations(Clients) \cup Permutations(Tasks)
=============================================================================
