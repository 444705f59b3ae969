----------------------------- MODULE MCHeapList -----------------------------
(***************************************************************************)
(* An instance of HeapList for TLC.                                        *)
(***************************************************************************)
EXTENDS HeapList

(* initial_fa, a chunk that touches it and one that does not. *)
StaticArea == [mem |-> 256, size |-> 192]
MappedChunks == {[mem |-> 448, size |-> 64], [mem |-> 768, size |-> 96]}
=============================================================================
