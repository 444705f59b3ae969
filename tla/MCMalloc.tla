------------------------------ MODULE MCMalloc ------------------------------
(***************************************************************************)
(* Instances of Malloc for TLC.                                            *)
(***************************************************************************)
EXTENDS Malloc

(* A product that fits, one that wraps to 2, and nothing. *)
SomeCallocs == {<<4, 25>>, <<3, 1366>>, <<0, 5>>}

(* Twelve pages in a row, so that areas reach the unmap threshold of eight. *)
UnmapArena == 3 .. 14
=============================================================================
