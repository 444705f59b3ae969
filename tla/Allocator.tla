------------------------------ MODULE Allocator ------------------------------
(***************************************************************************)
(* What the callers of malloc, calloc, memalign, realloc and free may rely *)
(* on: each call hands out at most one block, takes back at most one and   *)
(* leaves the others alone; a block is where its caller may use it, at the *)
(* alignment that was asked for, and shares no byte with another.  Nothing *)
(* is said of where blocks come from.  Malloc implements this              *)
(* specification.                                                          *)
(***************************************************************************)
EXTENDS Integers

VARIABLE blocks   \* records: address, bytes asked for, alignment asked for

Apart(b, c) == b.addr + b.need <= c.addr \/ c.addr + c.need <= b.addr

Sound(S) ==
    /\ \A b \in S : b.addr % b.align = 0
    /\ \A b, c \in S : b # c => Apart(b, c)

Init == blocks = {}

Allocate == \E b \in blocks' : b \notin blocks /\ blocks' = blocks \cup {b}
Release  == \E b \in blocks : blocks' = blocks \ {b}
Resize   == \E b \in blocks, c \in blocks' : blocks' = (blocks \ {b}) \cup {c}

Next == (Allocate \/ Release \/ Resize) /\ Sound(blocks')

Spec == Init /\ [][Next]_blocks
=============================================================================
